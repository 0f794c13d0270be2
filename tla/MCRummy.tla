------------------------------- MODULE MCRummy -------------------------------
(* Short double decks: single groups of all kinds of cards for the checks  *)
(* of a group; three groups of few cards, or two with loose cards, for the *)
(* checks of a declaration.                                                *)
EXTENDS Rummy

SingleGroups == [points |-> {2, 3, 4, 5, 12, 13, 14}, jokers |-> {15, 16},
                 joker_points |-> {3, 13, 14}, types |-> {1},
                 groups |-> 1, least |-> 1, most |-> 6]

Declarations == [points |-> {2, 3, 4}, jokers |-> {}, joker_points |-> {3},
                 types |-> {1, 2}, groups |-> 3, least |-> 3, most |-> 3]

LooseCards == [Declarations EXCEPT !.types = {0, 1, 2}, !.groups = 2]

Kinds == [points |-> {2, 3, 4}, jokers |-> {15}, joker_points |-> {3},
          types |-> {2}, groups |-> 1, least |-> 1, most |-> 4]

MCTables   == {SingleGroups, Declarations, LooseCards}
KindTables == {Kinds}
=============================================================================
