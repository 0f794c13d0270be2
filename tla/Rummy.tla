-------------------------------- MODULE Rummy --------------------------------
(***************************************************************************)
(* The rules of the card game (gamesvr/Combination.cpp, CardDealer.cpp): a *)
(* player lays a hand of a double deck in groups, each said to be a        *)
(* straight, a three of a kind or loose cards, and the server decides      *)
(* whether the declaration stands and what it costs.                       *)
(*                                                                         *)
(* A card is a record; jokers are the two printed ones and every card of   *)
(* the round's joker point.  Both checks sort a group before they look at  *)
(* it, so that one order of laying its cards is enough: highest first.     *)
(***************************************************************************)
EXTENDS Integers, Sequences, FiniteSets, SequencesExt

CONSTANTS Colors,   \* of 1..4
          Tables    \* bounds: the decks and declarations that are looked at

P2     == 2
A      == 14
JOKER1 == 15
JOKER2 == 16

MAX_CARD_COUNT == 14   \* of a hand: 13, and the card that was drawn

GROUP_INVALID    == 0
GROUP_STAIGHT    == 1
GROUP_THREE_KIND == 2

(***************************************************************************)
(* points, jokers: the cards in play;  joker_points: of the rounds;        *)
(* types: the m_type of a group, any number a message may hold;  groups:   *)
(* how many are laid;  least: the cards of a group when the next one is    *)
(* begun;  most: the cards of a group.                                     *)
(***************************************************************************)
Table == [points : SUBSET (P2 .. A), jokers : SUBSET (JOKER1 .. JOKER2),
          joker_points : SUBSET (P2 .. A), types : SUBSET (0 .. 3),
          groups : Nat, least : Nat, most : 0 .. MAX_CARD_COUNT]

ASSUME RummyAssumption == Colors \subseteq 1 .. 4 /\ Tables \subseteq Table

VARIABLES
    table,         \* the bounds of this behaviour
    joker_point,   \* of this round
    groups         \* the declaration: the groups laid so far

vars == <<table, joker_point, groups>>

-----------------------------------------------------------------------------
(* PokerCard: its order, its score, and the cards there are. *)
Card(c, p) == [color |-> c, point |-> p]

(* operator< *)
Below(x, y) == x.point < y.point \/ (x.point = y.point /\ x.color < y.color)

(* The set S, listed in the order that Op puts its elements in. *)
Listed(S, Op(_, _)) ==
    LET rank == [x \in S |-> Cardinality({y \in S : y = x \/ Op(y, x)})]
    IN  [n \in 1 .. Cardinality(S) |-> CHOOSE x \in S : rank[x] = n]

(* std::sort, with equal cards in the order they had. *)
Sorted(cards) ==
    LET Before(i, j) == \/ Below(cards[i], cards[j])
                        \/ cards[i] = cards[j] /\ i < j
        order == Listed(DOMAIN cards, Before)
    IN  [n \in DOMAIN cards |-> cards[order[n]]]

is_joker(x) == x.point = joker_point \/ x.point >= JOKER1

(* The cards that are no jokers: where they are, and in the order they have. *)
PlainAt(cards) == {i \in DOMAIN cards : ~is_joker(cards[i])}
Plain(cards) ==
    LET order == Listed(PlainAt(cards), <)
    IN  [n \in DOMAIN order |-> cards[order[n]]]

get_score(x) ==
    IF x.point \in P2 .. A /\ x.point # joker_point
      THEN IF x.point > 10 THEN 10 ELSE x.point
      ELSE 0

(* init_cards: every card and every joker twice. *)
Deck == {Card(c, p) : c \in Colors, p \in table.points}
          \cup {Card(0, p) : p \in table.jokers}
Copies == 2

caculate_card_score(cards) == FoldLeft(LAMBDA n, x : n + get_score(x), 0, cards)

-----------------------------------------------------------------------------
(* One group; the cards are sorted. *)
is_cards_pure_straight(cards) ==
    LET Alike(i)   == /\ cards[i].color = cards[i - 1].color
                      /\ cards[i].point < JOKER1 /\ cards[i - 1].point < JOKER1
        Follows(i) == Alike(i) /\ cards[i].point = cards[i - 1].point + 1
        Breaks     == {i \in 2 .. Len(cards) : ~Follows(i)}
    IN  /\ Len(cards) >= 3
        /\ Breaks # {} =>
             LET i == Min(Breaks) IN
               Alike(i) /\ cards[i].point = A /\ cards[1].point = P2

(* The jokers a sorted run of cards needs, or NoRun. *)
NoRun == -1
Holes(cards) ==
    IF \E i \in 2 .. Len(cards) : \/ cards[i].color # cards[i - 1].color
                                  \/ cards[i].point = cards[i - 1].point
      THEN NoRun
      ELSE IF cards = <<>> THEN 0
      ELSE Last(cards).point - cards[1].point - (Len(cards) - 1)

(* Fault: the ace is never low. *)
is_cards_straight_high(cards) ==
    LET plain  == Plain(cards)
        jokers == Len(cards) - Len(plain)
    IN  Len(cards) >= 3 /\ Holes(plain) \in 0 .. jokers

is_cards_straight(cards) ==
    LET plain  == Plain(cards)
        jokers == Len(cards) - Len(plain)
        low    == Sorted([i \in DOMAIN plain |->
                            IF plain[i].point = A THEN [plain[i] EXCEPT !.point = 1]
                                                  ELSE plain[i]])
    IN  /\ Len(cards) >= 3
        /\ Holes(plain) # NoRun
        /\ \/ Holes(plain) <= jokers
           \/ joker_point # A /\ Last(plain).point = A /\ Holes(low) \in 0 .. jokers

is_cards_three_of_kind(cards) ==
    /\ Len(cards) \in 3 .. 4
    /\ \A i \in 2 .. Len(cards) :
          is_joker(cards[i]) \/ is_joker(cards[i - 1])
          \/ (cards[i].point = cards[i - 1].point /\ cards[i].color # cards[i - 1].color)
    /\ Len(Plain(cards)) >= 2

-----------------------------------------------------------------------------
(* The whole declaration. *)
OfType(gs, t)       == {i \in DOMAIN gs : gs[i].m_type = t}
Straights(gs)       == OfType(gs, GROUP_STAIGHT)
straight_count(gs)  == Cardinality(Straights(gs))
pure_straight_count(gs) ==
    Cardinality({i \in Straights(gs) : is_cards_pure_straight(Sorted(gs[i].m_cards))})

StraightsStand(gs) == \A i \in Straights(gs) : is_cards_straight(Sorted(gs[i].m_cards))
KindsStand(gs) ==
    \A i \in OfType(gs, GROUP_THREE_KIND) : is_cards_three_of_kind(Sorted(gs[i].m_cards))

(* Fault: the second straight is not asked for. *)
is_groups_declare_one(gs) ==
    /\ OfType(gs, GROUP_INVALID) = {}
    /\ StraightsStand(gs) /\ KindsStand(gs)
    /\ pure_straight_count(gs) >= 1

is_groups_declare(gs) ==
    /\ OfType(gs, GROUP_INVALID) = {}
    /\ StraightsStand(gs) /\ KindsStand(gs)
    /\ pure_straight_count(gs) >= 1
    /\ straight_count(gs) >= 2

Cost(gs, S) == MapThenSumSet(LAMBDA i : caculate_card_score(gs[i].m_cards), S)

(* The result, and the score that was added up when it was known. *)
check_lose_declare(gs) ==
    LET Stands(g) ==
          \/ g.m_type = GROUP_INVALID
          \/ g.m_type = GROUP_STAIGHT /\ pure_straight_count(gs) >= 1
          \/ /\ g.m_type = GROUP_THREE_KIND
             /\ pure_straight_count(gs) >= 1 /\ straight_count(gs) >= 2
             /\ is_cards_three_of_kind(Sorted(g.m_cards))
        Fails == {i \in DOMAIN gs : ~Stands(gs[i])}
        Seen  == {i \in DOMAIN gs : \A j \in Fails : i < j}
    IN  IF StraightsStand(gs)
          THEN [ok |-> Fails = {}, score |-> Cost(gs, Seen \cap OfType(gs, GROUP_INVALID))]
          ELSE [ok |-> FALSE, score |-> 0]

-----------------------------------------------------------------------------
(* The player lays the cards, group by group. *)
Laid == FlattenSeq([i \in DOMAIN groups |-> groups[i].m_cards])

Init ==
    /\ table \in Tables
    /\ joker_point \in table.joker_points
    /\ groups = <<>>

new_group(t, x) ==
    /\ Len(groups) < table.groups
    /\ groups # <<>> => Len(Last(groups).m_cards) >= table.least
    /\ groups' = Append(groups, [m_type |-> t, m_cards |-> <<x>>])

add_card(x) ==
    /\ groups # <<>>
    /\ LET g == Last(groups) IN
         /\ Len(g.m_cards) < table.most
         /\ ~Below(Last(g.m_cards), x)
         /\ groups' = [groups EXCEPT ![Len(groups)].m_cards = Append(@, x)]

lay(x) ==
    /\ Len(SelectSeq(Laid, LAMBDA y : y = x)) < Copies
    /\ add_card(x) \/ \E t \in table.types : new_group(t, x)
    /\ UNCHANGED <<table, joker_point>>

Next == \E x \in Deck : lay(x)

Spec == Init /\ [][Next]_vars

-----------------------------------------------------------------------------
(* What the groups are, without jokers in some order or sums of gaps: the  *)
(* cards can be put in the places of a run of one color, an ace below the  *)
(* 2 or above the king, jokers anywhere.                                   *)
Run(cards, plain) ==
    /\ \A i, j \in plain : cards[i].color = cards[j].color
    /\ \E lo \in 1 .. 15 - Len(cards), ace \in {1, A} :
         LET Place(i) == IF cards[i].point = A THEN ace ELSE cards[i].point
         IN  /\ \A i \in plain : Place(i) \in lo .. lo + Len(cards) - 1
             /\ \A i, j \in plain : Place(i) = Place(j) => i = j

Straight(cards) == Len(cards) >= 3 /\ Run(cards, PlainAt(cards))

PureStraight(cards) ==
    /\ Len(cards) >= 3
    /\ \A i \in DOMAIN cards : cards[i].point < JOKER1
    /\ Run(cards, DOMAIN cards)

ThreeOfKind(cards) ==
    /\ Len(cards) \in 3 .. 4
    /\ Cardinality(PlainAt(cards)) >= 2
    /\ \A i, j \in PlainAt(cards) :
          /\ cards[i].point = cards[j].point
          /\ cards[i].color = cards[j].color => i = j

(* A low ace ends the walk of is_cards_pure_straight, with cards behind it. *)
AceEndsWalk(cards) ==
    \E i \in 2 .. Len(cards) - 1 : cards[i].point = A /\ cards[1].point = P2

(* is_cards_three_of_kind does not look across a joker. *)
JokerBetween(cards) ==
    \E i, k \in PlainAt(cards) : \E j \in DOMAIN cards \ PlainAt(cards) : i < j /\ j < k

StraightRight(cards) == is_cards_straight(cards) <=> Straight(cards)

PureRight(cards) ==
    /\ PureStraight(cards) => is_cards_pure_straight(cards)
    /\ is_cards_pure_straight(cards) => PureStraight(cards) \/ AceEndsWalk(cards)

KindRight(cards) ==
    /\ ThreeOfKind(cards) => is_cards_three_of_kind(cards)
    /\ is_cards_three_of_kind(cards) => ThreeOfKind(cards) \/ JokerBetween(cards)

(* Whatever the jokers and the ace, is_cards_straight accepts the groups   *)
(* that are straights and no others; so does is_cards_pure_straight for    *)
(* the pure ones among them, but that it takes what it finds behind an ace *)
(* that closes a run from the 2; and so does is_cards_three_of_kind, but   *)
(* that it takes other cards than those of one point and different colors  *)
(* when a joker is sorted between them.                                    *)
GroupsRight ==
    \A k \in DOMAIN groups : LET cards == Sorted(groups[k].m_cards) IN
        StraightRight(cards) /\ PureRight(cards) /\ KindRight(cards)

(* The two checks of a declaration agree: it wins if and only if it is two *)
(* groups or more, no card is loose, and check_lose_declare would take it  *)
(* from a loser, at no cost.  (A group of no known type is refused by      *)
(* check_lose_declare and passed over by is_groups_declare.)               *)
DeclareAgrees ==
    (\A i \in DOMAIN groups :
        groups[i].m_type \in {GROUP_INVALID, GROUP_STAIGHT, GROUP_THREE_KIND}) =>
      (is_groups_declare(groups) <=>
          /\ Len(groups) >= 2
          /\ OfType(groups, GROUP_INVALID) = {}
          /\ check_lose_declare(groups) = [ok |-> TRUE, score |-> 0])

(* GROUP_THREE_KIND is "three of a kind" (CardDealer.h:85): the cards that *)
(* are not jokers have one point.                                          *)
KindIsOfOnePoint ==
    \A k \in DOMAIN groups :
        LET cards == Sorted(groups[k].m_cards) IN
          is_cards_three_of_kind(cards) => ThreeOfKind(cards)
=============================================================================
