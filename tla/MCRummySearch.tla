---------------------------- MODULE MCRummySearch ----------------------------
(* Hands of seven and ten cards that may hold two and three groups, and of *)
(* thirteen with four groups and a joker to spare.  What is drawn makes or *)
(* breaks a life, is an ace, or is one more joker.                         *)
EXTENDS RummySearch

S(p) == Card(1, p)
H(p) == Card(2, p)
C(p) == Card(3, p)
D(p) == Card(4, p)
J1   == Card(0, 15)
J2   == Card(0, 16)

MCTables == {[points |-> {}, jokers |-> {}, joker_points |-> {3, 14},
              types |-> {}, groups |-> 0, least |-> 0, most |-> 0]}

MCDeals ==
    {<<S(2), S(4), S(5), S(6), H(13), H(14), J1>>,      \* a wild 3 in the run, or a low ace
     <<S(2), S(14), J1, J1, H(4), S(5), H(5)>>,         \* an ace behind the 2, jokers behind it
     <<S(5), S(6), S(7), S(5), S(6), S(7), H(2)>>,      \* the same run twice
     <<S(5), S(6), S(7), C(4), C(5), H(13), J2>>,       \* one joker, two straights for it
     <<S(5), S(6), S(7), H(9), C(13), J1, J2>>,         \* two jokers, two cards they could fill
     <<S(12), S(13), S(14), S(2), H(2), C(2), J2>>,     \* kings, aces, deuces
     <<S(5), S(6), S(7), H(9), H(10), H(11), C(13), D(13), J1, C(7)>>,
     <<S(2), S(3), S(4), S(6), H(7), H(8), C(8), D(8), J1, H(8)>>,
     <<S(5), S(6), S(7), H(9), H(10), H(11), C(13), D(13), C(2), D(2), J1, J1, J2>>}

MCDraws == {S(8), H(12), S(14), H(3), J2}
=============================================================================
