----------------------------- MODULE RummySearch -----------------------------
(***************************************************************************)
(* The server as a player (gamesvr/Combination.cpp): the card it throws    *)
(* away after a draw (post_best_card) and the groups it lays for a hand    *)
(* that nobody laid (default_declare).  Both search the groups a hand      *)
(* holds: a first life (a straight without jokers), a second life (another *)
(* straight), then up to two groups of any kind.                           *)
(*                                                                         *)
(* The order in which the code finds groups is kept: it decides where the  *)
(* search stops and which of two equal results is taken.                   *)
(***************************************************************************)
EXTENDS Rummy

CONSTANTS Deals,     \* the hands that are dealt
          Draws,     \* the cards that may be drawn
          Compared   \* bound: the cards of a hand that is drawn to, and that
                     \* is compared with LeastCost (three groups fit in 11)

ASSUME RummySearchAssumption == Compared \in 0 .. 11

VARIABLES
    hand,    \* a sequence of cards
    turn,    \* "wait", "drawn", "posted" or "declared"
    score    \* the score post_best_card or default_declare returned

searchVars == <<table, joker_point, groups, hand, turn, score>>

-----------------------------------------------------------------------------
(* Sequences of cards. *)
Map(f(_), s)     == [i \in DOMAIN s |-> f(s[i])]
FlatMap(f(_), s) == FlattenSeq(Map(f, s))

Pick(cards, Test(_)) ==
    Map(LAMBDA i : cards[i], SelectSeq([i \in DOMAIN cards |-> i], Test))

(* Of the equal cards in a sorted hand, the first of each, and the others. *)
Firsts(cards)  == Pick(cards, LAMBDA i : i = 1 \/ cards[i] # cards[i - 1])
Repeats(cards) == Pick(cards, LAMBDA i : i > 1 /\ cards[i] = cards[i - 1])

(* The choices of k of the positions 1 .. m, in the order of               *)
(* caculate_all_choices: the last position moves last.                     *)
Chosen[m \in Nat, k \in Nat] ==
    IF k = 0 THEN << <<>> >>
    ELSE IF m < k THEN <<>>
    ELSE Chosen[m - 1, k] \o Map(LAMBDA c : Append(c, m), Chosen[m - 1, k - 1])

select_card_combine(cards, n) ==
    Map(LAMBDA c : Map(LAMBDA i : cards[i], c), Chosen[Len(cards), n])

caculate_all_cards_combines(cards) ==
    FlatMap(LAMBDA n : select_card_combine(cards, n), [n \in DOMAIN cards |-> n])

remove_cards(g, cards) == FoldLeft(RemoveFirst, cards, g.m_cards)

(* The groups whose cards are all there. *)
remove_card_group(cards, gs) ==
    SelectSeq(gs, LAMBDA g : Len(remove_cards(g, cards)) = Len(cards) - Len(g.m_cards))

Group(t, cards) == [m_type |-> t, m_cards |-> cards]

-----------------------------------------------------------------------------
(* The groups of a hand; combines: the choices of its jokers. *)

(* The jokers a run of one color needs, at least one; an ace in front of   *)
(* other cards counts 1.                                                   *)
to_straight_fill_joker_num(cards) ==
    LET low  == IF cards[1].point = A /\ Len(cards) > 1 THEN 1 ELSE cards[1].point
        gaps == Last(cards).point - low - (Len(cards) - 1)
    IN  Max({gaps, 3 - Len(cards), 1})

combine_with_joker_card(cards, combines) ==
    Map(LAMBDA js : Group(GROUP_STAIGHT, Sorted(cards \o js)),
        SelectSeq(combines, LAMBDA js : Len(js) >= to_straight_fill_joker_num(cards)))

PureGroups(choices) ==
    Map(LAMBDA c : Group(GROUP_STAIGHT, c), SelectSeq(choices, is_cards_pure_straight))

search_straight_flush_select_n(cards, n, combines) ==
    LET Straightened(c) ==
          PureGroups(<<c>>)
          \o combine_with_joker_card(c, combines)
          \o IF n > 1 /\ Last(c).point = A
               THEN combine_with_joker_card(<<Last(c)>> \o Front(c), combines)
               ELSE <<>>
    IN  FlatMap(Straightened, select_card_combine(cards, n))

search_straight_flush_i(cards, repeats, combines) ==
    FlatMap(LAMBDA n : search_straight_flush_select_n(cards, n, combines),
            [n \in DOMAIN cards |-> n])
    \o PureGroups(caculate_all_cards_combines(repeats))

search_straight_flush(cards, combines) ==
    LET Flush(c) == Sorted(SelectSeq(cards, LAMBDA x : x.color = c /\ ~is_joker(x)))
    IN  FlatMap(LAMBDA c : search_straight_flush_i(Firsts(Flush(c)), Repeats(Flush(c)), combines),
                [c \in 1 .. 4 |-> c])
        \o Map(LAMBDA js : Group(GROUP_STAIGHT, js),
               SelectSeq(combines, LAMBDA js : Len(js) >= 3))

search_three_of_kind_select_n(cards, n, combines) ==
    LET Kinds(c) == (IF n > 2 THEN <<c>> ELSE <<>>) \o Map(LAMBDA js : c \o js, combines)
    IN  Map(LAMBDA c : Group(GROUP_THREE_KIND, c),
            FlatMap(Kinds, select_card_combine(cards, n)))

(* Fault: two cards are not filled with jokers. *)
search_three_of_kind_i_plain(cards, repeats, combines) ==
    FlatMap(LAMBDA n : search_three_of_kind_select_n(cards, n, combines), <<3, 4>>)
    \o FlatMap(LAMBDA n : Map(LAMBDA c : Group(GROUP_THREE_KIND, c),
                              select_card_combine(repeats, n)), <<3, 4>>)

search_three_of_kind_i(cards, repeats, combines) ==
    FlatMap(LAMBDA n : search_three_of_kind_select_n(cards, n, combines), <<2, 3, 4>>)
    \o FlatMap(LAMBDA n : Map(LAMBDA c : Group(GROUP_THREE_KIND, c),
                              select_card_combine(repeats, n)), <<3, 4>>)

search_three_of_kind(cards, combines) ==
    LET Alike(p) == Sorted(SelectSeq(cards, LAMBDA x : x.point = p /\ ~is_joker(x)))
    IN  FlatMap(LAMBDA p : IF Len(Firsts(Alike(p))) < 2 THEN <<>>
                           ELSE search_three_of_kind_i(Firsts(Alike(p)), Repeats(Alike(p)),
                                                       combines),
                [i \in 1 .. A - 1 |-> i + 1])

-----------------------------------------------------------------------------
(* CombinationInfo: lives counts m_is_has_firtlife, m_is_has_secondelife.  *)
(* What is left is the last group, of loose cards.                         *)
CombinationInfo(lives, gs, left) ==
    [lives |-> lives, m_valid_cards |-> left, m_score |-> caculate_card_score(left),
     m_card_group |-> IF left = <<>> THEN gs ELSE Append(gs, Group(GROUP_INVALID, left))]

(* The third and the fourth group, from those the second life leaves. *)
FourthGroup(gs, left, pool) ==
    IF pool = <<>> THEN <<CombinationInfo(2, gs, left)>>
    ELSE Map(LAMBDA g : CombinationInfo(2, Append(gs, g), remove_cards(g, left)), pool)

ThirdGroup(gs, left, pool) ==
    IF pool = <<>> THEN <<CombinationInfo(2, gs, left)>>
    ELSE FlatMap(LAMBDA g : LET rest == remove_cards(g, left) IN
                   FourthGroup(Append(gs, g), rest, remove_card_group(rest, pool)),
                 pool)

(* The choices of some jokers, as m_joker_cards and m_joker_combines hold  *)
(* them from one second life to the next.                                  *)
JokerChoices(jokers) ==
    [m_joker_cards |-> jokers, m_joker_combines |-> caculate_all_cards_combines(jokers)]

(* Fault: the choices are kept while they cover the jokers that are free. *)
Refreshed_more(held, jokers) ==
    IF ToSet(jokers) \subseteq ToSet(held.m_joker_cards) THEN held ELSE JokerChoices(jokers)

(* They are made anew when the jokers that are still free differ. *)
Refreshed(held, jokers) ==
    IF held.m_joker_cards = jokers THEN held ELSE JokerChoices(jokers)

(* What the search visits: a first life without a second, or both lives; a *)
(* first life that takes the whole hand is passed over.                    *)
Life(lives, left, jokers) == [lives |-> lives, left |-> left, jokers |-> jokers]

FirstLife(f, left, jokers, seconds) ==
    IF left = <<>> THEN <<>>
    ELSE IF seconds = <<>> THEN <<Life(<<f>>, left, jokers)>>
    ELSE Map(LAMBDA s : Life(<<f, s>>, remove_cards(s, left), remove_cards(s, jokers)),
             seconds)

(* Nothing is looked for without a second life, or without cards. *)
Searches(v) == Len(v.lives) = 2 /\ v.left # <<>>

SecondLife(v, combines) ==
    IF Len(v.lives) = 1 THEN <<CombinationInfo(1, v.lives, v.left)>>
    ELSE ThirdGroup(v.lives, v.left,
                    IF Searches(v) THEN search_straight_flush(v.left, combines)
                                          \o search_three_of_kind(v.left, combines)
                    ELSE <<>>)

(* The choices held after each visit, the first being those of all jokers. *)
Held(visits, start) ==
    FoldLeft(LAMBDA hs, v : Append(hs, IF Searches(v) THEN Refreshed(Last(hs), v.jokers)
                                       ELSE Last(hs)),
             <<start>>, visits)

Arrangements(cards, start, straights) ==
    LET jokers == start.m_joker_cards
        firsts == SelectSeq(straights, LAMBDA g : is_cards_pure_straight(g.m_cards))
        visits == FlatMap(LAMBDA f : FirstLife(f, remove_cards(f, cards), remove_cards(f, jokers),
                                               remove_card_group(remove_cards(f, cards), straights)),
                          firsts)
        held   == Held(visits, start)
    IN  IF firsts = <<>> THEN <<CombinationInfo(0, <<>>, cards)>>
        ELSE FlatMap(LAMBDA i : SecondLife(visits[i], held[i + 1].m_joker_combines),
                     [i \in DOMAIN visits |-> i])

(* The search ends at the first combination of both lives with no more     *)
(* than stop cards left.                                                   *)
UpTo(combs, stop) ==
    LET ends == {i \in DOMAIN combs : /\ combs[i].lives = 2
                                      /\ Len(combs[i].m_valid_cards) <= stop}
    IN  IF ends = {} THEN combs ELSE SubSeq(combs, 1, Min(ends))

search_all_group(cards, stop) ==
    LET start == JokerChoices(SelectSeq(cards, is_joker))
    IN  UpTo(Arrangements(cards, start, search_straight_flush(cards, start.m_joker_combines)),
             stop)

-----------------------------------------------------------------------------
(* Which card to post. *)

(* sort_combine_func *)
Better(c, d) ==
    \/ c.lives > d.lives
    \/ c.lives = d.lives /\ Len(c.m_valid_cards) < Len(d.m_valid_cards)

(* How much two cards may still do for each other: one point, or a color   *)
(* and neighbours; an ace is also the neighbour of the 2.                  *)
Relation(x, y) ==
    LET gap == IF x.point > y.point THEN x.point - y.point ELSE y.point - x.point IN
    IF gap = 0 THEN 2
    ELSE IF x.color # y.color THEN 0
    ELSE IF gap = 1 \/ {x.point, y.point} = {A, P2} THEN 4
    ELSE IF gap = 2 \/ {x.point, y.point} = {A, P2 + 1} THEN 3
    ELSE 0

caculate_cards_relation(cards, base) ==
    [i \in DOMAIN cards |->
       [card |-> cards[i],
        degree |-> base + MapThenSumSet(LAMBDA j : Relation(cards[i], cards[j]),
                                        DOMAIN cards \ {i})]]

(* The first of the cards with the highest score. *)
NoCard == Card(0, 0)
Dearest(cards) ==
    LET most == Max({get_score(cards[i]) : i \in DOMAIN cards})
    IN  IF cards = <<>> THEN NoCard
        ELSE SelectSeq(cards, LAMBDA x : get_score(x) = most)[1]

post_less_relation_card(cards) ==
    LET plain  == SelectSeq(Sorted(cards), LAMBDA x : ~is_joker(x))
        rated  == caculate_cards_relation(Firsts(plain), 0)
                    \o caculate_cards_relation(Repeats(plain), -1)
        least  == Min({rated[i].degree : i \in DOMAIN rated})
        lonely == SelectSeq(rated, LAMBDA r : r.degree = least)
    IN  IF plain = <<>> THEN Last(Sorted(cards))
        ELSE Dearest(Map(LAMBDA r : r.card, lonely))

(* The last card of a group that is no joker; of jokers around one card    *)
(* the last joker.                                                         *)
GroupPost(g) ==
    LET cards == Sorted(g.m_cards)
        plain == SelectSeq(cards, LAMBDA x : ~is_joker(x))
    IN  IF Len(plain) <= 1 THEN Last(SelectSeq(cards, is_joker)) ELSE Last(plain)

post_valid_group_bigest_card(gs) ==
    Dearest(Map(GroupPost, SelectSeq(gs, LAMBDA g : Len(g.m_cards) >= 4)))

(* The arrangements that sort_combine_func puts first. *)
Best(combs) == {c \in combs : \A d \in combs : ~Better(d, c)}

Post(c) ==
    LET x == post_less_relation_card(c.m_valid_cards)
    IN  IF c.m_valid_cards = <<>>
          THEN [card |-> post_valid_group_bigest_card(c.m_card_group), score |-> 0]
          ELSE [card |-> x, score |-> c.m_score - get_score(x)]

(* Fault: the card is not replaced when a lower score is found. *)
Cheapest_first(posts) == {[p EXCEPT !.score = Min({q.score : q \in posts})] : p \in posts}

(* std::sort leaves open which of two arrangements of one rank comes       *)
(* first: the result is one of these.                                      *)
Cheapest(posts) == {p \in posts : \A q \in posts : p.score <= q.score}

(* Declared as soon as it costs nothing, else the first of the cheapest. *)
Declared(combs) ==
    LET least == Min({combs[i].m_score : i \in DOMAIN combs})
    IN  IF Last(combs).m_score = 0 THEN Last(combs)
        ELSE SelectSeq(combs, LAMBDA c : c.m_score = least)[1]

-----------------------------------------------------------------------------
InitSearch ==
    /\ Init
    /\ hand \in Deals
    /\ turn = "wait" /\ score = 0

draw(x) ==
    /\ turn = "wait" /\ Len(hand) <= Compared
    /\ Len(SelectSeq(hand, LAMBDA y : y = x)) < Copies
    /\ hand' = Append(hand, x) /\ turn' = "drawn"
    /\ UNCHANGED <<table, joker_point, groups, score>>

post_best_card ==
    /\ turn = "drawn"
    /\ \E p \in Cheapest({Post(c) : c \in Best(ToSet(search_all_group(hand, 1)))}) :
         hand' = RemoveFirst(hand, p.card) /\ score' = p.score
    /\ turn' = "posted"
    /\ UNCHANGED <<table, joker_point, groups>>

default_declare ==
    /\ turn \in {"wait", "posted"}
    /\ \E c \in {Declared(search_all_group(hand, 0))} :
         groups' = c.m_card_group /\ score' = c.m_score
    /\ turn' = "declared"
    /\ UNCHANGED <<table, joker_point, hand>>

NextSearch == (\E x \in Draws : draw(x)) \/ post_best_card \/ default_declare

SearchSpec == InitSearch /\ [][NextSearch]_searchVars

-----------------------------------------------------------------------------
(* What the best arrangement of a sorted hand costs, over all sets of its  *)
(* cards, by what the groups are and not by how they are found.  A first   *)
(* life lets another straight count, and both let any group count.         *)
LeastCost(cards) ==
    LET Of(S)   == Pick(cards, LAMBDA i : i \in S)
        sets    == {S \in SUBSET DOMAIN cards : Cardinality(S) >= 3}
        runs    == {S \in sets : Straight(Of(S))}
        pure    == {S \in sets : is_cards_pure_straight(Of(S))}
        kinds   == {S \in sets : ThreeOfKind(Of(S))}
        Apart(Ss, R) == {S \in Ss : S \cap R = {}}
        Points(S) == MapThenSumSet(LAMBDA i : get_score(cards[i]), S)
        lifeless == {{}}
        one      == pure
        two      == UNION {{f \cup s : s \in Apart(runs, f)} : f \in pure}
        three    == UNION {{R \cup g : g \in Apart(runs \cup kinds, R)} : R \in two}
    IN  Points(DOMAIN cards)
          - Max({Points(R) : R \in lifeless \cup one \cup two \cup three})

(* default_declare lays every card of the hand once, and the server's own  *)
(* check of a loser's declaration takes it at the score it was given.  The *)
(* search fills a three of a kind with any number of jokers, and the check *)
(* takes four cards: only the order of the search keeps the larger groups  *)
(* from being taken, in the hands of one card more than their groups that  *)
(* are dealt here.  No joker is laid that the lives have used: the choices *)
(* held from one second life to the next are those of the free jokers.     *)
DeclarationStands ==
    turn = "declared" =>
      /\ Sorted(Laid) = Sorted(hand)
      /\ check_lose_declare(groups) = [ok |-> TRUE, score |-> score]

(* No way of laying the hand costs less than what default_declare found,   *)
(* although it stops early and takes the groups in a fixed order.          *)
DeclarationLeast ==
    turn = "declared" /\ Len(hand) <= Compared =>
      \A cards \in {Sorted(hand)} : score = LeastCost(cards)

(* The card that post_best_card throws away is a card of the hand, and     *)
(* what is left can be laid for the score it said.                         *)
PostKept ==
    turn = "posted" =>
      Len(hand) % 3 = 1 /\ \A cards \in {Sorted(hand)} : LeastCost(cards) <= score
=============================================================================
