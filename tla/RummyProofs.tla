------------------------------ MODULE RummyProofs ------------------------------
(***************************************************************************)
(* Proofs about the rules of the card game, for every card, every round    *)
(* joker and every declaration of groups that hold no more than a hand.    *)
(***************************************************************************)
EXTENDS Rummy, FiniteSetTheorems, WellFoundedInduction, TLAPS

-----------------------------------------------------------------------------
(* What the walks need of numbers, in place of an induction: the place     *)
(* where something goes wrong for the first time.                          *)

(* A set of naturals that is not empty has a least element. *)
LEMMA LeastExists ==
  ASSUME NEW S \in SUBSET Nat, S # {}
  PROVE  \E x \in S : \A y \in S : x <= y
<1>1. PICK x \in S : \A y \in S : ~(<<y, x>> \in OpToRel(<, Nat))
  BY WFMin, NatLessThanWellFounded
<1>2. ASSUME NEW y \in S PROVE x <= y
  <2>1. <<y, x>> \notin OpToRel(<, Nat)
    BY <1>1
  <2>2. x \in Nat /\ y \in Nat
    OBVIOUS
  <2>3. ~(y < x)
    BY <2>1, <2>2 DEF OpToRel
  <2> QED
    BY <2>2, <2>3
<1> QED
  BY <1>2

(* Min is the least element. *)
LEMMA MinIsLeast ==
  ASSUME NEW S \in SUBSET Nat, S # {}
  PROVE  Min(S) \in S /\ \A y \in S : Min(S) <= y
BY LeastExists DEF Min

(* Numbers that rise from each to the next are as far apart as their       *)
(* positions are.                                                          *)
LEMMA Rising ==
  ASSUME NEW m \in Nat, NEW f, \A i \in 1 .. m : f[i] \in Int,
         \A i \in 2 .. m : f[i - 1] < f[i],
         NEW i \in 1 .. m, NEW j \in 1 .. m, i <= j
  PROVE  f[j] - f[i] >= j - i
<1> DEFINE Bad == {k \in i .. m : f[k] - f[i] < k - i}
<1> SUFFICES ASSUME Bad # {} PROVE FALSE
  OBVIOUS
<1>1. Bad \in SUBSET Nat
  OBVIOUS
<1>2. PICK k \in Bad : \A l \in Bad : k <= l
  BY <1>1, LeastExists
<1>3. k \in i .. m /\ f[k] - f[i] < k - i /\ f[i] \in Int /\ f[k] \in Int
  OBVIOUS
<1>4. k # i
  BY <1>3
<1>5. k - 1 \in i .. m /\ k \in 2 .. m /\ k - 1 \in 1 .. m
  BY <1>3, <1>4
<1>6. k - 1 \notin Bad
  BY <1>2, <1>5
<1>7. f[k - 1] - f[i] >= (k - 1) - i
  BY <1>5, <1>6
<1>8. f[k - 1] < f[k] /\ f[k - 1] \in Int
  BY <1>5
<1> QED
  BY <1>3, <1>5, <1>7, <1>8

(* What every position shares with the one before it all of them share. *)
LEMMA AllAlike ==
  ASSUME NEW m \in Nat, NEW f, \A i \in 2 .. m : f[i] = f[i - 1],
         NEW i \in 1 .. m
  PROVE  f[i] = f[1]
<1> DEFINE Bad == {k \in 1 .. m : f[k] # f[1]}
<1> SUFFICES ASSUME Bad # {} PROVE FALSE
  OBVIOUS
<1>1. Bad \in SUBSET Nat
  OBVIOUS
<1>2. PICK k \in Bad : \A l \in Bad : k <= l
  BY <1>1, LeastExists
<1>3. k \in 2 .. m /\ k - 1 \in 1 .. m
  OBVIOUS
<1>4. k - 1 \notin Bad
  BY <1>2, <1>3
<1> QED
  BY <1>3, <1>4

-----------------------------------------------------------------------------
(* Listed puts a finite set in order: the elements of S, each at one       *)
(* place, in the order R.                                                  *)
Orders(R, S) ==
    /\ \A x \in S : <<x, x>> \notin R
    /\ \A x, y \in S : x # y => <<x, y>> \in R \/ <<y, x>> \in R
    /\ \A x, y, z \in S : <<x, y>> \in R /\ <<y, z>> \in R => <<x, z>> \in R

Rank(S, R) == [x \in S |-> Cardinality({y \in S : y = x \/ <<y, x>> \in R})]

Lists(order, S, R) ==
    /\ order \in [1 .. Cardinality(S) -> S]
    /\ \A x \in S : \E n \in 1 .. Cardinality(S) : order[n] = x
    /\ \A n, k \in 1 .. Cardinality(S) : n < k => <<order[n], order[k]>> \in R

(* The rank of an element is between 1 and the size of the set, and grows  *)
(* with the order.                                                         *)
LEMMA RankGrows ==
  ASSUME NEW S, IsFiniteSet(S), NEW R, Orders(R, S)
  PROVE  /\ Rank(S, R) \in [S -> 1 .. Cardinality(S)]
         /\ \A x, y \in S : <<x, y>> \in R => Rank(S, R)[x] < Rank(S, R)[y]
<1> DEFINE UpTo(x) == {y \in S : y = x \/ <<y, x>> \in R}
<1>1. ASSUME NEW x \in S
      PROVE  IsFiniteSet(UpTo(x)) /\ Cardinality(UpTo(x)) \in 1 .. Cardinality(S)
  <2>1. UpTo(x) \in SUBSET S /\ x \in UpTo(x)
    OBVIOUS
  <2>2. IsFiniteSet(UpTo(x)) /\ Cardinality(UpTo(x)) <= Cardinality(S)
    BY <2>1, FS_Subset
  <2>3. Cardinality(UpTo(x)) \in Nat /\ Cardinality(S) \in Nat
    BY <2>2, FS_CardinalityType
  <2>4. Cardinality(UpTo(x)) # 0
    BY <2>1, <2>2, FS_EmptySet
  <2> HIDE DEF UpTo
  <2> QED
    BY <2>2, <2>3, <2>4
<1>2. \A x \in S : Rank(S, R)[x] = Cardinality(UpTo(x))
  BY DEF Rank
<1>3. Rank(S, R) \in [S -> 1 .. Cardinality(S)]
  <2> HIDE DEF UpTo
  <2>1. Rank(S, R) = [x \in S |-> Cardinality(UpTo(x))]
    BY DEF Rank, UpTo
  <2> QED
    BY <1>1, <2>1
<1>4. ASSUME NEW x \in S, NEW y \in S, <<x, y>> \in R
      PROVE  Rank(S, R)[x] < Rank(S, R)[y]
  <2>1. UpTo(x) \in SUBSET UpTo(y)
    BY <1>4 DEF Orders
  <2>2. y \in UpTo(y) /\ y \notin UpTo(x)
    BY <1>4 DEF Orders
  <2> HIDE DEF UpTo
  <2>3. UpTo(x) # UpTo(y)
    BY <2>2
  <2>4. IsFiniteSet(UpTo(x)) /\ IsFiniteSet(UpTo(y))
    BY <1>1
  <2>5. Cardinality(UpTo(x)) <= Cardinality(UpTo(y))
    BY <2>1, <2>4, FS_Subset
  <2>6. Cardinality(UpTo(x)) # Cardinality(UpTo(y))
    BY <2>1, <2>3, <2>4, FS_Subset
  <2>7. Cardinality(UpTo(x)) \in Nat /\ Cardinality(UpTo(y)) \in Nat
    BY <2>4, FS_CardinalityType
  <2>8. Cardinality(UpTo(x)) < Cardinality(UpTo(y))
    BY <2>5, <2>6, <2>7
  <2> QED
    BY <1>2, <2>8
<1> QED
  BY <1>3, <1>4

(* Every place has an element of that rank, and only one. *)
LEMMA RankTakesAll ==
  ASSUME NEW S, IsFiniteSet(S), NEW R, Orders(R, S)
  PROVE  \A n \in 1 .. Cardinality(S) : \E x \in S : Rank(S, R)[x] = n
<1> DEFINE N == Cardinality(S)  rank == Rank(S, R)
<1>0. N \in Nat
  BY FS_CardinalityType
<1>1. rank \in [S -> 1 .. N] /\ \A x, y \in S : <<x, y>> \in R => rank[x] < rank[y]
  BY RankGrows
<1> HIDE DEF N, rank
<1>2. ASSUME NEW x \in S, NEW y \in S, rank[x] = rank[y]
      PROVE  x = y
  <2> SUFFICES ASSUME x # y PROVE FALSE
    OBVIOUS
  <2>1. <<x, y>> \in R \/ <<y, x>> \in R
    BY DEF Orders
  <2>2. rank[x] \in Int /\ rank[y] \in Int
    BY <1>0, <1>1
  <2> QED
    BY <1>1, <1>2, <2>1, <2>2
<1>3. rank \in Injection(S, 1 .. N)
  BY <1>1, <1>2 DEF Injection, IsInjective
<1>4. IsFiniteSet(1 .. N) /\ Cardinality(1 .. N) = N
  BY <1>0, FS_Interval
<1>5. rank \in Surjection(S, 1 .. N)
  BY <1>3, <1>4, FS_Injection DEF N
<1>6. \A n \in 1 .. N : \E x \in S : rank[x] = n
  BY <1>5 DEF Surjection
<1> QED
  BY <1>6 DEF N, rank

(* So the places, each with its element, list the set in order. *)
LEMMA ListedLists ==
  ASSUME NEW S, IsFiniteSet(S), NEW R, Orders(R, S)
  PROVE  Lists([n \in 1 .. Cardinality(S) |-> CHOOSE x \in S : Rank(S, R)[x] = n], S, R)
<1> DEFINE N == Cardinality(S)  rank == Rank(S, R)
           order == [n \in 1 .. N |-> CHOOSE x \in S : rank[x] = n]
<1>0. N \in Nat
  BY FS_CardinalityType
<1>1. rank \in [S -> 1 .. N] /\ \A x, y \in S : <<x, y>> \in R => rank[x] < rank[y]
  BY RankGrows
<1>2. \A n \in 1 .. N : \E x \in S : rank[x] = n
  BY RankTakesAll
<1> SUFFICES Lists(order, S, R)
  OBVIOUS
<1> HIDE DEF N, rank
<1>3. \A n \in 1 .. N : order[n] \in S /\ rank[order[n]] = n
  BY <1>2
<1>4. order \in [1 .. N -> S]
  BY <1>2
<1> HIDE DEF order
<1>7. ASSUME NEW x \in S, NEW y \in S, rank[x] < rank[y] PROVE <<x, y>> \in R
  <2>1. rank[x] \in Int /\ rank[y] \in Int
    BY <1>0, <1>1
  <2>2. x # y
    BY <1>7, <2>1
  <2>3. <<y, x>> \notin R
    BY <1>1, <1>7, <2>1
  <2> QED
    BY <2>2, <2>3 DEF Orders
<1>5. ASSUME NEW x \in S PROVE \E n \in 1 .. N : order[n] = x
  <2>1. rank[x] \in 1 .. N
    BY <1>1
  <2>2. order[rank[x]] \in S /\ rank[order[rank[x]]] = rank[x]
    BY <1>3, <2>1
  <2>3. order[rank[x]] = x
    <3> SUFFICES ASSUME order[rank[x]] # x PROVE FALSE
      OBVIOUS
    <3>1. <<order[rank[x]], x>> \in R \/ <<x, order[rank[x]]>> \in R
      BY <2>2 DEF Orders
    <3>2. rank[x] \in Int
      BY <1>0, <2>1
    <3> QED
      BY <1>1, <2>2, <3>1, <3>2
  <2> QED
    BY <2>1, <2>3
<1>6. ASSUME NEW n \in 1 .. N, NEW k \in 1 .. N, n < k
      PROVE  <<order[n], order[k]>> \in R
  <2>1. rank[order[n]] = n /\ rank[order[k]] = k /\ order[n] \in S /\ order[k] \in S
    BY <1>3
  <2> QED
    BY <1>6, <1>7, <2>1
<1> QED
  BY <1>4, <1>5, <1>6 DEF Lists, N

-----------------------------------------------------------------------------
(* Cards, and the two lists that the checks of a group walk over. *)
Cards == [color : 0 .. 4, point : 1 .. JOKER2]

(* No card is below the one in front of it. *)
Ascends(s) == \A k, l \in DOMAIN s : k < l => ~Below(s[l], s[k])

(* The order of the positions that Sorted lists. *)
IsBefore(cards, i, j) ==
    \/ Below(cards[i], cards[j])
    \/ cards[i] = cards[j] /\ i < j

Before(cards) == {p \in (DOMAIN cards) \X (DOMAIN cards) :
                    \E i, j \in DOMAIN cards : p = <<i, j>> /\ IsBefore(cards, i, j)}

(* The positions of a sequence. *)
LEMMA UpToSize ==
  ASSUME NEW n \in Nat
  PROVE  IsFiniteSet(1 .. n) /\ Cardinality(1 .. n) = n
BY FS_Interval

(* One position comes before another when its card is below the other's,   *)
(* or is the same card further left.                                       *)
LEMMA BeforeMeans ==
  ASSUME NEW cards, NEW i \in DOMAIN cards, NEW j \in DOMAIN cards
  PROVE  <<i, j>> \in Before(cards) <=> \/ Below(cards[i], cards[j])
                                        \/ cards[i] = cards[j] /\ i < j
<1> DEFINE D == DOMAIN cards
<1>1. Before(cards) = {p \in D \X D : \E x, y \in D : p = <<x, y>> /\ IsBefore(cards, x, y)}
  BY DEF Before
<1>2. i \in D /\ j \in D
  OBVIOUS
<1> HIDE DEF D
<1>3. <<i, j>> \in D \X D
  BY <1>2
<1>4. ASSUME <<i, j>> \in Before(cards) PROVE IsBefore(cards, i, j)
  <2>1. PICK x, y \in D : <<i, j>> = <<x, y>> /\ IsBefore(cards, x, y)
    BY <1>1, <1>4, Zenon
  <2>2. x = i /\ y = j
    BY <2>1
  <2> QED
    BY <2>1, <2>2
<1>5. ASSUME IsBefore(cards, i, j) PROVE <<i, j>> \in Before(cards)
  BY <1>1, <1>2, <1>3, <1>5, Zenon
<1> QED
  BY <1>4, <1>5 DEF IsBefore, Below

(* Before is a strict order of the positions, any two of them comparable. *)
LEMMA BeforeOrders ==
  ASSUME NEW cards \in Seq(Cards)
  PROVE  Orders(Before(cards), DOMAIN cards)
<1>1. \A i \in DOMAIN cards :
         /\ i \in Int /\ cards[i] \in Cards
         /\ cards[i].point \in Int /\ cards[i].color \in Int
  <2>1. ASSUME NEW x \in Cards PROVE x.point \in Int /\ x.color \in Int
    BY DEF Cards, JOKER2
  <2> QED
    BY <2>1
<1>2. ASSUME NEW x \in Cards, NEW y \in Cards, x.point = y.point, x.color = y.color
      PROVE  x = y
  BY <1>2 DEF Cards
<1>3. \A i, j \in DOMAIN cards :
         <<i, j>> \in Before(cards) <=> \/ Below(cards[i], cards[j])
                                        \/ cards[i] = cards[j] /\ i < j
  BY BeforeMeans
<1>4. ASSUME NEW x \in DOMAIN cards PROVE <<x, x>> \notin Before(cards)
  BY <1>1, <1>3 DEF Below
<1>5. ASSUME NEW x \in DOMAIN cards, NEW y \in DOMAIN cards, x # y
      PROVE  <<x, y>> \in Before(cards) \/ <<y, x>> \in Before(cards)
  <2>1. CASE cards[x] = cards[y]
    BY <1>1, <1>3, <1>5, <2>1
  <2>2. CASE cards[x] # cards[y]
    <3>1. cards[x].point # cards[y].point \/ cards[x].color # cards[y].color
      BY <1>1, <1>2, <2>2
    <3> QED
      BY <1>1, <1>3, <3>1 DEF Below
  <2> QED
    BY <2>1, <2>2
<1>6. ASSUME NEW x \in DOMAIN cards, NEW y \in DOMAIN cards, NEW z \in DOMAIN cards,
             <<x, y>> \in Before(cards), <<y, z>> \in Before(cards)
      PROVE  <<x, z>> \in Before(cards)
  <2>1. Below(cards[x], cards[y]) \/ (cards[x] = cards[y] /\ x < y)
    BY <1>3, <1>6 DEF Below
  <2>2. Below(cards[y], cards[z]) \/ (cards[y] = cards[z] /\ y < z)
    BY <1>3, <1>6 DEF Below
  <2>3. Below(cards[x], cards[z]) \/ (cards[x] = cards[z] /\ x < z)
    BY <1>1, <2>1, <2>2 DEF Below
  <2> QED
    BY <1>3, <2>3
<1> QED
  BY <1>4, <1>5, <1>6 DEF Orders

(* The cards of s are those of cards, each once, in another order. *)
Rearranged(s, cards, p) ==
    /\ p \in [DOMAIN cards -> DOMAIN cards]
    /\ \A i \in DOMAIN cards : \E k \in DOMAIN cards : p[k] = i
    /\ \A k, l \in DOMAIN cards : k # l => p[k] # p[l]
    /\ \A k \in DOMAIN cards : s[k] = cards[p[k]]

(* Sorted sorts: the same cards, from the lowest to the highest. *)
LEMMA SortedSorts ==
  ASSUME NEW cards \in Seq(Cards)
  PROVE  /\ Sorted(cards) \in Seq(Cards) /\ Len(Sorted(cards)) = Len(cards)
         /\ DOMAIN Sorted(cards) = DOMAIN cards
         /\ Ascends(Sorted(cards))
         /\ \E p : Rearranged(Sorted(cards), cards, p)
<1> DEFINE D == DOMAIN cards  R == Before(cards)
           order == [n \in 1 .. Cardinality(D) |-> CHOOSE x \in D : Rank(D, R)[x] = n]
           s == [n \in D |-> cards[order[n]]]
<1>1. IsFiniteSet(D) /\ Cardinality(D) = Len(cards) /\ D = 1 .. Len(cards) /\ Len(cards) \in Nat
  <2>1. Len(cards) \in Nat /\ D = 1 .. Len(cards)
    OBVIOUS
  <2>2. IsFiniteSet(1 .. Len(cards)) /\ Cardinality(1 .. Len(cards)) = Len(cards)
    BY <2>1, UpToSize
  <2> QED
    BY <2>1, <2>2
<1>2. Orders(R, D)
  BY BeforeOrders
<1>3. Lists(order, D, R)
  BY <1>1, <1>2, ListedLists
<1> DEFINE rank == [x \in D |-> Cardinality({y \in D : y = x \/
                                 \/ Below(cards[y], cards[x])
                                 \/ cards[y] = cards[x] /\ y < x})]
<1>a. Sorted(cards) =
        [n \in D |-> cards[[k \in 1 .. Cardinality(D) |->
                              CHOOSE x \in D : rank[x] = k][n]]]
  BY DEF Sorted, Listed
<1>4. \A i, j \in D : <<i, j>> \in R <=> \/ Below(cards[i], cards[j])
                                         \/ cards[i] = cards[j] /\ i < j
  BY BeforeMeans
<1>5. Sorted(cards) = s
  <2>1. Rank(D, R) = rank
    <3>1. \A x \in D : {y \in D : y = x \/ <<y, x>> \in R}
                         = {y \in D : y = x \/
                              \/ Below(cards[y], cards[x])
                              \/ cards[y] = cards[x] /\ y < x}
      BY <1>4
    <3> QED
      BY <3>1 DEF Rank
  <2> QED
    <3> HIDE DEF rank, D, R
    <3> QED
      BY <1>a, <2>1
<1> HIDE DEF D, R, order
<1>6. /\ order \in [D -> D]
      /\ \A x \in D : \E n \in D : order[n] = x
      /\ \A n, k \in D : n < k => <<order[n], order[k]>> \in R
  BY <1>1, <1>3 DEF Lists
<1>7. \A i \in D : cards[i] \in Cards
  BY DEF D
<1>8. s \in [1 .. Len(cards) -> Cards]
  BY <1>1, <1>6, <1>7
<1>9. s \in Seq(Cards) /\ Len(s) = Len(cards) /\ DOMAIN s = D
  BY <1>1, <1>8
<1>10. ASSUME NEW k \in D, NEW l \in D, k < l PROVE ~Below(s[l], s[k])
  <2>1. <<order[k], order[l]>> \in R /\ order[k] \in D /\ order[l] \in D
    BY <1>6, <1>10
  <2>2. <<order[l], order[k]>> \notin R
    BY <1>2, <2>1 DEF Orders
  <2>3. ~Below(cards[order[l]], cards[order[k]])
    BY <1>4, <2>1, <2>2
  <2> QED
    BY <2>3
<1>11. ASSUME NEW k \in D, NEW l \in D, k # l PROVE order[k] # order[l]
  <2>1. k < l \/ l < k
    BY <1>1, <1>11
  <2>2. <<order[k], order[l]>> \in R \/ <<order[l], order[k]>> \in R
    BY <1>6, <2>1
  <2> QED
    BY <1>2, <1>6, <2>2 DEF Orders
<1>12. \A k \in D : s[k] = cards[order[k]]
  OBVIOUS
<1> HIDE DEF s
<1>13. Ascends(s)
  BY <1>9, <1>10 DEF Ascends
<1>14. Rearranged(s, cards, order)
  BY <1>6, <1>11, <1>12 DEF Rearranged, D
<1> QED
  BY <1>5, <1>9, <1>13, <1>14 DEF D

(* Where the cards of Plain are taken from: from left to right, every one. *)
Picks(e, cards) ==
    LET m == Len(Plain(cards)) IN
    /\ e \in [1 .. m -> PlainAt(cards)]
    /\ \A i \in PlainAt(cards) : \E k \in 1 .. m : e[k] = i
    /\ \A k, l \in 1 .. m : k < l => e[k] < e[l]
    /\ \A k \in 1 .. m : Plain(cards)[k] = cards[e[k]]

(* Plain takes the cards that are no jokers, in the order they lie in. *)
LEMMA PlainPicks ==
  ASSUME NEW cards \in Seq(Cards)
  PROVE  /\ Plain(cards) \in Seq(Cards) /\ Len(Plain(cards)) \in 0 .. Len(cards)
         /\ Len(Plain(cards)) = Cardinality(PlainAt(cards))
         /\ \E e : Picks(e, cards)
<1> DEFINE S == PlainAt(cards)  R == {p \in S \X S : \E i, j \in S : p = <<i, j>> /\ i < j}
           order == [n \in 1 .. Cardinality(S) |-> CHOOSE x \in S : Rank(S, R)[x] = n]
           s == [n \in DOMAIN order |-> cards[order[n]]]
<1>1. S \in SUBSET (1 .. Len(cards)) /\ Len(cards) \in Nat
  BY DEF PlainAt
<1>a. Plain(cards) = [n \in 1 .. Cardinality(S) |->
                        cards[CHOOSE x \in S :
                          [z \in S |-> Cardinality({y \in S : y = z \/ y < z})][x] = n]]
  BY DEF Plain, Listed, PlainAt
<1> HIDE DEF S
<1>2. IsFiniteSet(S) /\ Cardinality(S) \in 0 .. Len(cards)
  <2>1. IsFiniteSet(1 .. Len(cards)) /\ Cardinality(1 .. Len(cards)) = Len(cards)
    BY <1>1, UpToSize
  <2>2. IsFiniteSet(S) /\ Cardinality(S) <= Len(cards)
    BY <1>1, <2>1, FS_Subset
  <2>3. Cardinality(S) \in Nat
    BY <2>2, FS_CardinalityType
  <2> QED
    BY <1>1, <2>2, <2>3
<1>3. Orders(R, S)
  <2>1. \A i \in S : i \in Int
    BY <1>1
  <2> QED
    BY <2>1 DEF Orders
<1>b. \A x \in S : {y \in S : y = x \/ <<y, x>> \in R} = {y \in S : y = x \/ y < x}
  OBVIOUS
<1>c. \A n, k \in S : <<n, k>> \in R => n < k
  OBVIOUS
<1> HIDE DEF R
<1>4. Lists(order, S, R)
  BY <1>2, <1>3, ListedLists
<1>5. Plain(cards) = s
  <2>1. Rank(S, R) = [x \in S |-> Cardinality({y \in S : y = x \/ y < x})]
    BY <1>b DEF Rank
  <2> QED
    BY <1>a, <2>1
<1> HIDE DEF order
<1>6. /\ order \in [1 .. Cardinality(S) -> S]
      /\ \A x \in S : \E n \in 1 .. Cardinality(S) : order[n] = x
      /\ \A n, k \in 1 .. Cardinality(S) : n < k => <<order[n], order[k]>> \in R
  BY <1>4 DEF Lists
<1>7. \A n, k \in 1 .. Cardinality(S) : n < k => order[n] < order[k]
  BY <1>6, <1>c
<1>8. \A i \in S : cards[i] \in Cards
  BY DEF S, PlainAt
<1>9. s \in [1 .. Cardinality(S) -> Cards]
  BY <1>6, <1>8
<1>10. s \in Seq(Cards) /\ Len(s) = Cardinality(S)
  BY <1>2, <1>9
<1>11. \A k \in 1 .. Cardinality(S) : s[k] = cards[order[k]]
  BY <1>6
<1> HIDE DEF s
<1>12. Picks(order, cards)
  BY <1>5, <1>6, <1>7, <1>10, <1>11 DEF Picks, S
<1> QED
  BY <1>2, <1>5, <1>10, <1>12 DEF S

-----------------------------------------------------------------------------
(* The straights.  One color, and every point above the one in front.      *)
OneRun(s) ==
    \A k, l \in DOMAIN s : s[k].color = s[l].color /\ (k < l => s[k].point < s[l].point)

(* The range of a card's color and point, the low ace included. *)
LEMMA CardFields ==
  ASSUME NEW x \in Cards
  PROVE  x.color \in 0 .. 4 /\ x.point \in 1 .. 16 /\ x.point \in Int
BY DEF Cards, JOKER2

(* The walk over cards that ascend stops where they are no run, and        *)
(* otherwise counts the points that are left out between the first card    *)
(* and the last.                                                           *)
LEMMA HolesOfRun ==
  ASSUME NEW s \in Seq(Cards), Ascends(s)
  PROVE  /\ OneRun(s) => Holes(s) \in Nat
         /\ OneRun(s) /\ Len(s) = 0 => Holes(s) = 0
         /\ OneRun(s) /\ Len(s) # 0 => Holes(s) = s[Len(s)].point - s[1].point - (Len(s) - 1)
         /\ Holes(s) # NoRun => OneRun(s)
<1> DEFINE m == Len(s)
           Breaks == \E i \in 2 .. m : s[i].color # s[i - 1].color \/ s[i].point = s[i - 1].point
<1>1. m \in Nat /\ DOMAIN s = 1 .. m
  OBVIOUS
<1>2. \A i \in 1 .. m : s[i].color \in 0 .. 4 /\ s[i].point \in Int
  BY <1>1, CardFields
<1>3. Holes(s) = IF Breaks THEN NoRun ELSE IF s = <<>> THEN 0
                 ELSE s[m].point - s[1].point - (m - 1)
  BY DEF Holes, Last
<1>4. s = <<>> <=> m = 0
  OBVIOUS
<1> HIDE DEF m
<1>5. ASSUME OneRun(s) PROVE ~Breaks
  BY <1>1, <1>2, <1>5 DEF OneRun
<1>6. ASSUME ~Breaks PROVE OneRun(s)
  <2>1. \A i \in 2 .. m : s[i].color = s[i - 1].color /\ s[i].point # s[i - 1].point
    BY <1>6
  <2>2. ASSUME NEW i \in 2 .. m PROVE s[i - 1].point < s[i].point
    <3>1. i - 1 \in 1 .. m /\ i \in 1 .. m /\ i - 1 < i
      BY <1>1
    <3>2. ~Below(s[i], s[i - 1])
      BY <1>1, <3>1 DEF Ascends
    <3> QED
      BY <1>2, <2>1, <3>1, <3>2 DEF Below
  <2> DEFINE c == [i \in 1 .. m |-> s[i].color]  p == [i \in 1 .. m |-> s[i].point]
  <2>3. ASSUME NEW i \in 1 .. m PROVE s[i].color = s[1].color
    <3>1. \A k \in 2 .. m : c[k] = c[k - 1]
      BY <1>1, <2>1
    <3>2. c[i] = c[1]
      <4> HIDE DEF c
      <4> QED
        BY <1>1, <3>1, AllAlike
    <3> QED
      BY <1>1, <3>2
  <2>4. ASSUME NEW k \in 1 .. m, NEW l \in 1 .. m, k < l PROVE s[k].point < s[l].point
    <3>0. k <= l
      BY <1>1, <2>4
    <3>1. \A i \in 1 .. m : p[i] \in Int
      BY <1>2
    <3>2. \A i \in 2 .. m : p[i - 1] < p[i]
      BY <1>1, <2>2
    <3>3. p[l] - p[k] >= l - k
      <4> HIDE DEF p
      <4> QED
        BY <1>1, <3>0, <3>1, <3>2, Rising
    <3> QED
      BY <1>1, <1>2, <2>4, <3>3
  <2> QED
    BY <1>1, <2>3, <2>4 DEF OneRun
<1>7. ASSUME OneRun(s), m # 0 PROVE s[m].point - s[1].point - (m - 1) \in Nat
  <2> DEFINE p == [i \in 1 .. m |-> s[i].point]
  <2>1. \A i \in 1 .. m : p[i] \in Int
    BY <1>2
  <2>2. \A i \in 2 .. m : p[i - 1] < p[i]
    BY <1>1, <1>7 DEF OneRun
  <2>3. 1 \in 1 .. m /\ m \in 1 .. m /\ 1 <= m
    BY <1>1, <1>7
  <2>4. p[m] - p[1] >= m - 1
    <3> HIDE DEF p
    <3> QED
      BY <1>1, <2>1, <2>2, <2>3, Rising
  <2> QED
    BY <1>1, <1>2, <2>3, <2>4
<1> HIDE DEF Breaks
<1>8. ASSUME OneRun(s)
      PROVE  /\ Holes(s) \in Nat
             /\ m = 0 => Holes(s) = 0
             /\ m # 0 => Holes(s) = s[m].point - s[1].point - (m - 1)
  BY <1>3, <1>4, <1>5, <1>7, <1>8
<1>9. ASSUME Holes(s) # NoRun PROVE OneRun(s)
  BY <1>3, <1>6, <1>9
<1> QED
  BY <1>8, <1>9 DEF m

(* The places of a run of n cards that starts at lo, an ace at ace. *)
PlaceOf(x, ace) == IF x.point = A THEN ace ELSE x.point
Fits(s, n, lo, ace) == \A k \in DOMAIN s : PlaceOf(s[k], ace) \in lo .. lo + n - 1

(* Cards of one run, of points 2 to A. *)
Runs(s) ==
    /\ s \in Seq(Cards) /\ Ascends(s) /\ OneRun(s)
    /\ \A k \in DOMAIN s : s[k].point \in P2 .. A

(* With the ace high, n places are enough if and only if the other cards   *)
(* fill the holes.                                                         *)
LEMMA FitsHigh ==
  ASSUME NEW s, Runs(s), NEW n \in 3 .. 14, Len(s) <= n
  PROVE  Holes(s) <= n - Len(s) <=> \E lo \in 1 .. 15 - n : Fits(s, n, lo, A)
<1> DEFINE m == Len(s)
<1>1. s \in Seq(Cards) /\ Ascends(s) /\ OneRun(s) /\ m \in Nat /\ DOMAIN s = 1 .. m /\ m <= n
  BY DEF Runs
<1>2. \A k \in 1 .. m : s[k].point \in Int /\ s[k].point >= 2 /\ s[k].point <= 14 /\ PlaceOf(s[k], A) = s[k].point
  BY <1>1 DEF Runs, PlaceOf, P2, A
<1>3. /\ m = 0 => Holes(s) = 0
      /\ m # 0 => Holes(s) = s[m].point - s[1].point - (m - 1)
  BY <1>1, HolesOfRun
<1> HIDE DEF m
<1>4. CASE m = 0
  <2>1. Fits(s, n, 1, A) /\ 1 \in 1 .. 15 - n
    BY <1>1, <1>4 DEF Fits
  <2> QED
    BY <1>3, <1>4, <2>1 DEF m
<1>5. CASE m # 0
  <2>0. 1 \in 1 .. m /\ m \in 1 .. m
    BY <1>1, <1>5
  <2>a. s[1].point \in Int /\ s[1].point >= 2 /\ s[1].point <= 14 /\ s[m].point \in Int /\ s[m].point >= 2 /\ s[m].point <= 14
    BY <1>2, <2>0
  <2>1. ASSUME NEW k \in 1 .. m PROVE s[1].point <= s[k].point /\ s[k].point <= s[m].point
    <3>1. s[k].point \in Int /\ s[k].point >= 2 /\ s[k].point <= 14
      BY <1>2
    <3>2. 1 = k \/ 1 < k
      BY <1>1
    <3>3. k = m \/ k < m
      BY <1>1
    <3>4. 1 < k => s[1].point < s[k].point
      BY <1>1, <2>0 DEF OneRun
    <3>5. k < m => s[k].point < s[m].point
      BY <1>1, <2>0 DEF OneRun
    <3> QED
      BY <2>a, <3>1, <3>2, <3>3, <3>4, <3>5
  <2>2. ASSUME s[m].point - s[1].point <= n - 1
        PROVE  \E lo \in 1 .. 15 - n : Fits(s, n, lo, A)
    <3> DEFINE lo == IF s[1].point <= 15 - n THEN s[1].point ELSE 15 - n
    <3>1. lo \in 1 .. 15 - n
      BY SMTT(30), <2>a
    <3>a. lo \in Int /\ n \in Int
      BY <2>a
    <3>b. lo <= s[1].point /\ (lo = s[1].point \/ lo = 15 - n)
      BY <2>a
    <3> HIDE DEF lo
    <3>2. ASSUME NEW k \in 1 .. m PROVE s[k].point \in lo .. lo + n - 1
      <4>1. s[k].point \in Int /\ s[k].point >= 2 /\ s[k].point <= 14 /\ s[1].point <= s[k].point /\ s[k].point <= s[m].point
        BY <1>2, <2>1
      <4>2. s[k].point >= lo /\ s[k].point <= lo + n - 1
        <5>1. CASE lo = s[1].point
          BY SMTT(30), <2>a, <2>2, <3>a, <4>1, <5>1
        <5>2. CASE lo = 15 - n
          <6>1. s[k].point <= 14 /\ lo + n - 1 = 14 /\ s[k].point >= lo
            BY <2>a, <3>a, <3>b, <4>1, <5>2
          <6> QED
            BY <6>1
        <5> QED
          BY <3>b, <5>1, <5>2
      <4> QED
        BY <3>a, <4>1, <4>2
    <3>3. Fits(s, n, lo, A)
      BY <1>1, <1>2, <3>2 DEF Fits
    <3> QED
      BY <3>1, <3>3
  <2>3. ASSUME NEW lo \in 1 .. 15 - n, Fits(s, n, lo, A)
        PROVE  s[m].point - s[1].point <= n - 1
    <3>1. s[1].point \in lo .. lo + n - 1 /\ s[m].point \in lo .. lo + n - 1
      BY <1>1, <1>2, <2>0, <2>3 DEF Fits
    <3>2. lo \in Int /\ n \in Int /\ lo <= s[1].point /\ s[m].point <= lo + n - 1
      BY <3>1
    <3> QED
      BY SMTT(30), <2>a, <3>2
  <2>4. Holes(s) <= n - m <=> s[m].point - s[1].point <= n - 1
    <3>1. m \in Int /\ n \in Int /\ Holes(s) = s[m].point - s[1].point - (m - 1)
      BY <1>1, <1>3, <1>5
    <3> QED
      BY <2>a, <3>1
  <2> QED
    BY <2>2, <2>3, <2>4 DEF m
<1> QED
  BY <1>4, <1>5

(* The second list of is_cards_straight, before it is sorted. *)
AcesLow(s) ==
    [i \in DOMAIN s |-> IF s[i].point = A THEN [s[i] EXCEPT !.point = 1] ELSE s[i]]

(* With the aces low only the point of an ace differs. *)
LEMMA AcesLowFields ==
  ASSUME NEW s, Runs(s)
  PROVE  /\ AcesLow(s) \in Seq(Cards) /\ Len(AcesLow(s)) = Len(s)
         /\ \A i \in 1 .. Len(s) : /\ AcesLow(s)[i].color = s[i].color
                                   /\ AcesLow(s)[i].point = PlaceOf(s[i], 1)
<1> DEFINE low == AcesLow(s)
<1>1. s \in Seq(Cards) /\ DOMAIN s = 1 .. Len(s) /\ Len(s) \in Nat
  BY DEF Runs
<1>2. ASSUME NEW x \in Cards
      PROVE  /\ [x EXCEPT !.point = 1] \in Cards
             /\ [x EXCEPT !.point = 1].color = x.color
             /\ [x EXCEPT !.point = 1].point = 1
  BY DEF Cards, JOKER2
<1>3. ASSUME NEW i \in 1 .. Len(s)
      PROVE  /\ low[i] = IF s[i].point = A THEN [s[i] EXCEPT !.point = 1] ELSE s[i]
             /\ low[i] \in Cards
             /\ low[i].color = s[i].color /\ low[i].point = PlaceOf(s[i], 1)
  <2>1. s[i] \in Cards
    BY <1>1
  <2>2. low[i] = IF s[i].point = A THEN [s[i] EXCEPT !.point = 1] ELSE s[i]
    BY <1>1 DEF AcesLow
  <2> HIDE DEF low
  <2>3. CASE s[i].point = A
    <3>1. low[i] = [s[i] EXCEPT !.point = 1] /\ PlaceOf(s[i], 1) = 1
      BY <2>2, <2>3 DEF PlaceOf
    <3> QED
      BY <1>2, <2>1, <2>2, <3>1
  <2>4. CASE s[i].point # A
    BY <2>1, <2>2, <2>4 DEF PlaceOf
  <2> QED
    BY <2>3, <2>4
<1>4. low \in [1 .. Len(s) -> Cards]
  <2>1. low = [i \in 1 .. Len(s) |-> low[i]]
    BY <1>1 DEF AcesLow
  <2> HIDE DEF low
  <2> QED
    BY <1>3, <2>1
<1> HIDE DEF low
<1>5. low \in Seq(Cards) /\ Len(low) = Len(s)
  BY <1>1, <1>4
<1> QED
  BY <1>3, <1>5 DEF low

(* With the last card an ace that is low, n places are enough if and only  *)
(* if the second walk finds that the other cards fill the holes.           *)
LEMMA FitsLow ==
  ASSUME NEW s, Runs(s), NEW n \in 3 .. 14, Len(s) <= n,
         Len(s) # 0, s[Len(s)].point = A
  PROVE  Holes(Sorted(AcesLow(s))) \in 0 .. n - Len(s)
           <=> \E lo \in 1 .. 15 - n : Fits(s, n, lo, 1)
<1> DEFINE m == Len(s)  low == AcesLow(s)  L == Sorted(low)
<1>1. s \in Seq(Cards) /\ OneRun(s) /\ m \in Nat /\ DOMAIN s = 1 .. m /\ m <= n /\ m \in 1 .. m
  BY DEF Runs
<1>2. \A k \in 1 .. m : s[k].point \in Int /\ s[k].point >= 2 /\ s[k].point <= 14
  BY SMTT(30), <1>1 DEF Runs, P2, A
<1>3. /\ low \in Seq(Cards) /\ Len(low) = m
      /\ \A i \in 1 .. m : low[i].color = s[i].color /\ low[i].point = PlaceOf(s[i], 1)
  BY AcesLowFields
<1>4. /\ L \in Seq(Cards) /\ Len(L) = m /\ Ascends(L)
      /\ \E p : Rearranged(L, low, p)
  BY <1>3, SortedSorts
<1>0. s[m].point = A
  OBVIOUS
<1> SUFFICES Holes(L) \in 0 .. n - m <=> \E lo \in 1 .. 15 - n : Fits(s, n, lo, 1)
  OBVIOUS
<1> HIDE DEF m, low, L
<1>5. DOMAIN low = 1 .. m /\ DOMAIN L = 1 .. m
  BY <1>3, <1>4
<1>6. PICK p : Rearranged(L, low, p)
  BY <1>4
<1>7. /\ p \in [1 .. m -> 1 .. m]
      /\ \A i \in 1 .. m : \E k \in 1 .. m : p[k] = i
      /\ \A k, l \in 1 .. m : k # l => p[k] # p[l]
      /\ \A k \in 1 .. m : L[k] = low[p[k]]
  BY <1>5, <1>6 DEF Rearranged
<1>8. \A i \in 1 .. m : PlaceOf(s[i], 1) \in Int /\ PlaceOf(s[i], 1) >= 1 /\ PlaceOf(s[i], 1) <= 13
  BY <1>2 DEF PlaceOf, A
<1>9. ASSUME NEW i \in 1 .. m, NEW j \in 1 .. m, i # j
      PROVE  PlaceOf(s[i], 1) # PlaceOf(s[j], 1)
  <2>1. s[i].point # s[j].point
    <3>1. i < j \/ j < i
      BY <1>1, <1>9
    <3> QED
      BY <1>1, <1>2, <3>1 DEF OneRun
  <2>2. s[i].point \in Int /\ s[i].point >= 2 /\ s[i].point <= 14 /\ s[j].point \in Int /\ s[j].point >= 2 /\ s[j].point <= 14
    BY <1>2
  <2> QED
    <3>1. CASE s[i].point = 14
      <4>1. PlaceOf(s[i], 1) = 1 /\ PlaceOf(s[j], 1) = s[j].point
        BY <2>1, <3>1 DEF PlaceOf, A
      <4> QED
        BY <2>2, <4>1
    <3>2. CASE s[j].point = 14
      <4>1. PlaceOf(s[j], 1) = 1 /\ PlaceOf(s[i], 1) = s[i].point
        BY <2>1, <3>2 DEF PlaceOf, A
      <4> QED
        BY <2>2, <4>1
    <3>3. CASE s[i].point # 14 /\ s[j].point # 14
      BY <2>1, <3>3 DEF PlaceOf, A
    <3> QED
      BY <3>1, <3>2, <3>3
<1>10. \A k \in 1 .. m : L[k].point = PlaceOf(s[p[k]], 1) /\ L[k].color = s[p[k]].color
  BY <1>3, <1>7
<1>11. ASSUME NEW k \in 1 .. m PROVE L[k].point \in Int /\ L[k].point >= 1 /\ L[k].point <= 13
  <2>1. p[k] \in 1 .. m /\ L[k].point = PlaceOf(s[p[k]], 1)
    BY <1>7, <1>10
  <2> QED
    BY <1>8, <2>1
<1>12. ASSUME NEW k \in 1 .. m, NEW l \in 1 .. m, k < l PROVE L[k].point < L[l].point
  <2>1. p[k] # p[l] /\ p[k] \in 1 .. m /\ p[l] \in 1 .. m
    BY <1>1, <1>7, <1>12
  <2>2. L[k].point # L[l].point
    BY SMTT(30), <1>9, <1>10, <2>1
  <2>3. ~Below(L[l], L[k])
    BY <1>4, <1>5, <1>12 DEF Ascends
  <2>4. L[k].point \in Int /\ L[k].point >= 1 /\ L[k].point <= 13 /\ L[l].point \in Int /\ L[l].point >= 1 /\ L[l].point <= 13
    BY <1>11
  <2> QED
    BY <2>2, <2>3, <2>4 DEF Below
<1>13. ASSUME NEW k \in 1 .. m, NEW l \in 1 .. m PROVE L[k].color = L[l].color
  <2>1. p[k] \in 1 .. m /\ p[l] \in 1 .. m
    BY <1>7
  <2>2. s[p[k]].color = s[p[l]].color
    BY <1>1, <2>1 DEF OneRun
  <2> QED
    BY <1>10, <2>2
<1>14. OneRun(L)
  BY <1>5, <1>12, <1>13 DEF OneRun
<1>15. Holes(L) \in Nat /\ Holes(L) = L[m].point - L[1].point - (m - 1)
  BY <1>1, <1>4, <1>14, HolesOfRun
<1>16. L[1].point = 1
  <2>1. PICK k \in 1 .. m : p[k] = m
    BY <1>1, <1>7
  <2>2. L[k].point = 1
    BY <1>0, <1>10, <2>1 DEF PlaceOf
  <2>3. 1 \in 1 .. m /\ (1 = k \/ 1 < k)
    BY <1>1
  <2> QED
    BY <1>11, <1>12, <2>2, <2>3
<1>17. Holes(L) \in 0 .. n - m <=> L[m].point <= n
  <2>1. L[m].point \in Int /\ L[m].point >= 1 /\ L[m].point <= 13
    BY <1>1, <1>11
  <2>2. Holes(L) \in Int /\ Holes(L) >= 0
    BY <1>15
  <2>3. n \in Int /\ m \in Int
    BY <1>1
  <2>4. Holes(L) = L[m].point - m
    BY <1>15, <1>16, <2>1, <2>3
  <2> HIDE DEF L, m
  <2> QED
    BY SMTT(30), <2>1, <2>2, <2>3, <2>4
<1>18. ASSUME L[m].point <= n PROVE \E lo \in 1 .. 15 - n : Fits(s, n, lo, 1)
  <2>1. ASSUME NEW i \in 1 .. m PROVE PlaceOf(s[i], 1) \in 1 .. 1 + n - 1
    <3>1. PICK k \in 1 .. m : p[k] = i
      BY <1>7
    <3>2. L[k].point = PlaceOf(s[i], 1)
      BY <1>10, <3>1
    <3>3. L[k].point \in Int /\ L[k].point >= 1 /\ L[k].point <= 13 /\ L[m].point \in Int /\ L[m].point >= 1 /\ L[m].point <= 13
      BY <1>1, <1>11
    <3>4. k = m \/ k < m
      BY <1>1
    <3>5. k < m => L[k].point < L[m].point
      BY <1>1, <1>12
    <3> QED
      BY <1>18, <3>2, <3>3, <3>4, <3>5
  <2>2. 1 \in 1 .. 15 - n /\ Fits(s, n, 1, 1)
    BY <1>1, <2>1 DEF Fits
  <2> QED
    BY <2>2
<1>19. ASSUME NEW lo \in 1 .. 15 - n, Fits(s, n, lo, 1) PROVE L[m].point <= n
  <2>1. \A i \in 1 .. m : PlaceOf(s[i], 1) \in lo .. lo + n - 1
    BY <1>1, <1>19 DEF Fits
  <2>2. PlaceOf(s[m], 1) = 1
    BY <1>0 DEF PlaceOf
  <2>3. lo = 1
    BY <1>1, <2>1, <2>2
  <2>4. L[m].point \in lo .. lo + n - 1
    <3>1. p[m] \in 1 .. m /\ L[m].point = PlaceOf(s[p[m]], 1)
      BY <1>1, <1>7, <1>10
    <3> QED
      BY <2>1, <3>1
  <2> QED
    BY <2>3, <2>4
<1> QED
  BY <1>17, <1>18, <1>19

(* A group that was sorted: cards of the deck, no more than a hand. *)
Group(cards) ==
    /\ cards \in Seq(Cards) /\ Len(cards) <= MAX_CARD_COUNT /\ Ascends(cards)
    /\ \A i \in DOMAIN cards : cards[i].point >= P2

(* The list of the cards that are no jokers ascends as the group does, and *)
(* its cards are the 2 to the ace.                                         *)
LEMMA PlainAscends ==
  ASSUME NEW cards, Group(cards), joker_point \in P2 .. A
  PROVE  /\ Plain(cards) \in Seq(Cards) /\ Ascends(Plain(cards))
         /\ Len(Plain(cards)) \in 0 .. Len(cards)
         /\ \A k \in DOMAIN Plain(cards) : /\ Plain(cards)[k].point \in P2 .. A
                                           /\ Plain(cards)[k].point # joker_point
<1> DEFINE s == Plain(cards)  m == Len(s)
<1>1. cards \in Seq(Cards) /\ Ascends(cards) /\ \A i \in DOMAIN cards : cards[i].point >= P2
  BY DEF Group
<1>2. s \in Seq(Cards) /\ m \in 0 .. Len(cards) /\ \E e : Picks(e, cards)
  BY <1>1, PlainPicks
<1>3. PICK e : Picks(e, cards)
  BY <1>2
<1>4. /\ e \in [1 .. m -> PlainAt(cards)]
      /\ \A k, l \in 1 .. m : k < l => e[k] < e[l]
      /\ \A k \in 1 .. m : s[k] = cards[e[k]]
  BY <1>3 DEF Picks
<1> HIDE DEF s, m
<1>5. DOMAIN s = 1 .. m
  BY <1>2 DEF m
<1>6. ASSUME NEW k \in 1 .. m, NEW l \in 1 .. m, k < l PROVE ~Below(s[l], s[k])
  <2>1. e[k] \in DOMAIN cards /\ e[l] \in DOMAIN cards /\ e[k] < e[l]
    BY <1>4, <1>6 DEF PlainAt
  <2>2. ~Below(cards[e[l]], cards[e[k]])
    BY <1>1, <2>1 DEF Ascends
  <2> QED
    BY <1>4, <2>2
<1>7. ASSUME NEW k \in 1 .. m PROVE s[k].point \in P2 .. A /\ s[k].point # joker_point
  <2>1. e[k] \in PlainAt(cards) /\ s[k] = cards[e[k]]
    BY <1>4
  <2>2. e[k] \in DOMAIN cards /\ ~is_joker(s[k]) /\ s[k] \in Cards
    BY <1>1, <2>1 DEF PlainAt
  <2>3. s[k].point \in Int /\ s[k].point >= P2
    BY <1>1, <2>1, <2>2, CardFields
  <2> QED
    BY <2>2, <2>3 DEF is_joker, JOKER1, P2, A
<1> QED
  BY <1>2, <1>5, <1>6, <1>7 DEF Ascends, s, m

(* The run that the rules ask for, told of the list of the cards that are  *)
(* no jokers.                                                              *)
LEMMA RunOfPlain ==
  ASSUME NEW cards, Group(cards), joker_point \in P2 .. A
  PROVE  Run(cards, PlainAt(cards)) <=>
           /\ OneRun(Plain(cards))
           /\ \E lo \in 1 .. 15 - Len(cards), ace \in {1, A} :
                 Fits(Plain(cards), Len(cards), lo, ace)
<1> DEFINE s == Plain(cards)  m == Len(s)  S == PlainAt(cards)  n == Len(cards)
<1>1. cards \in Seq(Cards)
  BY DEF Group
<1>2. s \in Seq(Cards) /\ Ascends(s) /\ m \in Nat /\ DOMAIN s = 1 .. m
  BY PlainAscends
<1>3. \A k \in 1 .. m : s[k].point \in Int /\ s[k].point >= 2 /\ s[k].point <= 14
  <2>1. \A k \in 1 .. m : s[k].point \in P2 .. A
    BY <1>2, PlainAscends
  <2> HIDE DEF s, m
  <2> QED
    BY <2>1 DEF P2, A
<1>4. PICK e : Picks(e, cards)
  BY <1>1, PlainPicks
<1>5. /\ e \in [1 .. m -> S]
      /\ \A i \in S : \E k \in 1 .. m : e[k] = i
      /\ \A k, l \in 1 .. m : k < l => e[k] < e[l]
      /\ \A k \in 1 .. m : s[k] = cards[e[k]]
  BY <1>4 DEF Picks
<1>6. S \in SUBSET Nat
  BY <1>1 DEF PlainAt
<1>7. Run(cards, S) <=>
        /\ \A i, j \in S : cards[i].color = cards[j].color
        /\ \E lo \in 1 .. 15 - n, ace \in {1, A} :
              /\ \A i \in S : PlaceOf(cards[i], ace) \in lo .. lo + n - 1
              /\ \A i, j \in S : PlaceOf(cards[i], ace) = PlaceOf(cards[j], ace) => i = j
  BY DEF Run, PlaceOf
<1> SUFFICES Run(cards, S) <=> /\ OneRun(s)
                               /\ \E lo \in 1 .. 15 - n, ace \in {1, A} : Fits(s, n, lo, ace)
  OBVIOUS
<1> HIDE DEF s, m, S, n
<1>8. ASSUME NEW i \in S PROVE \E k \in 1 .. m : e[k] = i /\ cards[i] = s[k]
  BY <1>5
<1>9. ASSUME NEW k \in 1 .. m, NEW l \in 1 .. m, k # l PROVE e[k] # e[l]
  <2>1. k < l \/ l < k
    BY <1>2, <1>9
  <2>2. e[k] \in Nat /\ e[l] \in Nat
    BY <1>5, <1>6
  <2> QED
    BY <1>5, <2>1, <2>2
<1>10. ASSUME Run(cards, S)
       PROVE  /\ OneRun(s)
              /\ \E lo \in 1 .. 15 - n, ace \in {1, A} : Fits(s, n, lo, ace)
  <2>1. PICK lo \in 1 .. 15 - n, ace \in {1, A} :
           /\ \A i \in S : PlaceOf(cards[i], ace) \in lo .. lo + n - 1
           /\ \A i, j \in S : PlaceOf(cards[i], ace) = PlaceOf(cards[j], ace) => i = j
    BY <1>7, <1>10
  <2>2. \A k \in 1 .. m : PlaceOf(s[k], ace) \in lo .. lo + n - 1
    BY <1>5, <2>1
  <2>3. Fits(s, n, lo, ace)
    BY <1>2, <2>2 DEF Fits
  <2>4. \A k, l \in 1 .. m : s[k].color = s[l].color
    BY <1>5, <1>7, <1>10
  <2>5. ASSUME NEW k \in 1 .. m, NEW l \in 1 .. m, k < l PROVE s[k].point < s[l].point
    <3>1. e[k] # e[l] /\ e[k] \in S /\ e[l] \in S
      BY <1>2, <1>5, <1>9, <2>5
    <3>2. PlaceOf(s[k], ace) # PlaceOf(s[l], ace)
      BY <1>5, <2>1, <3>1
    <3>3. s[k].point # s[l].point
      BY <3>2 DEF PlaceOf
    <3>4. ~Below(s[l], s[k])
      BY <1>2, <2>5 DEF Ascends
    <3>5. /\ s[k].point \in Int /\ s[l].point \in Int
          /\ ~(s[l].point < s[k].point)
      BY <1>3, <3>4 DEF Below
    <3> QED
      BY <3>3, <3>5
  <2>6. OneRun(s)
    BY <1>2, <2>4, <2>5 DEF OneRun
  <2> QED
    BY <2>3, <2>6
<1>11. ASSUME OneRun(s), NEW lo \in 1 .. 15 - n, NEW ace \in {1, A}, Fits(s, n, lo, ace)
       PROVE  Run(cards, S)
  <2>1. ASSUME NEW i \in S, NEW j \in S PROVE cards[i].color = cards[j].color
    <3>1. PICK k \in 1 .. m : e[k] = i /\ cards[i] = s[k]
      BY <1>8
    <3>2. PICK l \in 1 .. m : e[l] = j /\ cards[j] = s[l]
      BY <1>8
    <3>3. s[k].color = s[l].color
      BY <1>2, <1>11 DEF OneRun
    <3> QED
      BY <3>1, <3>2, <3>3
  <2>2. ASSUME NEW i \in S PROVE PlaceOf(cards[i], ace) \in lo .. lo + n - 1
    <3>1. PICK k \in 1 .. m : e[k] = i /\ cards[i] = s[k]
      BY <1>8
    <3>2. PlaceOf(s[k], ace) \in lo .. lo + n - 1
      BY <1>2, <1>11 DEF Fits
    <3> QED
      BY <3>1, <3>2
  <2>3. ASSUME NEW i \in S, NEW j \in S, PlaceOf(cards[i], ace) = PlaceOf(cards[j], ace)
        PROVE  i = j
    <3>1. PICK k \in 1 .. m : e[k] = i /\ cards[i] = s[k]
      BY <1>8
    <3>2. PICK l \in 1 .. m : e[l] = j /\ cards[j] = s[l]
      BY <1>8
    <3>3. PlaceOf(s[k], ace) = PlaceOf(s[l], ace)
      BY <2>3, <3>1, <3>2
    <3>4. ace = 1 \/ ace = 14
      BY DEF A
    <3>5. /\ s[k].point \in Int /\ s[k].point >= 2 /\ s[k].point <= 14
          /\ s[l].point \in Int /\ s[l].point >= 2 /\ s[l].point <= 14
      BY <1>3
    <3>6. s[k].point = s[l].point
      <4>1. s[k].point = 14 => PlaceOf(s[k], ace) = ace
        BY DEF PlaceOf, A
      <4>2. s[l].point = 14 => PlaceOf(s[l], ace) = ace
        BY DEF PlaceOf, A
      <4>3. s[k].point # 14 => PlaceOf(s[k], ace) = s[k].point
        BY DEF PlaceOf, A
      <4>4. s[l].point # 14 => PlaceOf(s[l], ace) = s[l].point
        BY DEF PlaceOf, A
      <4> QED
        BY <3>3, <3>4, <3>5, <4>1, <4>2, <4>3, <4>4
    <3>7. ~(k < l) /\ ~(l < k)
      BY <1>2, <1>11, <3>5, <3>6 DEF OneRun
    <3>8. k = l
      BY <1>2, <3>7
    <3> QED
      BY <3>1, <3>2, <3>8
  <2> QED
    BY <1>7, <2>1, <2>2, <2>3
<1> QED
  BY <1>10, <1>11

(* The walk over a group that was sorted accepts the straights and nothing *)
(* else: the jokers may lie anywhere, and one ace may be low.              *)
LEMMA WalkFindsStraights ==
  ASSUME NEW cards, Group(cards), joker_point \in P2 .. A
  PROVE  is_cards_straight(cards) <=> Straight(cards)
<1> DEFINE s == Plain(cards)  m == Len(s)  n == Len(cards)
           High == \E lo \in 1 .. 15 - n : Fits(s, n, lo, A)
           Low  == \E lo \in 1 .. 15 - n : Fits(s, n, lo, 1)
           Filled == \/ Holes(s) <= n - m
                     \/ /\ joker_point # A /\ s[m].point = A
                        /\ Holes(Sorted(AcesLow(s))) \in 0 .. n - m
<1>1. n \in Nat /\ n <= 14
  BY DEF Group, MAX_CARD_COUNT
<1>2. /\ s \in Seq(Cards) /\ Ascends(s) /\ m \in 0 .. n /\ DOMAIN s = 1 .. m
      /\ \A k \in 1 .. m : s[k].point \in P2 .. A /\ s[k].point # joker_point
  BY PlainAscends
<1>3. is_cards_straight(cards) <=> n >= 3 /\ Holes(s) # NoRun /\ Filled
  BY DEF is_cards_straight, AcesLow, Last
<1>4. Straight(cards) <=> n >= 3 /\ OneRun(s) /\ (High \/ Low)
  <2>1. Run(cards, PlainAt(cards)) <=>
          /\ OneRun(s)
          /\ \E lo \in 1 .. 15 - n, ace \in {1, A} : Fits(s, n, lo, ace)
    BY RunOfPlain
  <2>2. (\E lo \in 1 .. 15 - n, ace \in {1, A} : Fits(s, n, lo, ace)) <=> High \/ Low
    <3> HIDE DEF s, n
    <3> QED
      OBVIOUS
  <2> HIDE DEF High, Low, s
  <2> QED
    BY <2>1, <2>2 DEF Straight
<1> HIDE DEF s, m, n
<1>5. Holes(s) # NoRun <=> OneRun(s)
  <2>1. Holes(s) # NoRun => OneRun(s)
    BY <1>2, HolesOfRun
  <2>2. OneRun(s) => Holes(s) \in Nat
    BY <1>2, HolesOfRun
  <2> QED
    BY <2>1, <2>2 DEF NoRun
<1>6. ASSUME OneRun(s), n >= 3
      PROVE  Filled <=> High \/ Low
  <2>0. Runs(s) /\ n \in 3 .. 14 /\ m <= n /\ m = Len(s)
    BY <1>1, <1>2, <1>6 DEF Runs, m
  <2>1. Holes(s) <= n - m <=> High
    <3> HIDE DEF High
    <3>1. Holes(s) <= n - Len(s) <=> \E lo \in 1 .. 15 - n : Fits(s, n, lo, A)
      BY <2>0, FitsHigh
    <3> QED
      BY <2>0, <3>1 DEF High
  <2>2. CASE m # 0 /\ s[m].point = A
    <3>1. joker_point # A
      BY <1>2, <2>2
    <3>2. Holes(Sorted(AcesLow(s))) \in 0 .. n - Len(s)
            <=> \E lo \in 1 .. 15 - n : Fits(s, n, lo, 1)
      BY <2>0, <2>2, FitsLow
    <3>3. Holes(Sorted(AcesLow(s))) \in 0 .. n - m <=> Low
      BY <2>0, <3>2
    <3> HIDE DEF High, Low
    <3> QED
      BY <2>1, <2>2, <3>1, <3>3
  <2>3. CASE m = 0
    <3>1. Holes(s) = 0
      BY <1>2, <1>6, <2>0, <2>3, HolesOfRun
    <3>2. Holes(s) <= n - m
      BY <1>1, <1>2, <2>3, <3>1
    <3> HIDE DEF High, Low
    <3> QED
      BY <2>1, <3>2
  <2>4. CASE m # 0 /\ s[m].point # A
    <3>1. ASSUME NEW k \in 1 .. m PROVE s[k].point # A
      <4>1. s[m].point \in Int /\ s[m].point <= 14 /\ s[k].point \in Int /\ m \in 1 .. m
        BY SMTT(30), <1>2, <2>4 DEF P2, A
      <4>2. k < m => s[k].point < s[m].point
        BY <1>2, <1>6, <4>1 DEF OneRun
      <4>3. k = m \/ k < m
        BY <1>2
      <4> QED
        BY <2>4, <4>1, <4>2, <4>3 DEF A
    <3>2. \A lo : Fits(s, n, lo, 1) <=> Fits(s, n, lo, A)
      BY <1>2, <3>1 DEF Fits, PlaceOf
    <3>3. Low <=> High
      BY <3>2
    <3> HIDE DEF High, Low
    <3> QED
      BY <2>1, <2>4, <3>3
  <2> QED
    BY <2>2, <2>3, <2>4
<1> HIDE DEF High, Low, Filled
<1> QED
  BY <1>3, <1>4, <1>5, <1>6

-----------------------------------------------------------------------------
(* The pure straights.  Where the walk goes on, and where it stops. *)
Follows(cards, i) ==
    /\ cards[i].color = cards[i - 1].color
    /\ cards[i].point < JOKER1 /\ cards[i - 1].point < JOKER1
    /\ cards[i].point = cards[i - 1].point + 1

Stops(cards) == {i \in 2 .. Len(cards) : ~Follows(cards, i)}

(* What is_cards_pure_straight says, in terms of where its walk stops. *)
LEMMA PureWalk ==
  ASSUME NEW cards
  PROVE  is_cards_pure_straight(cards) <=>
           /\ Len(cards) >= 3
           /\ Stops(cards) # {} =>
                /\ cards[Min(Stops(cards))].color = cards[Min(Stops(cards)) - 1].color
                /\ cards[Min(Stops(cards))].point < JOKER1
                /\ cards[Min(Stops(cards)) - 1].point < JOKER1
                /\ cards[Min(Stops(cards))].point = A /\ cards[1].point = P2
BY DEF is_cards_pure_straight, Stops, Follows

(* The facts about a sorted group that the walks need. *)
LEMMA GroupFields ==
  ASSUME NEW cards, Group(cards)
  PROVE  /\ cards \in Seq(Cards) /\ Len(cards) \in Nat /\ Len(cards) <= 14
         /\ DOMAIN cards = 1 .. Len(cards) /\ Ascends(cards)
         /\ \A i \in 1 .. Len(cards) : cards[i].point \in Int /\ cards[i].point >= 2
<1>1. /\ cards \in Seq(Cards) /\ Len(cards) \in Nat /\ Len(cards) <= 14
      /\ DOMAIN cards = 1 .. Len(cards) /\ Ascends(cards)
  BY DEF Group, MAX_CARD_COUNT
<1>2. ASSUME NEW i \in 1 .. Len(cards) PROVE cards[i].point \in Int /\ cards[i].point >= 2
  <2>1. cards[i] \in Cards /\ cards[i].point >= P2
    BY <1>1 DEF Group
  <2> QED
    BY <2>1, CardFields DEF P2
<1> QED
  BY <1>1, <1>2

(* The cards of a pure straight are a run. *)
LEMMA PureIsRun ==
  ASSUME NEW cards, Group(cards), NEW ace,
         \A i, j \in DOMAIN cards : cards[i].color = cards[j].color,
         \A i, j \in DOMAIN cards : PlaceOf(cards[i], ace) = PlaceOf(cards[j], ace) => i = j
  PROVE  OneRun(cards)
<1> DEFINE n == Len(cards)
<1>1. /\ cards \in Seq(Cards) /\ n \in Nat /\ DOMAIN cards = 1 .. n /\ Ascends(cards)
      /\ \A i \in 1 .. n : cards[i].point \in Int
  BY GroupFields
<1> HIDE DEF n
<1>2. ASSUME NEW k \in 1 .. n, NEW l \in 1 .. n, k < l
      PROVE  cards[k].point < cards[l].point
  <2>1. k # l
    BY <1>1, <1>2
  <2>2. PlaceOf(cards[k], ace) # PlaceOf(cards[l], ace)
    BY <1>1, <2>1
  <2>3. cards[k].point # cards[l].point
    BY <2>2 DEF PlaceOf
  <2>4. ~(cards[l].point < cards[k].point)
    BY <1>1, <1>2 DEF Ascends, Below
  <2> QED
    BY <1>1, <2>3, <2>4
<1> QED
  BY <1>1, <1>2 DEF OneRun

(* In a run no two cards are nearer to each other than their positions. *)
LEMMA RunRises ==
  ASSUME NEW cards, Group(cards), OneRun(cards),
         NEW i \in 1 .. Len(cards), NEW j \in 1 .. Len(cards), i <= j
  PROVE  cards[j].point - cards[i].point >= j - i
<1> DEFINE n == Len(cards)  q == [k \in 1 .. n |-> cards[k].point]
<1>1. /\ n \in Nat /\ DOMAIN cards = 1 .. n
      /\ \A k \in 1 .. n : cards[k].point \in Int
  BY GroupFields
<1>2. \A k \in 1 .. n : q[k] \in Int
  BY <1>1
<1>3. \A k \in 2 .. n : q[k - 1] < q[k]
  BY <1>1 DEF OneRun
<1>4. q[j] - q[i] >= j - i
  <2> HIDE DEF q
  <2> QED
    BY <1>1, <1>2, <1>3, Rising
<1> QED
  BY <1>4

(* No pure straight is refused. *)
LEMMA PureTaken ==
  ASSUME NEW cards, Group(cards), PureStraight(cards)
  PROVE  is_cards_pure_straight(cards)
<1> DEFINE n == Len(cards)
<1>1. /\ n \in Nat /\ n <= 14 /\ DOMAIN cards = 1 .. n /\ n >= 3
      /\ \A i \in 1 .. n : cards[i].point \in Int /\ cards[i].point >= 2 /\ cards[i].point < 15
  BY GroupFields DEF PureStraight, JOKER1
<1>2. PICK lo \in 1 .. 15 - n, ace \in {1, A} :
        /\ \A i, j \in 1 .. n : cards[i].color = cards[j].color
        /\ \A i \in 1 .. n : PlaceOf(cards[i], ace) \in lo .. lo + n - 1
        /\ \A i, j \in 1 .. n : PlaceOf(cards[i], ace) = PlaceOf(cards[j], ace) => i = j
  BY <1>1 DEF PureStraight, Run, PlaceOf
<1>3. OneRun(cards)
  BY <1>1, <1>2, PureIsRun
<1>4. \A i, j \in 1 .. n : i <= j => cards[j].point - cards[i].point >= j - i
  BY <1>3, RunRises
<1> SUFFICES Stops(cards) # {} =>
               /\ cards[Min(Stops(cards))].color = cards[Min(Stops(cards)) - 1].color
               /\ cards[Min(Stops(cards))].point < JOKER1
               /\ cards[Min(Stops(cards)) - 1].point < JOKER1
               /\ cards[Min(Stops(cards))].point = A /\ cards[1].point = P2
  BY <1>1, PureWalk
<1>5. Stops(cards) = {i \in 2 .. n : ~Follows(cards, i)}
  BY DEF Stops
<1> HIDE DEF n
<1>6. lo \in Int /\ 1 <= lo /\ lo <= 15 - n /\ 1 \in 1 .. n /\ n \in 1 .. n
  BY <1>1
<1>7. ASSUME NEW i \in 2 .. n, cards[i].point = cards[i - 1].point + 1
      PROVE  Follows(cards, i)
  <2>1. i \in 1 .. n /\ i - 1 \in 1 .. n
    BY <1>1
  <2>2. cards[i].color = cards[i - 1].color /\ cards[i].point < 15 /\ cards[i - 1].point < 15
    BY <1>1, <1>2, <2>1
  <2> QED
    BY <1>7, <2>2 DEF Follows, JOKER1
<1>8. CASE \A i \in 1 .. n : PlaceOf(cards[i], ace) = cards[i].point
  <2>1. ASSUME NEW k \in 1 .. n PROVE cards[k].point = lo + k - 1
    <3>1. /\ cards[k].point \in Int /\ cards[1].point \in Int /\ cards[n].point \in Int
          /\ k \in Int /\ 1 <= k /\ k <= n /\ n \in Int
      BY <1>1, <1>6
    <3>2. cards[1].point \in lo .. lo + n - 1 /\ cards[n].point \in lo .. lo + n - 1
      BY <1>2, <1>6, <1>8
    <3>3. lo <= cards[1].point /\ cards[n].point <= lo + n - 1
      BY <1>6, <3>1, <3>2
    <3>4. cards[k].point - cards[1].point >= k - 1 /\ cards[n].point - cards[k].point >= n - k
      BY <1>4, <1>6, <3>1
    <3> QED
      BY <1>6, <3>1, <3>3, <3>4
  <2>2. ASSUME NEW i \in 2 .. n PROVE Follows(cards, i)
    <3>1. i \in 1 .. n /\ i - 1 \in 1 .. n /\ i \in Int
      BY <1>1
    <3>2. cards[i].point = lo + i - 1 /\ cards[i - 1].point = lo + (i - 1) - 1
      BY <2>1, <3>1
    <3>3. cards[i].point = cards[i - 1].point + 1
      BY <1>6, <3>1, <3>2
    <3> QED
      BY <1>7, <3>3
  <2> QED
    BY <1>5, <2>2
<1>9. CASE ~ \A i \in 1 .. n : PlaceOf(cards[i], ace) = cards[i].point
  <2>1. PICK a \in 1 .. n : cards[a].point = A /\ ace = 1
    BY <1>2, <1>9 DEF PlaceOf
  <2>2. cards[n].point = 14 /\ a = n
    <3>1. a \in Int /\ a <= n /\ cards[a].point = 14 /\ cards[n].point \in Int /\ cards[n].point < 15
      BY <1>1, <1>6, <2>1 DEF A
    <3>2. cards[n].point - cards[a].point >= n - a
      BY <1>4, <1>6, <3>1
    <3> QED
      BY <1>1, <3>1, <3>2
  <2>3. lo = 1
    <3>1. PlaceOf(cards[n], ace) = 1 /\ PlaceOf(cards[n], ace) \in lo .. lo + n - 1
      BY <1>2, <1>6, <2>1, <2>2 DEF PlaceOf
    <3> QED
      BY <1>6, <3>1
  <2>4. ASSUME NEW k \in 1 .. n, k < n
        PROVE  /\ PlaceOf(cards[k], ace) = cards[k].point
               /\ cards[k].point <= n
    <3>1. cards[n].point - cards[k].point >= n - k
      BY SMTT(30), <1>1, <1>4, <1>6, <2>4
    <3>2. cards[k].point \in Int /\ k \in Int /\ n \in Int
      BY <1>1
    <3>3. cards[k].point # 14
      BY <2>2, <2>4, <3>1, <3>2
    <3>4. PlaceOf(cards[k], ace) = cards[k].point
      BY <3>3 DEF PlaceOf, A
    <3>5. cards[k].point \in 1 .. 1 + n - 1
      BY <1>2, <2>3, <3>4
    <3> QED
      BY <3>2, <3>4, <3>5
  <2>5. ASSUME NEW k \in 1 .. n, k < n PROVE cards[k].point = k + 1
    <3>1. n - 1 \in 1 .. n /\ n - 1 < n /\ k <= n - 1 /\ 1 <= k /\ k \in Int /\ n \in Int
      BY <1>1, <2>5
    <3>2. /\ cards[k].point \in Int /\ cards[1].point \in Int /\ cards[n - 1].point \in Int
          /\ cards[1].point >= 2
      BY <1>1, <1>6, <3>1
    <3>3. cards[n - 1].point <= n
      BY <2>4, <3>1
    <3>4. cards[k].point - cards[1].point >= k - 1
      BY <1>4, <1>6, <3>1
    <3>5. cards[n - 1].point - cards[k].point >= (n - 1) - k
      BY <1>4, <3>1
    <3> QED
      BY <3>1, <3>2, <3>3, <3>4, <3>5
  <2>6. ASSUME NEW i \in 2 .. n, i # n PROVE Follows(cards, i)
    <3>1. i \in 1 .. n /\ i - 1 \in 1 .. n /\ i < n /\ i - 1 < n /\ i \in Int
      BY <1>1, <2>6
    <3>2. cards[i].point = i + 1 /\ cards[i - 1].point = (i - 1) + 1
      BY <2>5, <3>1
    <3>3. cards[i].point = cards[i - 1].point + 1
      BY <3>1, <3>2
    <3> QED
      BY <1>7, <3>3
  <2>7. Stops(cards) \in SUBSET {n} /\ Stops(cards) \in SUBSET Nat
    BY <1>5, <2>6
  <2>8. ASSUME Stops(cards) # {} PROVE Min(Stops(cards)) = n
    BY <2>7, <2>8, MinIsLeast
  <2>9. /\ cards[n].color = cards[n - 1].color /\ cards[n].point < JOKER1
        /\ cards[n - 1].point < JOKER1 /\ cards[n].point = A /\ cards[1].point = P2
    <3>1. n - 1 \in 1 .. n /\ 1 < n
      BY <1>1
    <3>2. cards[1].point = 2
      BY <1>6, <2>5, <3>1
    <3> QED
      BY <1>1, <1>2, <1>6, <2>2, <3>1, <3>2 DEF JOKER1, A, P2
  <2> QED
    BY <2>8, <2>9
<1> QED
  BY <1>8, <1>9

(* Cards that follow each other up to position m have one color, and their *)
(* points go up by one.                                                    *)
LEMMA FollowsCount ==
  ASSUME NEW cards, Group(cards), NEW m \in 1 .. Len(cards),
         \A i \in 2 .. m : Follows(cards, i), NEW k \in 1 .. m
  PROVE  cards[k].color = cards[1].color /\ cards[k].point = cards[1].point + k - 1
<1> DEFINE n == Len(cards)
           c == [i \in 1 .. m |-> cards[i].color]
           d == [i \in 1 .. m |-> cards[i].point - i]
<1>1. n \in Nat /\ \A i \in 1 .. n : cards[i].point \in Int
  BY GroupFields
<1>2. m \in Nat /\ m <= n /\ 1 \in 1 .. m /\ k \in Int
  BY <1>1
<1>3. ASSUME NEW i \in 2 .. m
      PROVE  /\ i \in 1 .. m /\ i - 1 \in 1 .. m /\ i \in Int
             /\ cards[i].point \in Int /\ cards[i - 1].point \in Int
             /\ cards[i].color = cards[i - 1].color /\ cards[i].point = cards[i - 1].point + 1
  <2>1. i \in 1 .. m /\ i - 1 \in 1 .. m /\ i \in Int /\ i \in 1 .. n /\ i - 1 \in 1 .. n
    BY <1>2
  <2>2. Follows(cards, i)
    OBVIOUS
  <2> QED
    BY <1>1, <2>1, <2>2 DEF Follows
<1>4. \A i \in 2 .. m : c[i] = c[i - 1]
  BY <1>3
<1>5. \A i \in 2 .. m : d[i] = d[i - 1]
  <2>1. ASSUME NEW i \in 2 .. m PROVE cards[i].point - i = cards[i - 1].point - (i - 1)
    <3>1. /\ cards[i - 1].point \in Int /\ i \in Int
          /\ cards[i].point = cards[i - 1].point + 1
      BY <1>3
    <3> QED
      BY <3>1
  <2> QED
    BY <1>3, <2>1
<1>6. c[k] = c[1] /\ d[k] = d[1]
  <2> HIDE DEF c, d
  <2> QED
    BY <1>2, <1>4, <1>5, AllAlike
<1>7. cards[k].color = cards[1].color /\ cards[k].point - k = cards[1].point - 1
  BY <1>2, <1>6
<1>8. cards[k].point \in Int /\ cards[1].point \in Int
  BY <1>1, <1>2
<1> QED
  BY <1>2, <1>7, <1>8

(* What is accepted is pure, or an ace ended the walk before its end. *)
LEMMA PureMeans ==
  ASSUME NEW cards, Group(cards), is_cards_pure_straight(cards)
  PROVE  PureStraight(cards) \/ AceEndsWalk(cards)
<1> DEFINE n == Len(cards)
<1>1. /\ n \in Nat /\ n <= 14 /\ DOMAIN cards = 1 .. n
      /\ \A i \in 1 .. n : cards[i].point \in Int /\ cards[i].point >= 2
  BY GroupFields
<1>2. /\ n >= 3
      /\ Stops(cards) # {} =>
           /\ cards[Min(Stops(cards))].color = cards[Min(Stops(cards)) - 1].color
           /\ cards[Min(Stops(cards))].point < JOKER1
           /\ cards[Min(Stops(cards)) - 1].point < JOKER1
           /\ cards[Min(Stops(cards))].point = A /\ cards[1].point = P2
  BY PureWalk
<1>3. Stops(cards) = {i \in 2 .. n : ~Follows(cards, i)}
  BY DEF Stops
<1>4. ASSUME NEW lo \in 1 .. 15 - n, NEW ace \in {1, A},
             \A i \in 1 .. n : cards[i].point < 15,
             \A i \in 1 .. n : cards[i].color = cards[1].color,
             \A i \in 1 .. n : PlaceOf(cards[i], ace) \in lo .. lo + n - 1,
             \A i, j \in 1 .. n : PlaceOf(cards[i], ace) = PlaceOf(cards[j], ace) => i = j
      PROVE  PureStraight(cards)
  <2>1. \A i, j \in 1 .. n : cards[i].color = cards[j].color
    BY <1>4
  <2>2. Run(cards, 1 .. n)
    BY <1>4, <2>1 DEF Run, PlaceOf
  <2> QED
    BY <1>1, <1>2, <1>4, <2>2 DEF PureStraight, JOKER1
<1> HIDE DEF n
<1>5. CASE Stops(cards) = {}
  <2>1. \A i \in 2 .. n : Follows(cards, i)
    BY <1>3, <1>5
  <2>2. ASSUME NEW k \in 1 .. n
        PROVE  cards[k].color = cards[1].color /\ cards[k].point = cards[1].point + k - 1
    <3>1. n \in 1 .. Len(cards)
      BY <1>1, <1>2 DEF n
    <3> QED
      BY <2>1, <3>1, FollowsCount
  <2>3. 1 \in 1 .. n /\ n \in 1 .. n /\ n \in 2 .. n /\ n \in Int
    BY <1>1, <1>2
  <2>4. cards[n].point < 15
    BY <2>1, <2>3 DEF Follows, JOKER1
  <2>5. /\ cards[1].point \in Int /\ cards[1].point >= 2
        /\ cards[n].point = cards[1].point + n - 1 /\ cards[n].point \in Int
    BY <1>1, <2>2, <2>3
  <2> DEFINE lo == cards[1].point
  <2>6. lo \in 1 .. 15 - n
    BY <2>3, <2>4, <2>5
  <2>7. ASSUME NEW k \in 1 .. n
        PROVE  /\ cards[k].point < 15 /\ PlaceOf(cards[k], A) = cards[k].point
               /\ cards[k].point \in lo .. lo + n - 1
    <3>1. cards[k].point = lo + k - 1 /\ k \in Int /\ 1 <= k /\ k <= n
      BY <1>1, <2>2
    <3>2. PlaceOf(cards[k], A) = cards[k].point
      BY DEF PlaceOf
    <3> QED
      BY <2>3, <2>4, <2>5, <3>1, <3>2
  <2>8. ASSUME NEW i \in 1 .. n, NEW j \in 1 .. n, PlaceOf(cards[i], A) = PlaceOf(cards[j], A)
        PROVE  i = j
    <3>1. cards[i].point = cards[j].point /\ i \in Int /\ j \in Int
      BY <1>1, <2>7, <2>8
    <3>2. cards[i].point = lo + i - 1 /\ cards[j].point = lo + j - 1
      BY <2>2
    <3>3. lo + i - 1 = lo + j - 1 /\ lo \in Int
      BY <2>5, <3>1, <3>2
    <3> HIDE DEF lo
    <3> QED
      BY <3>1, <3>3
  <2> HIDE DEF lo
  <2>9. \A i \in 1 .. n : PlaceOf(cards[i], A) \in lo .. lo + n - 1
    BY <2>7
  <2> QED
    BY <1>4, <2>2, <2>6, <2>7, <2>8, <2>9
<1>6. CASE Stops(cards) # {} /\ ~AceEndsWalk(cards)
  <2> DEFINE s == Min(Stops(cards))
  <2>1. Stops(cards) \in SUBSET Nat
    BY <1>1, <1>3
  <2>2. s \in Stops(cards) /\ \A y \in Stops(cards) : s <= y
    BY <1>6, <2>1, MinIsLeast
  <2>3. /\ cards[s].color = cards[s - 1].color /\ cards[s].point < 15
        /\ cards[s - 1].point < 15 /\ cards[s].point = 14 /\ cards[1].point = 2
    BY <1>2, <1>6 DEF JOKER1, A, P2
  <2> HIDE DEF s
  <2>4. s \in 2 .. n
    BY <1>3, <2>2
  <2>5. s = n
    <3> SUFFICES ASSUME s # n PROVE FALSE
      OBVIOUS
    <3>1. s \in 2 .. n - 1
      BY <1>1, <2>4
    <3> QED
      BY <1>6, <2>3, <3>1 DEF AceEndsWalk, A, P2, n
  <2>6. ASSUME NEW i \in 2 .. n - 1 PROVE Follows(cards, i)
    <3>1. i \in 2 .. n /\ ~(s <= i)
      BY <1>1, <2>5
    <3> QED
      BY <1>3, <2>2, <3>1
  <2>7. n - 1 \in 1 .. Len(cards) /\ n - 1 \in 2 .. n - 1 /\ n \in Int
    BY <1>1, <1>2 DEF n
  <2>8. ASSUME NEW k \in 1 .. n - 1
        PROVE  cards[k].color = cards[1].color /\ cards[k].point = k + 1
    <3>1. cards[k].color = cards[1].color /\ cards[k].point = cards[1].point + k - 1
      BY <2>6, <2>7, FollowsCount
    <3> QED
      BY <2>3, <2>7, <3>1
  <2>9. ASSUME NEW k \in 1 .. n - 1
        PROVE  cards[k].point # 14
    <3>1. k = 1 \/ k \in 2 .. n - 1
      BY <1>1
    <3>2. k \in 2 .. n - 1 => cards[k].point # 14
      BY <1>6, <2>3 DEF AceEndsWalk, A, P2, n
    <3> QED
      BY <2>3, <3>1, <3>2
  <2>10. n <= 13
    <3>1. cards[n - 1].point = (n - 1) + 1 /\ cards[n - 1].point # 14
      BY <2>7, <2>8, <2>9
    <3> QED
      BY <1>1, <2>7, <3>1
  <2>11. ASSUME NEW k \in 1 .. n
         PROVE  /\ cards[k].color = cards[1].color /\ cards[k].point < 15
                /\ PlaceOf(cards[k], 1) = IF k = n THEN 1 ELSE k + 1
    <3>1. CASE k = n
      <4>1. cards[n].color = cards[1].color
        BY <2>3, <2>5, <2>7, <2>8
      <4> QED
        BY <2>3, <2>5, <3>1, <4>1 DEF PlaceOf, A
    <3>2. CASE k # n
      <4>1. k \in 1 .. n - 1 /\ k \in Int /\ k <= 12
        BY <1>1, <2>10, <3>2
      <4>2. cards[k].point = k + 1 /\ cards[k].point # 14
        BY <2>8, <2>9, <4>1
      <4>3. PlaceOf(cards[k], 1) = k + 1
        BY <4>2 DEF PlaceOf, A
      <4> QED
        BY <2>8, <3>2, <4>1, <4>2, <4>3
    <3> QED
      BY <3>1, <3>2
  <2>12. ASSUME NEW k \in 1 .. n PROVE PlaceOf(cards[k], 1) \in 1 .. 1 + n - 1
    <3>1. CASE k = n
      <4>1. PlaceOf(cards[k], 1) = 1
        BY <2>11, <3>1
      <4> QED
        BY <1>1, <1>2, <4>1
    <3>2. CASE k # n
      <4>1. PlaceOf(cards[k], 1) = k + 1 /\ k + 1 \in 1 .. 1 + n - 1
        BY <1>1, <2>11, <3>2
      <4> QED
        BY <4>1
    <3> QED
      BY <3>1, <3>2
  <2>13. ASSUME NEW i \in 1 .. n, NEW j \in 1 .. n, PlaceOf(cards[i], 1) = PlaceOf(cards[j], 1)
         PROVE  i = j
    <3>1. /\ PlaceOf(cards[i], 1) = IF i = n THEN 1 ELSE i + 1
          /\ PlaceOf(cards[j], 1) = IF j = n THEN 1 ELSE j + 1
      BY <2>11
    <3>2. i \in Int /\ j \in Int /\ i >= 1 /\ j >= 1
      OBVIOUS
    <3> QED
      BY <2>13, <3>1, <3>2
  <2>14. 1 \in 1 .. 15 - n
    BY <1>1, <2>10
  <2> QED
    BY <1>4, <2>11, <2>12, <2>13, <2>14
<1> QED
  BY <1>5, <1>6

-----------------------------------------------------------------------------
(* Three of a kind. *)

(* No three of a kind is refused. *)
LEMMA KindTaken ==
  ASSUME NEW cards \in Seq(Cards), ThreeOfKind(cards)
  PROVE  is_cards_three_of_kind(cards)
<1>1. Len(Plain(cards)) = Cardinality(PlainAt(cards)) /\ DOMAIN cards = 1 .. Len(cards)
  BY PlainPicks
<1>2. /\ Len(cards) \in 3 .. 4 /\ Cardinality(PlainAt(cards)) >= 2
      /\ \A i, j \in PlainAt(cards) :
            /\ cards[i].point = cards[j].point
            /\ cards[i].color = cards[j].color => i = j
  BY DEF ThreeOfKind
<1>3. ASSUME NEW i \in 2 .. Len(cards), ~is_joker(cards[i]), ~is_joker(cards[i - 1])
      PROVE  cards[i].point = cards[i - 1].point /\ cards[i].color # cards[i - 1].color
  <2>1. i \in 1 .. Len(cards) /\ i - 1 \in 1 .. Len(cards) /\ i # i - 1
    OBVIOUS
  <2>2. i \in PlainAt(cards) /\ i - 1 \in PlainAt(cards)
    BY <1>1, <1>3, <2>1 DEF PlainAt
  <2> QED
    BY <1>2, <2>1, <2>2
<1> QED
  BY <1>1, <1>2, <1>3 DEF is_cards_three_of_kind

(* What is accepted is of one point and of different colors, or has a      *)
(* joker between two of its other cards.                                   *)
LEMMA KindMeans ==
  ASSUME NEW cards, Group(cards), is_cards_three_of_kind(cards), ~JokerBetween(cards)
  PROVE  ThreeOfKind(cards)
<1> DEFINE n == Len(cards)  S == PlainAt(cards)
<1>1. /\ cards \in Seq(Cards) /\ n \in Nat /\ DOMAIN cards = 1 .. n /\ Ascends(cards)
  BY GroupFields
<1>2. \A i \in 1 .. n : cards[i].color \in Int /\ cards[i].point \in Int
  BY <1>1, CardFields
<1>3. n \in 3 .. 4 /\ Cardinality(S) >= 2
  BY <1>1, PlainPicks DEF is_cards_three_of_kind
<1>4. S \in SUBSET (1 .. n)
  BY <1>1 DEF PlainAt
<1>5. ASSUME NEW i \in S, NEW k \in S, NEW j \in 1 .. n, i < j, j < k PROVE j \in S
  BY <1>1, <1>5 DEF JokerBetween
<1>6. ASSUME NEW i \in 2 .. n, i \in S, i - 1 \in S
      PROVE  cards[i].point = cards[i - 1].point /\ cards[i - 1].color < cards[i].color
  <2>1. ~is_joker(cards[i]) /\ ~is_joker(cards[i - 1])
    BY <1>6 DEF PlainAt
  <2>2. cards[i].point = cards[i - 1].point /\ cards[i].color # cards[i - 1].color
    BY <2>1 DEF is_cards_three_of_kind
  <2>3. i \in 1 .. n /\ i - 1 \in 1 .. n /\ i - 1 < i
    BY <1>1
  <2>4. ~Below(cards[i], cards[i - 1])
    BY <1>1, <2>3 DEF Ascends
  <2> QED
    BY <1>2, <2>2, <2>3, <2>4 DEF Below
<1> HIDE DEF n, S
<1>7. ASSUME NEW i \in S, NEW k \in S, i < k
      PROVE  cards[i].point = cards[k].point /\ cards[i].color < cards[k].color
  <2> DEFINE Step(a, b) == cards[a].point = cards[b].point /\ cards[a].color < cards[b].color
  <2>0. i \in 1 .. n /\ k \in 1 .. n /\ n \in 3 .. 4
    BY <1>3, <1>4
  <2>1. ASSUME NEW a \in S, a + 1 \in S PROVE Step(a, a + 1)
    <3>1. a \in 1 .. n /\ a + 1 \in 2 .. n /\ (a + 1) - 1 = a
      BY <1>1, <1>4, <2>1
    <3> QED
      BY <1>6, <2>1, <3>1
  <2>2. ASSUME NEW a \in 1 .. n, NEW b \in 1 .. n, NEW c \in 1 .. n, Step(a, b), Step(b, c)
        PROVE  Step(a, c)
    BY <1>2, <2>2
  <2> HIDE DEF Step
  <2>3. CASE k = i + 1
    BY <2>1, <2>3 DEF Step
  <2>4. CASE k = (i + 1) + 1
    <3>1. i + 1 \in 1 .. n /\ i < i + 1 /\ i + 1 < k
      BY <2>0, <2>4
    <3>2. i + 1 \in S
      BY <1>5, <3>1
    <3>3. Step(i, i + 1) /\ Step(i + 1, k)
      BY <2>1, <2>4, <3>2
    <3>4. Step(i, k)
      BY <2>0, <2>2, <3>1, <3>3
    <3> QED
      BY <3>4 DEF Step
  <2>5. CASE k = ((i + 1) + 1) + 1
    <3>1. /\ i + 1 \in 1 .. n /\ i < i + 1 /\ i + 1 < k
          /\ (i + 1) + 1 \in 1 .. n /\ i < (i + 1) + 1 /\ (i + 1) + 1 < k
      BY <2>0, <2>5
    <3>2. i + 1 \in S /\ (i + 1) + 1 \in S
      BY <1>5, <3>1
    <3>3. Step(i, i + 1) /\ Step(i + 1, (i + 1) + 1) /\ Step((i + 1) + 1, k)
      BY <2>1, <2>5, <3>2
    <3>4. Step(i, (i + 1) + 1)
      BY <2>0, <2>2, <3>1, <3>3
    <3>5. Step(i, k)
      BY <2>0, <2>2, <3>1, <3>3, <3>4
    <3> QED
      BY <3>5 DEF Step
  <2>6. k = i + 1 \/ k = (i + 1) + 1 \/ k = ((i + 1) + 1) + 1
    BY <1>7, <2>0
  <2> QED
    BY <2>3, <2>4, <2>5, <2>6
<1>8. ASSUME NEW i \in S, NEW j \in S
      PROVE  cards[i].point = cards[j].point /\ (cards[i].color = cards[j].color => i = j)
  <2>1. i \in 1 .. n /\ j \in 1 .. n
    BY <1>4
  <2>2. cards[i].color \in Int /\ cards[j].color \in Int
    BY <1>2, <2>1
  <2>3. i < j \/ j < i \/ i = j
    BY <1>1, <2>1
  <2>4. i < j => cards[i].point = cards[j].point /\ cards[i].color < cards[j].color
    BY <1>7
  <2>5. j < i => cards[j].point = cards[i].point /\ cards[j].color < cards[i].color
    BY <1>7
  <2> QED
    BY <2>2, <2>3, <2>4, <2>5
<1> QED
  BY <1>3, <1>8 DEF ThreeOfKind, n, S

-----------------------------------------------------------------------------
(* The declaration. *)

(* Where no group is loose the cards cost nothing. *)
LEMMA NothingLoose ==
  ASSUME NEW gs
  PROVE  Cost(gs, {}) = 0
<1> DEFINE F(f) == [t \in SUBSET {} |->
              IF t = {} THEN 0
              ELSE caculate_card_score(gs[CHOOSE x \in t : TRUE].m_cards)
                     + f[t \ {CHOOSE x \in t : TRUE}]]
           none == [t \in SUBSET {} |-> 0]
<1>1. \A t \in SUBSET {} : t = {}
  OBVIOUS
<1>2. none = F(none)
  BY <1>1
<1>3. (CHOOSE f : f = F(f)) = F(CHOOSE f : f = F(f))
  <2> HIDE DEF F, none
  <2> QED
    BY <1>2
<1>4. \A f : F(f)[{}] = 0
  OBVIOUS
<1>5. Cost(gs, {}) = (CHOOSE f : f = F(f))[{}]
  BY DEF Cost, MapThenSumSet, MapThenFoldSet
<1> HIDE DEF F
<1> QED
  BY <1>3, <1>4, <1>5

(* One group of a declaration passes the second loop of check_lose_declare. *)
GroupStands(gs, i) ==
    \/ gs[i].m_type = GROUP_INVALID
    \/ gs[i].m_type = GROUP_STAIGHT /\ pure_straight_count(gs) >= 1
    \/ /\ gs[i].m_type = GROUP_THREE_KIND
       /\ pure_straight_count(gs) >= 1 /\ straight_count(gs) >= 2
       /\ is_cards_three_of_kind(Sorted(gs[i].m_cards))

(* What check_lose_declare says of a declaration without loose cards. *)
LEMMA LoseMeans ==
  ASSUME NEW gs, OfType(gs, GROUP_INVALID) = {}
  PROVE  check_lose_declare(gs) = [ok |-> TRUE, score |-> 0]
           <=> StraightsStand(gs) /\ \A i \in DOMAIN gs : GroupStands(gs, i)
<1> DEFINE Fails == {i \in DOMAIN gs : ~GroupStands(gs, i)}
           Seen  == {i \in DOMAIN gs : \A j \in Fails : i < j}
<1>1. check_lose_declare(gs) =
        IF StraightsStand(gs)
          THEN [ok |-> Fails = {}, score |-> Cost(gs, Seen \cap OfType(gs, GROUP_INVALID))]
          ELSE [ok |-> FALSE, score |-> 0]
  BY DEF check_lose_declare, GroupStands
<1>2. Seen \cap OfType(gs, GROUP_INVALID) = {}
  OBVIOUS
<1>3. Cost(gs, Seen \cap OfType(gs, GROUP_INVALID)) = 0
  BY <1>2, NothingLoose
<1>4. Fails = {} <=> \A i \in DOMAIN gs : GroupStands(gs, i)
  OBVIOUS
<1>5. CASE StraightsStand(gs)
  <2>1. check_lose_declare(gs) = [ok |-> Fails = {}, score |-> 0]
    BY <1>1, <1>3, <1>5
  <2> HIDE DEF Fails
  <2> DEFINE b == Fails = {}
  <2>a. check_lose_declare(gs) = [ok |-> b, score |-> 0] /\ b \in BOOLEAN
    BY <2>1
  <2> HIDE DEF b
  <2>b. check_lose_declare(gs) = [ok |-> TRUE, score |-> 0] <=> b = TRUE
    <3>1. b = TRUE => check_lose_declare(gs) = [ok |-> TRUE, score |-> 0]
      BY <2>a, Zenon
    <3>2. check_lose_declare(gs).ok = b
      BY <2>a
    <3>3. [ok |-> TRUE, score |-> 0].ok = TRUE
      OBVIOUS
    <3> QED
      BY <3>1, <3>2, <3>3, Zenon
  <2>2. check_lose_declare(gs) = [ok |-> TRUE, score |-> 0] <=> Fails = {}
    BY <2>b DEF b
  <2> QED
    BY <1>4, <1>5, <2>2
<1>6. CASE ~StraightsStand(gs)
  <2>1. check_lose_declare(gs) = [ok |-> FALSE, score |-> 0]
    BY <1>1, <1>6
  <2>2. check_lose_declare(gs).ok = FALSE
    BY <2>1
  <2>3. [ok |-> TRUE, score |-> 0].ok = TRUE
    OBVIOUS
  <2> QED
    BY <1>6, <2>2, <2>3
<1> QED
  BY <1>5, <1>6

(* The lives of a declaration are counted among its groups. *)
LEMMA CountsOf ==
  ASSUME NEW gs, NEW n \in Nat, DOMAIN gs = 1 .. n
  PROVE  /\ straight_count(gs) \in Nat /\ straight_count(gs) <= n
         /\ pure_straight_count(gs) \in Nat
         /\ Straights(gs) = 1 .. n => straight_count(gs) = n
<1> DEFINE pure == {i \in Straights(gs) : is_cards_pure_straight(Sorted(gs[i].m_cards))}
<1>1. IsFiniteSet(1 .. n) /\ Cardinality(1 .. n) = n
  BY UpToSize
<1>2. Straights(gs) \in SUBSET (1 .. n) /\ pure \in SUBSET Straights(gs)
  BY DEF Straights, OfType
<1>3. /\ straight_count(gs) = Cardinality(Straights(gs))
      /\ pure_straight_count(gs) = Cardinality(pure)
  BY DEF straight_count, pure_straight_count
<1> HIDE DEF pure
<1>4. IsFiniteSet(Straights(gs)) /\ Cardinality(Straights(gs)) <= n
  BY <1>1, <1>2, FS_Subset
<1>5. IsFiniteSet(pure)
  BY <1>2, <1>4, FS_Subset
<1>6. Cardinality(Straights(gs)) \in Nat /\ Cardinality(pure) \in Nat
  BY <1>4, <1>5, FS_CardinalityType
<1> QED
  BY <1>1, <1>3, <1>4, <1>6

(* The two checks of a declaration agree, whatever its groups are. *)
LEMMA ChecksAgree ==
  ASSUME NEW gs, NEW n \in Nat, DOMAIN gs = 1 .. n, Len(gs) = n,
         \A i \in 1 .. n : gs[i].m_type \in {GROUP_INVALID, GROUP_STAIGHT, GROUP_THREE_KIND}
  PROVE  is_groups_declare(gs) <=>
           /\ Len(gs) >= 2
           /\ OfType(gs, GROUP_INVALID) = {}
           /\ check_lose_declare(gs) = [ok |-> TRUE, score |-> 0]
<1> DEFINE Kind(i) == is_cards_three_of_kind(Sorted(gs[i].m_cards))
<1>1. /\ straight_count(gs) \in Nat /\ straight_count(gs) <= n
      /\ pure_straight_count(gs) \in Nat
      /\ Straights(gs) = 1 .. n => straight_count(gs) = n
  BY CountsOf
<1>2. ASSUME NEW i \in 1 .. n
      PROVE  GroupStands(gs, i) <=>
               \/ gs[i].m_type = GROUP_INVALID
               \/ gs[i].m_type = GROUP_STAIGHT /\ pure_straight_count(gs) >= 1
               \/ /\ gs[i].m_type = GROUP_THREE_KIND
                  /\ pure_straight_count(gs) >= 1 /\ straight_count(gs) >= 2 /\ Kind(i)
  BY DEF GroupStands
<1>3. is_groups_declare(gs) <=>
        /\ OfType(gs, GROUP_INVALID) = {}
        /\ StraightsStand(gs)
        /\ \A i \in 1 .. n : gs[i].m_type = GROUP_THREE_KIND => Kind(i)
        /\ pure_straight_count(gs) >= 1 /\ straight_count(gs) >= 2
  BY DEF is_groups_declare, KindsStand, OfType
<1>4. OfType(gs, GROUP_INVALID) = {} <=> \A i \in 1 .. n : gs[i].m_type # GROUP_INVALID
  BY DEF OfType
<1>5. Straights(gs) = {i \in 1 .. n : gs[i].m_type = GROUP_STAIGHT}
  BY DEF Straights, OfType
<1> HIDE DEF Kind
<1>6. ASSUME is_groups_declare(gs)
      PROVE  /\ Len(gs) >= 2 /\ OfType(gs, GROUP_INVALID) = {}
             /\ check_lose_declare(gs) = [ok |-> TRUE, score |-> 0]
  <2>1. \A i \in 1 .. n : GroupStands(gs, i)
    BY <1>2, <1>3, <1>6
  <2>2. check_lose_declare(gs) = [ok |-> TRUE, score |-> 0]
    BY <1>3, <1>6, <2>1, LoseMeans
  <2>3. n >= 2
    BY <1>1, <1>3, <1>6
  <2> QED
    BY <1>3, <1>6, <2>2, <2>3
<1>7. ASSUME Len(gs) >= 2, OfType(gs, GROUP_INVALID) = {},
             check_lose_declare(gs) = [ok |-> TRUE, score |-> 0]
      PROVE  is_groups_declare(gs)
  <2>1. StraightsStand(gs) /\ \A i \in 1 .. n : GroupStands(gs, i)
    BY <1>7, LoseMeans
  <2>2. ASSUME NEW i \in 1 .. n
        PROVE  \/ gs[i].m_type = GROUP_STAIGHT /\ pure_straight_count(gs) >= 1
               \/ /\ gs[i].m_type = GROUP_THREE_KIND
                  /\ pure_straight_count(gs) >= 1 /\ straight_count(gs) >= 2 /\ Kind(i)
    BY <1>2, <1>4, <1>7, <2>1
  <2>3. pure_straight_count(gs) >= 1
    <3>1. 1 \in 1 .. n
      BY <1>7
    <3> QED
      BY <2>2, <3>1
  <2>4. straight_count(gs) >= 2
    <3>1. CASE \E i \in 1 .. n : gs[i].m_type # GROUP_STAIGHT
      BY <2>2, <3>1
    <3>2. CASE \A i \in 1 .. n : gs[i].m_type = GROUP_STAIGHT
      <4>1. Straights(gs) = 1 .. n
        BY <1>5, <3>2
      <4> QED
        BY <1>1, <1>7, <4>1
    <3> QED
      BY <3>1, <3>2
  <2>5. \A i \in 1 .. n : gs[i].m_type = GROUP_THREE_KIND => Kind(i)
    BY <2>2 DEF GROUP_THREE_KIND, GROUP_STAIGHT
  <2> QED
    BY <1>3, <1>7, <2>1, <2>3, <2>4, <2>5
<1> QED
  BY <1>6, <1>7

-----------------------------------------------------------------------------
(* The declaration as it is laid: every group holds cards of the deck, and *)
(* no more than a hand.                                                    *)
DealtCards == [color : 0 .. 4, point : P2 .. JOKER2]
LaidGroups == [m_type : 0 .. 3, m_cards : Seq(DealtCards)]

Laying ==
    /\ table \in Tables /\ joker_point \in P2 .. A
    /\ groups \in Seq(LaidGroups)
    /\ \A i \in DOMAIN groups : Len(groups[i].m_cards) <= MAX_CARD_COUNT

(* What the assumption on the constants says of a table. *)
LEMMA TableFields ==
  ASSUME NEW t \in Tables
  PROVE  /\ t.points \in SUBSET (P2 .. A) /\ t.jokers \in SUBSET (JOKER1 .. JOKER2)
         /\ t.joker_points \in SUBSET (P2 .. A) /\ t.types \in SUBSET (0 .. 3)
         /\ t.most \in 0 .. MAX_CARD_COUNT
BY RummyAssumption DEF Table

(* Every card of the deck is a card that can be dealt. *)
LEMMA DeckCards ==
  ASSUME table \in Tables, NEW x \in Deck
  PROVE  x \in DealtCards
<1>1. table.points \in SUBSET (P2 .. A) /\ table.jokers \in SUBSET (JOKER1 .. JOKER2)
  BY TableFields
<1>2. CASE \E c \in Colors, p \in table.points : x = Card(c, p)
  <2>1. PICK c \in Colors, p \in table.points : x = Card(c, p)
    BY <1>2
  <2>2. c \in 0 .. 4 /\ p \in P2 .. JOKER2
    BY <1>1, RummyAssumption DEF P2, A, JOKER2
  <2> QED
    BY <2>1, <2>2 DEF Card, DealtCards
<1>3. CASE \E p \in table.jokers : x = Card(0, p)
  <2>1. PICK p \in table.jokers : x = Card(0, p)
    BY <1>3
  <2>2. 0 \in 0 .. 4 /\ p \in P2 .. JOKER2
    BY <1>1 DEF P2, JOKER1, JOKER2
  <2> QED
    BY <2>1, <2>2 DEF Card, DealtCards
<1> QED
  BY <1>2, <1>3 DEF Deck

(* A table with no group laid satisfies the invariant. *)
LEMMA LayingInit ==
  ASSUME Init
  PROVE  Laying
<1>1. table \in Tables /\ joker_point \in table.joker_points /\ groups = <<>>
  BY DEF Init
<1>2. joker_point \in P2 .. A
  BY <1>1, TableFields
<1>3. groups \in Seq(LaidGroups) /\ DOMAIN groups = {}
  BY <1>1
<1> QED
  BY <1>1, <1>2, <1>3 DEF Laying

(* Laying a card, in a new group or in the last one, keeps the invariant. *)
LEMMA LayingStep ==
  ASSUME Laying, [Next]_vars
  PROVE  Laying'
<1> USE DEF Laying
<1>0. /\ table \in Tables /\ groups \in Seq(LaidGroups) /\ Len(groups) \in Nat
      /\ DOMAIN groups = 1 .. Len(groups)
  OBVIOUS
<1>1. ASSUME NEW x \in Deck, NEW t \in table.types, new_group(t, x),
             table' = table, joker_point' = joker_point
      PROVE  Laying'
  <2> DEFINE g == [m_type |-> t, m_cards |-> <<x>>]
  <2>1. groups' = Append(groups, g)
    BY <1>1 DEF new_group
  <2>2. x \in DealtCards /\ t \in 0 .. 3
    BY <1>0, DeckCards, TableFields
  <2>3. <<x>> \in Seq(DealtCards) /\ Len(<<x>>) = 1
    BY <2>2
  <2>4. g \in LaidGroups /\ Len(g.m_cards) <= MAX_CARD_COUNT
    BY <2>2, <2>3 DEF LaidGroups, MAX_CARD_COUNT
  <2> HIDE DEF g
  <2>5. groups' \in Seq(LaidGroups)
    BY <1>0, <2>1, <2>4
  <2>6. ASSUME NEW i \in DOMAIN groups' PROVE Len(groups'[i].m_cards) <= MAX_CARD_COUNT
    <3>1. (i \in DOMAIN groups /\ groups'[i] = groups[i]) \/ groups'[i] = g
      BY <1>0, <2>1
    <3> QED
      BY <2>4, <3>1
  <2> QED
    BY <1>1, <2>5, <2>6
<1>2. ASSUME NEW x \in Deck, add_card(x), table' = table, joker_point' = joker_point
      PROVE  Laying'
  <2> DEFINE l == Len(groups)  cards == Append(groups[l].m_cards, x)
             g == [groups[l] EXCEPT !.m_cards = cards]
  <2>1. /\ groups # <<>> /\ Len(groups[l].m_cards) < table.most
        /\ groups' = [groups EXCEPT ![l] = g]
    BY <1>2 DEF add_card, Last
  <2>2. l \in 1 .. Len(groups) /\ groups[l] \in LaidGroups
    BY <1>0, <2>1
  <2>3. x \in DealtCards /\ table.most \in 0 .. 14
    BY <1>0, DeckCards, TableFields DEF MAX_CARD_COUNT
  <2>4. groups[l].m_cards \in Seq(DealtCards) /\ Len(groups[l].m_cards) \in Nat
    BY <2>2 DEF LaidGroups
  <2>5. cards \in Seq(DealtCards) /\ Len(cards) = Len(groups[l].m_cards) + 1
    BY <2>3, <2>4
  <2> HIDE DEF cards
  <2>6. Len(cards) <= MAX_CARD_COUNT
    BY SMTT(30), <2>1, <2>3, <2>4, <2>5 DEF MAX_CARD_COUNT
  <2>7. g \in LaidGroups /\ g.m_cards = cards
    BY <2>2, <2>5 DEF LaidGroups
  <2> HIDE DEF g, l
  <2>8. groups' \in Seq(LaidGroups) /\ DOMAIN groups' = DOMAIN groups
    BY <1>0, <2>1, <2>2, <2>7
  <2>9. ASSUME NEW i \in DOMAIN groups' PROVE Len(groups'[i].m_cards) <= MAX_CARD_COUNT
    <3>1. (i \in DOMAIN groups /\ groups'[i] = groups[i]) \/ groups'[i] = g
      BY <1>0, <2>1, <2>2, <2>8
    <3> QED
      BY <2>6, <2>7, <3>1
  <2> QED
    BY <1>2, <2>8, <2>9
<1>3. CASE Next
  <2>1. PICK x \in Deck : lay(x)
    BY <1>3 DEF Next
  <2>2. table' = table /\ joker_point' = joker_point
    BY <2>1 DEF lay
  <2>3. add_card(x) \/ \E t \in table.types : new_group(t, x)
    BY <2>1 DEF lay
  <2> QED
    BY <1>1, <1>2, <2>2, <2>3
<1>4. CASE UNCHANGED vars
  BY <1>4 DEF vars
<1> QED
  BY <1>3, <1>4

(* A group of the declaration, sorted, is what the checks are about. *)
LEMMA SortedGroup ==
  ASSUME Laying, NEW k \in DOMAIN groups
  PROVE  Group(Sorted(groups[k].m_cards)) /\ joker_point \in P2 .. A
<1> DEFINE cards == groups[k].m_cards  s == Sorted(cards)
<1>1. groups[k] \in LaidGroups /\ Len(cards) <= MAX_CARD_COUNT /\ joker_point \in P2 .. A
  BY DEF Laying
<1>2. cards \in Seq(DealtCards)
  BY <1>1 DEF LaidGroups
<1> HIDE DEF cards
<1>3. \A x \in DealtCards : x \in Cards /\ x.point >= P2
  BY DEF DealtCards, Cards, P2, JOKER2
<1>4. cards \in Seq(Cards) /\ \A i \in DOMAIN cards : cards[i].point >= P2
  BY <1>2, <1>3
<1>5. /\ s \in Seq(Cards) /\ Len(s) = Len(cards) /\ DOMAIN s = DOMAIN cards /\ Ascends(s)
      /\ \E p : Rearranged(s, cards, p)
  BY <1>4, SortedSorts
<1> HIDE DEF s
<1>6. PICK p : Rearranged(s, cards, p)
  BY <1>5
<1>7. ASSUME NEW i \in DOMAIN s PROVE s[i].point >= P2
  <2>1. p[i] \in DOMAIN cards /\ s[i] = cards[p[i]]
    BY <1>5, <1>6 DEF Rearranged
  <2> QED
    BY <1>4, <2>1
<1>8. Group(s)
  BY <1>1, <1>5, <1>7 DEF Group
<1> QED
  BY <1>1, <1>8 DEF s, cards

(* The checks of a group accept the groups of the rules: the straights,    *)
(* the pure ones but for what follows an ace behind a run from the 2, the  *)
(* threes of a kind but for jokers sorted between other cards.  For every  *)
(* group, of any size up to a hand, that can be laid with any cards and    *)
(* any round joker.                                                        *)
THEOREM GroupsRightTheorem == Spec => []GroupsRight
<1>1. Init => Laying
  BY LayingInit
<1>2. Laying /\ [Next]_vars => Laying'
  BY LayingStep
<1>3. Laying => GroupsRight
  <2> SUFFICES ASSUME Laying, NEW k \in DOMAIN groups
               PROVE  LET cards == Sorted(groups[k].m_cards) IN
                        StraightRight(cards) /\ PureRight(cards) /\ KindRight(cards)
    BY DEF GroupsRight
  <2> DEFINE cards == Sorted(groups[k].m_cards)
  <2>1. Group(cards) /\ joker_point \in P2 .. A
    BY SortedGroup
  <2> HIDE DEF cards
  <2>2. StraightRight(cards)
    BY <2>1, WalkFindsStraights DEF StraightRight
  <2>3. PureRight(cards)
    BY <2>1, PureTaken, PureMeans DEF PureRight
  <2>4. cards \in Seq(Cards)
    BY <2>1 DEF Group
  <2>5. KindRight(cards)
    BY <2>1, <2>4, KindTaken, KindMeans DEF KindRight
  <2> QED
    BY <2>2, <2>3, <2>5 DEF cards
<1> QED
  BY <1>1, <1>2, <1>3, PTL DEF Spec

(* The check of a winner's declaration and the check of a loser's agree on *)
(* every declaration, of any number of groups.                             *)
THEOREM DeclareAgreesTheorem == Spec => []DeclareAgrees
<1>1. Init => Laying
  BY LayingInit
<1>2. Laying /\ [Next]_vars => Laying'
  BY LayingStep
<1>3. Laying => DeclareAgrees
  <2> SUFFICES ASSUME Laying,
                      \A i \in DOMAIN groups : groups[i].m_type \in
                          {GROUP_INVALID, GROUP_STAIGHT, GROUP_THREE_KIND}
               PROVE  is_groups_declare(groups) <=>
                        /\ Len(groups) >= 2
                        /\ OfType(groups, GROUP_INVALID) = {}
                        /\ check_lose_declare(groups) = [ok |-> TRUE, score |-> 0]
    BY DEF DeclareAgrees
  <2>1. Len(groups) \in Nat /\ DOMAIN groups = 1 .. Len(groups)
    BY DEF Laying
  <2> QED
    BY <2>1, ChecksAgree
<1> QED
  BY <1>1, <1>2, <1>3, PTL DEF Spec
=============================================================================
