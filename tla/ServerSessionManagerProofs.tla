--------------------- MODULE ServerSessionManagerProofs ----------------------
(***************************************************************************)
(* Proofs about a server's sessions and their manager, for any number of   *)
(* connections, loops and messages, and any limit.                         *)
(*                                                                         *)
(* The functions of ServerSessionManager.tla give the state after a call   *)
(* about one session; the facts below say what such a call does to that    *)
(* session (Life), to the table (Table) and to the other sessions (Same).  *)
(***************************************************************************)
EXTENDS ServerSessionManager, FiniteSetTheorems, TLAPS

Funs == {"do_add_session", "do_close_session", "do_close", "do_check_alive",
         "do_read_head_len", "do_session_open", "on_read_complete", "on_read_error"}

Tasks == [f : Funs, s : Sessions]
Dealt == {"open", "message", "close"}

(* m_session_all: from numbers to sessions. *)
Numbered == UNION {[D -> Sessions] : D \in SUBSET Nat}

World ==
    [q : [Loops -> Seq(Tasks)], open : SUBSET Sessions, reading : SUBSET Sessions,
     silent : SUBSET Sessions, id : [Sessions -> Int], all : Numbered,
     current : Nat, started : SUBSET Sessions, rejected : SUBSET Sessions,
     dealt : [Sessions -> Seq(Dealt)], broken : BOOLEAN]

-----------------------------------------------------------------------------
(* A loop: a task of the set S waits; at most one does. *)
Has(q, S)  == \E i \in 1 .. Len(q) : q[i] \in S
Once(q, S) == \A i, j \in 1 .. Len(q) : q[i] \in S /\ q[j] \in S => i = j

Of(r)    == {t \in Tasks : t.s = r}
T(f, r)  == {Task(f, r)}
Reads(r) == {Task(f, r) : f \in {"do_read_head_len", "on_read_complete", "on_read_error"}}

(* What was dealt: an end; an opening; at most one of each; at most n      *)
(* things after the end.                                                   *)
Ended(d)    == \E i \in 1 .. Len(d) : d[i] = "close"
Opened(d)   == \E i \in 1 .. Len(d) : d[i] = "open"
NoRepeat(d) == \A i, j \in 1 .. Len(d) : d[i] = d[j] /\ d[i] # "message" => i = j
After(d, n) == \A i \in 1 .. Len(d) : d[i] = "close" => Len(d) - i <= n

-----------------------------------------------------------------------------
(***************************************************************************)
(* Where the tasks of session r wait, and what they say of it.  lp, st:    *)
(* loop and starting.                                                      *)
(***************************************************************************)
Waiting(x, lp, st, r) ==
    \A l \in Loops :
        /\ Has(x.q[l], T("do_add_session", r)) =>
              /\ l = Manager /\ lp[r] \in Loops
              /\ r \in x.open /\ r \notin x.started /\ r \notin x.rejected
              /\ x.dealt[r] = <<>>
        /\ Has(x.q[l], T("do_close_session", r)) =>
              l = Manager /\ r \notin x.open /\ (r \in x.started \/ r \in x.rejected)
        /\ Has(x.q[l], T("do_close", r)) => l = lp[r] /\ r \in x.rejected
        /\ Has(x.q[l], T("do_check_alive", r)) => l = lp[r] /\ r \in x.started
        /\ Has(x.q[l], Reads(r)) => l = lp[r] /\ r \in x.started /\ r \notin x.reading
        /\ Has(x.q[l], T("do_session_open", r)) =>
              /\ l = lp[r] /\ l # Manager /\ r \in x.started /\ st # r
              /\ ~Opened(x.dealt[r])
        /\ Once(x.q[l], T("do_add_session", r))
        /\ Once(x.q[l], Reads(r))
        /\ Once(x.q[l], T("do_session_open", r))

(* What do_add_session made of it. *)
Admitted(x, lp, st, r) ==
    /\ r \in x.open \/ r \in x.started \/ r \in x.rejected => lp[r] \in Loops
    /\ r \in x.reading => r \in x.open /\ r \in x.started
    /\ ~(r \in x.started /\ r \in x.rejected)
    /\ st = r => r \in x.started /\ lp[r] # Manager /\ ~Opened(x.dealt[r])
    /\ r \notin x.started => ~Opened(x.dealt[r])
    /\ r \in x.rejected => x.dealt[r] \in {<<>>, <<"close">>}
    /\ lp[r] = NoLoop => x.dealt[r] = <<>>

(* A message was read, the opening is still to be told: each may follow    *)
(* the end.                                                                *)
Owed(x, lp, st, r) ==
    (IF Has(x.q[lp[r]], T("on_read_complete", r)) THEN 1 ELSE 0)
    + (IF st = r \/ Has(x.q[lp[r]], T("do_session_open", r)) THEN 1 ELSE 0)

Most(lp, r) == IF lp[r] = Manager THEN 1 ELSE 2

Told(x, lp, st, r) ==
    /\ r \in x.open => ~Ended(x.dealt[r])
    /\ NoRepeat(x.dealt[r])
    /\ lp[r] \in Loops => After(x.dealt[r], Most(lp, r) - Owed(x, lp, st, r))

(* Its entry in the table, and who holds the session meanwhile. *)
Entry(x, r) == x.id[r] \in DOMAIN x.all /\ x.all[x.id[r]] = r

HasEntry(x, r) == r \in x.open /\ r \in x.started => Entry(x, r)

OpenHeld(x, lp, r) ==
    Entry(x, r) /\ r \in x.open => r \in x.reading \/ Has(x.q[lp[r]], Reads(r))

ClosedHeld(x, r) ==
    Entry(x, r) /\ r \notin x.open => Has(x.q[Manager], T("do_close_session", r))

Life(x, lp, st, r) == Waiting(x, lp, st, r) /\ Admitted(x, lp, st, r) /\ Told(x, lp, st, r)

Kept(x, lp, st, r) ==
    Life(x, lp, st, r) /\ HasEntry(x, r) /\ OpenHeld(x, lp, r) /\ ClosedHeld(x, r)

(***************************************************************************)
(* The table: each session under its own number, which no other session    *)
(* has or had, and no more of them than may be.                            *)
(***************************************************************************)
Table(x) ==
    /\ x \in World
    /\ \A r \in Sessions : x.id[r] <= x.current
    /\ \A r, s \in Sessions : x.id[r] = x.id[s] /\ x.id[r] > 0 => r = s
    /\ \A i \in DOMAIN x.all : x.id[x.all[i]] = i /\ i > 0 /\ x.all[i] \in x.started
    /\ server.m_max_session_count \in Nat
    /\ Cardinality(DOMAIN x.all) <= server.m_max_session_count

(* The loops and the walk: an iterator is lost only to a session of the    *)
(* manager's own loop that was started and has ended.                      *)
Surroundings ==
    /\ server \in Servers
    /\ loop \in [Sessions -> Loops \cup {NoLoop}]
    /\ m_next_index \in Loops
    /\ starting \in Sessions \cup {NoSession}
    /\ walk \subseteq w.started
    /\ w.broken => \E s \in w.started \ w.open : loop[s] = Manager

IInv ==
    /\ Table(w) /\ Surroundings
    /\ \A r \in Sessions : Kept(w, loop, starting, r)

-----------------------------------------------------------------------------
(* What a task at the end of a loop adds to it. *)
LEMMA LoopAppend ==
    ASSUME NEW q \in Seq(Tasks), NEW t \in Tasks
    PROVE  /\ Append(q, t) \in Seq(Tasks)
           /\ \A S : Has(Append(q, t), S) <=> Has(q, S) \/ t \in S
           /\ \A S : Once(q, S) /\ ~(Has(q, S) /\ t \in S) => Once(Append(q, t), S)
<1> DEFINE p == Append(q, t)
<1>1. /\ p \in Seq(Tasks) /\ Len(p) = Len(q) + 1 /\ Len(q) \in Nat
      /\ \A i \in 1 .. Len(q) : p[i] = q[i]
      /\ p[Len(q) + 1] = t
  OBVIOUS
<1> HIDE DEF p
<1>2. ASSUME NEW S
      PROVE  Has(p, S) <=> Has(q, S) \/ t \in S
  BY <1>1 DEF Has
<1>3. ASSUME NEW S, Once(q, S), ~(Has(q, S) /\ t \in S)
      PROVE  Once(p, S)
  BY <1>1, <1>3 DEF Has, Once
<1> QED
  BY <1>1, <1>2, <1>3 DEF p

(* What a loop has, its first task or the others have. *)
LEMMA LoopTail ==
    ASSUME NEW q \in Seq(Tasks), q # <<>>
    PROVE  /\ Head(q) \in Tasks /\ Tail(q) \in Seq(Tasks)
           /\ \A S : Has(q, S) <=> Head(q) \in S \/ Has(Tail(q), S)
           /\ \A S : Once(q, S) => Once(Tail(q), S)
           /\ \A S : Once(q, S) /\ Head(q) \in S => ~Has(Tail(q), S)
<1> DEFINE p == Tail(q)
<1>1. /\ p \in Seq(Tasks) /\ Len(p) = Len(q) - 1 /\ Len(q) \in Nat \ {0}
      /\ \A i \in 1 .. Len(p) : p[i] = q[i + 1]
      /\ Head(q) = q[1] /\ q[1] \in Tasks
  OBVIOUS
<1> HIDE DEF p
<1>2. \A i \in 1 .. Len(q) : i = 1 \/ (i - 1 \in 1 .. Len(p) /\ q[i] = p[i - 1])
  BY <1>1
<1>3. \A i \in 1 .. Len(p) : i + 1 \in 1 .. Len(q) /\ q[i + 1] = p[i] /\ i + 1 # 1
  BY <1>1
<1>4. ASSUME NEW S
      PROVE  Has(q, S) <=> Head(q) \in S \/ Has(p, S)
  <2>1. Has(q, S) => Head(q) \in S \/ Has(p, S)
    BY <1>1, <1>2 DEF Has
  <2>2. Head(q) \in S => Has(q, S)
    BY <1>1 DEF Has
  <2>3. Has(p, S) => Has(q, S)
    BY <1>3 DEF Has
  <2> QED
    BY <2>1, <2>2, <2>3
<1>5. ASSUME NEW S, Once(q, S)
      PROVE  Once(p, S)
  <2>1. ASSUME NEW i \in 1 .. Len(p), NEW j \in 1 .. Len(p), p[i] \in S, p[j] \in S
        PROVE  i = j
    <3>1. i + 1 = j + 1
      BY <1>3, <1>5, <2>1 DEF Once
    <3> QED
      BY <1>1, <3>1
  <2> QED
    BY <2>1 DEF Once
<1>6. ASSUME NEW S, Once(q, S), Head(q) \in S
      PROVE  ~Has(p, S)
  <2>1. ASSUME NEW i \in 1 .. Len(p), p[i] \in S
        PROVE  FALSE
    BY <1>1, <1>3, <1>6, <2>1 DEF Once
  <2> QED
    BY <2>1 DEF Has
<1> QED
  BY <1>1, <1>4, <1>5, <1>6 DEF p

(* What one more thing dealt adds. *)
LEMMA DealtAppend ==
    ASSUME NEW d \in Seq(Dealt), NEW v \in Dealt
    PROVE  /\ Append(d, v) \in Seq(Dealt)
           /\ Ended(Append(d, v)) <=> Ended(d) \/ v = "close"
           /\ Opened(Append(d, v)) <=> Opened(d) \/ v = "open"
           /\ /\ NoRepeat(d)
              /\ v = "open" => ~Opened(d)
              /\ v = "close" => ~Ended(d)
              => NoRepeat(Append(d, v))
           /\ \A n \in Int : After(d, n - 1) /\ v # "close" => After(Append(d, v), n)
           /\ \A n \in Nat : ~Ended(d) => After(Append(d, v), n)
<1> DEFINE e == Append(d, v)
<1>1. /\ e \in Seq(Dealt) /\ Len(e) = Len(d) + 1 /\ Len(d) \in Nat
      /\ \A i \in 1 .. Len(d) : e[i] = d[i] /\ d[i] \in Dealt
      /\ e[Len(d) + 1] = v
  OBVIOUS
<1> HIDE DEF e
<1>2. /\ Ended(e) <=> Ended(d) \/ v = "close"
      /\ Opened(e) <=> Opened(d) \/ v = "open"
  BY <1>1 DEF Ended, Opened
<1>3. ASSUME NoRepeat(d), v = "open" => ~Opened(d), v = "close" => ~Ended(d)
      PROVE  NoRepeat(e)
  BY <1>1, <1>3 DEF NoRepeat, Opened, Ended, Dealt
<1>4. ASSUME NEW n \in Int, After(d, n - 1), v # "close"
      PROVE  After(e, n)
  <2>1. ASSUME NEW i \in 1 .. Len(e), e[i] = "close"
        PROVE  Len(e) - i <= n
    <3>1. i \in 1 .. Len(d) /\ d[i] = "close"
      BY <1>1, <1>4, <2>1
    <3>2. Len(d) - i <= n - 1
      BY <1>4, <3>1 DEF After
    <3> QED
      BY <1>1, <2>1, <3>1, <3>2
  <2> QED
    BY <2>1 DEF After
<1>5. ASSUME NEW n \in Nat, ~Ended(d)
      PROVE  After(e, n)
  <2>1. ASSUME NEW i \in 1 .. Len(e), e[i] = "close"
        PROVE  Len(e) - i <= n
    <3>1. i = Len(d) + 1
      BY <1>1, <1>5, <2>1 DEF Ended
    <3> QED
      BY <1>1, <3>1
  <2> QED
    BY <2>1 DEF After
<1> QED
  BY <1>1, <1>2, <1>3, <1>4, <1>5 DEF e

(* More things may follow the end when more are allowed to; and where      *)
(* there is no end, any number.                                            *)
LEMMA AfterMore ==
    ASSUME NEW d \in Seq(Dealt)
    PROVE  /\ \A n, m \in Int : n <= m /\ After(d, n) => After(d, m)
           /\ ~Ended(d) => \A n \in Int : After(d, n)
           /\ /\ ~Ended(<<>>) /\ ~Opened(<<>>) /\ NoRepeat(<<>>)
              /\ \A n \in Int : After(<<>>, n)
<1>1. Len(d) \in Nat
  OBVIOUS
<1>2. ASSUME NEW n \in Int, NEW m \in Int, n <= m, After(d, n)
      PROVE  After(d, m)
  <2>1. ASSUME NEW i \in 1 .. Len(d), d[i] = "close"
        PROVE  Len(d) - i <= m
    <3>1. Len(d) - i <= n
      BY <1>2, <2>1 DEF After
    <3> QED
      BY <1>1, <1>2, <3>1
  <2> QED
    BY <2>1 DEF After
<1>3. ~Ended(d) => \A n \in Int : After(d, n)
  BY DEF Ended, After
<1>4. Len(<<>>) = 0
  OBVIOUS
<1>5. /\ ~Ended(<<>>) /\ ~Opened(<<>>) /\ NoRepeat(<<>>)
      /\ \A n \in Int : After(<<>>, n)
  BY <1>4 DEF Ended, Opened, NoRepeat, After
<1> QED
  BY <1>2, <1>3, <1>5

(* Whose task a task is. *)
LEMMA TaskKinds ==
    /\ \A f \in Funs, s \in Sessions :
          /\ Task(f, s) \in Tasks /\ Task(f, s).f = f /\ Task(f, s).s = s
          /\ \A r : Task(f, s) \in Of(r) <=> s = r
          /\ \A g, r : Task(f, s) \in T(g, r) <=> f = g /\ s = r
          /\ \A r : Task(f, s) \in Reads(r) <=>
                       /\ s = r
                       /\ f \in {"do_read_head_len", "on_read_complete", "on_read_error"}
    /\ \A t \in Tasks : t = Task(t.f, t.s) /\ t.f \in Funs /\ t.s \in Sessions
    /\ \A f \in Funs, r \in Sessions : T(f, r) \subseteq Of(r)
    /\ \A r \in Sessions : Reads(r) \subseteq Of(r)
<1>1. ASSUME NEW f \in Funs, NEW s \in Sessions
      PROVE  /\ Task(f, s) \in Tasks /\ Task(f, s).f = f /\ Task(f, s).s = s
             /\ \A r : Task(f, s) \in Of(r) <=> s = r
             /\ \A g, r : Task(f, s) \in T(g, r) <=> f = g /\ s = r
             /\ \A r : Task(f, s) \in Reads(r) <=>
                          /\ s = r
                          /\ f \in {"do_read_head_len", "on_read_complete", "on_read_error"}
  BY DEF Task, Tasks, Of, T, Reads
<1>2. ASSUME NEW t \in Tasks
      PROVE  t = Task(t.f, t.s) /\ t.f \in Funs /\ t.s \in Sessions
  BY DEF Tasks, Task
<1>3. \A f \in Funs, r \in Sessions : T(f, r) \subseteq Of(r)
  BY <1>1 DEF T
<1>4. \A r \in Sessions : Reads(r) \subseteq Of(r)
  BY <1>1 DEF Reads, Funs
<1> QED
  BY <1>1, <1>2, <1>3, <1>4

(* m_session_all as a function. *)
LEMMA NumberedIs ==
    /\ \A D \in SUBSET Nat : \A f \in [D -> Sessions] : f \in Numbered
    /\ \A f \in Numbered : DOMAIN f \subseteq Nat /\ f \in [DOMAIN f -> Sessions]
  BY DEF Numbered

-----------------------------------------------------------------------------
(***************************************************************************)
(* What a call about one session leaves alone: another session r; and      *)
(* what every call does, but for the acceptance of a session.              *)
(***************************************************************************)
Same(x, y, r) ==
    /\ r \in y.open <=> r \in x.open
    /\ r \in y.reading <=> r \in x.reading
    /\ r \in y.started <=> r \in x.started
    /\ r \in y.rejected <=> r \in x.rejected
    /\ y.dealt[r] = x.dealt[r]
    /\ Entry(y, r) <=> Entry(x, r)
    /\ \A l \in Loops : \A S \in SUBSET Of(r) :
          /\ Has(y.q[l], S) <=> Has(x.q[l], S)
          /\ Once(x.q[l], S) => Once(y.q[l], S)

Step(x, y, s) ==
    /\ Table(y)
    /\ \A r \in Sessions \ {s} : Same(x, y, r)
    /\ x.started \subseteq y.started /\ y.open \subseteq x.open
    /\ y.broken = x.broken

(* One call after another. *)
LEMMA StepTwice ==
    ASSUME NEW x, NEW y, NEW z, NEW s, Step(x, y, s), Step(y, z, s)
    PROVE  Step(x, z, s)
<1>1. ASSUME NEW r \in Sessions \ {s}
      PROVE  Same(x, z, r)
  <2>1. Same(x, y, r) /\ Same(y, z, r)
    BY DEF Step
  <2> QED
    BY <2>1 DEF Same
<1> QED
  BY <1>1 DEF Step

(* A session that is left alone is kept as it was. *)
LEMMA Frame ==
    ASSUME NEW x, NEW y, NEW lp, NEW st, NEW lp2, NEW st2, NEW r \in Sessions,
           Manager \in Loops,
           Kept(x, lp, st, r), Same(x, y, r), lp2[r] = lp[r], st2 = r <=> st = r,
           lp[r] \in Loops \cup {NoLoop}
    PROVE  Kept(y, lp2, st2, r)
<1>1. \A f \in Funs : T(f, r) \in SUBSET Of(r)
  BY TaskKinds
<1>2. Reads(r) \in SUBSET Of(r)
  BY TaskKinds
<1>3. \A l \in Loops : /\ \A f \in Funs : /\ Has(y.q[l], T(f, r)) <=> Has(x.q[l], T(f, r))
                                          /\ Once(x.q[l], T(f, r)) => Once(y.q[l], T(f, r))
                       /\ Has(y.q[l], Reads(r)) <=> Has(x.q[l], Reads(r))
                       /\ Once(x.q[l], Reads(r)) => Once(y.q[l], Reads(r))
  BY <1>1, <1>2 DEF Same
<1>4. /\ "do_add_session" \in Funs /\ "do_close_session" \in Funs /\ "do_close" \in Funs
      /\ "do_check_alive" \in Funs /\ "do_session_open" \in Funs
      /\ "on_read_complete" \in Funs
  BY DEF Funs
<1>5. Waiting(y, lp2, st2, r)
  BY <1>3, <1>4 DEF Kept, Life, Waiting, Same
<1>6. Admitted(y, lp2, st2, r)
  BY DEF Kept, Life, Admitted, Same
<1>7. Told(y, lp2, st2, r)
  <2>1. CASE lp[r] \in Loops
    <3>1. Owed(y, lp2, st2, r) = Owed(x, lp, st, r)
      BY <1>3, <1>4, <2>1 DEF Owed
    <3> QED
      BY <3>1 DEF Kept, Life, Told, Same, Most
  <2>2. CASE lp[r] \notin Loops
    BY <2>2 DEF Kept, Life, Told, Same
  <2> QED
    BY <2>1, <2>2
<1>8. HasEntry(y, r)
  BY DEF Kept, HasEntry, Same
<1>9. OpenHeld(y, lp2, r)
  <2>1. CASE Entry(y, r) /\ r \in y.open
    <3>1. lp[r] \in Loops
      BY <2>1 DEF Kept, Life, Admitted, Same
    <3> QED
      BY <1>3, <2>1, <3>1 DEF Kept, OpenHeld, Same
  <2> QED
    BY <2>1 DEF OpenHeld
<1>10. ClosedHeld(y, r)
  BY <1>3, <1>4 DEF Kept, ClosedHeld, Same
<1> QED
  BY <1>5, <1>6, <1>7, <1>8, <1>9, <1>10 DEF Kept, Life

(* A call that only touches s. *)
LEMMA FrameOthers ==
    ASSUME NEW x, NEW y, NEW lp, NEW st, NEW st2, NEW s \in Sessions,
           Manager \in Loops, lp \in [Sessions -> Loops \cup {NoLoop}],
           Step(x, y, s),
           \A r \in Sessions \ {s} : Kept(x, lp, st, r) /\ (st2 = r <=> st = r),
           Kept(y, lp, st2, s)
    PROVE  \A r \in Sessions : Kept(y, lp, st2, r)
<1>1. ASSUME NEW r \in Sessions, r # s
      PROVE  Kept(y, lp, st2, r)
  <2>1. Same(x, y, r) /\ Kept(x, lp, st, r) /\ (st2 = r <=> st = r)
    BY <1>1 DEF Step
  <2>2. lp[r] \in Loops \cup {NoLoop}
    OBVIOUS
  <2> QED
    BY <2>1, <2>2, Frame
<1> QED
  BY <1>1

-----------------------------------------------------------------------------
(* The table as it was. *)
LEMMA TableAs ==
    ASSUME NEW x, NEW y, Table(x), y \in World, y.all = x.all, y.id = x.id,
           y.current = x.current, x.started \subseteq y.started
    PROVE  Table(y)
  BY DEF Table

(* A session in the table has its entry; no other has that number. *)
LEMMA TableEntry ==
    ASSUME NEW x, Table(x)
    PROVE  /\ IsFiniteSet(DOMAIN x.all) /\ Cardinality(DOMAIN x.all) \in Nat
           /\ x.all \in [DOMAIN x.all -> Sessions] /\ DOMAIN x.all \subseteq 1 .. x.current
           /\ \A s \in Tracked(x) : s \in Sessions /\ s \in x.started /\ Entry(x, s)
           /\ \A s \in Sessions : Entry(x, s) => s \in x.started
<1>1. x.all \in Numbered /\ x.current \in Nat /\ x.id \in [Sessions -> Int]
  BY DEF Table, World
<1>2. DOMAIN x.all \subseteq Nat /\ x.all \in [DOMAIN x.all -> Sessions]
  BY <1>1, NumberedIs
<1>3. \A i \in DOMAIN x.all : x.id[x.all[i]] = i /\ i > 0 /\ i <= x.current /\ x.all[i] \in x.started
  BY <1>2 DEF Table
<1>4. DOMAIN x.all \subseteq 1 .. x.current
  BY <1>1, <1>2, <1>3
<1>5. IsFiniteSet(1 .. x.current)
  BY <1>1, FS_Interval
<1>6. IsFiniteSet(DOMAIN x.all) /\ Cardinality(DOMAIN x.all) \in Nat
  BY <1>4, <1>5, FS_Subset, FS_CardinalityType
<1>7. \A s \in Tracked(x) : s \in Sessions /\ s \in x.started /\ Entry(x, s)
  BY <1>2, <1>3 DEF Tracked, Entry
<1>8. \A s \in Sessions : Entry(x, s) => s \in x.started
  BY <1>3 DEF Entry
<1> QED
  BY <1>2, <1>4, <1>6, <1>7, <1>8

(* A task is posted. *)
LEMMA QueueFields ==
    ASSUME NEW x \in World, NEW l \in Loops, NEW t \in Tasks
    PROVE  LET y == Queue(x, l, t)
           IN  /\ y \in World
               /\ y.open = x.open /\ y.reading = x.reading /\ y.silent = x.silent
               /\ y.id = x.id /\ y.all = x.all /\ y.current = x.current
               /\ y.started = x.started /\ y.rejected = x.rejected
               /\ y.dealt = x.dealt /\ y.broken = x.broken
               /\ \A k \in Loops : \A S :
                     /\ Has(y.q[k], S) <=> Has(x.q[k], S) \/ (k = l /\ t \in S)
                     /\ Once(x.q[k], S) /\ ~(k = l /\ t \in S /\ Has(x.q[k], S))
                           => Once(y.q[k], S)
<1> DEFINE p == Append(x.q[l], t)
           y == [x EXCEPT !.q = [x.q EXCEPT ![l] = p]]
<1>1. x.q \in [Loops -> Seq(Tasks)] /\ x.q[l] \in Seq(Tasks)
  BY DEF World
<1>2. /\ p \in Seq(Tasks)
      /\ \A S : Has(p, S) <=> Has(x.q[l], S) \/ t \in S
      /\ \A S : Once(x.q[l], S) /\ ~(Has(x.q[l], S) /\ t \in S) => Once(p, S)
  BY <1>1, LoopAppend
<1>3. Queue(x, l, t) = y
  BY DEF Queue, World
<1> HIDE DEF p
<1>4. [x.q EXCEPT ![l] = p] \in [Loops -> Seq(Tasks)]
  BY <1>1, <1>2
<1>5. /\ y \in World
      /\ y.open = x.open /\ y.reading = x.reading /\ y.silent = x.silent
      /\ y.id = x.id /\ y.all = x.all /\ y.current = x.current
      /\ y.started = x.started /\ y.rejected = x.rejected
      /\ y.dealt = x.dealt /\ y.broken = x.broken
      /\ y.q = [x.q EXCEPT ![l] = p]
  BY <1>4 DEF World
<1> HIDE DEF y
<1>6. \A k \in Loops : y.q[k] = IF k = l THEN p ELSE x.q[k]
  BY <1>1, <1>5
<1>7. \A k \in Loops : \A S :
          /\ Has(y.q[k], S) <=> Has(x.q[k], S) \/ (k = l /\ t \in S)
          /\ Once(x.q[k], S) /\ ~(k = l /\ t \in S /\ Has(x.q[k], S)) => Once(y.q[k], S)
  BY <1>2, <1>6
<1> QED
  BY <1>3, <1>5, <1>7

(* A task is posted for s: the table and the other sessions. *)
LEMMA QueueStep ==
    ASSUME NEW x, Table(x), NEW l \in Loops, NEW s \in Sessions, NEW f \in Funs
    PROVE  Step(x, Queue(x, l, Task(f, s)), s)
<1> DEFINE t == Task(f, s)
           y == Queue(x, l, t)
<1>1. x \in World /\ t \in Tasks
  BY TaskKinds DEF Table
<1>6. \A r : t \in Of(r) <=> s = r
  BY TaskKinds
<1> HIDE DEF t
<1>2. /\ y \in World
      /\ y.open = x.open /\ y.reading = x.reading /\ y.silent = x.silent
      /\ y.id = x.id /\ y.all = x.all /\ y.current = x.current
      /\ y.started = x.started /\ y.rejected = x.rejected
      /\ y.dealt = x.dealt /\ y.broken = x.broken
      /\ \A k \in Loops : \A S :
            /\ Has(y.q[k], S) <=> Has(x.q[k], S) \/ (k = l /\ t \in S)
            /\ Once(x.q[k], S) /\ ~(k = l /\ t \in S /\ Has(x.q[k], S))
                  => Once(y.q[k], S)
  BY <1>1, QueueFields
<1> HIDE DEF y
<1>3. Table(y)
  BY <1>2, TableAs
<1>4. ASSUME NEW r \in Sessions \ {s}
      PROVE  Same(x, y, r)
  <2>1. \A S \in SUBSET Of(r) : t \notin S
    BY <1>6
  <2> QED
    BY <1>2, <2>1 DEF Same, Entry
<1>5. Step(x, y, s)
  BY <1>2, <1>3, <1>4 DEF Step
<1> QED
  BY <1>5 DEF y, t

(* The dealer is given v. *)
LEMMA DealFields ==
    ASSUME NEW x \in World, NEW s \in Sessions, NEW v \in Dealt
    PROVE  LET y == Deal(x, s, v)
           IN  /\ y \in World
               /\ y.open = x.open /\ y.reading = x.reading /\ y.silent = x.silent
               /\ y.id = x.id /\ y.all = x.all /\ y.current = x.current
               /\ y.started = x.started /\ y.rejected = x.rejected
               /\ y.q = x.q /\ y.broken = x.broken
               /\ y.dealt[s] = Append(x.dealt[s], v)
               /\ \A r \in Sessions \ {s} : y.dealt[r] = x.dealt[r]
<1> DEFINE d == Append(x.dealt[s], v)
           y == [x EXCEPT !.dealt = [x.dealt EXCEPT ![s] = d]]
<1>1. x.dealt \in [Sessions -> Seq(Dealt)] /\ x.dealt[s] \in Seq(Dealt)
  BY DEF World
<1>2. d \in Seq(Dealt)
  BY <1>1, DealtAppend
<1>3. Deal(x, s, v) = y
  BY DEF Deal, World
<1> HIDE DEF d
<1>4. [x.dealt EXCEPT ![s] = d] \in [Sessions -> Seq(Dealt)]
  BY <1>1, <1>2
<1>5. /\ y \in World
      /\ y.open = x.open /\ y.reading = x.reading /\ y.silent = x.silent
      /\ y.id = x.id /\ y.all = x.all /\ y.current = x.current
      /\ y.started = x.started /\ y.rejected = x.rejected
      /\ y.q = x.q /\ y.broken = x.broken
      /\ y.dealt = [x.dealt EXCEPT ![s] = d]
  BY <1>4 DEF World
<1> HIDE DEF y
<1>6. y.dealt[s] = d /\ \A r \in Sessions \ {s} : y.dealt[r] = x.dealt[r]
  BY <1>1, <1>5
<1> QED
  BY <1>3, <1>5, <1>6 DEF d

(* The dealer is given v about s: the table and the other sessions. *)
LEMMA DealStep ==
    ASSUME NEW x, Table(x), NEW s \in Sessions, NEW v \in Dealt
    PROVE  Step(x, Deal(x, s, v), s)
<1> DEFINE y == Deal(x, s, v)
<1>1. x \in World
  BY DEF Table
<1>2. /\ y \in World
      /\ y.open = x.open /\ y.reading = x.reading /\ y.silent = x.silent
      /\ y.id = x.id /\ y.all = x.all /\ y.current = x.current
      /\ y.started = x.started /\ y.rejected = x.rejected
      /\ y.q = x.q /\ y.broken = x.broken
      /\ \A r \in Sessions \ {s} : y.dealt[r] = x.dealt[r]
  BY <1>1, DealFields
<1> HIDE DEF y
<1>3. Table(y)
  BY <1>2, TableAs
<1>4. Step(x, y, s)
  BY <1>2, <1>3 DEF Step, Same, Entry
<1> QED
  BY <1>4 DEF y

-----------------------------------------------------------------------------
(* The life of s depends on neither the table nor the other sessions. *)
LEMMA LifeAs ==
    ASSUME NEW x, NEW y, NEW lp, NEW st, NEW s \in Sessions, Life(x, lp, st, s),
           y.q = x.q, s \in y.open <=> s \in x.open, s \in y.reading <=> s \in x.reading,
           s \in y.started <=> s \in x.started, s \in y.rejected <=> s \in x.rejected,
           y.dealt[s] = x.dealt[s]
    PROVE  Life(y, lp, st, s)
<1>1. Waiting(y, lp, st, s)
  BY DEF Life, Waiting
<1>2. Admitted(y, lp, st, s)
  BY DEF Life, Admitted
<1>3. Told(y, lp, st, s)
  BY DEF Life, Told, Owed
<1> QED
  BY <1>1, <1>2, <1>3 DEF Life

(* No more is owed than may follow the end. *)
LEMMA OwedBound ==
    ASSUME NEW x, NEW lp, NEW st, NEW s \in Sessions, Life(x, lp, st, s), lp[s] \in Loops
    PROVE  /\ Owed(x, lp, st, s) \in {0, 1, 2}
           /\ Most(lp, s) - Owed(x, lp, st, s) \in Nat
<1>1. Owed(x, lp, st, s) \in {0, 1, 2}
  BY DEF Owed
<1>2. CASE lp[s] = Manager
  <2>1. st # s /\ ~Has(x.q[lp[s]], T("do_session_open", s))
    BY <1>2 DEF Life, Waiting, Admitted
  <2> QED
    BY <1>1, <1>2, <2>1 DEF Owed, Most
<1>3. CASE lp[s] # Manager
  BY <1>1, <1>3 DEF Most
<1> QED
  BY <1>1, <1>2, <1>3

(***************************************************************************)
(* When a task of s may be posted, a thing dealt.                          *)
(***************************************************************************)
Spare(x, lp, st, s) == After(x.dealt[s], Most(lp, s) - Owed(x, lp, st, s) - 1)

MayPost(x, lp, st, l, f, s) ==
    /\ f = "do_add_session" =>
          /\ l = Manager /\ s \in x.open /\ s \notin x.started /\ s \notin x.rejected
          /\ x.dealt[s] = <<>> /\ ~Has(x.q[l], T(f, s))
    /\ f = "do_close_session" =>
          l = Manager /\ s \notin x.open /\ (s \in x.started \/ s \in x.rejected)
    /\ f = "do_close" => l = lp[s] /\ s \in x.rejected
    /\ f = "do_check_alive" => l = lp[s] /\ s \in x.started
    /\ f \in {"do_read_head_len", "on_read_complete", "on_read_error"} =>
          l = lp[s] /\ s \in x.started /\ s \notin x.reading /\ ~Has(x.q[l], Reads(s))
    /\ f = "do_session_open" =>
          /\ l = lp[s] /\ l # Manager /\ s \in x.started /\ st # s
          /\ ~Opened(x.dealt[s]) /\ ~Has(x.q[l], T(f, s))
    /\ f \in {"on_read_complete", "do_session_open"} => Spare(x, lp, st, s)

MayDeal(x, lp, st, v, s) ==
    /\ s \in x.started \/ s \in x.rejected
    /\ v = "close" => ~Ended(x.dealt[s]) /\ s \notin x.open
    /\ v # "close" => s \in x.started /\ Spare(x, lp, st, s)
    /\ v = "open" => /\ ~Opened(x.dealt[s]) /\ st # s
                     /\ \A l \in Loops : ~Has(x.q[l], T("do_session_open", s))

(* A task of s is posted. *)
LEMMA Posted ==
    ASSUME NEW x, Table(x), NEW lp, NEW st, NEW s \in Sessions, NEW l \in Loops, NEW f \in Funs,
           lp[s] \in Loops, Life(x, lp, st, s), MayPost(x, lp, st, l, f, s)
    PROVE  LET y == Queue(x, l, Task(f, s))
           IN  /\ Step(x, y, s) /\ Life(y, lp, st, s)
               /\ HasEntry(x, s) => HasEntry(y, s)
               /\ OpenHeld(x, lp, s) => OpenHeld(y, lp, s)
               /\ ClosedHeld(x, s) => ClosedHeld(y, s)
               /\ \A k \in Loops : \A S :
                     Has(y.q[k], S) <=> Has(x.q[k], S) \/ (k = l /\ Task(f, s) \in S)
               /\ y.open = x.open /\ y.reading = x.reading /\ y.all = x.all
               /\ y.started = x.started /\ y.dealt = x.dealt
<1> DEFINE t == Task(f, s)
           y == Queue(x, l, t)
<1>1. x \in World /\ t \in Tasks
  BY TaskKinds DEF Table
<1>2. /\ \A g : t \in T(g, s) <=> f = g
      /\ t \in Reads(s) <=> f \in {"do_read_head_len", "on_read_complete", "on_read_error"}
  BY TaskKinds
<1>3. Step(x, y, s)
  BY QueueStep
<1>4. x.dealt[s] \in Seq(Dealt)
  BY <1>1 DEF World
<1> HIDE DEF t
<1>5. /\ y \in World
      /\ y.open = x.open /\ y.reading = x.reading /\ y.silent = x.silent
      /\ y.id = x.id /\ y.all = x.all /\ y.current = x.current
      /\ y.started = x.started /\ y.rejected = x.rejected
      /\ y.dealt = x.dealt /\ y.broken = x.broken
      /\ \A k \in Loops : \A S :
            /\ Has(y.q[k], S) <=> Has(x.q[k], S) \/ (k = l /\ t \in S)
            /\ Once(x.q[k], S) /\ ~(k = l /\ t \in S /\ Has(x.q[k], S)) => Once(y.q[k], S)
  BY <1>1, QueueFields
<1> HIDE DEF y
<1>6. \A k \in Loops :
          /\ \A g : /\ Has(y.q[k], T(g, s)) <=> Has(x.q[k], T(g, s)) \/ (k = l /\ f = g)
                    /\ Once(x.q[k], T(g, s)) /\ ~(k = l /\ f = g /\ Has(x.q[k], T(g, s)))
                          => Once(y.q[k], T(g, s))
          /\ Has(y.q[k], Reads(s)) <=> \/ Has(x.q[k], Reads(s))
                                       \/ k = l /\ t \in Reads(s)
          /\ Once(x.q[k], Reads(s)) /\ ~(k = l /\ t \in Reads(s) /\ Has(x.q[k], Reads(s)))
                => Once(y.q[k], Reads(s))
  BY <1>2, <1>5
<1>7. Waiting(y, lp, st, s)
  <2>1. Waiting(x, lp, st, s)
    BY DEF Life
  <2>2. ASSUME NEW k \in Loops
        PROVE  /\ Has(y.q[k], T("do_add_session", s)) =>
                     /\ k = Manager /\ lp[s] \in Loops
                     /\ s \in y.open /\ s \notin y.started /\ s \notin y.rejected
                     /\ y.dealt[s] = <<>>
               /\ Has(y.q[k], T("do_close_session", s)) =>
                     k = Manager /\ s \notin y.open /\ (s \in y.started \/ s \in y.rejected)
               /\ Has(y.q[k], T("do_close", s)) => k = lp[s] /\ s \in y.rejected
               /\ Has(y.q[k], T("do_check_alive", s)) => k = lp[s] /\ s \in y.started
               /\ Has(y.q[k], Reads(s)) => k = lp[s] /\ s \in y.started /\ s \notin y.reading
               /\ Has(y.q[k], T("do_session_open", s)) =>
                     /\ k = lp[s] /\ k # Manager /\ s \in y.started /\ st # s
                     /\ ~Opened(y.dealt[s])
    BY <1>2, <1>5, <1>6, <2>1 DEF Waiting, MayPost
  <2>3. ASSUME NEW k \in Loops
        PROVE  /\ Once(y.q[k], T("do_add_session", s))
               /\ Once(y.q[k], Reads(s))
               /\ Once(y.q[k], T("do_session_open", s))
    BY <1>2, <1>6, <2>1 DEF Waiting, MayPost
  <2> QED
    BY <2>2, <2>3 DEF Waiting
<1>8. Admitted(y, lp, st, s)
  BY <1>5 DEF Life, Admitted
<1>9. Told(y, lp, st, s)
  <2>1. Told(x, lp, st, s)
    BY DEF Life
  <2>2. CASE f \notin {"on_read_complete", "do_session_open"}
    <3>1. Owed(y, lp, st, s) = Owed(x, lp, st, s)
      BY <1>6, <2>2 DEF Owed
    <3> QED
      BY <1>5, <2>1, <3>1 DEF Told
  <2>3. CASE f \in {"on_read_complete", "do_session_open"}
    <3>1. Owed(x, lp, st, s) \in Int /\ Owed(y, lp, st, s) \in Int /\ Most(lp, s) \in Int
      BY DEF Owed, Most
    <3>2. Owed(y, lp, st, s) <= Owed(x, lp, st, s) + 1
      BY <1>6, <2>3 DEF Owed
    <3>3. Spare(x, lp, st, s)
      BY <2>3 DEF MayPost
    <3>4. After(x.dealt[s], Most(lp, s) - Owed(y, lp, st, s))
      <4> DEFINE a == Most(lp, s) - Owed(x, lp, st, s) - 1
                 b == Most(lp, s) - Owed(y, lp, st, s)
      <4>1. a \in Int /\ b \in Int /\ a <= b
        BY <3>1, <3>2
      <4>2. After(x.dealt[s], a)
        BY <3>3 DEF Spare
      <4> HIDE DEF a, b
      <4>3. After(x.dealt[s], b)
        BY <1>4, <4>1, <4>2, AfterMore
      <4> QED
        BY <4>3 DEF b
    <3> QED
      BY <1>5, <2>1, <3>4 DEF Told
  <2> QED
    BY <2>2, <2>3
<1>10. Manager \in Loops
  BY ManagerAssumption DEF Manager, Loops
<1>11. /\ HasEntry(x, s) => HasEntry(y, s)
       /\ OpenHeld(x, lp, s) => OpenHeld(y, lp, s)
       /\ ClosedHeld(x, s) => ClosedHeld(y, s)
  BY <1>5, <1>6, <1>10 DEF HasEntry, OpenHeld, ClosedHeld, Entry
<1> QED
  BY <1>3, <1>5, <1>7, <1>8, <1>9, <1>11 DEF Life, y, t

(* The dealer is told of s. *)
LEMMA DealerTold ==
    ASSUME NEW x, Table(x), NEW lp, NEW st, NEW s \in Sessions, NEW v \in Dealt,
           lp[s] \in Loops, NoLoop \notin Loops, Life(x, lp, st, s), MayDeal(x, lp, st, v, s)
    PROVE  LET y == Deal(x, s, v)
           IN  /\ Step(x, y, s) /\ Life(y, lp, st, s)
               /\ HasEntry(x, s) => HasEntry(y, s)
               /\ OpenHeld(x, lp, s) => OpenHeld(y, lp, s)
               /\ ClosedHeld(x, s) => ClosedHeld(y, s)
               /\ y.open = x.open /\ y.reading = x.reading /\ y.q = x.q
               /\ y.started = x.started /\ y.all = x.all
<1> DEFINE y == Deal(x, s, v)
           d == x.dealt[s]
           e == Append(d, v)
<1>1. x \in World /\ d \in Seq(Dealt)
  BY DEF Table, World
<1>2. Step(x, y, s)
  BY DealStep
<1>3. /\ y \in World
      /\ y.open = x.open /\ y.reading = x.reading /\ y.silent = x.silent
      /\ y.id = x.id /\ y.all = x.all /\ y.current = x.current
      /\ y.started = x.started /\ y.rejected = x.rejected
      /\ y.q = x.q /\ y.broken = x.broken
      /\ y.dealt[s] = e
  BY <1>1, DealFields
<1>4. /\ Ended(e) <=> Ended(d) \/ v = "close"
      /\ Opened(e) <=> Opened(d) \/ v = "open"
      /\ /\ NoRepeat(d)
         /\ v = "open" => ~Opened(d)
         /\ v = "close" => ~Ended(d)
         => NoRepeat(e)
      /\ \A n \in Int : After(d, n - 1) /\ v # "close" => After(e, n)
      /\ \A n \in Nat : ~Ended(d) => After(e, n)
  BY <1>1, DealtAppend
<1>5. /\ Most(lp, s) - Owed(x, lp, st, s) \in Nat
      /\ Owed(y, lp, st, s) = Owed(x, lp, st, s)
  <2>1. Owed(y, lp, st, s) = Owed(x, lp, st, s)
    BY <1>3 DEF Owed
  <2> QED
    BY <2>1, OwedBound
<1>6. /\ d = <<>> /\ v = "close" => e = <<"close">>
      /\ Ended(<<"close">>)
  <2>1. Append(<<>>, "close") = <<"close">>
    OBVIOUS
  <2>2. Len(<<"close">>) = 1 /\ <<"close">>[1] = "close"
    OBVIOUS
  <2>3. \E i \in 1 .. Len(<<"close">>) : <<"close">>[i] = "close"
    <3> DEFINE c == <<"close">>
    <3>1. Len(c) = 1 /\ c[1] = "close"
      BY <2>2
    <3> HIDE DEF c
    <3>2. \E i \in 1 .. Len(c) : c[i] = "close"
      BY <3>1
    <3> QED
      BY <3>2 DEF c
  <2> QED
    BY <2>1, <2>3 DEF Ended
<1> HIDE DEF y, e
<1>7. Waiting(y, lp, st, s)
  BY <1>3, <1>4 DEF Life, Waiting, MayDeal
<1>8. Admitted(y, lp, st, s)
  <2>1. s \in x.rejected => v = "close" /\ d = <<>>
    BY <1>6 DEF MayDeal, Life, Admitted
  <2>2. s \in y.rejected => y.dealt[s] \in {<<>>, <<"close">>}
    BY <1>3, <1>6, <2>1
  <2>3. /\ st = s => s \in y.started /\ lp[s] # Manager /\ ~Opened(y.dealt[s])
        /\ s \notin y.started => ~Opened(y.dealt[s])
    BY <1>3, <1>4 DEF Life, Admitted, MayDeal
  <2> QED
    BY <1>3, <2>2, <2>3 DEF Life, Admitted
<1>9. Told(y, lp, st, s)
  <2>1. s \in y.open => ~Ended(y.dealt[s])
    BY <1>3, <1>4 DEF Life, Told, MayDeal
  <2>2. NoRepeat(y.dealt[s])
    BY <1>3, <1>4 DEF Life, Told, MayDeal
  <2>3. After(e, Most(lp, s) - Owed(x, lp, st, s))
    <3> DEFINE n == Most(lp, s) - Owed(x, lp, st, s)
    <3>1. v # "close" => After(d, n - 1)
      BY DEF MayDeal, Spare
    <3>2. v = "close" => ~Ended(d)
      BY DEF MayDeal
    <3>3. n \in Nat /\ n \in Int
      BY <1>5
    <3> HIDE DEF n
    <3>4. After(e, n)
      BY <1>4, <3>1, <3>2, <3>3
    <3> QED
      BY <3>4 DEF n
  <2> QED
    BY <1>3, <1>5, <2>1, <2>2, <2>3 DEF Told
<1>10. /\ HasEntry(x, s) => HasEntry(y, s)
       /\ OpenHeld(x, lp, s) => OpenHeld(y, lp, s)
       /\ ClosedHeld(x, s) => ClosedHeld(y, s)
  BY <1>3 DEF HasEntry, OpenHeld, ClosedHeld, Entry
<1> QED
  BY <1>2, <1>3, <1>7, <1>8, <1>9, <1>10 DEF Life, y

-----------------------------------------------------------------------------
(* do_close_session: the entry of a session that ended is erased. *)
LEMMA CloseSession ==
    ASSUME NEW x, Table(x), NEW lp, NEW st, NEW s \in Sessions,
           Life(x, lp, st, s), s \notin x.open
    PROVE  LET y == do_close_session(x, s)
           IN  /\ Step(x, y, s) /\ Kept(y, lp, st, s)
               /\ y.open = x.open /\ y.reading = x.reading /\ y.q = x.q
               /\ y.started = x.started /\ y.rejected = x.rejected /\ y.dealt = x.dealt
<1> DEFINE D == DOMAIN x.all \ {x.id[s]}
           a == [i \in D |-> x.all[i]]
           y == [x EXCEPT !.all = a, !.id = [x.id EXCEPT ![s] = -1]]
<1>1. /\ x \in World /\ x.id \in [Sessions -> Int] /\ x.current \in Nat
      /\ x.all \in [DOMAIN x.all -> Sessions] /\ DOMAIN x.all \subseteq 1 .. x.current
      /\ IsFiniteSet(DOMAIN x.all) /\ Cardinality(DOMAIN x.all) \in Nat
  BY TableEntry DEF Table, World
<1>2. do_close_session(x, s) = y
  BY <1>1 DEF do_close_session, Restrict, World
<1>3. D \in SUBSET Nat /\ D \subseteq DOMAIN x.all /\ a \in [D -> Sessions] /\ DOMAIN a = D
  BY <1>1
<1>4. a \in Numbered
  BY <1>3, NumberedIs
<1>5. [x.id EXCEPT ![s] = -1] \in [Sessions -> Int]
  BY <1>1
<1>6. \A i \in D : a[i] = x.all[i]
  OBVIOUS
<1>7. Cardinality(D) <= Cardinality(DOMAIN x.all) /\ Cardinality(D) \in Nat
  BY <1>1, <1>3, FS_Subset, FS_CardinalityType
<1> HIDE DEF a
<1>8. /\ y \in World
      /\ y.open = x.open /\ y.reading = x.reading /\ y.q = x.q
      /\ y.started = x.started /\ y.rejected = x.rejected /\ y.dealt = x.dealt
      /\ y.current = x.current /\ y.broken = x.broken
      /\ y.all = a /\ y.id = [x.id EXCEPT ![s] = -1]
  BY <1>1, <1>4, <1>5 DEF World
<1> HIDE DEF y
<1>9. y.id[s] = -1 /\ \A r \in Sessions \ {s} : y.id[r] = x.id[r]
  BY <1>1, <1>8
<1>10. /\ \A r \in Sessions : x.id[r] <= x.current
       /\ \A r, t \in Sessions : x.id[r] = x.id[t] /\ x.id[r] > 0 => r = t
       /\ \A i \in DOMAIN x.all : x.id[x.all[i]] = i /\ i > 0 /\ x.all[i] \in x.started
       /\ Cardinality(DOMAIN x.all) <= server.m_max_session_count
       /\ server.m_max_session_count \in Nat
  BY DEF Table
<1>11. Table(y)
  <2>1. \A r \in Sessions : y.id[r] <= y.current
    BY <1>1, <1>8, <1>9, <1>10
  <2>2. \A r, t \in Sessions : y.id[r] = y.id[t] /\ y.id[r] > 0 => r = t
    BY <1>1, <1>9, <1>10
  <2>3. \A i \in DOMAIN y.all : y.id[y.all[i]] = i /\ i > 0 /\ y.all[i] \in y.started
    <3>1. ASSUME NEW i \in D
          PROVE  y.id[a[i]] = i /\ i > 0 /\ a[i] \in y.started
      <4>1. x.all[i] # s /\ x.all[i] \in Sessions
        BY <1>1, <1>3, <1>10
      <4> QED
        BY <1>3, <1>6, <1>8, <1>9, <1>10, <4>1
    <3> QED
      BY <1>3, <1>8, <3>1
  <2>4. Cardinality(DOMAIN y.all) <= server.m_max_session_count
    BY <1>1, <1>3, <1>7, <1>8, <1>10
  <2> QED
    BY <1>8, <1>10, <2>1, <2>2, <2>3, <2>4 DEF Table
<1>12. ASSUME NEW r \in Sessions \ {s}
       PROVE  Entry(y, r) <=> Entry(x, r)
  <2>1. x.id[r] \in DOMAIN x.all => x.id[r] # x.id[s]
    BY <1>1, <1>10
  <2>2. x.id[r] \in DOMAIN y.all <=> x.id[r] \in DOMAIN x.all
    BY <1>3, <1>8, <2>1
  <2>3. x.id[r] \in DOMAIN y.all => y.all[x.id[r]] = x.all[x.id[r]]
    BY <1>3, <1>6, <1>8
  <2> QED
    BY <1>9, <2>2, <2>3 DEF Entry
<1>13. Step(x, y, s)
  BY <1>8, <1>11, <1>12 DEF Step, Same
<1>14. ~Entry(y, s)
  BY <1>1, <1>3, <1>8, <1>9 DEF Entry
<1>15. Life(y, lp, st, s)
  BY <1>8, LifeAs
<1>16. Kept(y, lp, st, s)
  BY <1>8, <1>14, <1>15 DEF Kept, HasEntry, OpenHeld, ClosedHeld
<1> QED
  BY <1>2, <1>8, <1>13, <1>16

(* TcpSession::do_close, of a session do_add_session has seen. *)
LEMMA DoClose ==
    ASSUME NEW x, Table(x), NEW st, NEW s \in Sessions, loop[s] \in Loops,
           NoLoop \notin Loops, Manager \in Loops,
           Life(x, loop, st, s), ClosedHeld(x, s), s \in x.started \/ s \in x.rejected
    PROVE  /\ Step(x, do_close(x, s), s) /\ Kept(do_close(x, s), loop, st, s)
           /\ s \notin do_close(x, s).open
           /\ s \notin x.open => do_close(x, s) = x
<1>1. CASE s \notin x.open
  <2>1. do_close(x, s) = x
    BY <1>1 DEF do_close
  <2>2. Step(x, x, s)
    BY DEF Step, Same
  <2>3. Kept(x, loop, st, s)
    BY <1>1 DEF Kept, HasEntry, OpenHeld
  <2> QED
    BY <1>1, <2>1, <2>2, <2>3
<1>2. CASE s \in x.open
  <2> DEFINE y == [x EXCEPT !.open = @ \ {s}, !.reading = @ \ {s}]
             z == close_session(y, s, loop[s])
             u == Deal(z, s, "close")
  <2>1. do_close(x, s) = u
    BY <1>2 DEF do_close
  <2>2. x \in World
    BY DEF Table
  <2>3. /\ y \in World /\ y.open = x.open \ {s} /\ y.reading = x.reading \ {s}
        /\ y.q = x.q /\ y.id = x.id /\ y.all = x.all /\ y.current = x.current
        /\ y.started = x.started /\ y.rejected = x.rejected
        /\ y.dealt = x.dealt /\ y.broken = x.broken
    <3>1. x.open \ {s} \in SUBSET Sessions /\ x.reading \ {s} \in SUBSET Sessions
      BY <2>2 DEF World
    <3> QED
      BY <2>2, <3>1 DEF World
  <2> HIDE DEF y
  <2>4. Table(y)
    BY <2>3, TableAs
  <2>5. Step(x, y, s)
    BY <2>3, <2>4 DEF Step, Same, Entry
  <2>6. ~Ended(x.dealt[s])
    BY <1>2 DEF Life, Told
  <2>7. Life(y, loop, st, s)
    <3>1. Waiting(y, loop, st, s)
      BY <2>3 DEF Life, Waiting
    <3>2. Admitted(y, loop, st, s)
      BY <2>3 DEF Life, Admitted
    <3>3. Told(y, loop, st, s)
      BY <2>3 DEF Life, Told, Owed
    <3> QED
      BY <3>1, <3>2, <3>3 DEF Life
  <2>8. /\ Step(y, z, s) /\ Kept(z, loop, st, s) /\ z.open = y.open
        /\ z.dealt = y.dealt /\ z.started = y.started /\ z.rejected = y.rejected
    <3>1. CASE loop[s] = Manager
      <4>1. z = do_close_session(y, s)
        BY <3>1 DEF close_session
      <4>2. s \notin y.open
        BY <2>3
      <4> HIDE DEF z
      <4> QED
        BY <2>4, <2>7, <4>1, <4>2, CloseSession
    <3>2. CASE loop[s] # Manager
      <4> DEFINE f == "do_close_session"
      <4>1. z = Queue(y, Manager, Task(f, s)) /\ f \in Funs
        BY <3>2 DEF close_session, Funs
      <4>2. MayPost(y, loop, st, Manager, f, s)
        BY <2>3 DEF MayPost
      <4>3. y \in World /\ Task(f, s) \in Tasks /\ Task(f, s) \in T(f, s)
        BY <2>3, <4>1, TaskKinds
      <4> HIDE DEF z, f
      <4>4. /\ Step(y, z, s) /\ Life(z, loop, st, s) /\ z.open = y.open /\ z.dealt = y.dealt
            /\ z.started = y.started
        BY <2>4, <2>7, <4>1, <4>2, Posted
      <4>5. \A k \in Loops : \A S :
               Has(z.q[k], S) <=> Has(y.q[k], S) \/ (k = Manager /\ Task(f, s) \in S)
        BY <2>4, <2>7, <4>1, <4>2, Posted
      <4>6. z.rejected = y.rejected
        BY <4>1, <4>3, QueueFields
      <4>7. Has(z.q[Manager], T(f, s))
        BY <4>3, <4>5
      <4>8. s \notin z.open
        BY <2>3, <4>4
      <4>9. Kept(z, loop, st, s)
        BY <4>4, <4>7, <4>8 DEF Kept, HasEntry, OpenHeld, ClosedHeld, f
      <4> QED
        BY <4>4, <4>6, <4>9
    <3> QED
      BY <3>1, <3>2
  <2> HIDE DEF z
  <2>9. /\ Step(z, u, s) /\ Kept(u, loop, st, s) /\ u.open = z.open
    <3>1. MayDeal(z, loop, st, "close", s) /\ "close" \in Dealt
      BY <2>3, <2>6, <2>8 DEF MayDeal, Dealt
    <3>2. Table(z) /\ Life(z, loop, st, s)
      BY <2>8 DEF Step, Kept
    <3>3. /\ Step(z, u, s) /\ Life(u, loop, st, s)
          /\ HasEntry(z, s) => HasEntry(u, s)
          /\ OpenHeld(z, loop, s) => OpenHeld(u, loop, s)
          /\ ClosedHeld(z, s) => ClosedHeld(u, s)
          /\ u.open = z.open
      BY <3>1, <3>2, DealerTold
    <3> QED
      BY <2>8, <3>3 DEF Kept
  <2> HIDE DEF u
  <2>10. Step(x, u, s)
    BY <2>5, <2>8, <2>9, StepTwice
  <2> QED
    BY <1>2, <2>1, <2>3, <2>8, <2>9, <2>10
<1> QED
  BY <1>1, <1>2

(* do_read_head_len, when no other read is to come. *)
LEMMA ReadHeadLen ==
    ASSUME NEW x, Table(x), NEW lp, NEW st, NEW s \in Sessions,
           Life(x, lp, st, s), HasEntry(x, s), ClosedHeld(x, s), s \in x.started,
           \A l \in Loops : ~Has(x.q[l], Reads(s))
    PROVE  LET y == do_read_head_len(x, s)
           IN  /\ Step(x, y, s) /\ Kept(y, lp, st, s)
               /\ y.q = x.q /\ y.started = x.started /\ y.dealt = x.dealt
<1>1. x \in World
  BY DEF Table
<1>2. CASE s \notin x.open
  <2>1. do_read_head_len(x, s) = x
    BY <1>1, <1>2 DEF do_read_head_len, World
  <2>2. Step(x, x, s)
    BY DEF Step, Same
  <2>3. Kept(x, lp, st, s)
    BY <1>2 DEF Kept, OpenHeld
  <2> QED
    BY <2>1, <2>2, <2>3
<1>3. CASE s \in x.open
  <2> DEFINE y == [x EXCEPT !.reading = x.reading \cup {s}]
  <2>1. do_read_head_len(x, s) = y
    BY <1>1, <1>3 DEF do_read_head_len, World
  <2>2. x.reading \cup {s} \in SUBSET Sessions
    BY <1>1 DEF World
  <2>3. /\ y \in World /\ y.open = x.open /\ y.reading = x.reading \cup {s}
        /\ y.q = x.q /\ y.id = x.id /\ y.all = x.all /\ y.current = x.current
        /\ y.started = x.started /\ y.rejected = x.rejected
        /\ y.dealt = x.dealt /\ y.broken = x.broken
    BY <1>1, <2>2 DEF World
  <2> HIDE DEF y
  <2>4. Table(y)
    BY <2>3, TableAs
  <2>5. Step(x, y, s)
    BY <2>3, <2>4 DEF Step, Same, Entry
  <2>6. Waiting(y, lp, st, s)
    BY <2>3 DEF Life, Waiting
  <2>7. Admitted(y, lp, st, s)
    BY <1>3, <2>3 DEF Life, Admitted
  <2>8. Told(y, lp, st, s)
    BY <2>3 DEF Life, Told, Owed
  <2>9. HasEntry(y, s) /\ OpenHeld(y, lp, s) /\ ClosedHeld(y, s)
    BY <2>3 DEF HasEntry, OpenHeld, ClosedHeld, Entry
  <2> QED
    BY <2>1, <2>3, <2>5, <2>6, <2>7, <2>8, <2>9 DEF Kept, Life
<1> QED
  BY <1>2, <1>3

-----------------------------------------------------------------------------
(* The next number is given to a session that is not in the table. *)
LEMMA Numbering ==
    ASSUME NEW x, Table(x), NEW lp, NEW st, NEW s \in Sessions, lp[s] \in Loops,
           Life(x, lp, st, s), ~is_session_over_limit(x),
           s \in x.open, s \notin x.started, s \notin x.rejected, x.dealt[s] = <<>>,
           \A l \in Loops : ~Has(x.q[l], T("do_add_session", s))
    PROVE  LET y == Number(x, s)
           IN  /\ Step(x, y, s) /\ Life(y, lp, st, s) /\ HasEntry(y, s) /\ ClosedHeld(y, s)
               /\ s \in y.started /\ s \in y.open /\ s \notin y.reading
               /\ y.dealt[s] = <<>> /\ y.q = x.q
<1> DEFINE n == x.current + 1
           D == DOMAIN x.all \cup {n}
           a == [i \in D |-> IF i \in DOMAIN x.all THEN x.all[i] ELSE s]
           y == [x EXCEPT !.current = n, !.id = [x.id EXCEPT ![s] = n],
                          !.started = x.started \cup {s}, !.all = a,
                          !.silent = x.silent \ {s}]
<1>1. /\ x \in World /\ x.id \in [Sessions -> Int] /\ x.current \in Nat
      /\ x.all \in [DOMAIN x.all -> Sessions] /\ DOMAIN x.all \subseteq 1 .. x.current
      /\ IsFiniteSet(DOMAIN x.all) /\ Cardinality(DOMAIN x.all) \in Nat
  BY TableEntry DEF Table, World
<1>2. Number(x, s) = y
  BY <1>1 DEF Number, World
<1>3. /\ n \in Nat /\ n \notin DOMAIN x.all /\ n > 0 /\ D \in SUBSET Nat
      /\ a \in [D -> Sessions] /\ DOMAIN a = D /\ a[n] = s
      /\ \A i \in DOMAIN x.all : a[i] = x.all[i]
  BY <1>1
<1>4. a \in Numbered
  BY <1>3, NumberedIs
<1>5. /\ [x.id EXCEPT ![s] = n] \in [Sessions -> Int]
      /\ x.started \cup {s} \in SUBSET Sessions /\ x.silent \ {s} \in SUBSET Sessions
  BY <1>1, <1>3 DEF World
<1>6. Cardinality(D) = Cardinality(DOMAIN x.all) + 1
  BY <1>1, <1>3, FS_AddElement
<1>7. \A r \in Sessions : x.id[r] # n /\ x.id[r] < n
  BY <1>1 DEF Table
<1>8. n = x.current + 1
  OBVIOUS
<1> HIDE DEF a, n
<1>9. /\ y \in World
      /\ y.open = x.open /\ y.reading = x.reading /\ y.q = x.q
      /\ y.started = x.started \cup {s} /\ y.rejected = x.rejected /\ y.dealt = x.dealt
      /\ y.current = n /\ y.broken = x.broken
      /\ y.all = a /\ y.id = [x.id EXCEPT ![s] = n]
  BY <1>1, <1>3, <1>4, <1>5 DEF World
<1> HIDE DEF y
<1>10. y.id[s] = n /\ \A r \in Sessions \ {s} : y.id[r] = x.id[r]
  BY <1>1, <1>9
<1>11. /\ \A r \in Sessions : x.id[r] <= x.current
       /\ \A r, t \in Sessions : x.id[r] = x.id[t] /\ x.id[r] > 0 => r = t
       /\ \A i \in DOMAIN x.all : x.id[x.all[i]] = i /\ i > 0 /\ x.all[i] \in x.started
       /\ server.m_max_session_count \in Nat
  BY DEF Table
<1>12. Table(y)
  <2>1. \A r \in Sessions : y.id[r] <= y.current
    BY <1>1, <1>3, <1>7, <1>9, <1>10
  <2>2. \A r, t \in Sessions : y.id[r] = y.id[t] /\ y.id[r] > 0 => r = t
    BY <1>1, <1>7, <1>10, <1>11
  <2>3. ASSUME NEW i \in D
        PROVE  y.id[a[i]] = i /\ i > 0 /\ a[i] \in y.started
    <3>1. CASE i = n
      BY <1>3, <1>9, <1>10, <3>1
    <3>2. CASE i \in DOMAIN x.all
      <4>1. x.all[i] # s /\ x.all[i] \in Sessions
        BY <1>1, <1>11, <3>2
      <4> QED
        BY <1>3, <1>9, <1>10, <1>11, <3>2, <4>1
    <3> QED
      BY <3>1, <3>2
  <2>4. Cardinality(DOMAIN y.all) <= server.m_max_session_count
    <3>1. Cardinality(DOMAIN x.all) < server.m_max_session_count
      BY <1>1, <1>11 DEF is_session_over_limit
    <3> QED
      BY <1>1, <1>3, <1>6, <1>9, <1>11, <3>1
  <2>5. \A i \in DOMAIN y.all : y.id[y.all[i]] = i /\ i > 0 /\ y.all[i] \in y.started
    BY <1>3, <1>9, <2>3
  <2> QED
    BY <1>9, <1>11, <2>1, <2>2, <2>4, <2>5 DEF Table
<1>13. ASSUME NEW r \in Sessions \ {s}
       PROVE  Entry(y, r) <=> Entry(x, r)
  <2>1. x.id[r] \in DOMAIN y.all <=> x.id[r] \in DOMAIN x.all
    BY <1>3, <1>7, <1>9
  <2>2. x.id[r] \in DOMAIN x.all => y.all[x.id[r]] = x.all[x.id[r]]
    BY <1>3, <1>9
  <2> QED
    BY <1>10, <2>1, <2>2 DEF Entry
<1>14. Step(x, y, s)
  BY <1>9, <1>12, <1>13 DEF Step, Same
<1>15. Entry(y, s)
  BY <1>3, <1>9, <1>10 DEF Entry
<1>16. s \notin x.reading /\ ~Opened(x.dealt[s])
  BY DEF Life, Admitted
<1>17. Life(y, lp, st, s)
  <2>1. Waiting(y, lp, st, s)
    BY <1>9 DEF Life, Waiting
  <2>2. Admitted(y, lp, st, s)
    BY <1>9, <1>16 DEF Life, Admitted
  <2>3. Told(y, lp, st, s)
    BY <1>9 DEF Life, Told, Owed
  <2> QED
    BY <2>1, <2>2, <2>3 DEF Life
<1>18. HasEntry(y, s) /\ ClosedHeld(y, s)
  BY <1>9, <1>15 DEF HasEntry, ClosedHeld
<1> QED
  BY <1>2, <1>9, <1>14, <1>16, <1>17, <1>18

-----------------------------------------------------------------------------
(* What is known of session s when a loop has taken its task f. *)
Due(x, lp, st, l, f, s) ==
    /\ f = "do_add_session" =>
          /\ l = Manager /\ lp[s] \in Loops
          /\ s \in x.open /\ s \notin x.started /\ s \notin x.rejected
          /\ x.dealt[s] = <<>>
          /\ \A k \in Loops : ~Has(x.q[k], T(f, s))
    /\ f = "do_close_session" => s \notin x.open
    /\ f = "do_close" => s \in x.rejected
    /\ f \in {"do_check_alive", "do_read_head_len", "on_read_complete",
              "on_read_error", "do_session_open"} => s \in x.started
    /\ f \in {"do_read_head_len", "on_read_complete", "on_read_error"} =>
          \A k \in Loops : ~Has(x.q[k], Reads(s))
    /\ f = "do_session_open" =>
          /\ st # s /\ ~Opened(x.dealt[s])
          /\ \A k \in Loops : ~Has(x.q[k], T(f, s))
    /\ f \in {"on_read_complete", "do_session_open"} => Spare(x, lp, st, s)

(* A loop takes its next task. *)
LEMMA TakeTask ==
    ASSUME NEW x, Table(x), NEW l \in Loops, x.q[l] # <<>>, NEW lp, NEW st,
           NoLoop \notin Loops, Manager \in Loops,
           \A r \in Sessions : Kept(x, lp, st, r) /\ lp[r] \in Loops \cup {NoLoop}
    PROVE  LET y == [x EXCEPT !.q[l] = Tail(@)]
               s == Head(x.q[l]).s
               f == Head(x.q[l]).f
           IN  /\ s \in Sessions /\ f \in Funs
               /\ Step(x, y, s) /\ Life(y, lp, st, s) /\ HasEntry(y, s)
               /\ f \notin {"do_read_head_len", "on_read_complete", "on_read_error"}
                     => OpenHeld(y, lp, s)
               /\ f # "do_close_session" => ClosedHeld(y, s)
               /\ Due(y, lp, st, l, f, s) /\ lp[s] \in Loops
<1> DEFINE t == Head(x.q[l])
           s == t.s
           f == t.f
           p == Tail(x.q[l])
           y == [x EXCEPT !.q = [x.q EXCEPT ![l] = p]]
<1>1. x \in World /\ x.q \in [Loops -> Seq(Tasks)] /\ x.q[l] \in Seq(Tasks)
  BY DEF Table, World
<1>2. /\ t \in Tasks /\ p \in Seq(Tasks)
      /\ \A S : Has(x.q[l], S) <=> t \in S \/ Has(p, S)
      /\ \A S : Once(x.q[l], S) => Once(p, S)
      /\ \A S : Once(x.q[l], S) /\ t \in S => ~Has(p, S)
  BY <1>1, LoopTail
<1>3. [x EXCEPT !.q[l] = Tail(@)] = y
  BY <1>1 DEF World
<1> HIDE DEF p, t
<1>4. [x.q EXCEPT ![l] = p] \in [Loops -> Seq(Tasks)]
  BY <1>1, <1>2
<1>5. /\ y \in World
      /\ y.open = x.open /\ y.reading = x.reading /\ y.silent = x.silent
      /\ y.id = x.id /\ y.all = x.all /\ y.current = x.current
      /\ y.started = x.started /\ y.rejected = x.rejected
      /\ y.dealt = x.dealt /\ y.broken = x.broken
      /\ y.q = [x.q EXCEPT ![l] = p]
  BY <1>1, <1>4 DEF World
<1> HIDE DEF y
<1>6. \A k \in Loops : y.q[k] = IF k = l THEN p ELSE x.q[k]
  BY <1>1, <1>5
<1>7. \A k \in Loops : \A S :
          /\ Has(x.q[k], S) <=> (k = l /\ t \in S) \/ Has(y.q[k], S)
          /\ Once(x.q[k], S) => Once(y.q[k], S)
          /\ k = l /\ Once(x.q[k], S) /\ t \in S => ~Has(y.q[k], S)
  BY <1>2, <1>6
<1>8. s \in Sessions /\ f \in Funs /\ t = Task(f, s)
  BY <1>2, TaskKinds
<1> HIDE DEF s, f
<1>9. /\ \A r : t \in Of(r) <=> s = r
      /\ \A g : t \in T(g, s) <=> f = g
      /\ t \in Reads(s) <=> f \in {"do_read_head_len", "on_read_complete", "on_read_error"}
  BY <1>8, TaskKinds
<1>10. Table(y)
  BY <1>5, TableAs
<1>11. ASSUME NEW r \in Sessions \ {s}
       PROVE  Same(x, y, r)
  <2>1. \A S \in SUBSET Of(r) : t \notin S
    BY <1>9
  <2> QED
    BY <1>5, <1>7, <2>1 DEF Same, Entry
<1>12. Step(x, y, s)
  BY <1>5, <1>10, <1>11 DEF Step
<1>13. Kept(x, lp, st, s) /\ lp[s] \in Loops \cup {NoLoop}
  BY <1>8
<1>14. \A k \in Loops :
          /\ \A g : /\ Has(x.q[k], T(g, s)) <=> (k = l /\ f = g) \/ Has(y.q[k], T(g, s))
                    /\ Once(x.q[k], T(g, s)) => Once(y.q[k], T(g, s))
                    /\ k = l /\ Once(x.q[k], T(g, s)) /\ f = g => ~Has(y.q[k], T(g, s))
          /\ Has(x.q[k], Reads(s)) <=> (k = l /\ t \in Reads(s)) \/ Has(y.q[k], Reads(s))
          /\ Once(x.q[k], Reads(s)) => Once(y.q[k], Reads(s))
          /\ k = l /\ Once(x.q[k], Reads(s)) /\ t \in Reads(s) => ~Has(y.q[k], Reads(s))
  BY <1>7, <1>9
<1>15. Waiting(y, lp, st, s)
  BY <1>5, <1>13, <1>14 DEF Kept, Life, Waiting
<1>16. Admitted(y, lp, st, s)
  BY <1>5, <1>13 DEF Kept, Life, Admitted
<1>17. lp[s] \in Loops /\ (f # "do_add_session" /\ f # "do_close_session" => l = lp[s])
  <2>1. Waiting(x, lp, st, s) /\ Admitted(x, lp, st, s)
    BY <1>13 DEF Kept, Life
  <2>2. f # "do_add_session" /\ f # "do_close_session" => l = lp[s]
    BY <1>8, <1>9, <1>14, <2>1 DEF Waiting, Funs
  <2>3. f = "do_add_session" => lp[s] \in Loops
    BY <1>14, <2>1 DEF Waiting
  <2>4. f = "do_close_session" => s \in x.started \/ s \in x.rejected
    BY <1>14, <2>1 DEF Waiting
  <2> QED
    BY <2>1, <2>2, <2>3, <2>4 DEF Admitted
<1>18. /\ Owed(y, lp, st, s) \in Int /\ Owed(x, lp, st, s) \in Int /\ Most(lp, s) \in Int
       /\ Owed(y, lp, st, s) <= Owed(x, lp, st, s)
       /\ f = "on_read_complete" => Owed(y, lp, st, s) + 1 <= Owed(x, lp, st, s)
       /\ f = "do_session_open" => Owed(y, lp, st, s) + 1 <= Owed(x, lp, st, s)
  <2>1. Owed(y, lp, st, s) \in Int /\ Owed(x, lp, st, s) \in Int /\ Most(lp, s) \in Int
    BY DEF Owed, Most
  <2>2. Owed(y, lp, st, s) <= Owed(x, lp, st, s)
    BY <1>14, <1>17 DEF Owed
  <2>3. ASSUME f = "on_read_complete"
        PROVE  Owed(y, lp, st, s) + 1 <= Owed(x, lp, st, s)
    <3>1. ~Has(y.q[l], Reads(s))
      BY <1>9, <1>13, <1>14, <2>3 DEF Kept, Life, Waiting
    <3>2. T("on_read_complete", s) \subseteq Reads(s)
      BY DEF T, Reads
    <3>3. ~Has(y.q[l], T("on_read_complete", s))
      BY <3>1, <3>2 DEF Has
    <3> QED
      BY <1>14, <1>17, <2>3, <3>3 DEF Owed
  <2>4. ASSUME f = "do_session_open"
        PROVE  Owed(y, lp, st, s) + 1 <= Owed(x, lp, st, s)
    <3>1. ~Has(y.q[l], T("do_session_open", s)) /\ st # s
      BY <1>13, <1>14, <2>4 DEF Kept, Life, Waiting
    <3> QED
      BY <1>14, <1>17, <2>4, <3>1 DEF Owed
  <2> QED
    BY <2>1, <2>2, <2>3, <2>4
<1>19. /\ After(x.dealt[s], Most(lp, s) - Owed(y, lp, st, s))
       /\ f \in {"on_read_complete", "do_session_open"} => Spare(y, lp, st, s)
  <2> DEFINE a == Most(lp, s) - Owed(x, lp, st, s)
             b == Most(lp, s) - Owed(y, lp, st, s)
  <2>1. x.dealt[s] \in Seq(Dealt)
    BY <1>1, <1>8 DEF World
  <2>2. After(x.dealt[s], a)
    BY <1>13, <1>17 DEF Kept, Life, Told
  <2>3. /\ a \in Int /\ b \in Int /\ a <= b /\ b - 1 \in Int
        /\ f \in {"on_read_complete", "do_session_open"} => a <= b - 1
    BY <1>18
  <2> HIDE DEF a, b
  <2>4. /\ After(x.dealt[s], b)
        /\ f \in {"on_read_complete", "do_session_open"} => After(x.dealt[s], b - 1)
    BY <2>1, <2>2, <2>3, AfterMore
  <2> QED
    BY <1>5, <2>4 DEF b, Spare
<1>20. Told(y, lp, st, s)
  BY <1>5, <1>13, <1>19 DEF Kept, Life, Told
<1>21. /\ HasEntry(y, s)
       /\ f \notin {"do_read_head_len", "on_read_complete", "on_read_error"} => OpenHeld(y, lp, s)
       /\ f # "do_close_session" => ClosedHeld(y, s)
  BY <1>5, <1>9, <1>13, <1>14, <1>17 DEF Kept, HasEntry, OpenHeld, ClosedHeld, Entry
<1>22. Due(y, lp, st, l, f, s)
  <2>1. Waiting(x, lp, st, s)
    BY <1>13 DEF Kept, Life
  <2>2. f = "do_add_session" =>
          /\ l = Manager /\ lp[s] \in Loops
          /\ s \in y.open /\ s \notin y.started /\ s \notin y.rejected
          /\ y.dealt[s] = <<>>
          /\ \A k \in Loops : ~Has(y.q[k], T(f, s))
    BY <1>5, <1>14, <2>1 DEF Waiting
  <2>3. /\ f = "do_close_session" => s \notin y.open
        /\ f = "do_close" => s \in y.rejected
        /\ f = "do_check_alive" => s \in y.started
    BY <1>5, <1>14, <2>1 DEF Waiting
  <2>4. f \in {"do_read_head_len", "on_read_complete", "on_read_error"} =>
           s \in y.started /\ \A k \in Loops : ~Has(y.q[k], Reads(s))
    BY <1>5, <1>9, <1>14, <2>1 DEF Waiting
  <2>5. f = "do_session_open" =>
          /\ s \in y.started /\ st # s /\ ~Opened(y.dealt[s])
          /\ \A k \in Loops : ~Has(y.q[k], T(f, s))
    BY <1>5, <1>14, <2>1 DEF Waiting
  <2> QED
    BY <1>19, <2>2, <2>3, <2>4, <2>5 DEF Due
<1> QED
  BY <1>3, <1>8, <1>12, <1>15, <1>16, <1>17, <1>20, <1>21, <1>22 DEF Life, s, f, t

-----------------------------------------------------------------------------
(* The constants, and what the dealer can be told. *)
LEMMA Constants ==
    /\ Manager \in Loops /\ NoLoop \notin Loops /\ NoSession \notin Sessions
    /\ "open" \in Dealt /\ "message" \in Dealt /\ "close" \in Dealt
  BY ManagerAssumption DEF Manager, Loops, NoLoop, NoSession, Sessions, Dealt

(* on_read_complete deals the message and reads on. *)
LEMMA ReadComplete ==
    ASSUME NEW x, Table(x), NEW lp, NEW st, NEW s \in Sessions, lp[s] \in Loops,
           Life(x, lp, st, s), HasEntry(x, s), ClosedHeld(x, s), s \in x.started,
           \A l \in Loops : ~Has(x.q[l], Reads(s)), Spare(x, lp, st, s)
    PROVE  Step(x, on_read_complete(x, s), s) /\ Kept(on_read_complete(x, s), lp, st, s)
<1> DEFINE y == [x EXCEPT !.silent = x.silent \ {s}]
           z == Deal(y, s, "message")
           u == do_read_head_len(z, s)
<1>1. x \in World
  BY DEF Table
<1>2. on_read_complete(x, s) = u
  BY <1>1 DEF on_read_complete, World
<1>3. /\ y \in World /\ y.open = x.open /\ y.reading = x.reading
      /\ y.q = x.q /\ y.id = x.id /\ y.all = x.all /\ y.current = x.current
      /\ y.started = x.started /\ y.rejected = x.rejected
      /\ y.dealt = x.dealt /\ y.broken = x.broken
  <2>1. x.silent \ {s} \in SUBSET Sessions
    BY <1>1 DEF World
  <2> QED
    BY <1>1, <2>1 DEF World
<1> HIDE DEF y
<1>4. Table(y)
  BY <1>3, TableAs
<1>5. Step(x, y, s)
  BY <1>3, <1>4 DEF Step, Same, Entry
<1>6. Life(y, lp, st, s)
  BY <1>3, LifeAs
<1>7. /\ HasEntry(y, s) /\ ClosedHeld(y, s)
      /\ \A l \in Loops : ~Has(y.q[l], Reads(s))
  BY <1>3 DEF HasEntry, ClosedHeld, Entry
<1>8. MayDeal(y, lp, st, "message", s)
  BY <1>3 DEF MayDeal, Spare, Owed
<1>9. /\ Step(y, z, s) /\ Life(z, lp, st, s)
      /\ HasEntry(y, s) => HasEntry(z, s)
      /\ ClosedHeld(y, s) => ClosedHeld(z, s)
      /\ z.q = y.q /\ z.started = y.started
  BY <1>4, <1>6, <1>8, DealerTold, Constants
<1> HIDE DEF z
<1>10. Table(z) /\ HasEntry(z, s) /\ ClosedHeld(z, s) /\ s \in z.started
  BY <1>3, <1>7, <1>9 DEF Step
<1>11. \A l \in Loops : ~Has(z.q[l], Reads(s))
  BY <1>7, <1>9
<1>12. Step(z, u, s) /\ Kept(u, lp, st, s)
  BY <1>9, <1>10, <1>11, ReadHeadLen
<1> HIDE DEF u
<1>13. Step(x, u, s)
  BY <1>5, <1>9, <1>12, StepTwice
<1> QED
  BY <1>2, <1>12, <1>13

(* do_session_open tells the dealer. *)
LEMMA SessionOpen ==
    ASSUME NEW x, Table(x), NEW lp, NEW st, NEW s \in Sessions, lp[s] \in Loops,
           Kept(x, lp, st, s), s \in x.started, st # s, ~Opened(x.dealt[s]),
           \A l \in Loops : ~Has(x.q[l], T("do_session_open", s)), Spare(x, lp, st, s)
    PROVE  Step(x, do_session_open(x, s), s) /\ Kept(do_session_open(x, s), lp, st, s)
<1> DEFINE z == Deal(x, s, "open")
<1>1. do_session_open(x, s) = z
  BY DEF do_session_open
<1>2. MayDeal(x, lp, st, "open", s)
  BY DEF MayDeal
<1>3. /\ Step(x, z, s) /\ Life(z, lp, st, s)
      /\ HasEntry(x, s) => HasEntry(z, s)
      /\ OpenHeld(x, lp, s) => OpenHeld(z, lp, s)
      /\ ClosedHeld(x, s) => ClosedHeld(z, s)
  BY <1>2, DealerTold, Constants DEF Kept
<1> QED
  BY <1>1, <1>3 DEF Kept

(***************************************************************************)
(* do_add_session: the session is closed, or gets its number and starts.   *)
(***************************************************************************)
LEMMA AddSession ==
    ASSUME NEW x, Table(x), NEW s \in Sessions, loop[s] \in Loops,
           Kept(x, loop, NoSession, s), Due(x, loop, NoSession, Manager, "do_add_session", s),
           starting = NoSession, do_add_session(x, s)
    PROVE  /\ Step(x, w', s) /\ Kept(w', loop, starting', s)
           /\ starting' \in {NoSession, s}
<1> DEFINE st == NoSession
<1>1. /\ s \in x.open /\ s \notin x.started /\ s \notin x.rejected /\ x.dealt[s] = <<>>
      /\ \A k \in Loops : ~Has(x.q[k], T("do_add_session", s))
  BY DEF Due
<1>2. /\ Life(x, loop, st, s) /\ HasEntry(x, s) /\ OpenHeld(x, loop, s) /\ ClosedHeld(x, s)
      /\ x \in World
  BY DEF Kept, Table
<1>3. ~Entry(x, s) /\ st # s
  BY <1>1, TableEntry, Constants
<1>4. \A k \in Loops : ~Has(x.q[k], Reads(s)) /\ ~Has(x.q[k], T("do_session_open", s))
  BY <1>1, <1>2 DEF Life, Waiting
<1>5. CASE is_session_over_limit(x)
  <2> DEFINE y == [x EXCEPT !.rejected = x.rejected \cup {s}]
             z == close(y, s)
  <2>1. w' = z /\ starting' = st
    BY <1>2, <1>5 DEF do_add_session, World
  <2>2. /\ y \in World /\ y.open = x.open /\ y.reading = x.reading
        /\ y.q = x.q /\ y.id = x.id /\ y.all = x.all /\ y.current = x.current
        /\ y.started = x.started /\ y.rejected = x.rejected \cup {s}
        /\ y.dealt = x.dealt /\ y.broken = x.broken
    <3>1. x.rejected \cup {s} \in SUBSET Sessions
      BY <1>2 DEF World
    <3> QED
      BY <1>2, <3>1 DEF World
  <2> HIDE DEF y
  <2>3. Table(y)
    BY <2>2, TableAs
  <2>4. Step(x, y, s)
    BY <2>2, <2>3 DEF Step, Same, Entry
  <2>5. Life(y, loop, st, s)
    <3>1. Waiting(y, loop, st, s)
      BY <1>1, <1>2, <2>2 DEF Life, Waiting
    <3>2. Admitted(y, loop, st, s)
      BY <1>1, <1>2, <2>2 DEF Life, Admitted
    <3>3. Told(y, loop, st, s)
      BY <1>2, <2>2 DEF Life, Told, Owed
    <3> QED
      BY <3>1, <3>2, <3>3 DEF Life
  <2>6. HasEntry(y, s) /\ OpenHeld(y, loop, s) /\ ClosedHeld(y, s)
    BY <1>1, <1>3, <2>2 DEF HasEntry, OpenHeld, ClosedHeld, Entry
  <2>7. Step(y, z, s) /\ Kept(z, loop, st, s)
    <3>1. CASE loop[s] = Manager
      <4>1. z = do_close(y, s)
        BY <3>1 DEF close
      <4>2. s \in y.rejected
        BY <2>2
      <4> HIDE DEF z
      <4> QED
        BY <2>3, <2>5, <2>6, <4>1, <4>2, DoClose, Constants
    <3>2. CASE loop[s] # Manager
      <4> DEFINE f == "do_close"
      <4>1. z = Queue(y, loop[s], Task(f, s)) /\ f \in Funs
        BY <3>2 DEF close, Funs
      <4>2. MayPost(y, loop, st, loop[s], f, s)
        BY <2>2 DEF MayPost
      <4> HIDE DEF z, f
      <4>3. /\ Step(y, z, s) /\ Life(z, loop, st, s)
            /\ HasEntry(y, s) => HasEntry(z, s)
            /\ OpenHeld(y, loop, s) => OpenHeld(z, loop, s)
            /\ ClosedHeld(y, s) => ClosedHeld(z, s)
        BY <2>3, <2>5, <4>1, <4>2, Posted
      <4> QED
        BY <2>6, <4>3 DEF Kept
    <3> QED
      BY <3>1, <3>2
  <2> HIDE DEF z
  <2>8. Step(x, z, s)
    BY <2>4, <2>7, StepTwice
  <2> QED
    BY <2>1, <2>7, <2>8
<1>6. CASE ~is_session_over_limit(x)
  <2> DEFINE y == Number(x, s)
  <2>1. /\ Step(x, y, s) /\ Life(y, loop, st, s) /\ HasEntry(y, s) /\ ClosedHeld(y, s)
        /\ s \in y.started /\ s \in y.open /\ s \notin y.reading
        /\ y.dealt[s] = <<>> /\ y.q = x.q
    BY <1>1, <1>2, <1>6, Numbering
  <2> HIDE DEF y
  <2>2. /\ Table(y)
        /\ \A k \in Loops : ~Has(y.q[k], Reads(s)) /\ ~Has(y.q[k], T("do_session_open", s))
    BY <1>4, <2>1 DEF Step
  <2>3. CASE loop[s] = Manager
    <3> DEFINE z == do_read_head_len(y, s)
               u == do_session_open(z, s)
    <3>1. w' = u /\ starting' = st
      BY <1>6, <2>3 DEF do_add_session, y
    <3>2. /\ Step(y, z, s) /\ Kept(z, loop, st, s)
          /\ z.q = y.q /\ z.started = y.started /\ z.dealt = y.dealt
      BY <2>1, <2>2, ReadHeadLen
    <3> HIDE DEF z
    <3>3. /\ Table(z) /\ s \in z.started
          /\ \A k \in Loops : ~Has(z.q[k], T("do_session_open", s))
      BY <2>1, <2>2, <3>2 DEF Step
    <3>4. ~Opened(z.dealt[s]) /\ Spare(z, loop, st, s)
      <4>1. Most(loop, s) - Owed(z, loop, st, s) - 1 \in Int
        BY DEF Most, Owed
      <4>2. <<>> \in Seq(Dealt)
        OBVIOUS
      <4> QED
        BY <2>1, <3>2, <4>1, <4>2, AfterMore DEF Spare
    <3>5. Step(z, u, s) /\ Kept(u, loop, st, s)
      BY <1>3, <3>2, <3>3, <3>4, SessionOpen
    <3> HIDE DEF u
    <3>6. Step(x, u, s)
      BY <2>1, <3>2, <3>5, StepTwice
    <3> QED
      BY <3>1, <3>5, <3>6
  <2>4. CASE loop[s] # Manager
    <3> DEFINE f == "do_read_head_len"
               z == Queue(y, loop[s], Task(f, s))
    <3>1. w' = z /\ starting' = s
      BY <1>6, <2>4 DEF do_add_session, y
    <3>2. f \in Funs /\ Task(f, s) \in Reads(s)
      BY TaskKinds DEF Funs
    <3>3. Life(y, loop, s, s)
      <4>1. Waiting(y, loop, s, s)
        BY <2>1, <2>2 DEF Life, Waiting
      <4>2. Admitted(y, loop, s, s)
        <5>1. <<>> \in Seq(Dealt)
          OBVIOUS
        <5>2. ~Opened(y.dealt[s])
          BY <2>1, <5>1, AfterMore
        <5> QED
          BY <2>1, <2>4, <5>2 DEF Life, Admitted
      <4>3. Told(y, loop, s, s)
        <5>1. Most(loop, s) - Owed(y, loop, s, s) \in Int
          BY DEF Most, Owed
        <5>2. <<>> \in Seq(Dealt)
          OBVIOUS
        <5> QED
          BY <2>1, <5>1, <5>2, AfterMore DEF Told
      <4> QED
        BY <4>1, <4>2, <4>3 DEF Life
    <3>4. MayPost(y, loop, s, loop[s], f, s)
      BY <2>1, <2>2 DEF MayPost
    <3> HIDE DEF f
    <3>5. /\ Step(y, z, s) /\ Life(z, loop, s, s)
          /\ HasEntry(y, s) => HasEntry(z, s)
          /\ ClosedHeld(y, s) => ClosedHeld(z, s)
      BY <2>2, <3>2, <3>3, <3>4, Posted
    <3>6. \A k \in Loops : \A S :
             Has(z.q[k], S) <=> Has(y.q[k], S) \/ (k = loop[s] /\ Task(f, s) \in S)
      BY <2>2, <3>2, <3>3, <3>4, Posted
    <3> HIDE DEF z
    <3>7. OpenHeld(z, loop, s)
      BY <3>2, <3>6 DEF OpenHeld
    <3>8. Step(x, z, s)
      BY <2>1, <3>5, StepTwice
    <3> QED
      BY <2>1, <3>1, <3>5, <3>7, <3>8 DEF Kept
  <2> QED
    BY <2>3, <2>4
<1> QED
  BY <1>5, <1>6

-----------------------------------------------------------------------------
(***************************************************************************)
(* A step of the specification: the call it makes about session s, after   *)
(* which s is kept, keeps the invariant.                                   *)
(***************************************************************************)
LEMMA Closing ==
    ASSUME IInv, NEW s \in Sessions, NEW y, Step(w, y, s), y = w',
           Kept(w', loop, starting', s), Rest,
           starting' \in {starting, NoSession, s}, starting \in {s, NoSession} \/ starting' = starting,
           walk' \subseteq walk
    PROVE  IInv'
<1>1. Table(w') /\ w.started \subseteq w'.started /\ w'.open \subseteq w.open /\ w'.broken = w.broken
  BY DEF Step
<1>2. server' = server /\ loop' = loop /\ m_next_index' = m_next_index
  BY DEF Rest
<1>3. Table(w)'
  BY <1>1, <1>2 DEF Table
<1>4. Surroundings'
  BY <1>1, <1>2 DEF IInv, Surroundings
<1>5. \A r \in Sessions : Kept(w', loop, starting', r)
  <2>1. \A r \in Sessions \ {s} : Kept(w, loop, starting, r) /\ (starting' = r <=> starting = r)
    BY Constants DEF IInv
  <2>2. loop \in [Sessions -> Loops \cup {NoLoop}]
    BY DEF IInv, Surroundings
  <2> QED
    BY <2>1, <2>2, FrameOthers, Constants
<1>6. (\A r \in Sessions : Kept(w, loop, starting, r))'
  BY <1>2, <1>5
<1> QED
  BY <1>3, <1>4, <1>6 DEF IInv

(* A connection is accepted. *)
LEMMA AcceptPreserves ==
    ASSUME IInv, NEW s \in Sessions, on_accept_complete(s)
    PROVE  IInv'
<1> DEFINE y == [w EXCEPT !.open = w.open \cup {s}]
           f == "do_add_session"
<1>1. /\ Table(w) /\ w \in World /\ Surroundings
      /\ \A r \in Sessions : Kept(w, loop, starting, r)
  BY DEF IInv, Table
<1>2. /\ loop[s] = NoLoop /\ loop \in [Sessions -> Loops \cup {NoLoop}]
      /\ loop' = [loop EXCEPT ![s] = m_next_index] /\ m_next_index \in Loops
      /\ w' = Queue(y, Manager, Task(f, s))
      /\ server' = server /\ starting' = starting /\ walk' = walk
      /\ m_next_index' = (m_next_index + 1) % PoolSize
  BY <1>1 DEF on_accept_complete, NextUp, Surroundings, World, Sessions
<1>3. /\ loop'[s] = m_next_index /\ loop'[s] \in Loops
      /\ loop' \in [Sessions -> Loops \cup {NoLoop}]
      /\ \A r \in Sessions \ {s} : loop'[r] = loop[r]
  BY <1>2
<1>4. m_next_index' \in Loops
  BY <1>2, ManagerAssumption DEF Loops
<1>5. /\ s \notin w.open /\ s \notin w.started /\ s \notin w.rejected /\ s \notin w.reading
      /\ w.dealt[s] = <<>> /\ starting # s
      /\ \A l \in Loops : /\ ~Has(w.q[l], T("do_add_session", s))
                          /\ ~Has(w.q[l], T("do_close_session", s))
                          /\ ~Has(w.q[l], T("do_close", s))
                          /\ ~Has(w.q[l], T("do_check_alive", s))
                          /\ ~Has(w.q[l], T("do_session_open", s))
                          /\ ~Has(w.q[l], Reads(s))
                          /\ Once(w.q[l], T("do_add_session", s))
                          /\ Once(w.q[l], Reads(s))
                          /\ Once(w.q[l], T("do_session_open", s))
  <2>1. Waiting(w, loop, starting, s) /\ Admitted(w, loop, starting, s)
    BY <1>1 DEF Kept, Life
  <2>2. /\ s \notin w.open /\ s \notin w.started /\ s \notin w.rejected /\ s \notin w.reading
        /\ w.dealt[s] = <<>> /\ starting # s
    BY <1>2, <2>1, Constants DEF Admitted
  <2> QED
    BY <1>2, <2>1, <2>2, Constants DEF Waiting
<1>6. ~Entry(w, s)
  BY <1>1, <1>5, TableEntry
<1>7. /\ y \in World /\ y.open = w.open \cup {s} /\ y.reading = w.reading
      /\ y.q = w.q /\ y.id = w.id /\ y.all = w.all /\ y.current = w.current
      /\ y.started = w.started /\ y.rejected = w.rejected
      /\ y.dealt = w.dealt /\ y.broken = w.broken
  <2>1. w.open \cup {s} \in SUBSET Sessions
    BY <1>1 DEF World
  <2> QED
    BY <1>1, <2>1 DEF World
<1> HIDE DEF y
<1>8. Table(y)
  BY <1>1, <1>7, TableAs
<1>9. \A r \in Sessions \ {s} : Same(w, y, r)
  BY <1>7 DEF Same, Entry
<1>10. Life(y, loop', starting, s)
  <2>1. Waiting(y, loop', starting, s)
    BY <1>5, <1>7 DEF Waiting
  <2>2. <<>> \in Seq(Dealt)
    OBVIOUS
  <2>3. Admitted(y, loop', starting, s)
    BY <1>3, <1>5, <1>7, <2>2, AfterMore DEF Admitted
  <2>4. Most(loop', s) - Owed(y, loop', starting, s) \in Int
    BY DEF Most, Owed
  <2>5. Told(y, loop', starting, s)
    BY <1>5, <1>7, <2>2, <2>4, AfterMore DEF Told
  <2> QED
    BY <2>1, <2>3, <2>5 DEF Life
<1>11. f \in Funs /\ MayPost(y, loop', starting, Manager, f, s)
  BY <1>5, <1>7, Constants DEF MayPost, Funs
<1>12. HasEntry(y, s) /\ OpenHeld(y, loop', s) /\ ClosedHeld(y, s)
  BY <1>5, <1>6, <1>7 DEF HasEntry, OpenHeld, ClosedHeld, Entry
<1> DEFINE z == Queue(y, Manager, Task(f, s))
<1> HIDE DEF f
<1>13. /\ Step(y, z, s) /\ Life(z, loop', starting, s)
       /\ HasEntry(y, s) => HasEntry(z, s)
       /\ OpenHeld(y, loop', s) => OpenHeld(z, loop', s)
       /\ ClosedHeld(y, s) => ClosedHeld(z, s)
       /\ z.open = y.open
       /\ z.started = y.started
  BY <1>3, <1>8, <1>10, <1>11, Posted, Constants
<1>14. w' = z
  BY <1>2
<1> HIDE DEF z
<1>15. Kept(z, loop', starting, s)
  BY <1>12, <1>13 DEF Kept
<1>16. \A r \in Sessions : Kept(z, loop', starting, r)
  <2>1. ASSUME NEW r \in Sessions, r # s
        PROVE  Kept(z, loop', starting, r)
    <3>1. Same(w, y, r) /\ Same(y, z, r)
      BY <1>9, <1>13, <2>1 DEF Step
    <3>2. Same(w, z, r)
      BY <3>1 DEF Same
    <3>3. Kept(w, loop, starting, r) /\ loop'[r] = loop[r] /\ loop[r] \in Loops \cup {NoLoop}
      BY <1>1, <1>2, <1>3, <2>1
    <3> QED
      BY <3>2, <3>3, Frame, Constants
  <2> QED
    BY <1>15, <2>1
<1>17. (\A r \in Sessions : Kept(w, loop, starting, r))'
  BY <1>2, <1>14, <1>16
<1>18. Table(w)'
  BY <1>2, <1>13, <1>14 DEF Step, Table
<1>19. Surroundings'
  <2>1. w'.broken = w.broken /\ w'.started = w.started /\ w'.open = w.open \cup {s}
    BY <1>7, <1>13, <1>14 DEF Step
  <2>2. w'.broken => \E r \in w'.started \ w'.open : loop'[r] = Manager
    <3>1. ASSUME w.broken
          PROVE  \E r \in w'.started \ w'.open : loop'[r] = Manager
      <4>1. PICK r \in w.started \ w.open : loop[r] = Manager
        BY <1>1, <3>1 DEF Surroundings
      <4>2. r # s /\ r \in Sessions
        BY <1>1, <1>5 DEF World
      <4> QED
        BY <1>3, <2>1, <4>1, <4>2
    <3> QED
      BY <2>1, <3>1
  <2> QED
    BY <1>1, <1>2, <1>3, <1>4, <2>1, <2>2 DEF Surroundings
<1> QED
  BY <1>17, <1>18, <1>19 DEF IInv

(* The accept failed. *)
LEMMA AcceptFailedPreserves ==
    ASSUME IInv, on_accept_failed
    PROVE  IInv'
<1>1. /\ m_next_index' = (m_next_index + 1) % PoolSize /\ m_next_index \in Loops
      /\ server' = server /\ w' = w /\ loop' = loop /\ starting' = starting /\ walk' = walk
  BY DEF on_accept_failed, IInv, Surroundings
<1>2. m_next_index' \in Loops
  BY <1>1, ManagerAssumption DEF Loops
<1> QED
  BY <1>1, <1>2 DEF IInv, Surroundings, Table

(* The second post of start(): what was owed because the session was being *)
(* started is owed because the task waits.                                 *)
LEMMA StartRestPreserves ==
    ASSUME IInv, start_rest
    PROVE  IInv'
<1> DEFINE s == starting
           f == "do_session_open"
           z == Queue(w, loop[s], Task(f, s))
<1>1. /\ s \in Sessions /\ w' = z /\ starting' = NoSession /\ walk' = walk /\ Rest
      /\ Table(w) /\ Kept(w, loop, s, s)
  BY DEF start_rest, IInv, Surroundings
<1>2. w.dealt[s] \in Seq(Dealt)
  BY <1>1 DEF Table, World
<1>3. /\ s \in w.started /\ loop[s] # Manager /\ ~Opened(w.dealt[s]) /\ loop[s] \in Loops
      /\ \A k \in Loops : ~Has(w.q[k], T(f, s))
  BY <1>1 DEF Kept, Life, Admitted, Waiting
<1>4. /\ After(w.dealt[s], Most(loop, s) - Owed(w, loop, s, s))
      /\ Most(loop, s) \in Int /\ Owed(w, loop, s, s) \in Int
      /\ Owed(w, loop, NoSession, s) \in Int
      /\ Owed(w, loop, NoSession, s) = Owed(w, loop, s, s) - 1
  <2>1. NoSession # s
    BY <1>1, Constants
  <2>2. /\ Most(loop, s) \in Int /\ Owed(w, loop, s, s) \in Int
        /\ Owed(w, loop, NoSession, s) \in Int
        /\ Owed(w, loop, NoSession, s) = Owed(w, loop, s, s) - 1
    BY <1>3, <2>1 DEF Most, Owed
  <2> QED
    BY <1>1, <1>3, <2>2 DEF Kept, Life, Told
<1>5. Spare(w, loop, NoSession, s)
  <2>1. Most(loop, s) - Owed(w, loop, NoSession, s) - 1 = Most(loop, s) - Owed(w, loop, s, s)
    BY <1>4
  <2> QED
    BY <1>4, <2>1 DEF Spare
<1>6. Life(w, loop, NoSession, s)
  <2>1. Waiting(w, loop, NoSession, s)
    BY <1>1, Constants DEF Kept, Life, Waiting
  <2>2. Admitted(w, loop, NoSession, s)
    BY <1>1, Constants DEF Kept, Life, Admitted
  <2>3. After(w.dealt[s], Most(loop, s) - Owed(w, loop, NoSession, s))
    <3> DEFINE a == Most(loop, s) - Owed(w, loop, s, s)
               b == Most(loop, s) - Owed(w, loop, NoSession, s)
    <3>1. a \in Int /\ b \in Int /\ a <= b /\ After(w.dealt[s], a)
      BY <1>4
    <3> HIDE DEF a, b
    <3>2. After(w.dealt[s], b)
      BY <1>2, <3>1, AfterMore
    <3> QED
      BY <3>2 DEF b
  <2>4. Told(w, loop, NoSession, s)
    BY <1>1, <2>3 DEF Kept, Life, Told
  <2> QED
    BY <2>1, <2>2, <2>4 DEF Life
<1>7. f \in Funs /\ MayPost(w, loop, NoSession, loop[s], f, s)
  BY <1>1, <1>3, <1>5, Constants DEF MayPost, Funs
<1> HIDE DEF f, s
<1>8. /\ Step(w, z, s) /\ Life(z, loop, NoSession, s)
      /\ HasEntry(w, s) => HasEntry(z, s)
      /\ OpenHeld(w, loop, s) => OpenHeld(z, loop, s)
      /\ ClosedHeld(w, s) => ClosedHeld(z, s)
  BY <1>1, <1>3, <1>6, <1>7, Posted
<1> HIDE DEF z
<1>9. Kept(z, loop, NoSession, s)
  BY <1>1, <1>8 DEF Kept
<1>10. starting \in {s, NoSession}
  BY DEF s
<1> QED
  BY <1>1, <1>8, <1>9, <1>10, Closing

(* A message arrives, or the peer leaves. *)
LEMMA ReceivePreserves ==
    ASSUME IInv, NEW s \in Sessions, receive(s) \/ leave(s)
    PROVE  IInv'
<1>1. PICK f \in {"on_read_complete", "on_read_error"} :
          /\ s \in w.reading
          /\ w' = Queue([w EXCEPT !.reading = @ \ {s}], loop[s], Task(f, s))
          /\ Rest /\ UNCHANGED <<starting, walk>>
  BY DEF receive, leave
<1> DEFINE y == [w EXCEPT !.reading = w.reading \ {s}]
           z == Queue(y, loop[s], Task(f, s))
<1>2. Table(w) /\ w \in World /\ Kept(w, loop, starting, s)
  BY DEF IInv, Table
<1>3. w' = z /\ starting' = starting /\ walk' = walk
  BY <1>1, <1>2 DEF World
<1>4. /\ y \in World /\ y.open = w.open /\ y.reading = w.reading \ {s}
      /\ y.q = w.q /\ y.id = w.id /\ y.all = w.all /\ y.current = w.current
      /\ y.started = w.started /\ y.rejected = w.rejected
      /\ y.dealt = w.dealt /\ y.broken = w.broken
  <2>1. w.reading \ {s} \in SUBSET Sessions
    BY <1>2 DEF World
  <2> QED
    BY <1>2, <2>1 DEF World
<1> HIDE DEF y
<1>5. Table(y)
  BY <1>2, <1>4, TableAs
<1>6. Step(w, y, s)
  BY <1>4, <1>5 DEF Step, Same, Entry
<1>7. /\ s \in w.open /\ s \in w.started /\ loop[s] \in Loops /\ ~Ended(w.dealt[s])
      /\ \A k \in Loops : ~Has(w.q[k], Reads(s))
  BY <1>1, <1>2 DEF Kept, Life, Admitted, Waiting, Told
<1>8. Life(y, loop, starting, s)
  <2>1. Waiting(y, loop, starting, s)
    BY <1>2, <1>4 DEF Kept, Life, Waiting
  <2>2. Admitted(y, loop, starting, s)
    BY <1>2, <1>4 DEF Kept, Life, Admitted
  <2>3. Told(y, loop, starting, s)
    BY <1>2, <1>4 DEF Kept, Life, Told, Owed
  <2> QED
    BY <2>1, <2>2, <2>3 DEF Life
<1>9. HasEntry(y, s) /\ ClosedHeld(y, s)
  BY <1>2, <1>4 DEF Kept, HasEntry, ClosedHeld, Entry
<1>10. Spare(y, loop, starting, s)
  <2>1. y.dealt[s] \in Seq(Dealt) /\ ~Ended(y.dealt[s])
    BY <1>2, <1>4, <1>7 DEF World
  <2>2. Most(loop, s) - Owed(y, loop, starting, s) - 1 \in Int
    BY DEF Most, Owed
  <2> QED
    BY <2>1, <2>2, AfterMore DEF Spare
<1>11. f \in Funs /\ MayPost(y, loop, starting, loop[s], f, s)
  BY <1>4, <1>7, <1>10 DEF MayPost, Funs
<1>12. /\ Step(y, z, s) /\ Life(z, loop, starting, s)
       /\ HasEntry(y, s) => HasEntry(z, s)
       /\ ClosedHeld(y, s) => ClosedHeld(z, s)
  BY <1>5, <1>7, <1>8, <1>11, Posted
<1>13. \A k \in Loops : \A S :
          Has(z.q[k], S) <=> Has(y.q[k], S) \/ (k = loop[s] /\ Task(f, s) \in S)
  BY <1>5, <1>7, <1>8, <1>11, Posted
<1> HIDE DEF z
<1>14. Has(z.q[loop[s]], Reads(s))
  <2>1. Task(f, s) \in Reads(s)
    BY <1>11, TaskKinds
  <2> QED
    BY <1>7, <1>13, <2>1
<1>15. Kept(z, loop, starting, s)
  BY <1>9, <1>12, <1>14 DEF Kept, OpenHeld
<1>16. Step(w, z, s)
  BY <1>6, <1>12, StepTwice
<1> QED
  BY <1>1, <1>3, <1>15, <1>16, Closing

(* A peer stays silent too long. *)
LEMMA SilentPreserves ==
    ASSUME IInv, NEW s \in Sessions, fall_silent(s)
    PROVE  IInv'
<1> DEFINE y == [w EXCEPT !.silent = w.silent \cup {s}]
<1>1. Table(w) /\ w \in World /\ Kept(w, loop, starting, s)
  BY DEF IInv, Table
<1>2. w' = y /\ starting' = starting /\ walk' = walk /\ Rest
  BY <1>1 DEF fall_silent, World
<1>3. /\ y \in World /\ y.open = w.open /\ y.reading = w.reading
      /\ y.q = w.q /\ y.id = w.id /\ y.all = w.all /\ y.current = w.current
      /\ y.started = w.started /\ y.rejected = w.rejected
      /\ y.dealt = w.dealt /\ y.broken = w.broken
  <2>1. w.silent \cup {s} \in SUBSET Sessions
    BY <1>1 DEF World
  <2> QED
    BY <1>1, <2>1 DEF World
<1> HIDE DEF y
<1>4. Table(y)
  BY <1>1, <1>3, TableAs
<1>5. Step(w, y, s)
  BY <1>3, <1>4 DEF Step, Same, Entry
<1>6. Life(y, loop, starting, s)
  BY <1>1, <1>3, LifeAs DEF Kept
<1>7. Kept(y, loop, starting, s)
  BY <1>1, <1>3, <1>6 DEF Kept, HasEntry, OpenHeld, ClosedHeld, Entry
<1> QED
  BY <1>2, <1>5, <1>7, Closing

(* A loop runs its next task. *)
LEMMA RunTaskPreserves ==
    ASSUME IInv, NEW l \in Loops, RunTask(l)
    PROVE  IInv'
<1> DEFINE x == [w EXCEPT !.q[l] = Tail(@)]
           s == Head(w.q[l]).s
           f == Head(w.q[l]).f
           Reading == {"do_read_head_len", "on_read_complete", "on_read_error"}
<1>1. /\ Table(w) /\ w.q[l] # <<>> /\ Idle(l) /\ Rest /\ walk' = walk
      /\ \/ f = "do_add_session" /\ do_add_session(x, s)
         \/ /\ f # "do_add_session"
            /\ w' = CASE f = "do_close_session" -> do_close_session(x, s)
                      [] f = "do_close"         -> do_close(x, s)
                      [] f = "do_check_alive"   -> do_check_alive(x, s)
                      [] f = "do_read_head_len" -> do_read_head_len(x, s)
                      [] f = "do_session_open"  -> do_session_open(x, s)
                      [] f = "on_read_complete" -> on_read_complete(x, s)
                      [] f = "on_read_error"    -> do_close(x, s)
            /\ starting' = starting
  BY DEF RunTask, IInv
<1>2. \A r \in Sessions : Kept(w, loop, starting, r) /\ loop[r] \in Loops \cup {NoLoop}
  BY DEF IInv, Surroundings
<1>3. /\ s \in Sessions /\ f \in Funs
      /\ Step(w, x, s) /\ Life(x, loop, starting, s) /\ HasEntry(x, s)
      /\ f \notin Reading => OpenHeld(x, loop, s)
      /\ f # "do_close_session" => ClosedHeld(x, s)
      /\ Due(x, loop, starting, l, f, s) /\ loop[s] \in Loops
  BY <1>1, <1>2, TakeTask, Constants
<1> HIDE DEF x, s, f
<1>4. Table(x) /\ x \in World
  BY <1>3 DEF Step, Table
<1>5. CASE f = "do_add_session"
  <2>1. do_add_session(x, s)
    BY <1>1, <1>5
  <2>2. l = Manager /\ starting = NoSession
    BY <1>1, <1>3, <1>5 DEF Due, Idle
  <2>3. Kept(x, loop, NoSession, s) /\ Due(x, loop, NoSession, Manager, "do_add_session", s)
    BY <1>3, <1>5, <2>2 DEF Kept
  <2>4. /\ Step(x, w', s) /\ Kept(w', loop, starting', s)
        /\ starting' \in {NoSession, s}
    BY <1>3, <1>4, <2>1, <2>2, <2>3, AddSession
  <2>5. Step(w, w', s)
    BY <1>3, <2>4, StepTwice
  <2> QED
    BY <1>1, <1>3, <2>2, <2>4, <2>5, Closing
<1>6. CASE f # "do_add_session"
  <2>1. starting' = starting
    BY <1>1, <1>6
  <2>2. ASSUME NEW y, w' = y, Step(x, y, s), Kept(y, loop, starting, s)
        PROVE  IInv'
    <3>1. Step(w, y, s)
      BY <1>3, <2>2, StepTwice
    <3> QED
      BY <1>1, <1>3, <2>1, <2>2, <3>1, Closing
  <2>3. CASE f = "do_close_session"
    <3>1. w' = do_close_session(x, s)
      BY <1>1, <2>3
    <3>2. s \notin x.open
      BY <1>3, <2>3 DEF Due
    <3>3. Step(x, do_close_session(x, s), s) /\ Kept(do_close_session(x, s), loop, starting, s)
      BY <1>3, <1>4, <3>2, CloseSession
    <3> QED
      BY <2>2, <3>1, <3>3
  <2>4. CASE f = "do_close" \/ f = "on_read_error"
    <3>1. w' = do_close(x, s)
      BY <1>1, <2>4
    <3>2. ClosedHeld(x, s) /\ (s \in x.started \/ s \in x.rejected)
      BY <1>3, <2>4 DEF Due
    <3>3. Step(x, do_close(x, s), s) /\ Kept(do_close(x, s), loop, starting, s)
      BY <1>3, <1>4, <3>2, DoClose, Constants
    <3> QED
      BY <2>2, <3>1, <3>3
  <2>5. CASE f = "do_check_alive"
    <3>1. w' = do_check_alive(x, s)
      BY <1>1, <2>5
    <3>2. ClosedHeld(x, s) /\ s \in x.started /\ Kept(x, loop, starting, s)
      BY <1>3, <2>5 DEF Due, Kept
    <3>3. Step(x, x, s)
      BY <1>4 DEF Step, Same
    <3>4. Step(x, do_close(x, s), s) /\ Kept(do_close(x, s), loop, starting, s)
      BY <1>3, <1>4, <3>2, DoClose, Constants
    <3>5. do_check_alive(x, s) = do_close(x, s) \/ do_check_alive(x, s) = x
      BY DEF do_check_alive
    <3> QED
      BY <2>2, <3>1, <3>2, <3>3, <3>4, <3>5
  <2>6. CASE f = "do_read_head_len"
    <3>1. w' = do_read_head_len(x, s)
      BY <1>1, <2>6
    <3>2. ClosedHeld(x, s) /\ s \in x.started /\ \A k \in Loops : ~Has(x.q[k], Reads(s))
      BY <1>3, <2>6 DEF Due
    <3>3. Step(x, do_read_head_len(x, s), s) /\ Kept(do_read_head_len(x, s), loop, starting, s)
      BY <1>3, <1>4, <3>2, ReadHeadLen
    <3> QED
      BY <2>2, <3>1, <3>3
  <2>7. CASE f = "do_session_open"
    <3>1. w' = do_session_open(x, s)
      BY <1>1, <2>7
    <3>2. /\ s \in x.started /\ Kept(x, loop, starting, s)
          /\ starting # s /\ ~Opened(x.dealt[s]) /\ Spare(x, loop, starting, s)
          /\ \A k \in Loops : ~Has(x.q[k], T("do_session_open", s))
      BY <1>3, <2>7 DEF Due, Kept
    <3>3. Step(x, do_session_open(x, s), s) /\ Kept(do_session_open(x, s), loop, starting, s)
      BY <1>3, <1>4, <3>2, SessionOpen
    <3> QED
      BY <2>2, <3>1, <3>3
  <2>8. CASE f = "on_read_complete"
    <3>1. w' = on_read_complete(x, s)
      BY <1>1, <2>8
    <3>2. /\ ClosedHeld(x, s) /\ s \in x.started /\ Spare(x, loop, starting, s)
          /\ \A k \in Loops : ~Has(x.q[k], Reads(s))
      BY <1>3, <2>8 DEF Due
    <3>3. Step(x, on_read_complete(x, s), s) /\ Kept(on_read_complete(x, s), loop, starting, s)
      BY <1>3, <1>4, <3>2, ReadComplete
    <3> QED
      BY <2>2, <3>1, <3>3
  <2> QED
    BY <1>3, <1>6, <2>3, <2>4, <2>5, <2>6, <2>7, <2>8 DEF Funs
<1> QED
  BY <1>5, <1>6

-----------------------------------------------------------------------------
(* A handler or a task holds each session of the table. *)
LEMMA TrackedHeld ==
    ASSUME IInv
    PROVE  \A s \in Tracked(w) : Held(s)
<1>1. Table(w) /\ w \in World /\ \A r \in Sessions : Kept(w, loop, starting, r)
  BY DEF IInv, Table
<1>2. ASSUME NEW l \in Loops, NEW S, NEW s, \A t \in S : t.s = s, Has(w.q[l], S)
      PROVE  Held(s)
  <2>1. w.q[l] \in Seq(Tasks)
    BY <1>1 DEF World
  <2>2. PICK i \in 1 .. Len(w.q[l]) : w.q[l][i] \in S
    BY <1>2 DEF Has
  <2>3. i \in DOMAIN w.q[l] /\ w.q[l][i].s = s
    BY <1>2, <2>1, <2>2
  <2> QED
    BY <2>3 DEF Held
<1>3. ASSUME NEW s \in Tracked(w)
      PROVE  Held(s)
  <2>1. s \in Sessions /\ s \in w.started /\ Entry(w, s)
    BY <1>1, TableEntry
  <2>2. Kept(w, loop, starting, s)
    BY <1>1, <2>1
  <2>3. loop[s] \in Loops
    BY <2>1, <2>2 DEF Kept, Life, Admitted
  <2>4. /\ \A t \in Reads(s) : t.s = s
        /\ \A t \in T("do_close_session", s) : t.s = s
    BY DEF Reads, T, Task
  <2>5. CASE s \in w.open
    <3>1. s \in w.reading \/ Has(w.q[loop[s]], Reads(s))
      BY <2>1, <2>2, <2>5 DEF Kept, OpenHeld
    <3>2. s \in w.reading => Held(s)
      BY DEF Held
    <3> QED
      BY <1>2, <2>3, <2>4, <3>1, <3>2
  <2>6. CASE s \notin w.open
    <3>1. Has(w.q[Manager], T("do_close_session", s))
      BY <2>1, <2>2, <2>6 DEF Kept, ClosedHeld
    <3> QED
      BY <1>2, <2>4, <3>1, Constants
  <2> QED
    BY <2>5, <2>6
<1> QED
  BY <1>3

(* The walk begins with the sessions of the table. *)
LEMMA CheckPreserves ==
    ASSUME IInv, on_check_handle
    PROVE  IInv'
<1>1. /\ walk' = Tracked(w) /\ server' = server /\ loop' = loop
      /\ m_next_index' = m_next_index /\ w' = w /\ starting' = starting
  BY DEF on_check_handle, Rest
<1>2. walk' \subseteq w.started
  BY <1>1, TableEntry DEF IInv
<1> QED
  BY <1>1, <1>2 DEF IInv, Surroundings, Table

(* check_alive, called for a session that was started. *)
LEMMA CheckAlive ==
    ASSUME NEW x, Table(x), NEW st, NEW s \in Sessions, loop[s] \in Loops,
           Kept(x, loop, st, s), s \in x.started
    PROVE  LET y == check_alive(x, s)
           IN  /\ Step(x, y, s) /\ Kept(y, loop, st, s)
               /\ y.all # x.all => loop[s] = Manager /\ s \notin y.open
<1>1. CASE loop[s] = Manager
  <2>1. check_alive(x, s) = do_close(x, s) \/ check_alive(x, s) = x
    BY <1>1 DEF check_alive, do_check_alive
  <2>2. /\ Step(x, do_close(x, s), s) /\ Kept(do_close(x, s), loop, st, s)
        /\ s \notin do_close(x, s).open
    BY DoClose, Constants DEF Kept
  <2>3. Step(x, x, s)
    BY DEF Step, Same
  <2> QED
    BY <1>1, <2>1, <2>2, <2>3
<1>2. CASE loop[s] # Manager
  <2> DEFINE f == "do_check_alive"
             y == Queue(x, loop[s], Task(f, s))
  <2>1. check_alive(x, s) = y /\ f \in Funs
    BY <1>2 DEF check_alive, Funs
  <2>2. MayPost(x, loop, st, loop[s], f, s)
    BY DEF MayPost
  <2> HIDE DEF f
  <2>3. /\ Step(x, y, s) /\ Life(y, loop, st, s)
        /\ HasEntry(x, s) => HasEntry(y, s)
        /\ OpenHeld(x, loop, s) => OpenHeld(y, loop, s)
        /\ ClosedHeld(x, s) => ClosedHeld(y, s)
        /\ y.all = x.all
    BY <2>1, <2>2, Posted DEF Kept
  <2> HIDE DEF y
  <2> QED
    BY <2>1, <2>3 DEF Kept
<1> QED
  BY <1>1, <1>2

(***************************************************************************)
(* The walk visits an entry.  No entry is ever found that nothing holds;   *)
(* and only a session of this very loop can be erased by its own check.    *)
(***************************************************************************)
LEMMA VisitPreserves ==
    ASSUME IInv, NEW s \in Sessions, check_session_alive(s)
    PROVE  IInv'
<1>1. /\ s \in walk /\ walk' = walk \ {s} /\ Rest /\ starting' = starting
      /\ server' = server /\ loop' = loop /\ m_next_index' = m_next_index
  BY DEF check_session_alive, Rest
<1>2. /\ Table(w) /\ w \in World /\ Surroundings /\ Kept(w, loop, starting, s)
      /\ s \in w.started /\ loop \in [Sessions -> Loops \cup {NoLoop}]
  BY <1>1 DEF IInv, Table, Surroundings
<1>3. loop[s] \in Loops
  BY <1>2 DEF Kept, Life, Admitted
<1>4. CASE Held(s)
  <2> DEFINE y == check_alive(w, s)
             b == w.broken \/ Tracked(y) # Tracked(w)
             z == [y EXCEPT !.broken = b]
  <2>1. /\ Step(w, y, s) /\ Kept(y, loop, starting, s)
        /\ y.all # w.all => loop[s] = Manager /\ s \notin y.open
    BY <1>2, <1>3, CheckAlive
  <2>2. Tracked(y) # Tracked(w) => loop[s] = Manager /\ s \notin y.open
    BY <2>1 DEF Tracked
  <2>3. /\ Table(y) /\ y \in World /\ y.broken = w.broken
        /\ w.started \subseteq y.started /\ y.open \subseteq w.open
    BY <2>1 DEF Step, Table
  <2>4. w' = [y EXCEPT !.broken = @ \/ (Tracked(y) # Tracked(w))]
    BY <1>4 DEF check_session_alive
  <2> HIDE DEF y
  <2>5. w' = z
    BY <2>3, <2>4 DEF World
  <2>6. b \in BOOLEAN
    OBVIOUS
  <2> HIDE DEF b
  <2>7. /\ z \in World /\ z.open = y.open /\ z.reading = y.reading
        /\ z.q = y.q /\ z.id = y.id /\ z.all = y.all /\ z.current = y.current
        /\ z.started = y.started /\ z.rejected = y.rejected
        /\ z.dealt = y.dealt /\ z.broken = b
    BY <2>3, <2>6 DEF World
  <2> HIDE DEF z
  <2>8. Table(z)
    BY <2>3, <2>7, TableAs
  <2>9. \A r \in Sessions : Kept(z, loop, starting, r)
    <3>1. \A r \in Sessions : Kept(y, loop, starting, r)
      BY <1>2, <2>1, FrameOthers, Constants DEF IInv
    <3>2. ASSUME NEW r \in Sessions
          PROVE  Kept(z, loop, starting, r)
      <4>1. Same(y, z, r)
        BY <2>7 DEF Same, Entry
      <4>2. loop[r] \in Loops \cup {NoLoop}
        BY <1>2
      <4> QED
        BY <3>1, <4>1, <4>2, Frame, Constants
    <3> QED
      BY <3>2
  <2>10. b => \E r \in z.started \ z.open : loop[r] = Manager
    BY <1>2, <2>2, <2>3, <2>7 DEF b, Surroundings
  <2>11. Table(w)'
    BY <1>1, <2>5, <2>8 DEF Table
  <2>12. Surroundings'
    BY <1>1, <1>2, <2>3, <2>5, <2>7, <2>10 DEF Surroundings
  <2>13. (\A r \in Sessions : Kept(w, loop, starting, r))'
    BY <1>1, <2>5, <2>9
  <2> QED
    BY <2>11, <2>12, <2>13 DEF IInv
<1>5. CASE ~Held(s)
  <2>1. w' = erase(w, s)
    BY <1>5 DEF check_session_alive
  <2>2. \A i \in DOMAIN w.all : w.all[i] # s
    BY <1>5, TrackedHeld DEF Tracked
  <2>3. w.all \in [DOMAIN w.all -> Sessions]
    BY <1>2, TableEntry
  <2>4. {i \in DOMAIN w.all : w.all[i] # s} = DOMAIN w.all
    BY <2>2
  <2>5. Restrict(w.all, {i \in DOMAIN w.all : w.all[i] # s}) = w.all
    BY <2>3, <2>4 DEF Restrict
  <2>6. w' = w
    BY <1>2, <2>1, <2>5 DEF erase, World
  <2> QED
    BY <1>1, <2>6 DEF IInv, Surroundings, Table
<1> QED
  BY <1>4, <1>5

-----------------------------------------------------------------------------
(* Before the first connection. *)
LEMMA InitHolds == Init => IInv
<1> SUFFICES ASSUME Init PROVE IInv
  OBVIOUS
<1>1. /\ server \in Servers /\ w.q = [l \in Loops |-> <<>>] /\ w.open = {} /\ w.reading = {}
      /\ w.silent = {} /\ w.id = [s \in Sessions |-> 0] /\ w.all = <<>> /\ w.current = 0
      /\ w.started = {} /\ w.rejected = {} /\ w.dealt = [s \in Sessions |-> <<>>]
      /\ w.broken = FALSE /\ loop = [s \in Sessions |-> NoLoop]
      /\ m_next_index = 1 % PoolSize /\ starting = NoSession /\ walk = {}
  BY DEF Init
<1>2. DOMAIN w.all = {}
  BY <1>1
<1>3. w.all \in Numbered
  <2>1. w.all \in Seq(Sessions)
    BY <1>1
  <2>2. w.all \in [DOMAIN w.all -> Sessions]
    BY <2>1
  <2>3. DOMAIN w.all \in SUBSET Nat
    BY <1>2
  <2> QED
    BY <2>2, <2>3, NumberedIs
<1>4. <<>> \in Seq(Tasks) /\ <<>> \in Seq(Dealt) /\ Len(<<>>) = 0
  OBVIOUS
<1>5. w \in World
  BY <1>1, <1>3, <1>4 DEF Init, World
<1>6. server.m_max_session_count \in Nat
  BY <1>1, ManagerAssumption DEF Server
<1>7. Cardinality(DOMAIN w.all) = 0
  BY <1>2, FS_EmptySet
<1>8. Table(w)
  BY <1>1, <1>2, <1>5, <1>6, <1>7 DEF Table
<1>9. Surroundings
  <2>1. 1 % PoolSize \in Loops
    BY ManagerAssumption DEF Loops
  <2> QED
    BY <1>1, <2>1 DEF Surroundings
<1>10. ASSUME NEW r \in Sessions
       PROVE  Kept(w, loop, starting, r)
  <2>1. /\ \A l \in Loops : w.q[l] = <<>>
        /\ w.dealt[r] = <<>> /\ loop[r] = NoLoop /\ starting # r /\ w.id[r] = 0
    BY <1>1, Constants
  <2>2. Waiting(w, loop, starting, r)
    <3>1. ASSUME NEW l \in Loops, NEW S
          PROVE  ~Has(w.q[l], S) /\ Once(w.q[l], S)
      BY <1>4, <2>1 DEF Has, Once
    <3> QED
      BY <3>1 DEF Waiting
  <2>3. Admitted(w, loop, starting, r)
    BY <1>1, <1>4, <2>1, AfterMore DEF Admitted
  <2>4. Told(w, loop, starting, r)
    BY <1>1, <1>4, <2>1, AfterMore, Constants DEF Told
  <2>5. ~Entry(w, r)
    BY <1>2 DEF Entry
  <2> QED
    BY <1>1, <2>2, <2>3, <2>4, <2>5 DEF Kept, Life, HasEntry, OpenHeld, ClosedHeld
<1> QED
  BY <1>8, <1>9, <1>10 DEF IInv

(* The invariant of the manager and its sessions. *)
THEOREM ManagerInvariant == Spec => []IInv
<1>1. Init => IInv
  BY InitHolds
<1>2. IInv /\ [Next]_vars => IInv'
  <2> SUFFICES ASSUME IInv, [Next]_vars PROVE IInv'
    OBVIOUS
  <2>1. CASE UNCHANGED vars
    BY <2>1 DEF vars, IInv, Surroundings, Table
  <2>2. ASSUME NEW s \in Sessions, on_accept_complete(s)
        PROVE  IInv'
    BY <2>2, AcceptPreserves
  <2>3. CASE on_accept_failed
    BY <2>3, AcceptFailedPreserves
  <2>4. CASE start_rest
    BY <2>4, StartRestPreserves
  <2>5. ASSUME NEW l \in Loops, RunTask(l)
        PROVE  IInv'
    BY <2>5, RunTaskPreserves
  <2>6. CASE on_check_handle
    BY <2>6, CheckPreserves
  <2>7. ASSUME NEW s \in Sessions, check_session_alive(s)
        PROVE  IInv'
    BY <2>7, VisitPreserves
  <2>8. ASSUME NEW s \in Sessions, receive(s) \/ leave(s) \/ fall_silent(s)
        PROVE  IInv'
    BY <2>8, ReceivePreserves, SilentPreserves
  <2> QED
    BY <2>1, <2>2, <2>3, <2>4, <2>5, <2>6, <2>7, <2>8 DEF Next
<1> QED
  BY <1>1, <1>2, PTL DEF Spec

-----------------------------------------------------------------------------
(* OpenIsTracked, for any number of connections: do_add_session and        *)
(* do_close_session never lose the entry of a session that is open.        *)
THEOREM OpenIsTrackedHolds == Spec => []OpenIsTracked
<1>1. IInv => OpenIsTracked
  <2> SUFFICES ASSUME IInv, NEW s \in w.started \cap w.open
               PROVE  w.id[s] \in DOMAIN w.all /\ w.all[w.id[s]] = s
    BY DEF OpenIsTracked
  <2>1. s \in Sessions
    BY DEF IInv, Table, World
  <2> QED
    BY <2>1 DEF IInv, Kept, HasEntry, Entry
<1> QED
  BY <1>1, ManagerInvariant, PTL

(* LimitHolds, for any limit: the open sessions that were started have     *)
(* different numbers, all of them keys of the table.                       *)
THEOREM LimitHoldsAlways == Spec => []LimitHolds
<1>1. IInv => LimitHolds
  <2> SUFFICES ASSUME IInv PROVE LimitHolds
    OBVIOUS
  <2> DEFINE S == w.started \cap w.open
             D == DOMAIN w.all
             f == [s \in S |-> w.id[s]]
  <2>1. Table(w) /\ w \in World /\ \A r \in Sessions : Kept(w, loop, starting, r)
    BY DEF IInv, Table
  <2>2. IsFiniteSet(D) /\ Cardinality(D) \in Nat
    BY <2>1, TableEntry
  <2>3. \A s \in S : w.id[s] \in D /\ w.all[w.id[s]] = s
    BY <2>1 DEF World, Kept, HasEntry, Entry
  <2>4. f \in [S -> D]
    BY <2>3
  <2>5. \A a, b \in S : f[a] = f[b] => a = b
    BY <2>3
  <2>6. f \in Injection(S, D)
    BY <2>4, <2>5 DEF Injection, IsInjective
  <2> HIDE DEF f, D, S
  <2>7. IsFiniteSet(S) /\ Cardinality(S) <= Cardinality(D)
    BY <2>2, <2>6, FS_Injection
  <2>8. Cardinality(S) \in Nat
    BY <2>7, FS_CardinalityType
  <2>9. Cardinality(D) <= server.m_max_session_count /\ server.m_max_session_count \in Nat
    BY <2>1 DEF Table, D
  <2> QED
    BY <2>2, <2>7, <2>8, <2>9 DEF LimitHolds, S
<1> QED
  BY <1>1, ManagerInvariant, PTL

(* EntriesHeld: check_session_alive never finds a session that is gone.    *)
THEOREM EntriesHeldAlways == Spec => []EntriesHeld
<1>1. IInv => EntriesHeld
  BY TrackedHeld DEF EntriesHeld
<1> QED
  BY <1>1, ManagerInvariant, PTL

(* LifeCycle, for any number of loops and messages. *)
THEOREM LifeCycleHolds == Spec => []LifeCycle
<1>1. IInv => LifeCycle
  <2> SUFFICES ASSUME IInv, NEW s \in Sessions
               PROVE  LET d == w.dealt[s] IN
                        /\ \A i, j \in DOMAIN d : d[i] = d[j] /\ d[i] # "message" => i = j
                        /\ s \in w.rejected => d \in {<<>>, <<"close">>}
                        /\ \A i \in DOMAIN d : d[i] = "close" =>
                              /\ s \notin w.open
                              /\ Len(d) - i <= (IF loop[s] = Manager THEN 1 ELSE 2)
    BY DEF LifeCycle
  <2> DEFINE d == w.dealt[s]
             n == Most(loop, s) - Owed(w, loop, starting, s)
  <2>1. Kept(w, loop, starting, s) /\ d \in Seq(Dealt) /\ loop[s] \in Loops \cup {NoLoop}
    BY DEF IInv, Table, World, Surroundings
  <2>2. DOMAIN d = 1 .. Len(d) /\ Len(d) \in Nat
    BY <2>1
  <2>3. \A i, j \in DOMAIN d : d[i] = d[j] /\ d[i] # "message" => i = j
    BY <2>1, <2>2 DEF Kept, Life, Told, NoRepeat
  <2>4. s \in w.rejected => d \in {<<>>, <<"close">>}
    BY <2>1 DEF Kept, Life, Admitted
  <2>5. ASSUME NEW i \in DOMAIN d, d[i] = "close"
        PROVE  s \notin w.open /\ Len(d) - i <= (IF loop[s] = Manager THEN 1 ELSE 2)
    <3>1. s \notin w.open
      BY <2>1, <2>2, <2>5 DEF Kept, Life, Told, Ended
    <3>2. loop[s] # NoLoop
      BY <2>1, <2>2, <2>5 DEF Kept, Life, Admitted
    <3>3. After(d, n)
      BY <2>1, <3>2 DEF Kept, Life, Told
    <3>4. n \in Int /\ n <= Most(loop, s) /\ Most(loop, s) = IF loop[s] = Manager THEN 1 ELSE 2
      BY DEF Owed, Most
    <3> HIDE DEF n
    <3>5. Len(d) - i <= n
      BY <2>2, <2>5, <3>3 DEF After
    <3>6. Most(loop, s) \in Int
      BY DEF Most
    <3>7. Len(d) - i <= Most(loop, s)
      BY <2>2, <3>4, <3>5, <3>6
    <3> QED
      BY <3>1, <3>4, <3>7
  <2> QED
    BY <2>3, <2>4, <2>5
<1> QED
  BY <1>1, ManagerInvariant, PTL

(* WalkBrokenBySharedLoop: the iterator of check_session_alive is only     *)
(* lost to a session of the manager's own loop.                            *)
THEOREM WalkBrokenHolds == Spec => []WalkBrokenBySharedLoop
<1>1. IInv => WalkBrokenBySharedLoop
  BY DEF IInv, Surroundings, WalkBrokenBySharedLoop
<1> QED
  BY <1>1, ManagerInvariant, PTL
=============================================================================
