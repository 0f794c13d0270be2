-------------------------- MODULE TcpSessionProofs ---------------------------
(***************************************************************************)
(* Proofs about one TCP session, for any number of messages and frames and *)
(* any sizes of the send queue.                                            *)
(*                                                                         *)
(* The functions of TcpSession.tla take a session and give the session     *)
(* after the call, so the facts below are about a session x and hold       *)
(* between the calls of a handler, too.                                    *)
(***************************************************************************)
EXTENDS TcpSession, FiniteSetTheorems, SequenceTheorems, TLAPS

Handlers ==
    [h : {"do_read_head_len", "do_session_open", "do_close", "do_check_alive"}]
    \cup [h : {"do_write"}, msg : Nat]
    \cup [h : ReadStages \cup {"write"}, err : BOOLEAN]

Dealt == {"open", "message", "close"}

Session ==
    [shared : BOOLEAN, open : BOOLEAN, queue : [buf : Seq(Nat), cap : Nat],
     reading : ReadStages \cup {"none"}, writing : BOOLEAN, silent : BOOLEAN,
     ready : Seq(Handlers), dealt : Seq(Dealt), told : Nat,
     accepted : Seq(Nat), wire : Seq(Nat), sent : Nat, frames : Nat]

ReadHandlers == ReadStages \cup {"do_read_head_len"}

-----------------------------------------------------------------------------
(***************************************************************************)
(* The loop: a handler of one of the kinds hs waits; at most one does; a   *)
(* frame was read and waits to be dealt.                                   *)
(***************************************************************************)
Has(ready, hs)  == \E i \in 1 .. Len(ready) : ready[i].h \in hs
Once(ready, hs) == \A i, j \in 1 .. Len(ready) :
                      ready[i].h \in hs /\ ready[j].h \in hs => i = j
FrameRead(ready) == \E i \in 1 .. Len(ready) : ready[i].h = "body" /\ ~ready[i].err

(* At most one write is under way, of the message at the queue's front.    *)
OneWrite(x) ==
    /\ Once(x.ready, {"write"})
    /\ x.writing => ~Has(x.ready, {"write"}) /\ x.open
    /\ x.writing \/ Has(x.ready, {"write"}) => x.queue.buf # <<>>

(* A queue that is not empty is being written. *)
Writes(x) == x.open /\ x.queue.buf # <<>> => x.writing \/ Has(x.ready, {"write"})

(* At most one read is under way, or about to start. *)
OneRead(x) ==
    /\ Once(x.ready, ReadHandlers)
    /\ x.reading # "none" => ~Has(x.ready, ReadHandlers) /\ x.open

Reads(x)  == x.open => x.reading # "none" \/ Has(x.ready, ReadHandlers)
NoRead(x) == x.reading = "none" /\ ~Has(x.ready, ReadHandlers)

Bounded(q) ==
    /\ Len(q.buf) <= q.cap
    /\ q.cap > 0
    /\ q.cap = INIT_SIZE \/ q.cap <= 2 * MAX_SIZE

(***************************************************************************)
(* What was dealt: the end; the end at most once; the messages after it.   *)
(***************************************************************************)
Ended(d)   == \E i \in 1 .. Len(d) : d[i] = "close"
OneEnd(d)  == \A i, j \in 1 .. Len(d) : d[i] = "close" /\ d[j] = "close" => i = j
Late(d, j) == d[j] = "message" /\ \E i \in 1 .. Len(d) : i < j /\ d[i] = "close"
NoLate(d)  == \A j \in 1 .. Len(d) : ~Late(d, j)
OneLate(d) == \A j, k \in 1 .. Len(d) : Late(d, j) /\ Late(d, k) => j = k

(* The end is dealt once, when the socket is closed. *)
EndsOnce(x) ==
    /\ x.told = IF x.open THEN 0 ELSE 1
    /\ x.open <=> ~Ended(x.dealt)
    /\ OneEnd(x.dealt)

(* After the end only a frame that had been read is dealt, and then none   *)
(* waits any more.                                                         *)
LastMessage(x) ==
    /\ OneLate(x.dealt)
    /\ FrameRead(x.ready) => NoLate(x.dealt)

Core(x) ==
    /\ x \in Session
    /\ OneWrite(x) /\ OneRead(x) /\ Bounded(x.queue)
    /\ x.accepted = x.wire \o x.queue.buf
    /\ EndsOnce(x) /\ LastMessage(x)

(* What start() has done. *)
Stage ==
    /\ started \in {"no", "half", "yes", "rejected"}
    /\ started \in {"half", "yes"} => Reads(s)
    /\ started \in {"no", "rejected"} => NoRead(s)
    /\ started = "no" => s.open /\ s.dealt = <<>> /\ s.ready = <<>> /\ ~s.writing
    /\ s.shared => started # "half"
    /\ s.shared /\ started = "yes" => s.dealt # <<>> /\ s.dealt[1] = "open"

IInv == Core(s) /\ Writes(s) /\ Stage

(* What no handler changes; and what only the handlers of a read change. *)
Same(x, y) ==
    /\ y.shared = x.shared
    /\ x.dealt # <<>> => y.dealt # <<>> /\ y.dealt[1] = x.dealt[1]

Keeps(x, y) ==
    /\ Same(x, y)
    /\ NoRead(x) => NoRead(y)
    /\ Reads(x) => Reads(y)

-----------------------------------------------------------------------------
(* What a handler at the end of the loop adds to it. *)
LEMMA ReadyAppend ==
    ASSUME NEW r \in Seq(Handlers), NEW e \in Handlers, NEW hs
    PROVE  /\ Append(r, e) \in Seq(Handlers)
           /\ Has(Append(r, e), hs) <=> Has(r, hs) \/ e.h \in hs
           /\ Once(r, hs) /\ ~(Has(r, hs) /\ e.h \in hs) => Once(Append(r, e), hs)
           /\ FrameRead(Append(r, e)) <=>
                  FrameRead(r) \/ (e.h = "body" /\ ~e.err)
<1> DEFINE q == Append(r, e)
<1>1. /\ q \in Seq(Handlers) /\ Len(q) = Len(r) + 1 /\ Len(r) \in Nat
      /\ \A i \in 1 .. Len(r) : q[i] = r[i]
      /\ q[Len(r) + 1] = e
  OBVIOUS
<1> HIDE DEF q
<1>2. Has(q, hs) <=> Has(r, hs) \/ e.h \in hs
  BY <1>1 DEF Has
<1>3. Once(r, hs) /\ ~(Has(r, hs) /\ e.h \in hs) => Once(q, hs)
  BY <1>1 DEF Has, Once
<1>4. FrameRead(q) <=> FrameRead(r) \/ (e.h = "body" /\ ~e.err)
  BY <1>1 DEF FrameRead
<1> QED
  BY <1>1, <1>2, <1>3, <1>4 DEF q

(* What the loop has, its first handler or the others have. *)
LEMMA ReadyTail ==
    ASSUME NEW r \in Seq(Handlers), r # <<>>, NEW hs
    PROVE  /\ Head(r) \in Handlers /\ Tail(r) \in Seq(Handlers)
           /\ Has(r, hs) <=> Head(r).h \in hs \/ Has(Tail(r), hs)
           /\ Once(r, hs) => Once(Tail(r), hs)
           /\ Once(r, hs) /\ Head(r).h \in hs => ~Has(Tail(r), hs)
           /\ FrameRead(Tail(r)) => FrameRead(r) /\ Has(Tail(r), {"body"})
           /\ Head(r).h = "body" /\ ~Head(r).err => FrameRead(r)
<1> DEFINE q == Tail(r)
<1>1. /\ q \in Seq(Handlers) /\ Len(q) = Len(r) - 1 /\ Len(r) \in Nat \ {0}
      /\ \A i \in 1 .. Len(q) : q[i] = r[i + 1]
      /\ Head(r) = r[1] /\ r[1] \in Handlers
  OBVIOUS
<1> HIDE DEF q
<1>2. \A i \in 1 .. Len(r) : i = 1 \/ (i - 1 \in 1 .. Len(q) /\ r[i] = q[i - 1])
  BY <1>1
<1>3. Has(r, hs) <=> Head(r).h \in hs \/ Has(q, hs)
  <2>1. Has(r, hs) => Head(r).h \in hs \/ Has(q, hs)
    BY <1>1, <1>2 DEF Has
  <2>2. Head(r).h \in hs => Has(r, hs)
    BY <1>1 DEF Has
  <2>3. ASSUME NEW i \in 1 .. Len(q), q[i].h \in hs
        PROVE  Has(r, hs)
    BY <1>1, <2>3, i + 1 \in 1 .. Len(r) DEF Has
  <2> QED
    BY <2>1, <2>2, <2>3 DEF Has
<1>4. Once(r, hs) => Once(q, hs)
  <2>1. ASSUME Once(r, hs), NEW i \in 1 .. Len(q), NEW j \in 1 .. Len(q),
               q[i].h \in hs, q[j].h \in hs
        PROVE  i = j
    <3>1. i + 1 \in 1 .. Len(r) /\ j + 1 \in 1 .. Len(r)
      BY <1>1
    <3>2. r[i + 1].h \in hs /\ r[j + 1].h \in hs
      BY <1>1, <2>1
    <3>3. i + 1 = j + 1
      BY <2>1, <3>1, <3>2 DEF Once
    <3> QED
      BY <1>1, <3>3
  <2> QED
    BY <2>1 DEF Once
<1>5. Once(r, hs) /\ Head(r).h \in hs => ~Has(q, hs)
  BY <1>1 DEF Once, Has
<1>6. FrameRead(q) => FrameRead(r) /\ Has(q, {"body"})
  BY <1>1 DEF FrameRead, Has
<1>7. Head(r).h = "body" /\ ~Head(r).err => FrameRead(r)
  BY <1>1 DEF FrameRead
<1> QED
  BY <1>1, <1>3, <1>4, <1>5, <1>6, <1>7 DEF q

(* A loop at rest has nothing. *)
LEMMA ReadyEmpty ==
    ASSUME NEW hs
    PROVE  ~Has(<<>>, hs) /\ Once(<<>>, hs) /\ ~FrameRead(<<>>)
  BY DEF Has, Once, FrameRead

(* What one more thing dealt adds. *)
LEMMA DealAppend ==
    ASSUME NEW d \in Seq(Dealt), NEW w \in Dealt
    PROVE  /\ Append(d, w) \in Seq(Dealt) /\ Append(d, w) # <<>>
           /\ Append(d, w)[1] = IF d = <<>> THEN w ELSE d[1]
           /\ Ended(Append(d, w)) <=> Ended(d) \/ w = "close"
           /\ OneEnd(d) /\ ~(Ended(d) /\ w = "close") => OneEnd(Append(d, w))
           /\ NoLate(d) /\ ~(Ended(d) /\ w = "message") => NoLate(Append(d, w))
           /\ OneLate(d) /\ ~(Ended(d) /\ w = "message") => OneLate(Append(d, w))
           /\ NoLate(d) => OneLate(Append(d, w))
           /\ ~Ended(d) => NoLate(d)
<1> DEFINE q == Append(d, w)
<1>1. /\ q \in Seq(Dealt) /\ Len(q) = Len(d) + 1 /\ Len(d) \in Nat
      /\ \A i \in 1 .. Len(d) : q[i] = d[i]
      /\ q[Len(d) + 1] = w
  OBVIOUS
<1>2. q # <<>> /\ q[1] = IF d = <<>> THEN w ELSE d[1]
  BY <1>1
<1> HIDE DEF q
<1>3. Ended(q) <=> Ended(d) \/ w = "close"
  BY <1>1 DEF Ended
<1>4. OneEnd(d) /\ ~(Ended(d) /\ w = "close") => OneEnd(q)
  BY <1>1 DEF Ended, OneEnd
<1>5. \A j \in 1 .. Len(d) : Late(q, j) <=> Late(d, j)
  BY <1>1 DEF Late
<1>6. Late(q, Len(d) + 1) => Ended(d) /\ w = "message"
  BY <1>1 DEF Late, Ended
<1>7. \A j \in 1 .. Len(q) : j \in 1 .. Len(d) \/ j = Len(d) + 1
  BY <1>1
<1>8. NoLate(d) /\ ~(Ended(d) /\ w = "message") => NoLate(q)
  BY <1>5, <1>6, <1>7 DEF NoLate
<1>9. OneLate(d) /\ ~(Ended(d) /\ w = "message") => OneLate(q)
  BY <1>5, <1>6, <1>7 DEF OneLate
<1>10. NoLate(d) => OneLate(q)
  BY <1>5, <1>7 DEF NoLate, OneLate
<1>11. ~Ended(d) => NoLate(d)
  BY DEF Ended, NoLate, Late
<1> QED
  BY <1>1, <1>2, <1>3, <1>4, <1>8, <1>9, <1>10, <1>11 DEF q

-----------------------------------------------------------------------------
(* Posting a handler that belongs to no read and no write disturbs nothing. *)
LEMMA PostPlain ==
    ASSUME NEW x, Core(x), NEW e \in Handlers,
           e.h \notin ReadHandlers, e.h # "write"
    PROVE  LET y == Post(x, e)
           IN  /\ Core(y) /\ Keeps(x, y) /\ (Writes(x) => Writes(y))
               /\ y.open = x.open /\ y.dealt = x.dealt /\ y.shared = x.shared
<1> DEFINE y == Post(x, e)
<1>1. x \in Session
  BY DEF Core
<1>2. /\ y.ready = Append(x.ready, e)
      /\ y.open = x.open /\ y.queue = x.queue /\ y.reading = x.reading
      /\ y.writing = x.writing /\ y.dealt = x.dealt /\ y.told = x.told
      /\ y.accepted = x.accepted /\ y.wire = x.wire /\ y.shared = x.shared
      /\ y \in Session
  BY <1>1, ReadyAppend DEF Post, Session
<1> HIDE DEF y
<1>3. x.ready \in Seq(Handlers)
  BY <1>1 DEF Session
<1>4. /\ Has(y.ready, {"write"}) <=> Has(x.ready, {"write"})
      /\ Once(x.ready, {"write"}) => Once(y.ready, {"write"})
      /\ Has(y.ready, ReadHandlers) <=> Has(x.ready, ReadHandlers)
      /\ Once(x.ready, ReadHandlers) => Once(y.ready, ReadHandlers)
      /\ FrameRead(y.ready) <=> FrameRead(x.ready)
  <2>1. e.h # "body"
    BY DEF ReadHandlers, ReadStages
  <2> QED
    BY <1>2, <1>3, <2>1, ReadyAppend
<1>5. OneWrite(y) /\ OneRead(y) /\ EndsOnce(y) /\ LastMessage(y)
  BY <1>2, <1>4 DEF Core, OneWrite, OneRead, EndsOnce, LastMessage
<1>6. Core(y)
  BY <1>2, <1>5 DEF Core
<1>7. Keeps(x, y) /\ (Writes(x) => Writes(y))
  BY <1>2, <1>4 DEF Keeps, Same, Writes, Reads, NoRead
<1> QED
  BY <1>2, <1>6, <1>7 DEF y

(* Closing turns the operation in progress into its completion. *)
LEMMA AbortedReady ==
    ASSUME NEW x \in Session
    PROVE  LET r == x.ready \o Aborted(x)
           IN  /\ r \in Seq(Handlers)
               /\ Has(r, {"write"}) <=> Has(x.ready, {"write"}) \/ x.writing
               /\ Once(x.ready, {"write"}) /\ (x.writing => ~Has(x.ready, {"write"}))
                     => Once(r, {"write"})
               /\ Has(r, ReadHandlers) <=>
                     Has(x.ready, ReadHandlers) \/ x.reading # "none"
               /\ Once(x.ready, ReadHandlers)
                  /\ (x.reading # "none" => ~Has(x.ready, ReadHandlers))
                     => Once(r, ReadHandlers)
               /\ FrameRead(r) <=> FrameRead(x.ready)
<1> DEFINE rd == Completion(x.reading, TRUE)
           wr == Completion("write", TRUE)
           m  == IF x.reading = "none" THEN x.ready ELSE Append(x.ready, rd)
           r  == x.ready \o Aborted(x)
<1>1. /\ x.ready \in Seq(Handlers) /\ x.writing \in BOOLEAN
      /\ x.reading # "none" => x.reading \in ReadStages
  BY DEF Session
<1>2. /\ x.reading # "none" => rd \in Handlers
      /\ wr \in Handlers /\ rd.h = x.reading /\ rd.err /\ wr.h = "write" /\ wr.err
  BY <1>1 DEF Completion, Handlers
<1>3. m \in Seq(Handlers)
  BY <1>1, <1>2, ReadyAppend
<1>4. r = IF x.writing THEN Append(m, wr) ELSE m
  <2>1. /\ x.ready \o <<>> = x.ready /\ x.ready \o <<wr>> = Append(x.ready, wr)
        /\ x.reading # "none" => /\ x.ready \o <<rd>> = Append(x.ready, rd)
                                 /\ x.ready \o (<<rd>> \o <<wr>>)
                                    = Append(Append(x.ready, rd), wr)
    <3> HIDE DEF rd, wr
    <3> QED
      BY <1>1, <1>2
  <2>2. <<>> \o <<wr>> = <<wr>> /\ <<rd>> \o <<>> = <<rd>> /\ <<>> \o <<>> = <<>>
    <3> HIDE DEF rd, wr
    <3> QED
      OBVIOUS
  <2> QED
    BY <2>1, <2>2, <1>1 DEF Aborted
<1> HIDE DEF rd, wr, r
<1>5. "write" \notin ReadHandlers /\ ReadStages \subseteq ReadHandlers /\ "write" \notin ReadStages
  BY DEF ReadHandlers, ReadStages
<1>6. /\ Has(m, {"write"}) <=> Has(x.ready, {"write"})
      /\ Once(x.ready, {"write"}) => Once(m, {"write"})
      /\ FrameRead(m) <=> FrameRead(x.ready)
  <2>1. CASE x.reading = "none"
    BY <2>1
  <2>2. CASE x.reading # "none"
    BY <1>1, <1>2, <1>5, <2>2, ReadyAppend
  <2> QED
    BY <2>1, <2>2
<1>7. /\ Has(m, ReadHandlers) <=> Has(x.ready, ReadHandlers) \/ x.reading # "none"
      /\ Once(x.ready, ReadHandlers)
         /\ (x.reading # "none" => ~Has(x.ready, ReadHandlers))
            => Once(m, ReadHandlers)
  <2>1. CASE x.reading = "none"
    BY <2>1
  <2>2. CASE x.reading # "none"
    BY <1>1, <1>2, <1>5, <2>2, ReadyAppend
  <2> QED
    BY <2>1, <2>2
<1> HIDE DEF m
<1>8. CASE x.writing
  <2>1. r = Append(m, wr)
    BY <1>4, <1>8
  <2>2. wr.h # "body" /\ wr.h \notin ReadHandlers /\ wr.h \in {"write"}
    BY <1>2, <1>5
  <2>3. /\ r \in Seq(Handlers) /\ Has(r, {"write"})
        /\ Has(r, ReadHandlers) <=> Has(m, ReadHandlers)
        /\ Once(m, ReadHandlers) => Once(r, ReadHandlers)
        /\ Once(m, {"write"}) /\ ~Has(m, {"write"}) => Once(r, {"write"})
        /\ FrameRead(r) <=> FrameRead(m)
    BY <1>2, <1>3, <2>1, <2>2, ReadyAppend
  <2> QED
    BY <1>6, <1>7, <1>8, <2>3 DEF r
<1>9. CASE ~x.writing
  BY <1>3, <1>4, <1>6, <1>7, <1>9 DEF r
<1> QED
  BY <1>1, <1>8, <1>9

(***************************************************************************)
(* do_close in any state: the session is closed afterwards, its end dealt  *)
(* once, and a read that was under way completes with an error.            *)
(***************************************************************************)
LEMMA DoClose ==
    ASSUME NEW x, Core(x)
    PROVE  LET y == do_close(x)
           IN  Core(y) /\ ~y.open /\ Keeps(x, y)
<1> DEFINE y == do_close(x)
           r == x.ready \o Aborted(x)
<1>1. x \in Session
  BY DEF Core
<1>2. CASE ~x.open
  <2>1. y = x
    BY <1>2 DEF do_close
  <2> QED
    BY <1>2, <2>1 DEF Keeps, Same
<1>3. CASE x.open
  <2> HIDE DEF r
  <2>1. r \in Seq(Handlers)
    BY <1>1, AbortedReady DEF r
  <2>2. x.dealt \in Seq(Dealt) /\ "close" \in Dealt /\ x.told \in Nat
    BY <1>1 DEF Session, Dealt
  <2>3. Append(x.dealt, "close") \in Seq(Dealt)
    BY <2>2, DealAppend
  <2>4. /\ ~y.open /\ y.reading = "none" /\ ~y.writing /\ y.ready = r
        /\ y.told = x.told + 1 /\ y.dealt = Append(x.dealt, "close")
        /\ y.queue = x.queue /\ y.accepted = x.accepted /\ y.wire = x.wire
        /\ y.shared = x.shared
    BY <1>1, <1>3 DEF do_close, Deal, Session, r
  <2>5. y \in Session
    <3> DEFINE z == [x EXCEPT !.open = FALSE, !.reading = "none", !.writing = FALSE,
                              !.ready = r, !.told = @ + 1]
    <3> HIDE DEF y
    <3>0. x.told + 1 \in Nat
      BY <2>2
    <3>1. z \in Session /\ z.dealt = x.dealt
      BY <1>1, <2>1, <3>0 DEF Session
    <3> USE DEF y
    <3>2. y = [z EXCEPT !.dealt = Append(x.dealt, "close")]
      BY <1>3, <3>1 DEF do_close, Deal, r
    <3> HIDE DEF z
    <3> QED
      BY <2>3, <3>1, <3>2 DEF Session
  <2> HIDE DEF y
  <2>6. /\ Has(r, {"write"}) <=> Has(x.ready, {"write"}) \/ x.writing
        /\ Once(r, {"write"})
        /\ Has(r, ReadHandlers) <=> Has(x.ready, ReadHandlers) \/ x.reading # "none"
        /\ Once(r, ReadHandlers)
        /\ FrameRead(r) <=> FrameRead(x.ready)
    BY <1>1, AbortedReady DEF Core, OneWrite, OneRead, r
  <2>7. ~Ended(x.dealt) /\ x.told = 0 /\ OneEnd(x.dealt)
    BY <1>3 DEF Core, EndsOnce
  <2>8. /\ y.dealt # <<>> /\ y.dealt[1] = IF x.dealt = <<>> THEN "close" ELSE x.dealt[1]
        /\ Ended(y.dealt) /\ OneEnd(y.dealt) /\ NoLate(y.dealt) /\ OneLate(y.dealt)
    BY <2>2, <2>4, <2>7, DealAppend
  <2>9. OneWrite(y) /\ OneRead(y)
    BY <2>4, <2>6 DEF Core, OneWrite, OneRead
  <2>10. EndsOnce(y) /\ LastMessage(y)
    BY <2>4, <2>7, <2>8 DEF EndsOnce, LastMessage
  <2>11. Core(y)
    BY <2>4, <2>5, <2>9, <2>10 DEF Core
  <2>12. Keeps(x, y)
    BY <2>4, <2>6, <2>8 DEF Keeps, Same, NoRead, Reads
  <2> QED
    BY <2>4, <2>11, <2>12 DEF y
<1> QED
  BY <1>2, <1>3

-----------------------------------------------------------------------------
(* SendQueue::push, when it does not refuse, appends and never overwrites. *)
LEMMA PushAppends ==
    ASSUME NEW q \in [buf : Seq(Nat), cap : Nat], Bounded(q), ~Refuse(q),
           NEW msg \in Nat
    PROVE  /\ Push(q, msg) \in [buf : Seq(Nat), cap : Nat]
           /\ Push(q, msg).buf = Append(q.buf, msg)
           /\ Bounded(Push(q, msg))
<1> USE QueueAssumption
<1> DEFINE g == Grow(q)
<1>1. q.buf \in Seq(Nat) /\ q.cap \in Nat /\ Len(q.buf) \in Nat
  OBVIOUS
<1>2. /\ g \in [buf : Seq(Nat), cap : Nat] /\ g.buf = q.buf
      /\ g.cap = IF Full(q) THEN Len(q.buf) + Len(q.buf) ELSE q.cap
  BY <1>1 DEF Grow
<1> HIDE DEF g
<1>3. Len(g.buf) < g.cap /\ (g.cap = INIT_SIZE \/ g.cap <= 2 * MAX_SIZE)
  BY <1>1, <1>2 DEF Full, Refuse, Bounded
<1>4. Push(q, msg) = [g EXCEPT !.buf = Append(g.buf, msg)]
  BY <1>2, <1>3 DEF Push, PushBack, g
<1>5. Append(g.buf, msg) \in Seq(Nat) /\ Len(Append(g.buf, msg)) = Len(g.buf) + 1
  BY <1>1, <1>2
<1>6. /\ Push(q, msg).buf = Append(g.buf, msg) /\ Push(q, msg).cap = g.cap
      /\ Push(q, msg) \in [buf : Seq(Nat), cap : Nat]
  BY <1>2, <1>4, <1>5
<1>7. Len(g.buf) \in Nat /\ g.cap \in Nat
  BY <1>1, <1>2
<1>8. Bounded(Push(q, msg))
  BY <1>3, <1>5, <1>6, <1>7 DEF Bounded
<1> QED
  BY <1>2, <1>6, <1>8

(* A message that enters the queue, and one that leaves it. *)
LEMMA InAndOut ==
    ASSUME NEW w \in Seq(Nat), NEW b \in Seq(Nat), NEW msg \in Nat
    PROVE  /\ Append(w \o b, msg) = w \o Append(b, msg)
           /\ b # <<>> => w \o b = Append(w, Head(b)) \o Tail(b)
           /\ Append(b, msg) # <<>>
<1>1. <<msg>> \in Seq(Nat) /\ Append(b, msg) = b \o <<msg>> /\ w \o b \in Seq(Nat)
  BY AppendIsConcat, ConcatProperties
<1>2. Append(w \o b, msg) = (w \o b) \o <<msg>>
  BY <1>1, AppendIsConcat
<1>3. Append(w \o b, msg) = w \o Append(b, msg)
  BY <1>1, <1>2, ConcatAssociative
<1>4. ASSUME b # <<>>
      PROVE  w \o b = Append(w, Head(b)) \o Tail(b)
  <2>1. /\ Head(b) \in Nat /\ Tail(b) \in Seq(Nat) /\ <<Head(b)>> \in Seq(Nat)
        /\ b = <<Head(b)>> \o Tail(b)
    BY <1>4
  <2>2. w \o (<<Head(b)>> \o Tail(b)) = (w \o <<Head(b)>>) \o Tail(b)
    BY <2>1, ConcatAssociative, SMTT(30)
  <2>3. Append(w, Head(b)) = w \o <<Head(b)>>
    BY <2>1, AppendIsConcat
  <2> QED
    BY <2>1, <2>2, <2>3
<1> QED
  BY <1>3, <1>4, AppendProperties, ZenonT(40)

(***************************************************************************)
(* do_write: a refused message ends the session; any other joins the queue *)
(* and is being written unless one before it is.                           *)
(***************************************************************************)
LEMMA DoWrite ==
    ASSUME NEW x, Core(x), Writes(x), NEW msg \in Nat
    PROVE  LET y == do_write(x, msg)
           IN  Core(y) /\ Writes(y) /\ Keeps(x, y)
<1> DEFINE y == do_write(x, msg)
           q == Push(x.queue, msg)
<1>1. x \in Session
  BY DEF Core
<1>2. CASE Refuse(x.queue)
  <2>1. y = do_close(x)
    BY <1>2 DEF do_write
  <2> QED
    BY <2>1, DoClose DEF Writes
<1>3. CASE ~Refuse(x.queue)
  <2>1. /\ x.queue \in [buf : Seq(Nat), cap : Nat] /\ x.accepted \in Seq(Nat)
        /\ x.wire \in Seq(Nat) /\ x.queue.buf \in Seq(Nat) /\ x.open \in BOOLEAN
        /\ x.writing \in BOOLEAN
    BY <1>1 DEF Session
  <2>2. /\ q \in [buf : Seq(Nat), cap : Nat] /\ q.buf = Append(x.queue.buf, msg)
        /\ Bounded(q)
    BY <1>3, <2>1, PushAppends DEF Core
  <2> HIDE DEF q
  <2> DEFINE wr == IF x.queue.buf = <<>> /\ x.open THEN TRUE ELSE x.writing
  <2>3. y = [x EXCEPT !.queue = q, !.accepted = Append(x.accepted, msg), !.writing = wr]
    BY <1>1, <1>3 DEF do_write, IsEmpty, Session, q
  <2>4. wr \in BOOLEAN /\ Append(x.accepted, msg) \in Seq(Nat)
    <3>1. Append(x.accepted, msg) \in Seq(Nat)
      BY <2>1, AppendProperties
    <3> QED
      BY <2>1, <3>1
  <2> HIDE DEF wr, y
  <2>5. /\ y \in Session /\ y.queue = q /\ y.accepted = Append(x.accepted, msg)
        /\ y.writing = wr /\ y.wire = x.wire /\ y.ready = x.ready /\ y.open = x.open
        /\ y.reading = x.reading /\ y.dealt = x.dealt /\ y.told = x.told
        /\ y.shared = x.shared
    BY <1>1, <2>2, <2>3, <2>4 DEF Session
  <2>6. q.buf # <<>>
    <3>1. Append(x.queue.buf, msg) # <<>>
      BY <2>1, InAndOut
    <3> QED
      BY <2>2, <3>1
  <2>7. OneWrite(y) /\ Writes(y)
    BY <2>5, <2>6 DEF Core, OneWrite, Writes, wr
  <2>8. y.accepted = y.wire \o y.queue.buf
    <3>1. x.accepted = x.wire \o x.queue.buf
      BY DEF Core
    <3>2. Append(x.wire \o x.queue.buf, msg) = x.wire \o Append(x.queue.buf, msg)
      BY <2>1, InAndOut
    <3> QED
      BY <2>2, <2>5, <3>1, <3>2
  <2>9. OneRead(y) /\ EndsOnce(y) /\ LastMessage(y) /\ Bounded(y.queue)
    BY <2>2, <2>5 DEF Core, OneRead, EndsOnce, LastMessage
  <2>10. Keeps(x, y)
    BY <2>5 DEF Keeps, Same, NoRead, Reads
  <2> QED
    BY <2>5, <2>7, <2>8, <2>9, <2>10 DEF Core, y
<1> QED
  BY <1>2, <1>3

(***************************************************************************)
(* The completion of a write, when it leaves the loop: the message written *)
(* leaves the queue, and the next one is being written.                    *)
(***************************************************************************)
LEMMA OnWriteComplete ==
    ASSUME NEW x, Core(x), NEW err \in BOOLEAN,
           x.queue.buf # <<>>, ~x.writing, ~Has(x.ready, {"write"})
    PROVE  LET y == on_write_complete(x, err)
           IN  Core(y) /\ Writes(y) /\ Keeps(x, y)
<1> DEFINE y == on_write_complete(x, err)
           q == Pop(x.queue)
<1>1. x \in Session
  BY DEF Core
<1>2. CASE err
  <2>1. y = do_close(x)
    BY <1>2 DEF on_write_complete
  <2> QED
    BY <2>1, DoClose DEF Writes
<1>3. CASE ~err
  <2>1. /\ x.queue \in [buf : Seq(Nat), cap : Nat] /\ x.queue.buf \in Seq(Nat)
        /\ x.wire \in Seq(Nat) /\ x.open \in BOOLEAN
    BY <1>1 DEF Session
  <2>2. /\ q \in [buf : Seq(Nat), cap : Nat] /\ q.buf = Tail(x.queue.buf)
        /\ q.cap = x.queue.cap /\ Len(q.buf) = Len(x.queue.buf) - 1
        /\ Append(x.wire, Head(x.queue.buf)) \in Seq(Nat)
    <3>1. /\ Head(x.queue.buf) \in Nat /\ Tail(x.queue.buf) \in Seq(Nat)
          /\ Len(Tail(x.queue.buf)) = Len(x.queue.buf) - 1
      BY <2>1, HeadTailProperties
    <3>2. Append(x.wire, Head(x.queue.buf)) \in Seq(Nat)
      BY <2>1, <3>1, AppendProperties
    <3> QED
      BY <2>1, <3>1, <3>2 DEF Pop
  <2>3. Bounded(q)
    BY QueueAssumption, <2>1, <2>2 DEF Core, Bounded
  <2> HIDE DEF q
  <2> DEFINE wr == q.buf # <<>> /\ x.open
  <2>4. y = [x EXCEPT !.queue = q, !.wire = Append(x.wire, Head(x.queue.buf)),
                      !.writing = wr]
    BY <1>1, <1>3 DEF on_write_complete, IsEmpty, Front, Session, q
  <2>5. wr \in BOOLEAN
    BY <2>1
  <2> HIDE DEF wr, y
  <2>6. /\ y \in Session /\ y.queue = q /\ y.wire = Append(x.wire, Head(x.queue.buf))
        /\ y.writing = wr /\ y.accepted = x.accepted /\ y.ready = x.ready
        /\ y.open = x.open /\ y.reading = x.reading /\ y.dealt = x.dealt
        /\ y.told = x.told /\ y.shared = x.shared
    BY <1>1, <2>2, <2>4, <2>5 DEF Session
  <2>7. OneWrite(y) /\ Writes(y)
    BY <2>6 DEF Core, OneWrite, Writes, wr
  <2>8. y.accepted = y.wire \o y.queue.buf
    BY <2>1, <2>2, <2>6, InAndOut, ZenonT(40) DEF Core
  <2>9. OneRead(y) /\ EndsOnce(y) /\ LastMessage(y)
    BY <2>6 DEF Core, OneRead, EndsOnce, LastMessage
  <2>10. Keeps(x, y)
    BY <2>6 DEF Keeps, Same, NoRead, Reads
  <2> QED
    BY <2>3, <2>6, <2>7, <2>8, <2>9, <2>10 DEF Core, y
<1> QED
  BY <1>2, <1>3

-----------------------------------------------------------------------------
(* The next read starts where none is under way; on a closed socket it     *)
(* fails at once.                                                          *)
LEMMA AsyncRead ==
    ASSUME NEW x, Core(x), Writes(x), NoRead(x), NEW stage \in ReadStages
    PROVE  LET y == async_read(x, stage)
           IN  Core(y) /\ Writes(y) /\ Reads(y) /\ Same(x, y) /\ y.dealt = x.dealt
<1> DEFINE y == async_read(x, stage)
           e == Completion(stage, TRUE)
<1>1. x \in Session /\ x.ready \in Seq(Handlers)
  BY DEF Core, Session
<1>2. stage # "none" /\ stage # "write" /\ stage \in ReadHandlers
  BY DEF ReadStages, ReadHandlers
<1>3. CASE x.open
  <2>1. y = [x EXCEPT !.reading = stage]
    BY <1>3 DEF async_read
  <2> HIDE DEF y
  <2>2. /\ y \in Session /\ y.reading = stage /\ y.ready = x.ready /\ y.open
        /\ y.queue = x.queue /\ y.writing = x.writing /\ y.dealt = x.dealt
        /\ y.told = x.told /\ y.accepted = x.accepted /\ y.wire = x.wire
        /\ y.shared = x.shared
    BY <1>1, <1>3, <2>1 DEF Session
  <2>3. OneWrite(y) /\ OneRead(y) /\ EndsOnce(y) /\ LastMessage(y)
    BY <1>3, <2>2 DEF Core, NoRead, OneWrite, OneRead, EndsOnce, LastMessage
  <2> QED
    BY <1>2, <1>3, <2>2, <2>3 DEF Core, Writes, Reads, Same, y
<1>4. CASE ~x.open
  <2>1. e \in Handlers /\ e.h = stage /\ e.err
    BY DEF Completion, Handlers
  <2>2. y = [x EXCEPT !.ready = Append(x.ready, e)]
    BY <1>1, <1>4 DEF async_read, Post, Session
  <2> HIDE DEF y, e
  <2>3. Append(x.ready, e) \in Seq(Handlers)
    BY <1>1, <2>1, ReadyAppend
  <2>4. /\ y \in Session /\ y.ready = Append(x.ready, e) /\ ~y.open
        /\ y.reading = x.reading
        /\ y.queue = x.queue /\ y.writing = x.writing /\ y.dealt = x.dealt
        /\ y.told = x.told /\ y.accepted = x.accepted /\ y.wire = x.wire
        /\ y.shared = x.shared
    BY <1>1, <1>4, <2>2, <2>3 DEF Session
  <2>5. /\ Has(y.ready, {"write"}) <=> Has(x.ready, {"write"})
        /\ Once(x.ready, {"write"}) => Once(y.ready, {"write"})
        /\ FrameRead(y.ready) <=> FrameRead(x.ready)
    BY <1>1, <1>2, <2>1, <2>4, ReadyAppend
  <2>6. Once(y.ready, ReadHandlers)
    BY <1>1, <2>1, <2>4, ReadyAppend DEF Core, OneRead, NoRead
  <2>7. OneWrite(y) /\ OneRead(y) /\ EndsOnce(y) /\ LastMessage(y)
    BY <1>4, <2>4, <2>5, <2>6 DEF Core, NoRead, OneWrite, OneRead, EndsOnce, LastMessage
  <2> QED
    BY <1>4, <2>4, <2>7 DEF Core, Writes, Reads, Same, y
<1> QED
  BY <1>3, <1>4

(* The opening of the session is dealt. *)
LEMMA DealOpen ==
    ASSUME NEW x, Core(x), Writes(x)
    PROVE  LET y == do_session_open(x)
           IN  /\ Core(y) /\ Writes(y) /\ Keeps(x, y)
               /\ y.dealt # <<>> /\ (x.dealt = <<>> => y.dealt[1] = "open")
<1> DEFINE y == do_session_open(x)
<1>1. x \in Session /\ x.dealt \in Seq(Dealt) /\ "open" \in Dealt
  BY DEF Core, Session, Dealt
<1>2. Append(x.dealt, "open") \in Seq(Dealt)
  BY <1>1, DealAppend
<1>3. y = [x EXCEPT !.dealt = Append(x.dealt, "open")]
  BY <1>1 DEF do_session_open, Deal, Session
<1> HIDE DEF y
<1>4. /\ y \in Session /\ y.dealt = Append(x.dealt, "open") /\ y.ready = x.ready
      /\ y.open = x.open /\ y.queue = x.queue /\ y.reading = x.reading
      /\ y.writing = x.writing /\ y.told = x.told
      /\ y.accepted = x.accepted /\ y.wire = x.wire /\ y.shared = x.shared
  BY <1>1, <1>2, <1>3 DEF Session
<1>5. /\ y.dealt # <<>> /\ y.dealt[1] = IF x.dealt = <<>> THEN "open" ELSE x.dealt[1]
      /\ Ended(y.dealt) <=> Ended(x.dealt)
      /\ OneEnd(x.dealt) => OneEnd(y.dealt)
      /\ NoLate(x.dealt) => NoLate(y.dealt)
      /\ OneLate(x.dealt) => OneLate(y.dealt)
  BY <1>1, <1>4, DealAppend
<1>6. OneWrite(y) /\ OneRead(y) /\ EndsOnce(y) /\ LastMessage(y) /\ Writes(y)
  BY <1>4, <1>5 DEF Core, OneWrite, OneRead, EndsOnce, LastMessage, Writes
<1>7. Keeps(x, y)
  BY <1>4, <1>5 DEF Keeps, Same, NoRead, Reads
<1> QED
  BY <1>4, <1>5, <1>6, <1>7 DEF Core, y

(* A frame is dealt: the only one after the end, if the session has ended. *)
LEMMA DealMessage ==
    ASSUME NEW x, Core(x), Writes(x), NoRead(x), NoLate(x.dealt)
    PROVE  LET y == Deal([x EXCEPT !.silent = FALSE, !.frames = @ + 1], "message")
           IN  Core(y) /\ Writes(y) /\ Keeps(x, y) /\ NoRead(y)
<1> DEFINE z == [x EXCEPT !.silent = FALSE, !.frames = @ + 1]
           y == Deal(z, "message")
<1>1. x \in Session /\ x.dealt \in Seq(Dealt) /\ "message" \in Dealt
      /\ x.frames + 1 \in Nat
  BY DEF Core, Session, Dealt
<1>2. Append(x.dealt, "message") \in Seq(Dealt)
  BY <1>1, DealAppend
<1>3. /\ z \in Session /\ z.dealt = x.dealt /\ z.ready = x.ready
      /\ z.open = x.open /\ z.queue = x.queue /\ z.reading = x.reading
      /\ z.writing = x.writing /\ z.told = x.told
      /\ z.accepted = x.accepted /\ z.wire = x.wire /\ z.shared = x.shared
  BY <1>1 DEF Session
<1> HIDE DEF z
<1>4. y = [z EXCEPT !.dealt = Append(x.dealt, "message")]
  BY <1>3 DEF Deal, Session
<1> HIDE DEF y
<1>5. /\ y \in Session /\ y.dealt = Append(x.dealt, "message") /\ y.ready = x.ready
      /\ y.open = x.open /\ y.queue = x.queue /\ y.reading = x.reading
      /\ y.writing = x.writing /\ y.told = x.told
      /\ y.accepted = x.accepted /\ y.wire = x.wire /\ y.shared = x.shared
  BY <1>2, <1>3, <1>4 DEF Session
<1>6. /\ y.dealt # <<>>
      /\ y.dealt[1] = IF x.dealt = <<>> THEN "message" ELSE x.dealt[1]
      /\ Ended(y.dealt) <=> Ended(x.dealt)
      /\ OneEnd(x.dealt) => OneEnd(y.dealt)
      /\ OneLate(y.dealt)
  BY <1>1, <1>5, DealAppend
<1>7. ~FrameRead(y.ready)
  BY <1>5 DEF NoRead, FrameRead, Has, ReadHandlers, ReadStages
<1>8. OneWrite(y) /\ OneRead(y) /\ EndsOnce(y) /\ LastMessage(y) /\ Writes(y)
  BY <1>5, <1>6, <1>7 DEF Core, OneWrite, OneRead, EndsOnce, LastMessage, Writes
<1>9. Keeps(x, y) /\ NoRead(y)
  BY <1>5, <1>6 DEF Keeps, Same, NoRead, Reads
<1> QED
  BY <1>5, <1>8, <1>9 DEF Core, y, z

(* Fields that no property speaks of. *)
LEMMA Counted ==
    ASSUME NEW x, Core(x), Writes(x)
    PROVE  /\ LET y == [x EXCEPT !.sent = @ + 1]
              IN  Core(y) /\ Writes(y) /\ Keeps(x, y) /\ y.dealt = x.dealt /\ y.open = x.open
           /\ \A b \in BOOLEAN :
                 LET y == [x EXCEPT !.silent = b]
                 IN  /\ Core(y) /\ Writes(y) /\ Keeps(x, y) /\ y.dealt = x.dealt
                     /\ y.open = x.open /\ y.ready = x.ready /\ y.writing = x.writing
                     /\ y.shared = x.shared /\ y.reading = x.reading
<1>1. ASSUME NEW y \in Session,
             y.dealt = x.dealt, y.ready = x.ready,
             y.open = x.open, y.queue = x.queue, y.reading = x.reading,
             y.writing = x.writing, y.told = x.told, y.accepted = x.accepted,
             y.wire = x.wire, y.shared = x.shared
      PROVE  Core(y) /\ Writes(y) /\ Keeps(x, y)
  <2>1. Core(y)
    BY <1>1 DEF Core, OneWrite, OneRead, EndsOnce, LastMessage
  <2>2. Writes(y) /\ Keeps(x, y)
    BY <1>1 DEF Writes, Keeps, Same, NoRead, Reads
  <2> QED
    BY <2>1, <2>2
<1>2. x \in Session /\ x.sent + 1 \in Nat
  BY DEF Core, Session
<1>3. LET y == [x EXCEPT !.sent = @ + 1]
      IN  Core(y) /\ Writes(y) /\ Keeps(x, y) /\ y.dealt = x.dealt /\ y.open = x.open
  <2> DEFINE y == [x EXCEPT !.sent = @ + 1]
  <2>1. /\ y \in Session /\ y.dealt = x.dealt /\ y.ready = x.ready
        /\ y.open = x.open /\ y.queue = x.queue /\ y.reading = x.reading
        /\ y.writing = x.writing /\ y.told = x.told /\ y.accepted = x.accepted
        /\ y.wire = x.wire /\ y.shared = x.shared
    BY <1>2 DEF Session
  <2> HIDE DEF y
  <2>2. Core(y) /\ Writes(y) /\ Keeps(x, y)
    BY <1>1, <2>1
  <2> QED
    BY <2>1, <2>2 DEF y
<1>4. ASSUME NEW b \in BOOLEAN
      PROVE  LET y == [x EXCEPT !.silent = b]
             IN  /\ Core(y) /\ Writes(y) /\ Keeps(x, y) /\ y.dealt = x.dealt
                 /\ y.open = x.open /\ y.ready = x.ready /\ y.writing = x.writing
                 /\ y.shared = x.shared /\ y.reading = x.reading
  <2> DEFINE y == [x EXCEPT !.silent = b]
  <2>1. /\ y \in Session /\ y.dealt = x.dealt /\ y.ready = x.ready
        /\ y.open = x.open /\ y.queue = x.queue /\ y.reading = x.reading
        /\ y.writing = x.writing /\ y.told = x.told /\ y.accepted = x.accepted
        /\ y.wire = x.wire /\ y.shared = x.shared
    BY <1>2 DEF Session
  <2> HIDE DEF y
  <2>2. Core(y) /\ Writes(y) /\ Keeps(x, y)
    BY <1>1, <2>1
  <2> QED
    BY <2>1, <2>2 DEF y
<1> QED
  BY <1>3, <1>4

-----------------------------------------------------------------------------
(* Whatever the code above does with a message, it keeps what do_write and *)
(* do_close keep.                                                          *)
LEMMA Reaction ==
    ASSUME NEW x, Core(x), Writes(x), NEW reaction \in {"none", "reply", "close"}
    PROVE  LET y == React(x, reaction)
           IN  Core(y) /\ Writes(y) /\ Keeps(x, y)
<1>1. CASE reaction = "none"
  <2>1. React(x, reaction) = x
    BY <1>1 DEF React
  <2>2. Keeps(x, x)
    BY DEF Keeps, Same
  <2> QED
    BY <2>1, <2>2
<1>2. CASE reaction = "close"
  <2>1. React(x, reaction) = do_close(x)
    BY <1>2 DEF React
  <2> QED
    BY <2>1, DoClose DEF Writes
<1>3. CASE reaction = "reply"
  <2> DEFINE z == [x EXCEPT !.sent = @ + 1]
             y == do_write(z, x.sent + 1)
  <2>1. React(x, reaction) = y
    BY <1>3 DEF React
  <2>2. x.sent + 1 \in Nat
    BY DEF Core, Session
  <2>3. Core(z) /\ Writes(z) /\ Keeps(x, z)
    BY Counted
  <2> HIDE DEF z
  <2>4. Core(y) /\ Writes(y) /\ Keeps(z, y)
    BY <2>2, <2>3, DoWrite
  <2> HIDE DEF y
  <2>5. Keeps(x, y)
    BY <2>3, <2>4 DEF Keeps, Same
  <2> QED
    BY <2>1, <2>4, <2>5
<1> QED
  BY <1>1, <1>2, <1>3

(***************************************************************************)
(* The handlers of a read, out of the loop: each closes the session or     *)
(* starts the next read.                                                   *)
(***************************************************************************)
LEMMA ReadHandler ==
    ASSUME NEW x, Core(x), Writes(x), NoRead(x),
           NEW e \in Handlers, e.h \in ReadHandlers,
           e.h = "body" /\ ~e.err => NoLate(x.dealt),
           NEW valid \in BOOLEAN, NEW reaction \in {"none", "reply", "close"}
    PROVE  LET y == RunHandler(x, e, valid, reaction)
           IN  Core(y) /\ Writes(y) /\ Reads(y) /\ Same(x, y)
<1> DEFINE y == RunHandler(x, e, valid, reaction)
<1>1. ASSUME y = do_close(x)
      PROVE  Core(y) /\ Writes(y) /\ Reads(y) /\ Same(x, y)
  <2> HIDE DEF y
  <2>1. Core(y) /\ ~y.open /\ Keeps(x, y)
    BY <1>1, DoClose
  <2> QED
    BY <2>1 DEF Writes, Reads, Keeps
<1>2. ASSUME NEW stage \in ReadStages, y = async_read(x, stage)
      PROVE  Core(y) /\ Writes(y) /\ Reads(y) /\ Same(x, y)
  <2> HIDE DEF y
  <2> QED
    BY <1>2, AsyncRead
<1>3. CASE e.h = "do_read_head_len"
  <2>1. y = async_read(x, "head_len") /\ "head_len" \in ReadStages
    BY <1>3 DEF RunHandler, do_read_head_len, ReadStages
  <2> QED
    BY <1>2, <2>1
<1>4. CASE e.h = "head_len"
  <2>1. y = do_close(x) \/ y = async_read(x, "head")
    BY <1>4 DEF RunHandler, on_read_head_len_complete, do_read_head
  <2>2. "head" \in ReadStages
    BY DEF ReadStages
  <2> QED
    BY <1>1, <1>2, <2>1, <2>2
<1>5. CASE e.h = "head"
  <2>1. y = do_close(x) \/ y = async_read(x, "body")
    BY <1>5 DEF RunHandler, on_read_head_complete, do_read_body
  <2>2. "body" \in ReadStages
    BY DEF ReadStages
  <2> QED
    BY <1>1, <1>2, <2>1, <2>2
<1>6. CASE e.h = "body"
  <2> DEFINE m == Deal([x EXCEPT !.silent = FALSE, !.frames = @ + 1], "message")
             z == React(m, reaction)
  <2>1. y = on_read_complete(x, e.err, valid, reaction)
    BY <1>6 DEF RunHandler
  <2>2. CASE e.err \/ ~valid
    BY <1>1, <2>1, <2>2 DEF on_read_complete
  <2>3. CASE ~e.err /\ valid
    <3>1. y = async_read(z, "head_len")
      BY <2>1, <2>3 DEF on_read_complete, do_read_head_len
    <3>2. Core(m) /\ Writes(m) /\ Keeps(x, m) /\ NoRead(m)
      BY <1>6, <2>3, DealMessage
    <3> HIDE DEF m
    <3>3. Core(z) /\ Writes(z) /\ Keeps(m, z)
      BY <3>2, Reaction
    <3> HIDE DEF z, y
    <3>4. NoRead(z) /\ Same(x, z)
      BY <3>2, <3>3 DEF Keeps, Same
    <3>5. "head_len" \in ReadStages
      BY DEF ReadStages
    <3>6. Core(y) /\ Writes(y) /\ Reads(y) /\ Same(z, y)
      BY <3>1, <3>3, <3>4, <3>5, AsyncRead
    <3> QED
      BY <3>4, <3>6 DEF Same, y
  <2> QED
    BY <2>2, <2>3
<1> QED
  BY <1>3, <1>4, <1>5, <1>6 DEF ReadHandlers, ReadStages

(* The handlers that were posted, out of the loop. *)
LEMMA PostedHandler ==
    ASSUME NEW x, Core(x), Writes(x),
           NEW e \in Handlers, e.h \notin ReadHandlers, e.h # "write",
           NEW valid \in BOOLEAN, NEW reaction \in {"none", "reply", "close"}
    PROVE  LET y == RunHandler(x, e, valid, reaction)
           IN  Core(y) /\ Writes(y) /\ Keeps(x, y)
<1> DEFINE y == RunHandler(x, e, valid, reaction)
<1>1. \/ e.h = "do_session_open" \/ e.h = "do_close" \/ e.h = "do_check_alive"
      \/ e.h = "do_write" /\ e.msg \in Nat
  BY DEF Handlers, ReadHandlers, ReadStages
<1>2. ASSUME y = do_close(x)
      PROVE  Core(y) /\ Writes(y) /\ Keeps(x, y)
  BY <1>2, DoClose DEF Writes
<1>3. CASE e.h = "do_session_open"
  <2>1. y = do_session_open(x)
    BY <1>3 DEF RunHandler
  <2> QED
    BY <2>1, DealOpen
<1>4. CASE e.h = "do_close"
  BY <1>2, <1>4 DEF RunHandler
<1>5. CASE e.h = "do_check_alive"
  <2>1. y = do_close(x) \/ y = x
    BY <1>5 DEF RunHandler, do_check_alive
  <2>2. Keeps(x, x)
    BY DEF Keeps, Same
  <2> QED
    BY <1>2, <2>1, <2>2
<1>6. CASE e.h = "do_write" /\ e.msg \in Nat
  <2>1. y = do_write(x, e.msg)
    BY <1>6 DEF RunHandler
  <2> QED
    BY <1>6, <2>1, DoWrite
<1> QED
  BY <1>1, <1>3, <1>4, <1>5, <1>6

(***************************************************************************)
(* A handler leaves the loop: what it stood for is no longer under way.    *)
(***************************************************************************)
LEMMA TakeHandler ==
    ASSUME NEW x, Core(x), Writes(x), x.ready # <<>>
    PROVE  LET y == [x EXCEPT !.ready = Tail(@)]
               e == Head(x.ready)
           IN  /\ e \in Handlers /\ Core(y) /\ Same(x, y)
               /\ NoRead(x) => NoRead(y) /\ e.h \notin ReadHandlers
               /\ e.h # "write" => Writes(y)
               /\ e.h = "write" =>
                     y.queue.buf # <<>> /\ ~y.writing /\ ~Has(y.ready, {"write"})
               /\ e.h \notin ReadHandlers /\ Reads(x) => Reads(y)
               /\ e.h \in ReadHandlers => NoRead(y)
               /\ e.h = "body" /\ ~e.err => NoLate(y.dealt)
<1> DEFINE y == [x EXCEPT !.ready = Tail(@)]
           e == Head(x.ready)
<1>1. x \in Session /\ x.ready \in Seq(Handlers)
  BY DEF Core, Session
<1>2. e \in Handlers /\ Tail(x.ready) \in Seq(Handlers)
  BY <1>1, ReadyTail
<1>3. /\ y \in Session /\ y.ready = Tail(x.ready)
      /\ y.open = x.open /\ y.queue = x.queue /\ y.reading = x.reading
      /\ y.writing = x.writing /\ y.dealt = x.dealt /\ y.told = x.told
      /\ y.accepted = x.accepted /\ y.wire = x.wire /\ y.shared = x.shared
  BY <1>1, <1>2 DEF Session
<1> HIDE DEF y
<1>4. /\ Has(x.ready, {"write"}) <=> e.h = "write" \/ Has(y.ready, {"write"})
      /\ Once(y.ready, {"write"})
      /\ e.h = "write" => ~Has(y.ready, {"write"})
  <2>1. Once(x.ready, {"write"})
    BY DEF Core, OneWrite
  <2> QED
    BY <1>1, <1>3, <2>1, ReadyTail
<1>5. /\ Has(x.ready, ReadHandlers) <=> e.h \in ReadHandlers \/ Has(y.ready, ReadHandlers)
      /\ Once(y.ready, ReadHandlers)
      /\ e.h \in ReadHandlers => ~Has(y.ready, ReadHandlers)
  <2>1. Once(x.ready, ReadHandlers)
    BY DEF Core, OneRead
  <2> QED
    BY <1>1, <1>3, <2>1, ReadyTail
<1>6. /\ FrameRead(y.ready) => FrameRead(x.ready)
      /\ e.h = "body" /\ ~e.err => FrameRead(x.ready)
  BY <1>1, <1>3, ReadyTail
<1> HIDE DEF e
<1>7. OneWrite(y) /\ OneRead(y) /\ EndsOnce(y) /\ LastMessage(y)
  BY <1>3, <1>4, <1>5, <1>6 DEF Core, OneWrite, OneRead, EndsOnce, LastMessage
<1>8. Core(y)
  BY <1>3, <1>7 DEF Core
<1>9. /\ e.h # "write" => Writes(y)
      /\ e.h = "write" => y.queue.buf # <<>> /\ ~y.writing /\ ~Has(y.ready, {"write"})
  BY <1>3, <1>4 DEF Core, OneWrite, Writes
<1>10. /\ Same(x, y)
       /\ NoRead(x) => NoRead(y) /\ e.h \notin ReadHandlers
       /\ e.h \notin ReadHandlers /\ Reads(x) => Reads(y)
       /\ e.h \in ReadHandlers => NoRead(y)
       /\ e.h = "body" /\ ~e.err => NoLate(y.dealt)
  BY <1>3, <1>5, <1>6 DEF Core, OneRead, LastMessage, Same, NoRead, Reads
<1> QED
  BY <1>2, <1>8, <1>9, <1>10 DEF y, e

-----------------------------------------------------------------------------
(* start() posts the first read, or makes it and deals the opening at once. *)
LEMMA StartInv ==
    ASSUME IInv, start
    PROVE  IInv'
<1> DEFINE z == [s EXCEPT !.silent = FALSE]
<1>1. /\ Core(z) /\ Writes(z) /\ Keeps(s, z) /\ z.dealt = s.dealt /\ z.open = s.open
      /\ z.ready = s.ready /\ z.shared = s.shared
  BY Counted DEF IInv
<1> HIDE DEF z
<1>2. NoRead(s) /\ s.dealt = <<>> /\ s.open
  BY DEF IInv, Stage, start
<1>3. NoRead(z)
  BY <1>1, <1>2 DEF Keeps
<1>4. CASE s.shared
  <2> DEFINE r == async_read(z, "head_len")
  <2>1. s' = do_session_open(r) /\ started' = "yes"
    BY <1>4 DEF start, do_read_head_len, z
  <2>2. Core(r) /\ Writes(r) /\ Reads(r) /\ Same(z, r) /\ r.dealt = z.dealt
    BY <1>1, <1>3, AsyncRead DEF ReadStages
  <2> HIDE DEF r
  <2>3. /\ Core(s') /\ Writes(s') /\ Keeps(r, s') /\ s'.dealt # <<>>
        /\ r.dealt = <<>> => s'.dealt[1] = "open"
    BY <2>1, <2>2, DealOpen
  <2>4. Core(s)' /\ Writes(s)'
    BY <2>3
  <2>5. Stage'
    BY <1>1, <1>2, <2>1, <2>2, <2>3 DEF Stage, Keeps, Reads
  <2> QED
    BY <2>4, <2>5 DEF IInv
<1>5. CASE ~s.shared
  <2> DEFINE e == [h |-> "do_read_head_len"]
  <2>1. s' = Post(z, e) /\ started' = "half"
    BY <1>5 DEF start, z
  <2>2. z \in Session /\ z.ready \in Seq(Handlers)
    BY <1>1 DEF Core, Session
  <2>3. e \in Handlers /\ e.h = "do_read_head_len"
    BY DEF Handlers
  <2> HIDE DEF e
  <2>4. Append(z.ready, e) \in Seq(Handlers)
    BY <2>2, <2>3, ReadyAppend
  <2>5. /\ s' \in Session /\ s'.ready = Append(z.ready, e)
        /\ s'.open = z.open /\ s'.queue = z.queue /\ s'.reading = z.reading
        /\ s'.writing = z.writing /\ s'.dealt = z.dealt /\ s'.told = z.told
        /\ s'.accepted = z.accepted /\ s'.wire = z.wire /\ s'.shared = z.shared
    BY <2>1, <2>2, <2>4 DEF Post, Session
  <2>6. /\ Has(s'.ready, {"write"}) <=> Has(z.ready, {"write"})
        /\ Once(z.ready, {"write"}) => Once(s'.ready, {"write"})
        /\ FrameRead(s'.ready) <=> FrameRead(z.ready)
    BY <2>2, <2>3, <2>5, ReadyAppend
  <2>7. Has(s'.ready, ReadHandlers) /\ Once(s'.ready, ReadHandlers)
    <3>1. e.h \in ReadHandlers
      BY <2>3 DEF ReadHandlers
    <3>2. Once(z.ready, ReadHandlers) /\ ~Has(z.ready, ReadHandlers)
      BY <1>1, <1>3 DEF Core, OneRead, NoRead
    <3> QED
      BY <2>2, <2>3, <2>5, <3>1, <3>2, ReadyAppend
  <2>8. OneWrite(s)' /\ OneRead(s)' /\ EndsOnce(s)' /\ LastMessage(s)' /\ Writes(s)'
    BY <1>1, <1>3, <2>5, <2>6, <2>7
    DEF Core, NoRead, OneWrite, OneRead, EndsOnce, LastMessage, Writes
  <2>9. Core(s)'
    BY <1>1, <2>5, <2>8 DEF Core
  <2>10. Stage'
    BY <1>1, <1>5, <2>1, <2>5, <2>7 DEF Stage, Reads
  <2> QED
    BY <2>8, <2>9, <2>10 DEF IInv
<1> QED
  BY <1>4, <1>5

(* What is posted by another thread: no read, no write. *)
LEMMA PostedInv ==
    ASSUME IInv, NEW x, Core(x), Writes(x), Keeps(s, x), x.dealt = s.dealt,
           x.open = s.open,
           NEW e \in Handlers, e.h \notin ReadHandlers, e.h # "write",
           s' = Post(x, e), started # "no",
           \/ started' = started
           \/ started = "half" /\ started' = "yes"
    PROVE  IInv'
<1>1. /\ Core(s') /\ Writes(s') /\ Keeps(x, s') /\ s'.open = x.open
      /\ s'.dealt = x.dealt /\ s'.shared = x.shared
  BY PostPlain
<1>2. Stage'
  BY <1>1 DEF IInv, Stage, Keeps, Same
<1> QED
  BY <1>1, <1>2 DEF IInv

(* The kinds of handler other threads post. *)
LEMMA PlainHandlers ==
    /\ \A k \in {"do_session_open", "do_close", "do_check_alive"} :
          [h |-> k] \in Handlers /\ k \notin ReadHandlers /\ k # "write"
    /\ \A n \in Nat :
          /\ [h |-> "do_write", msg |-> n] \in Handlers
          /\ "do_write" \notin ReadHandlers
  BY DEF Handlers, ReadHandlers, ReadStages

(* The second half of start(), and the calls other threads post. *)
LEMMA PostsInv ==
    ASSUME IInv, start_rest \/ send \/ close \/ check_alive
    PROVE  IInv'
<1>1. Core(s) /\ Writes(s) /\ Keeps(s, s)
  BY DEF IInv, Keeps, Same
<1>2. CASE start_rest
  <2> DEFINE e == [h |-> "do_session_open"]
  <2>1. e \in Handlers /\ e.h \notin ReadHandlers /\ e.h # "write"
    BY PlainHandlers
  <2>2. s' = Post(s, e) /\ started # "no" /\ started = "half" /\ started' = "yes"
    BY <1>2 DEF start_rest
  <2> HIDE DEF e
  <2> QED
    BY <1>1, <2>1, <2>2, PostedInv
<1>3. CASE close
  <2> DEFINE e == [h |-> "do_close"]
  <2>1. e \in Handlers /\ e.h \notin ReadHandlers /\ e.h # "write"
    BY PlainHandlers
  <2>2. s' = Post(s, e) /\ started # "no" /\ started' = started
    BY <1>3 DEF close
  <2> HIDE DEF e
  <2> QED
    BY <1>1, <2>1, <2>2, PostedInv
<1>4. CASE check_alive
  <2> DEFINE e == [h |-> "do_check_alive"]
  <2>1. e \in Handlers /\ e.h \notin ReadHandlers /\ e.h # "write"
    BY PlainHandlers
  <2>2. s' = Post(s, e) /\ started # "no" /\ started' = started
    BY <1>4 DEF check_alive
  <2> HIDE DEF e
  <2> QED
    BY <1>1, <2>1, <2>2, PostedInv
<1>5. CASE send
  <2> DEFINE e == [h |-> "do_write", msg |-> s.sent + 1]
             x == [s EXCEPT !.sent = @ + 1]
  <2>1. s.sent + 1 \in Nat
    BY <1>1 DEF Core, Session
  <2>2. e \in Handlers /\ e.h \notin ReadHandlers /\ e.h # "write"
    BY <2>1, PlainHandlers
  <2>3. Core(x) /\ Writes(x) /\ Keeps(s, x) /\ x.dealt = s.dealt /\ x.open = s.open
    BY <1>1, Counted
  <2>4. s' = Post(x, e) /\ started # "no" /\ started' = started
    BY <1>5 DEF send
  <2> HIDE DEF e, x
  <2> QED
    BY <2>2, <2>3, <2>4, PostedInv
<1> QED
  BY <1>2, <1>3, <1>4, <1>5

(* A session over the limit is closed, or its closing posted. *)
LEMMA RejectInv ==
    ASSUME IInv, reject
    PROVE  IInv'
<1>1. /\ Core(s) /\ Writes(s) /\ NoRead(s) /\ started' = "rejected"
  BY DEF IInv, Stage, reject
<1>2. Core(s') /\ Writes(s') /\ Keeps(s, s')
  <2>1. CASE s.shared
    <3>1. s' = do_close(s)
      BY <2>1 DEF reject
    <3>2. Core(s') /\ ~s'.open /\ Keeps(s, s')
      BY <1>1, <3>1, DoClose
    <3> QED
      BY <3>2 DEF Writes
  <2>2. CASE ~s.shared
    <3> DEFINE e == [h |-> "do_close"]
    <3>1. e \in Handlers /\ e.h \notin ReadHandlers /\ e.h # "write"
      BY PlainHandlers
    <3>2. s' = Post(s, e)
      BY <2>2 DEF reject
    <3> HIDE DEF e
    <3> QED
      BY <1>1, <3>1, <3>2, PostPlain
  <2> QED
    BY <2>1, <2>2
<1>3. Stage'
  BY <1>1, <1>2 DEF Stage, Keeps
<1> QED
  BY <1>2, <1>3 DEF IInv

(* Time passes. *)
LEMMA FallSilentInv ==
    ASSUME IInv, fall_silent
    PROVE  IInv'
<1>1. Core(s) /\ Writes(s) /\ s' = [s EXCEPT !.silent = TRUE] /\ started' = started
  BY DEF IInv, fall_silent
<1>2. /\ Core(s') /\ Writes(s') /\ Keeps(s, s') /\ s'.dealt = s.dealt
      /\ s'.open = s.open /\ s'.ready = s.ready /\ s'.writing = s.writing
      /\ s'.shared = s.shared
  BY <1>1, Counted
<1>3. Stage'
  BY <1>1, <1>2 DEF IInv, Stage, Keeps
<1> QED
  BY <1>2, <1>3 DEF IInv

(* An operation ends: its completion takes its place. *)
LEMMA ReadDoneInv ==
    ASSUME IInv, NEW err \in BOOLEAN, read_done(err)
    PROVE  IInv'
<1> DEFINE e == Completion(s.reading, err)
<1>1. /\ s \in Session /\ s.ready \in Seq(Handlers) /\ s.reading \in ReadStages
      /\ Core(s) /\ Writes(s) /\ started' = started
  BY DEF IInv, Core, Session, read_done
<1>2. e \in Handlers /\ e.h = s.reading /\ e.h \in ReadHandlers /\ e.h # "write"
  BY <1>1 DEF Completion, Handlers, ReadHandlers, ReadStages
<1>3. s' = [s EXCEPT !.reading = "none", !.ready = Append(s.ready, e)]
  BY <1>1 DEF read_done, Post, Session
<1> HIDE DEF e
<1>4. Append(s.ready, e) \in Seq(Handlers)
  BY <1>1, <1>2, ReadyAppend
<1>5. /\ s' \in Session /\ s'.ready = Append(s.ready, e) /\ s'.reading = "none"
      /\ s'.open = s.open /\ s'.queue = s.queue /\ s'.writing = s.writing
      /\ s'.dealt = s.dealt /\ s'.told = s.told
      /\ s'.accepted = s.accepted /\ s'.wire = s.wire /\ s'.shared = s.shared
  BY <1>1, <1>3, <1>4 DEF Session
<1>6. s.open /\ Once(s.ready, ReadHandlers) /\ ~Has(s.ready, ReadHandlers)
  BY <1>1 DEF Core, OneRead, ReadStages
<1>7. /\ Has(s'.ready, {"write"}) <=> Has(s.ready, {"write"})
      /\ Once(s.ready, {"write"}) => Once(s'.ready, {"write"})
  BY <1>1, <1>2, <1>5, ReadyAppend
<1>8. Has(s'.ready, ReadHandlers) /\ Once(s'.ready, ReadHandlers)
  BY <1>1, <1>2, <1>5, <1>6, ReadyAppend
<1>9. NoLate(s.dealt)
  <2>1. ~Ended(s.dealt)
    BY <1>1, <1>6 DEF Core, EndsOnce
  <2> QED
    BY <2>1 DEF NoLate, Late, Ended
<1>10. OneWrite(s)' /\ OneRead(s)' /\ EndsOnce(s)' /\ LastMessage(s)' /\ Writes(s)'
  BY <1>1, <1>5, <1>7, <1>8, <1>9
  DEF Core, OneWrite, OneRead, EndsOnce, LastMessage, Writes
<1>11. Core(s)'
  BY <1>1, <1>5, <1>10 DEF Core
<1>12. Stage'
  <2>1. started \in {"half", "yes"}
    BY <1>1 DEF IInv, Stage, NoRead, ReadStages
  <2> QED
    BY <1>1, <1>5, <1>8, <2>1 DEF IInv, Stage, Reads
<1> QED
  BY <1>10, <1>11, <1>12 DEF IInv

(* The same for the write. *)
LEMMA WriteDoneInv ==
    ASSUME IInv, NEW err \in BOOLEAN, write_done(err)
    PROVE  IInv'
<1> DEFINE e == Completion("write", err)
<1>1. /\ s \in Session /\ s.ready \in Seq(Handlers) /\ s.writing
      /\ Core(s) /\ Writes(s) /\ started' = started /\ started # "no"
  BY DEF IInv, Core, Session, write_done, Stage
<1>2. /\ e \in Handlers /\ e.h = "write" /\ e.h \notin ReadHandlers
      /\ e.h # "body"
  BY DEF Completion, Handlers, ReadHandlers, ReadStages
<1>3. s' = [s EXCEPT !.writing = FALSE, !.ready = Append(s.ready, e)]
  BY <1>1 DEF write_done, Post, Session
<1> HIDE DEF e
<1>4. Append(s.ready, e) \in Seq(Handlers)
  BY <1>1, <1>2, ReadyAppend
<1>5. /\ s' \in Session /\ s'.ready = Append(s.ready, e) /\ ~s'.writing
      /\ s'.open = s.open /\ s'.queue = s.queue /\ s'.reading = s.reading
      /\ s'.dealt = s.dealt /\ s'.told = s.told
      /\ s'.accepted = s.accepted /\ s'.wire = s.wire /\ s'.shared = s.shared
  BY <1>1, <1>3, <1>4 DEF Session
<1>6. Once(s.ready, {"write"}) /\ ~Has(s.ready, {"write"}) /\ s.queue.buf # <<>>
  BY <1>1 DEF Core, OneWrite
<1>7. Has(s'.ready, {"write"}) /\ Once(s'.ready, {"write"})
  BY <1>1, <1>2, <1>5, <1>6, ReadyAppend
<1>8. /\ Has(s'.ready, ReadHandlers) <=> Has(s.ready, ReadHandlers)
      /\ Once(s.ready, ReadHandlers) => Once(s'.ready, ReadHandlers)
      /\ FrameRead(s'.ready) <=> FrameRead(s.ready)
  BY <1>1, <1>2, <1>5, ReadyAppend
<1>9. OneWrite(s)' /\ OneRead(s)' /\ EndsOnce(s)' /\ LastMessage(s)' /\ Writes(s)'
  BY <1>1, <1>5, <1>6, <1>7, <1>8
  DEF Core, OneWrite, OneRead, EndsOnce, LastMessage, Writes
<1>10. Core(s)'
  BY <1>1, <1>5, <1>9 DEF Core
<1>11. Stage'
  BY <1>1, <1>5, <1>8 DEF IInv, Stage, Reads, NoRead
<1> QED
  BY <1>9, <1>10, <1>11 DEF IInv

(* The loop runs its next handler. *)
LEMMA RunInv ==
    ASSUME IInv, run
    PROVE  IInv'
<1> DEFINE x == [s EXCEPT !.ready = Tail(@)]
           e == Head(s.ready)
<1>1. PICK valid \in BOOLEAN, reaction \in {"none", "reply", "close"} :
         s' = RunHandler(x, e, valid, reaction)
  BY DEF run
<1>2. s.ready # <<>> /\ started' = started /\ Core(s) /\ Writes(s) /\ Stage
  BY DEF run, IInv
<1>3. /\ e \in Handlers /\ Core(x) /\ Same(s, x)
      /\ NoRead(s) => NoRead(x) /\ e.h \notin ReadHandlers
      /\ e.h # "write" => Writes(x)
      /\ e.h = "write" =>
            x.queue.buf # <<>> /\ ~x.writing /\ ~Has(x.ready, {"write"})
      /\ e.h \notin ReadHandlers /\ Reads(s) => Reads(x)
      /\ e.h \in ReadHandlers => NoRead(x)
      /\ e.h = "body" /\ ~e.err => NoLate(x.dealt)
  BY <1>2, TakeHandler
<1> HIDE DEF x, e
<1>4. started # "no"
  BY <1>2 DEF Stage
<1>5. /\ Core(s') /\ Writes(s') /\ Same(s, s')
      /\ started \in {"half", "yes"} => Reads(s')
      /\ started = "rejected" => NoRead(s')
  <2>1. CASE e.h \in ReadHandlers
    <3>1. "write" \notin ReadHandlers
      BY DEF ReadHandlers, ReadStages
    <3>2. Core(s') /\ Writes(s') /\ Reads(s') /\ Same(x, s')
      BY <1>1, <1>3, <2>1, <3>1, ReadHandler
    <3>3. started # "rejected"
      BY <1>2, <1>3, <2>1 DEF Stage
    <3> QED
      BY <1>3, <3>2, <3>3 DEF Same
  <2>2. CASE e.h \notin ReadHandlers
    <3>1. Core(s') /\ Writes(s') /\ Keeps(x, s')
      <4>1. CASE e.h = "write"
        <5>1. e.err \in BOOLEAN
          BY <1>3, <4>1 DEF Handlers
        <5>2. s' = on_write_complete(x, e.err)
          BY <1>1, <4>1 DEF RunHandler
        <5> QED
          BY <1>3, <4>1, <5>1, <5>2, OnWriteComplete
      <4>2. CASE e.h # "write"
        BY <1>1, <1>3, <2>2, <4>2, PostedHandler
      <4> QED
        BY <4>1, <4>2
    <3> QED
      BY <1>2, <1>3, <2>2, <3>1 DEF Stage, Keeps, Same
  <2> QED
    BY <2>1, <2>2
<1>6. Stage'
  BY <1>2, <1>4, <1>5 DEF Stage, Same
<1> QED
  BY <1>5, <1>6 DEF IInv

-----------------------------------------------------------------------------
(* A session begins open, with nothing under way. *)
LEMMA InitInv ==
    ASSUME Init
    PROVE  IInv
<1>1. PICK b \in BOOLEAN : s = NewSession(b)
  BY DEF Init
<1>2. /\ s \in Session /\ s.ready = <<>> /\ s.dealt = <<>> /\ s.open
      /\ s.queue.buf = <<>> /\ s.queue.cap = INIT_SIZE /\ s.reading = "none"
      /\ ~s.writing /\ s.told = 0 /\ s.accepted = <<>> /\ s.wire = <<>>
  BY <1>1, QueueAssumption DEF NewSession, EmptyQueue, Session
<1>3. OneWrite(s) /\ OneRead(s) /\ Writes(s) /\ NoRead(s)
  BY <1>2, ReadyEmpty DEF OneWrite, OneRead, Writes, NoRead
<1>4. Bounded(s.queue) /\ s.accepted = s.wire \o s.queue.buf
  BY <1>2, QueueAssumption DEF Bounded
<1>5. EndsOnce(s) /\ LastMessage(s)
  BY <1>2, ReadyEmpty DEF EndsOnce, LastMessage, Ended, OneEnd, OneLate, NoLate
<1>6. Stage
  BY <1>2, <1>3 DEF Init, Stage
<1> QED
  BY <1>2, <1>3, <1>4, <1>5, <1>6 DEF IInv, Core

(***************************************************************************)
(* The inductive invariant: what TcpSession.cpp keeps true of a session    *)
(* and its loop between any two handlers, whatever the peer, the timers    *)
(* and the other threads do.                                               *)
(***************************************************************************)
THEOREM SessionInvariant == Spec => []IInv
<1>1. Init => IInv
  BY InitInv
<1>2. IInv /\ [Next]_vars => IInv'
  <2> SUFFICES ASSUME IInv, [Next]_vars
               PROVE  IInv'
    OBVIOUS
  <2>1. CASE start
    BY <2>1, StartInv
  <2>2. CASE start_rest \/ send \/ close \/ check_alive
    BY <2>2, PostsInv
  <2>3. CASE reject
    BY <2>3, RejectInv
  <2>4. CASE fall_silent
    BY <2>4, FallSilentInv
  <2>5. CASE \E err \in BOOLEAN : read_done(err)
    BY <2>5, ReadDoneInv
  <2>6. CASE \E err \in BOOLEAN : write_done(err)
    BY <2>6, WriteDoneInv
  <2>7. CASE run
    BY <2>7, RunInv
  <2>8. CASE UNCHANGED vars
    BY <2>8 DEF vars, IInv, Core, OneWrite, OneRead, EndsOnce, LastMessage, Writes,
               Stage, Reads, NoRead
  <2> QED
    BY <2>1, <2>2, <2>3, <2>4, <2>5, <2>6, <2>7, <2>8 DEF Next
<1> QED
  BY <1>1, <1>2, PTL DEF Spec

(* A set of positions with at most one member has one, or none. *)
LEMMA AtMostOne ==
    ASSUME NEW S, NEW P \in SUBSET S, \A i, j \in P : i = j
    PROVE  Cardinality(P) = IF P = {} THEN 0 ELSE 1
<1>1. CASE P = {}
  BY <1>1, FS_EmptySet
<1>2. CASE P # {}
  <2>1. PICK i : P = {i}
    BY <1>2
  <2> QED
    BY <1>2, <2>1, FS_Singleton
<1> QED
  BY <1>1, <1>2

(* The handlers of kinds that occur once are counted. *)
LEMMA QueuedOnce ==
    ASSUME s \in Session, NEW hs, Once(s.ready, hs)
    PROVE  Queued(hs) = IF Has(s.ready, hs) THEN 1 ELSE 0
<1> DEFINE P == {i \in DOMAIN s.ready : s.ready[i].h \in hs}
<1>1. DOMAIN s.ready = 1 .. Len(s.ready)
  BY DEF Session
<1>2. /\ P \in SUBSET (1 .. Len(s.ready)) /\ \A i, j \in P : i = j
      /\ P = {} <=> ~Has(s.ready, hs)
  BY <1>1 DEF Once, Has
<1>3. Queued(hs) = Cardinality(P)
  BY DEF Queued
<1> HIDE DEF P
<1> QED
  BY <1>2, <1>3, AtMostOne

(***************************************************************************)
(* m_send_msg_buf belongs to one write at a time, the message written is   *)
(* at the front of the queue, and a queue that is not empty is being       *)
(* written while the socket is open.                                       *)
(***************************************************************************)
THEOREM OneWriteHolds == Spec => []OneWriteAtATime
<1>1. IInv => OneWriteAtATime
  <2> SUFFICES ASSUME IInv
               PROVE  OneWriteAtATime
    OBVIOUS
  <2>1. s \in Session /\ OneWrite(s) /\ Writes(s)
    BY DEF IInv, Core
  <2>2. Queued({"write"}) = IF Has(s.ready, {"write"}) THEN 1 ELSE 0
    BY <2>1, QueuedOnce DEF OneWrite
  <2>3. WritesUnderWay = IF s.writing \/ Has(s.ready, {"write"}) THEN 1 ELSE 0
    BY <2>1, <2>2 DEF WritesUnderWay, OneWrite
  <2> QED
    BY <2>1, <2>3 DEF OneWriteAtATime, OneWrite, Writes, IsEmpty
<1> QED
  BY <1>1, SessionInvariant, PTL

(* The messages reach the socket in the order they were given to do_write. *)
THEOREM WrittenInOrderHolds == Spec => []WrittenInOrder
<1>1. IInv => WrittenInOrder
  BY DEF IInv, Core, WrittenInOrder
<1> QED
  BY <1>1, SessionInvariant, PTL

(* SendQueue holds what it has room for and stops growing past MAX_SIZE. *)
THEOREM QueueBoundedHolds == Spec => []QueueBounded
<1>1. IInv => QueueBounded
  BY DEF IInv, Core, Bounded, QueueBounded
<1> QED
  BY <1>1, SessionInvariant, PTL

(* m_recv_msg_buf belongs to one read at a time, and an open session that  *)
(* was started is reading or about to.                                     *)
THEOREM OneReadHolds == Spec => []OneReadAtATime
<1>1. IInv => OneReadAtATime
  <2> SUFFICES ASSUME IInv
               PROVE  OneReadAtATime
    OBVIOUS
  <2> DEFINE first == {"do_read_head_len"}
  <2>1. s \in Session /\ OneRead(s) /\ Stage
    BY DEF IInv, Core
  <2>2. /\ Has(s.ready, ReadHandlers) <=> Has(s.ready, ReadStages) \/ Has(s.ready, first)
        /\ ~(Has(s.ready, ReadStages) /\ Has(s.ready, first))
        /\ Once(s.ready, ReadStages) /\ Once(s.ready, first)
    BY <2>1 DEF OneRead, Has, Once, ReadHandlers, ReadStages
  <2>3. /\ Queued(ReadStages) = IF Has(s.ready, ReadStages) THEN 1 ELSE 0
        /\ Queued(first) = IF Has(s.ready, first) THEN 1 ELSE 0
    BY <2>1, <2>2, QueuedOnce
  <2> HIDE DEF first
  <2>4. ReadsUnderWay + Queued(first) =
            IF s.reading # "none" \/ Has(s.ready, ReadHandlers) THEN 1 ELSE 0
    BY <2>1, <2>2, <2>3 DEF ReadsUnderWay, OneRead
  <2>5. ReadsUnderWay + Queued(first) <= 1
    BY <2>4
  <2>6. s.open /\ started \in {"half", "yes"} => ReadsUnderWay + Queued(first) = 1
    BY <2>1, <2>4 DEF Stage, Reads
  <2> QED
    BY <2>5, <2>6 DEF OneReadAtATime, first
<1> QED
  BY <1>1, SessionInvariant, PTL

(* The end of a session is told and dealt once, at most one message        *)
(* follows it, and a session started by its own loop's thread is announced *)
(* first.                                                                  *)
THEOREM OpenedAndEndedOnceHolds == Spec => []OpenedAndEndedOnce
<1>1. IInv => OpenedAndEndedOnce
  <2> SUFFICES ASSUME IInv
               PROVE  OpenedAndEndedOnce
    OBVIOUS
  <2> DEFINE P == {i \in DOMAIN s.dealt : s.dealt[i] = "close"}
  <2>1. s \in Session /\ EndsOnce(s) /\ OneLate(s.dealt) /\ Stage
    BY DEF IInv, Core, LastMessage
  <2>2. DOMAIN s.dealt = 1 .. Len(s.dealt) /\ Len(s.dealt) \in Nat
    BY <2>1 DEF Session
  <2>3. s.told = Count("close")
    <3>1. /\ P \in SUBSET (1 .. Len(s.dealt)) /\ \A i, j \in P : i = j
          /\ P = {} <=> s.open
      BY <2>1, <2>2 DEF EndsOnce, OneEnd, Ended
    <3>2. Count("close") = Cardinality(P)
      BY DEF Count
    <3> HIDE DEF P
    <3>3. Cardinality(P) = IF P = {} THEN 0 ELSE 1
      BY <3>1, AtMostOne
    <3> QED
      BY <2>1, <3>1, <3>2, <3>3 DEF EndsOnce
  <2>4. ASSUME NEW i \in DOMAIN s.dealt, NEW j \in DOMAIN s.dealt,
               NEW k \in DOMAIN s.dealt, i < j, j < k, s.dealt[i] = "close",
               s.dealt[j] = "message", s.dealt[k] = "message"
        PROVE  FALSE
    <3>1. i < k /\ j # k
      BY <2>2, <2>4
    <3>2. Late(s.dealt, j) /\ Late(s.dealt, k)
      BY <2>2, <2>4, <3>1 DEF Late
    <3> QED
      BY <2>1, <2>2, <3>1, <3>2 DEF OneLate
  <2>5. s.told = IF s.open THEN 0 ELSE 1
    BY <2>1 DEF EndsOnce
  <2>6. s.shared /\ started = "yes" => s.dealt # <<>> /\ s.dealt[1] = "open"
    BY <2>1 DEF Stage
  <2> QED
    BY <2>3, <2>4, <2>5, <2>6 DEF OpenedAndEndedOnce
<1> QED
  BY <1>1, SessionInvariant, PTL

-----------------------------------------------------------------------------
(***************************************************************************)
(* The refinement of SendContract.  WriteEnded: a write was completed and  *)
(* its handler waits; the four relations are what a call may do to the     *)
(* contract's variables.                                                   *)
(***************************************************************************)
WriteEnded(ready) == \E i \in 1 .. Len(ready) : ready[i].h = "write" /\ ~ready[i].err

Owed(x) == ~x.open /\ WriteEnded(x.ready)

Quiet(x, y) ==
    /\ y.accepted = x.accepted /\ y.wire = x.wire /\ y.open = x.open
    /\ Owed(y) <=> Owed(x)

Accepts(x, y) ==
    /\ Len(y.accepted) = Len(x.accepted) + 1
    /\ SubSeq(y.accepted, 1, Len(x.accepted)) = x.accepted
    /\ y.wire = x.wire /\ y.open = x.open
    /\ Owed(y) <=> Owed(x)

Delivers(x, y) ==
    /\ Len(x.wire) < Len(x.accepted)
    /\ x.open \/ Owed(x)
    /\ y.wire = Append(x.wire, x.accepted[Len(x.wire) + 1])
    /\ ~Owed(y)
    /\ y.accepted = x.accepted /\ y.open = x.open

Ends(x, y) ==
    /\ x.open /\ ~y.open
    /\ Owed(y) => Len(x.wire) < Len(x.accepted)
    /\ y.accepted = x.accepted /\ y.wire = x.wire

Sends(x, y) == Quiet(x, y) \/ Accepts(x, y) \/ Delivers(x, y) \/ Ends(x, y)

(* What the contract does not see may come before and after a step of it. *)
LEMMA QuietAround ==
    ASSUME NEW x, NEW y, NEW z
    PROVE  /\ Quiet(x, x)
           /\ Quiet(x, y) /\ Sends(y, z) => Sends(x, z)
           /\ Sends(x, y) /\ Quiet(y, z) => Sends(x, z)
  BY DEF Quiet, Sends, Accepts, Delivers, Ends

(* A completed write waits in the loop, before and after a handler joins it. *)
LEMMA EndedAppend ==
    ASSUME NEW r \in Seq(Handlers), NEW e \in Handlers
    PROVE  WriteEnded(Append(r, e)) <=> WriteEnded(r) \/ (e.h = "write" /\ ~e.err)
<1> DEFINE q == Append(r, e)
<1>1. /\ Len(q) = Len(r) + 1 /\ Len(r) \in Nat
      /\ \A i \in 1 .. Len(r) : q[i] = r[i]
      /\ q[Len(r) + 1] = e
  OBVIOUS
<1> HIDE DEF q
<1>2. WriteEnded(q) <=> WriteEnded(r) \/ (e.h = "write" /\ ~e.err)
  BY <1>1 DEF WriteEnded
<1> QED
  BY <1>2 DEF q

(* Before and after the first handler leaves it. *)
LEMMA EndedTail ==
    ASSUME NEW r \in Seq(Handlers), r # <<>>
    PROVE  WriteEnded(r) <=>
              (Head(r).h = "write" /\ ~Head(r).err) \/ WriteEnded(Tail(r))
<1> DEFINE q == Tail(r)
<1>1. /\ Len(q) = Len(r) - 1 /\ Len(r) \in Nat \ {0}
      /\ \A i \in 1 .. Len(q) : q[i] = r[i + 1]
      /\ Head(r) = r[1]
  OBVIOUS
<1> HIDE DEF q
<1>2. \A i \in 1 .. Len(r) : i = 1 \/ (i - 1 \in 1 .. Len(q) /\ r[i] = q[i - 1])
  BY <1>1
<1>3. WriteEnded(r) => (Head(r).h = "write" /\ ~Head(r).err) \/ WriteEnded(q)
  BY <1>1, <1>2 DEF WriteEnded
<1>4. Head(r).h = "write" /\ ~Head(r).err => WriteEnded(r)
  BY <1>1 DEF WriteEnded
<1>5. ASSUME NEW i \in 1 .. Len(q), q[i].h = "write", ~q[i].err
      PROVE  WriteEnded(r)
  BY <1>1, <1>5, i + 1 \in 1 .. Len(r) DEF WriteEnded
<1>6. WriteEnded(q) => WriteEnded(r)
  BY <1>5 DEF WriteEnded
<1> QED
  BY <1>3, <1>4, <1>6 DEF q

(* What closing the socket adds to the loop are failures. *)
LEMMA EndedAborted ==
    ASSUME NEW x \in Session
    PROVE  WriteEnded(x.ready \o Aborted(x)) <=> WriteEnded(x.ready)
<1> DEFINE a == Aborted(x)
           r == x.ready \o a
<1>1. /\ a \in Seq(Handlers) /\ \A i \in 1 .. Len(a) : a[i].err
  <2> DEFINE rd == Completion(x.reading, TRUE)
             wr == Completion("write", TRUE)
  <2>1. /\ x.reading # "none" => rd \in Handlers
        /\ wr \in Handlers /\ rd.err /\ wr.err
    BY DEF Session, Completion, Handlers
  <2>2. a = (IF x.reading = "none" THEN <<>> ELSE <<rd>>)
              \o (IF x.writing THEN <<wr>> ELSE <<>>)
    BY DEF Aborted
  <2> HIDE DEF rd, wr, a
  <2>3. CASE x.reading = "none"
    BY <2>1, <2>2, <2>3
  <2>4. CASE x.reading # "none"
    BY <2>1, <2>2, <2>4
  <2> QED
    BY <2>3, <2>4
<1> HIDE DEF a
<1>2. x.ready \in Seq(Handlers)
  BY DEF Session
<1>3. /\ Len(r) = Len(x.ready) + Len(a) /\ Len(x.ready) \in Nat /\ Len(a) \in Nat
      /\ \A i \in 1 .. Len(x.ready) : r[i] = x.ready[i]
      /\ \A i \in Len(x.ready) + 1 .. Len(r) : r[i] = a[i - Len(x.ready)]
  BY <1>1, <1>2
<1> HIDE DEF r
<1>4. \A i \in Len(x.ready) + 1 .. Len(r) : r[i].err
  BY <1>1, <1>3
<1>5. \A i \in 1 .. Len(r) : i \in 1 .. Len(x.ready) \/ i \in Len(x.ready) + 1 .. Len(r)
  BY <1>3
<1>6. WriteEnded(r) => WriteEnded(x.ready)
  BY <1>3, <1>4, <1>5 DEF WriteEnded
<1>7. WriteEnded(x.ready) => WriteEnded(r)
  BY <1>3 DEF WriteEnded
<1> QED
  BY <1>6, <1>7 DEF r, a

(* A message that waits in the queue was accepted and not delivered, and   *)
(* it is the next one.                                                     *)
LEMMA NextInQueue ==
    ASSUME NEW x, Core(x), x.queue.buf # <<>>
    PROVE  /\ Len(x.wire) < Len(x.accepted)
           /\ x.accepted[Len(x.wire) + 1] = Head(x.queue.buf)
<1>1. /\ x.accepted = x.wire \o x.queue.buf
      /\ x.wire \in Seq(Nat) /\ x.queue.buf \in Seq(Nat)
  BY DEF Core, Session
<1> DEFINE w == x.wire  b == x.queue.buf
<1>2. w \in Seq(Nat) /\ b \in Seq(Nat) /\ b # <<>> /\ x.accepted = w \o b
  BY <1>1
<1> HIDE DEF w, b
<1>3. Len(w) \in Nat /\ Len(b) \in Nat /\ Len(b) >= 1 /\ Head(b) = b[1]
  BY <1>2
<1>4. Len(w \o b) = Len(w) + Len(b) /\ (w \o b)[Len(w) + 1] = b[1]
  BY <1>2, <1>3
<1>5. Len(w) < Len(x.accepted) /\ x.accepted[Len(w) + 1] = Head(b)
  BY <1>2, <1>3, <1>4
<1> QED
  BY <1>5 DEF w, b

(* do_close ends the session, once. *)
LEMMA CloseSends ==
    ASSUME NEW x, Core(x)
    PROVE  Sends(x, do_close(x))
<1> DEFINE y == do_close(x)
           r == x.ready \o Aborted(x)
<1>1. x \in Session
  BY DEF Core
<1>2. CASE ~x.open
  BY <1>2, QuietAround DEF do_close, Sends
<1>3. CASE x.open
  <2> HIDE DEF r
  <2>1. ~y.open /\ y.accepted = x.accepted /\ y.wire = x.wire /\ y.ready = r
    BY <1>1, <1>3 DEF do_close, Deal, Session, r
  <2> HIDE DEF y
  <2>2. WriteEnded(r) => x.queue.buf # <<>>
    <3>1. WriteEnded(r) => WriteEnded(x.ready)
      BY <1>1, EndedAborted DEF r
    <3>2. WriteEnded(x.ready) => Has(x.ready, {"write"})
      BY DEF WriteEnded, Has
    <3> QED
      BY <3>1, <3>2 DEF Core, OneWrite
  <2>3. Owed(y) => Len(x.wire) < Len(x.accepted)
    BY <2>1, <2>2, NextInQueue DEF Owed
  <2> QED
    BY <1>3, <2>1, <2>3 DEF Sends, Ends, y
<1> QED
  BY <1>2, <1>3

(* do_write accepts a message, or ends the session. *)
LEMMA WriteSends ==
    ASSUME NEW x, Core(x), NEW msg \in Nat
    PROVE  Sends(x, do_write(x, msg))
<1> DEFINE y == do_write(x, msg)
<1>1. x \in Session /\ x.accepted \in Seq(Nat)
  BY DEF Core, Session
<1>2. CASE Refuse(x.queue)
  BY <1>2, CloseSends DEF do_write
<1>3. CASE ~Refuse(x.queue)
  <2>1. /\ y.accepted = Append(x.accepted, msg) /\ y.wire = x.wire
        /\ y.open = x.open /\ y.ready = x.ready
    BY <1>1, <1>3 DEF do_write, Session
  <2> HIDE DEF y
  <2>2. /\ Len(Append(x.accepted, msg)) = Len(x.accepted) + 1
        /\ SubSeq(Append(x.accepted, msg), 1, Len(x.accepted)) = x.accepted
    BY <1>1
  <2> QED
    BY <2>1, <2>2 DEF Sends, Accepts, Owed, y
<1> QED
  BY <1>2, <1>3

(* The calls that have nothing to do with sending. *)
LEMMA OthersQuiet ==
    ASSUME NEW x, Core(x)
    PROVE  /\ \A stage \in ReadStages : Quiet(x, async_read(x, stage))
           /\ \A e \in Handlers : e.h # "write" => Quiet(x, Post(x, e))
           /\ \A w : Quiet(x, Deal(x, w))
           /\ \A b \in BOOLEAN : Quiet(x, [x EXCEPT !.silent = b])
           /\ Quiet(x, [x EXCEPT !.sent = @ + 1])
           /\ Quiet(x, [x EXCEPT !.silent = FALSE, !.frames = @ + 1])
<1>1. x \in Session /\ x.ready \in Seq(Handlers)
  BY DEF Core, Session
<1>2. ASSUME NEW y, y.accepted = x.accepted, y.wire = x.wire, y.open = x.open,
             y.ready = x.ready
      PROVE  Quiet(x, y)
  BY <1>2 DEF Quiet, Owed
<1>3. ASSUME NEW e \in Handlers, e.h # "write" \/ e.err
      PROVE  Quiet(x, Post(x, e))
  <2> DEFINE y == Post(x, e)
  <2>1. /\ y.accepted = x.accepted /\ y.wire = x.wire /\ y.open = x.open
        /\ y.ready = Append(x.ready, e)
    BY <1>1 DEF Post, Session
  <2> HIDE DEF y
  <2>2. WriteEnded(y.ready) <=> WriteEnded(x.ready)
    BY <1>1, <1>3, <2>1, EndedAppend
  <2> QED
    BY <2>1, <2>2 DEF Quiet, Owed, y
<1>4. ASSUME NEW stage \in ReadStages
      PROVE  Quiet(x, async_read(x, stage))
  <2>1. CASE x.open
    <3> DEFINE y == async_read(x, stage)
    <3>1. /\ y.accepted = x.accepted /\ y.wire = x.wire /\ y.open = x.open
          /\ y.ready = x.ready
      BY <1>1, <2>1 DEF async_read, Session
    <3> HIDE DEF y
    <3> QED
      BY <1>2, <3>1 DEF y
  <2>2. CASE ~x.open
    <3>1. Completion(stage, TRUE) \in Handlers /\ Completion(stage, TRUE).err
      BY DEF Completion, Handlers
    <3> QED
      BY <1>3, <2>2, <3>1 DEF async_read
  <2> QED
    BY <2>1, <2>2
<1>5. ASSUME NEW w
      PROVE  Quiet(x, Deal(x, w))
  <2> DEFINE y == Deal(x, w)
  <2>1. /\ y.accepted = x.accepted /\ y.wire = x.wire /\ y.open = x.open
        /\ y.ready = x.ready
    BY <1>1 DEF Deal, Session
  <2> HIDE DEF y
  <2> QED
    BY <1>2, <2>1 DEF y
<1>6. ASSUME NEW b \in BOOLEAN
      PROVE  Quiet(x, [x EXCEPT !.silent = b])
  <2> DEFINE y == [x EXCEPT !.silent = b]
  <2>1. /\ y.accepted = x.accepted /\ y.wire = x.wire /\ y.open = x.open
        /\ y.ready = x.ready
    BY <1>1 DEF Session
  <2> HIDE DEF y
  <2> QED
    BY <1>2, <2>1 DEF y
<1>7. Quiet(x, [x EXCEPT !.sent = @ + 1])
  <2> DEFINE y == [x EXCEPT !.sent = @ + 1]
  <2>1. /\ y.accepted = x.accepted /\ y.wire = x.wire /\ y.open = x.open
        /\ y.ready = x.ready
    BY <1>1 DEF Session
  <2> HIDE DEF y
  <2> QED
    BY <1>2, <2>1 DEF y
<1>8. Quiet(x, [x EXCEPT !.silent = FALSE, !.frames = @ + 1])
  <2> DEFINE y == [x EXCEPT !.silent = FALSE, !.frames = @ + 1]
  <2>1. /\ y.accepted = x.accepted /\ y.wire = x.wire /\ y.open = x.open
        /\ y.ready = x.ready
    BY <1>1 DEF Session
  <2> HIDE DEF y
  <2> QED
    BY <1>2, <2>1 DEF y
<1> QED
  BY <1>3, <1>4, <1>5, <1>6, <1>7, <1>8

(* A reply is one message more, or one too many. *)
LEMMA ReactionSends ==
    ASSUME NEW x, Core(x), Writes(x), NEW reaction \in {"none", "reply", "close"}
    PROVE  Sends(x, React(x, reaction))
<1>1. CASE reaction = "none"
  BY <1>1, QuietAround DEF React, Sends
<1>2. CASE reaction = "close"
  BY <1>2, CloseSends DEF React
<1>3. CASE reaction = "reply"
  <2> DEFINE z == [x EXCEPT !.sent = @ + 1]
             y == do_write(z, x.sent + 1)
  <2>1. React(x, reaction) = y
    BY <1>3 DEF React
  <2>2. x.sent + 1 \in Nat
    BY DEF Core, Session
  <2>3. Core(z) /\ Quiet(x, z)
    BY Counted, OthersQuiet
  <2> HIDE DEF z
  <2>4. Sends(z, y)
    BY <2>2, <2>3, WriteSends
  <2> HIDE DEF y
  <2> QED
    BY <2>1, <2>3, <2>4, QuietAround
<1> QED
  BY <1>1, <1>2, <1>3

(* A frame that was read is dealt, answered or not, and the next one asked *)
(* for.                                                                    *)
LEMMA FrameSends ==
    ASSUME NEW x, Core(x), Writes(x), NoRead(x), NoLate(x.dealt),
           NEW reaction \in {"none", "reply", "close"}
    PROVE  Sends(x, on_read_complete(x, FALSE, TRUE, reaction))
<1> DEFINE c == [x EXCEPT !.silent = FALSE, !.frames = @ + 1]
           m == Deal(c, "message")
           z == React(m, reaction)
           y == async_read(z, "head_len")
<1>1. on_read_complete(x, FALSE, TRUE, reaction) = y
  BY DEF on_read_complete, do_read_head_len
<1>2. Core(m) /\ Writes(m)
  BY DealMessage
<1>3. Quiet(x, m)
  <2>1. x \in Session
    BY DEF Core
  <2>2. /\ m.accepted = x.accepted /\ m.wire = x.wire /\ m.open = x.open
        /\ m.ready = x.ready
    BY <2>1 DEF Deal, Session
  <2> HIDE DEF m
  <2> QED
    BY <2>2 DEF Quiet, Owed
<1> HIDE DEF m, c
<1>4. Sends(m, z) /\ Core(z)
  BY <1>2, ReactionSends, Reaction
<1> HIDE DEF z
<1>5. Quiet(z, y)
  BY <1>4, OthersQuiet DEF ReadStages
<1> HIDE DEF y
<1>6. Sends(x, z)
  BY <1>3, <1>4, QuietAround
<1> QED
  BY <1>1, <1>5, <1>6, QuietAround

(* A handler other than the completion of a write. *)
LEMMA HandlerSends ==
    ASSUME NEW x, Core(x), Writes(x), NEW e \in Handlers, e.h # "write",
           e.h \in ReadHandlers => NoRead(x),
           e.h = "body" /\ ~e.err => NoLate(x.dealt),
           NEW valid \in BOOLEAN, NEW reaction \in {"none", "reply", "close"}
    PROVE  Sends(x, RunHandler(x, e, valid, reaction))
<1> DEFINE y == RunHandler(x, e, valid, reaction)
<1>1. y = do_close(x) => Sends(x, y)
  BY CloseSends
<1>2. ASSUME NEW stage \in ReadStages, y = async_read(x, stage)
      PROVE  Sends(x, y)
  BY <1>2, OthersQuiet DEF Sends
<1>3. CASE e.h = "do_read_head_len"
  <2>1. y = async_read(x, "head_len") /\ "head_len" \in ReadStages
    BY <1>3 DEF RunHandler, do_read_head_len, ReadStages
  <2> QED
    BY <1>2, <2>1
<1>4. CASE e.h = "head_len"
  <2>1. y = do_close(x) \/ y = async_read(x, "head")
    BY <1>4 DEF RunHandler, on_read_head_len_complete, do_read_head
  <2>2. "head" \in ReadStages
    BY DEF ReadStages
  <2> QED
    BY <1>1, <1>2, <2>1, <2>2
<1>5. CASE e.h = "head"
  <2>1. y = do_close(x) \/ y = async_read(x, "body")
    BY <1>5 DEF RunHandler, on_read_head_complete, do_read_body
  <2>2. "body" \in ReadStages
    BY DEF ReadStages
  <2> QED
    BY <1>1, <1>2, <2>1, <2>2
<1>6. CASE e.h = "body"
  <2>1. y = on_read_complete(x, e.err, valid, reaction)
    BY <1>6 DEF RunHandler
  <2>2. CASE e.err \/ ~valid
    BY <1>1, <2>1, <2>2 DEF on_read_complete
  <2>3. CASE ~e.err /\ valid
    <3>1. y = on_read_complete(x, FALSE, TRUE, reaction)
      BY <2>1, <2>3 DEF on_read_complete
    <3>2. NoRead(x) /\ NoLate(x.dealt)
      BY <1>6, <2>3 DEF ReadHandlers, ReadStages
    <3> HIDE DEF y
    <3> QED
      BY <3>1, <3>2, FrameSends DEF y
  <2> QED
    BY <2>2, <2>3
<1>7. CASE e.h = "do_session_open"
  <2>1. y = Deal(x, "open")
    BY <1>7 DEF RunHandler, do_session_open
  <2>2. Quiet(x, Deal(x, "open"))
    BY OthersQuiet
  <2> HIDE DEF y
  <2> QED
    BY <2>1, <2>2 DEF Sends, y
<1>8. CASE e.h = "do_close"
  BY <1>1, <1>8 DEF RunHandler
<1>9. CASE e.h = "do_check_alive"
  <2>1. y = do_close(x) \/ y = x
    BY <1>9 DEF RunHandler, do_check_alive
  <2> QED
    BY <1>1, <2>1, QuietAround DEF Sends
<1>10. CASE e.h = "do_write"
  <2>1. y = do_write(x, e.msg) /\ e.msg \in Nat
    BY <1>10 DEF RunHandler, Handlers, ReadStages
  <2> QED
    BY <2>1, WriteSends
<1> QED
  BY <1>3, <1>4, <1>5, <1>6, <1>7, <1>8, <1>9, <1>10 DEF Handlers, ReadStages

(* The loop runs its next handler: the completion of a write delivers.     *)
LEMMA RunSends ==
    ASSUME IInv, run
    PROVE  Sends(s, s')
<1> DEFINE x == [s EXCEPT !.ready = Tail(@)]
           e == Head(s.ready)
<1>1. PICK valid \in BOOLEAN, reaction \in {"none", "reply", "close"} :
         s' = RunHandler(x, e, valid, reaction)
  BY DEF run
<1>2. /\ s.ready # <<>> /\ Core(s) /\ Writes(s)
      /\ s \in Session /\ s.ready \in Seq(Handlers)
  BY DEF run, IInv, Core, Session
<1>3. /\ e \in Handlers /\ Core(x)
      /\ e.h # "write" => Writes(x)
      /\ e.h = "write" =>
            x.queue.buf # <<>> /\ ~x.writing /\ ~Has(x.ready, {"write"})
      /\ e.h \in ReadHandlers => NoRead(x)
      /\ e.h = "body" /\ ~e.err => NoLate(x.dealt)
  BY <1>2, TakeHandler
<1>4. /\ x.ready = Tail(s.ready) /\ x.open = s.open /\ x.accepted = s.accepted
      /\ x.wire = s.wire /\ x.queue = s.queue
  BY <1>2 DEF Session
<1>5. WriteEnded(s.ready) <=> (e.h = "write" /\ ~e.err) \/ WriteEnded(x.ready)
  BY <1>2, <1>4, EndedTail
<1> HIDE DEF x, e
<1>6. e.h # "write" \/ e.err => Quiet(s, x)
  BY <1>4, <1>5 DEF Quiet, Owed
<1>7. CASE e.h # "write"
  <2>1. Sends(x, s')
    BY <1>1, <1>3, <1>7, HandlerSends
  <2> QED
    BY <1>6, <1>7, <2>1, QuietAround
<1>8. CASE e.h = "write" /\ e.err
  <2>1. s' = do_close(x)
    BY <1>1, <1>8 DEF RunHandler, on_write_complete
  <2>2. Sends(x, s')
    BY <1>3, <2>1, CloseSends
  <2> QED
    BY <1>6, <1>8, <2>2, QuietAround
<1>9. CASE e.h = "write" /\ ~e.err
  <2>1. x \in Session /\ x.queue.buf # <<>> /\ ~Has(x.ready, {"write"})
    BY <1>3, <1>9 DEF Core
  <2>2. s' = on_write_complete(x, e.err)
    BY <1>1, <1>9 DEF RunHandler
  <2>3. /\ s'.wire = Append(x.wire, Head(x.queue.buf)) /\ s'.accepted = x.accepted
        /\ s'.open = x.open /\ s'.ready = x.ready
    BY <1>9, <2>1, <2>2 DEF on_write_complete, Front, Session
  <2>4. ~WriteEnded(x.ready)
    BY <2>1 DEF WriteEnded, Has
  <2>5. /\ Len(x.wire) < Len(x.accepted)
        /\ x.accepted[Len(x.wire) + 1] = Head(x.queue.buf)
    BY <1>3, <2>1, NextInQueue
  <2>6. s.open \/ Owed(s)
    BY <1>5, <1>9 DEF Owed
  <2> QED
    BY <1>4, <2>3, <2>4, <2>5, <2>6 DEF Sends, Delivers, Owed
<1> QED
  BY <1>7, <1>8, <1>9

(* start(), whichever thread it is called in. *)
LEMMA StartSends ==
    ASSUME IInv, start
    PROVE  Sends(s, s')
<1> DEFINE z == [s EXCEPT !.silent = FALSE]
<1>1. Core(z) /\ Writes(z) /\ Quiet(s, z) /\ NoRead(z)
  <2>1. Core(z) /\ Writes(z) /\ Keeps(s, z) /\ Quiet(s, z)
    BY Counted, OthersQuiet DEF IInv
  <2>2. NoRead(s)
    BY DEF IInv, Stage, start
  <2> QED
    BY <2>1, <2>2 DEF Keeps
<1> HIDE DEF z
<1>2. CASE s.shared
  <2> DEFINE r == async_read(z, "head_len")
  <2>1. s' = Deal(r, "open")
    BY <1>2 DEF start, do_read_head_len, do_session_open, z
  <2>2. Core(r) /\ Quiet(z, r)
    BY <1>1, AsyncRead, OthersQuiet DEF ReadStages
  <2> HIDE DEF r
  <2>3. Quiet(r, s')
    BY <2>1, <2>2, OthersQuiet
  <2> QED
    BY <1>1, <2>2, <2>3, QuietAround DEF Sends
<1>3. CASE ~s.shared
  <2> DEFINE e == [h |-> "do_read_head_len"]
  <2>1. s' = Post(z, e)
    BY <1>3 DEF start, z
  <2>2. e \in Handlers /\ e.h # "write"
    BY DEF Handlers
  <2> HIDE DEF e
  <2>3. Quiet(z, s')
    BY <1>1, <2>1, <2>2, OthersQuiet
  <2> QED
    BY <1>1, <2>3, QuietAround DEF Sends
<1> QED
  BY <1>2, <1>3

(* The calls that other threads post. *)
LEMMA PostsSend ==
    ASSUME IInv, start_rest \/ send \/ close \/ check_alive \/ reject
    PROVE  Sends(s, s')
<1>1. Core(s) /\ Writes(s)
  BY DEF IInv
<1>2. ASSUME NEW k \in {"do_session_open", "do_close", "do_check_alive"},
             s' = Post(s, [h |-> k])
      PROVE  Sends(s, s')
  <2> DEFINE e == [h |-> k]
  <2>1. e \in Handlers /\ e.h # "write" /\ s' = Post(s, e)
    BY <1>2, PlainHandlers
  <2> HIDE DEF e
  <2> QED
    BY <1>1, <2>1, OthersQuiet DEF Sends
<1>3. CASE start_rest \/ close \/ check_alive \/ (reject /\ ~s.shared)
  BY <1>2, <1>3 DEF start_rest, close, check_alive, reject
<1>4. CASE reject /\ s.shared
  <2>1. s' = do_close(s)
    BY <1>4 DEF reject
  <2> QED
    BY <1>1, <2>1, CloseSends
<1>5. CASE send
  <2> DEFINE e == [h |-> "do_write", msg |-> s.sent + 1]
             x == [s EXCEPT !.sent = @ + 1]
  <2>1. s.sent + 1 \in Nat
    BY <1>1 DEF Core, Session
  <2>2. e \in Handlers /\ e.h # "write"
    BY <2>1, PlainHandlers
  <2>3. Core(x) /\ Quiet(s, x)
    BY <1>1, Counted, OthersQuiet
  <2>4. s' = Post(x, e)
    BY <1>5 DEF send
  <2> HIDE DEF e, x
  <2>5. Quiet(x, s')
    BY <2>2, <2>3, <2>4, OthersQuiet
  <2> QED
    BY <2>3, <2>5, QuietAround DEF Sends
<1> QED
  BY <1>3, <1>4, <1>5

(* The operating system: a write that ends while the session is open is    *)
(* owed to nobody yet.                                                     *)
LEMMA SystemSends ==
    ASSUME IInv, fall_silent \/ \E err \in BOOLEAN : read_done(err) \/ write_done(err)
    PROVE  Sends(s, s')
<1>1. Core(s) /\ s \in Session /\ s.ready \in Seq(Handlers)
  BY DEF IInv, Core, Session
<1>2. CASE fall_silent
  BY <1>1, <1>2, OthersQuiet DEF fall_silent, Sends
<1>3. ASSUME NEW err \in BOOLEAN, read_done(err) \/ write_done(err)
      PROVE  Sends(s, s')
  <2>1. s.open
    BY <1>1, <1>3 DEF read_done, write_done, Core, OneRead, OneWrite
  <2>2. s'.accepted = s.accepted /\ s'.wire = s.wire /\ s'.open = s.open
    <3>1. CASE read_done(err)
      BY <1>1, <3>1 DEF read_done, Post, Session
    <3>2. CASE write_done(err)
      BY <1>1, <3>2 DEF write_done, Post, Session
    <3> QED
      BY <1>3, <3>1, <3>2
  <2> QED
    BY <2>1, <2>2 DEF Sends, Quiet, Owed
<1> QED
  BY <1>2, <1>3

(* The contract's view of a step. *)
LEMMA StepSends ==
    ASSUME IInv, IInv', [Next]_vars
    PROVE  [Channel!CNext]_(Channel!cvars)
<1>1. Sends(s, s')
  <2>1. CASE start
    BY <2>1, StartSends
  <2>2. CASE start_rest \/ send \/ close \/ check_alive \/ reject
    BY <2>2, PostsSend
  <2>3. CASE fall_silent \/ \E err \in BOOLEAN : read_done(err) \/ write_done(err)
    BY <2>3, SystemSends
  <2>4. CASE run
    BY <2>4, RunSends
  <2>5. CASE UNCHANGED vars
    BY <2>5 DEF vars, Sends, Quiet
  <2> QED
    BY <2>1, <2>2, <2>3, <2>4, <2>5 DEF Next
<1>2. /\ LateWrite = Owed(s) /\ LateWrite' = Owed(s')
  <2>1. DOMAIN s.ready = 1 .. Len(s.ready) /\ DOMAIN s'.ready = 1 .. Len(s'.ready)
    BY DEF IInv, Core, Session
  <2> QED
    BY <2>1 DEF LateWrite, Owed, WriteEnded
<1>3. s.open \in BOOLEAN /\ s'.open \in BOOLEAN
  BY DEF IInv, Core, Session
<1>4. Owed(s) \in BOOLEAN /\ Owed(s') \in BOOLEAN
  BY DEF Owed
<1>5. CASE Quiet(s, s')
  BY <1>2, <1>4, <1>5 DEF Quiet, Channel!cvars
<1>6. CASE Accepts(s, s')
  BY <1>2, <1>4, <1>6 DEF Accepts, Channel!CNext, Channel!Accept
<1>7. CASE Delivers(s, s')
  BY <1>2, <1>4, <1>7 DEF Delivers, Channel!CNext, Channel!Deliver
<1>8. CASE Ends(s, s')
  BY <1>2, <1>4, <1>8 DEF Ends, Channel!CNext, Channel!End
<1> QED
  BY <1>1, <1>5, <1>6, <1>7, <1>8 DEF Sends

(* A session implements what SendContract promises of the messages it is   *)
(* given: whatever fails, however the queue grows and whoever closes it.   *)
THEOREM SessionImplementsSending == Spec => ImplementsSending
<1>1. Init => Channel!CInit
  BY DEF Init, NewSession, Channel!CInit, LateWrite
<1>2. IInv /\ IInv' /\ [Next]_vars => [Channel!CNext]_(Channel!cvars)
  BY StepSends
<1> QED
  BY <1>1, <1>2, SessionInvariant, PTL DEF Spec, ImplementsSending, Channel!CSafety
=============================================================================
