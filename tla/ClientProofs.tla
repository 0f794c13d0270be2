---------------------------- MODULE ClientProofs -----------------------------
(***************************************************************************)
(* Proofs about the Client, for any number of calls, attempts, sessions    *)
(* and expiries of its timers.                                             *)
(***************************************************************************)
EXTENDS Client, TLAPS

Names == Timers \cup {"do_connect", "do_close_client", "on_connet_complete",
                      "on_read_error", "on_closed_session"}

Handlers == [f : Names, err : BOOLEAN]

ClientState ==
    [auto : BOOLEAN, connecting : BOOLEAN, waiting : BOOLEAN, connected : BOOLEAN,
     socket : {"null", "open", "closed"}, pending : BOOLEAN, armed : SUBSET Timers,
     session : BOOLEAN, silent : BOOLEAN, ready : Seq(Handlers),
     last : {"none", "connect", "close"}, overlap : BOOLEAN, crashed : BOOLEAN]

(* The completions of an attempt; the handlers of the timer that starts    *)
(* the next one.                                                           *)
Done == {e \in Handlers : e.f = "on_connet_complete"}
Tick == {e \in Handlers : e.f = "m_reconnet_timer"}
Late == {e \in Tick : e.err}

Has(r, S)  == \E i \in 1 .. Len(r) : r[i] \in S
Once(r)    == \A i, j \in 1 .. Len(r) : r[i] \in Done /\ r[j] \in Done => i = j
Ordered(r) == \A i, j \in 1 .. Len(r) : r[i] \in Tick /\ r[j] \in Done => i < j

-----------------------------------------------------------------------------
(***************************************************************************)
(* The client is doing one thing at a time.  The order of the handlers in  *)
(* the loop is what keeps it so: a handler of m_reconnet_timer that comes  *)
(* too late runs before the attempt that made it late has completed.       *)
(***************************************************************************)
Attempt(x) ==
    /\ x.connecting <=> x.socket # "null"
    /\ x.connecting <=> x.pending \/ Has(x.ready, Done)
    /\ x.pending => ~Has(x.ready, Done) /\ x.socket = "open"
    /\ Once(x.ready)

Waiting(x) ==
    /\ x.waiting => /\ ~x.connected /\ ~x.connecting /\ ~Has(x.ready, Late)
                    /\ "m_reconnet_timer" \in x.armed \/ Has(x.ready, Tick)
    /\ "m_reconnet_timer" \in x.armed => x.waiting /\ ~Has(x.ready, Tick)
    /\ Has(x.ready, Tick) => ~x.connected
    /\ Ordered(x.ready)

Truthful(x) ==
    /\ Attempt(x) /\ Waiting(x)
    /\ ~(x.connected /\ x.connecting)
    /\ ~x.crashed

Due(x, t) == t \in x.armed \/ Has(x.ready, {Handler(t, FALSE)})

Watched(x) ==
    x.connected => Due(x, "m_heart_beat_timer") /\ Due(x, "m_check_alive_timer")

Sound(x) ==
    /\ x \in ClientState
    /\ x.connected = x.session
    /\ ~x.overlap => Truthful(x)

IInv == Sound(c) /\ Watched(c)

(* Nothing is being done, but for a handler of m_reconnet_timer come late. *)
Resting(x) ==
    /\ ~x.connected /\ ~x.connecting /\ ~x.pending /\ ~Has(x.ready, Done)
    /\ ~x.waiting /\ "m_reconnet_timer" \notin x.armed /\ ~x.crashed

-----------------------------------------------------------------------------
(* What a handler at the end of the loop adds to it. *)
LEMMA ReadyAppend ==
    ASSUME NEW r \in Seq(Handlers), NEW e \in Handlers
    PROVE  /\ Append(r, e) \in Seq(Handlers)
           /\ \A S : Has(Append(r, e), S) <=> Has(r, S) \/ e \in S
           /\ Once(r) /\ ~(Has(r, Done) /\ e \in Done) => Once(Append(r, e))
           /\ Ordered(r) /\ ~(Has(r, Done) /\ e \in Tick) => Ordered(Append(r, e))
<1> DEFINE q == Append(r, e)
<1>1. /\ q \in Seq(Handlers) /\ Len(q) = Len(r) + 1 /\ Len(r) \in Nat
      /\ \A i \in 1 .. Len(r) : q[i] = r[i]
      /\ q[Len(r) + 1] = e
  OBVIOUS
<1> HIDE DEF q
<1>2. ASSUME NEW S
      PROVE  Has(q, S) <=> Has(r, S) \/ e \in S
  BY <1>1 DEF Has
<1>3. Once(r) /\ ~(Has(r, Done) /\ e \in Done) => Once(q)
  BY <1>1 DEF Has, Once
<1>4. Ordered(r) /\ ~(Has(r, Done) /\ e \in Tick) => Ordered(q)
  <2>1. ~(e \in Tick /\ e \in Done)
    BY DEF Tick, Done
  <2> QED
    BY <1>1, <2>1 DEF Has, Ordered
<1> QED
  BY <1>1, <1>2, <1>3, <1>4 DEF q

(* What the loop has, its first handler or the others have. *)
LEMMA ReadyTail ==
    ASSUME NEW r \in Seq(Handlers), r # <<>>
    PROVE  /\ Head(r) \in Handlers /\ Tail(r) \in Seq(Handlers)
           /\ \A S : Has(r, S) <=> Head(r) \in S \/ Has(Tail(r), S)
           /\ Once(r) => Once(Tail(r)) /\ (Head(r) \in Done => ~Has(Tail(r), Done))
           /\ Ordered(r) => Ordered(Tail(r)) /\ (Head(r) \in Done => ~Has(r, Tick))
<1> DEFINE q == Tail(r)
<1>1. /\ q \in Seq(Handlers) /\ Len(q) = Len(r) - 1 /\ Len(r) \in Nat \ {0}
      /\ \A i \in 1 .. Len(q) : q[i] = r[i + 1]
      /\ Head(r) = r[1] /\ r[1] \in Handlers
  OBVIOUS
<1> HIDE DEF q
<1>2. \A i \in 1 .. Len(r) : i = 1 \/ (i - 1 \in 1 .. Len(q) /\ r[i] = q[i - 1])
  BY <1>1
<1>3. \A i \in 1 .. Len(q) : i + 1 \in 1 .. Len(r) /\ r[i + 1] = q[i] /\ i + 1 # 1
  BY <1>1
<1>4. ASSUME NEW S
      PROVE  Has(r, S) <=> Head(r) \in S \/ Has(q, S)
  <2>1. Has(r, S) => Head(r) \in S \/ Has(q, S)
    BY <1>1, <1>2 DEF Has
  <2>2. Head(r) \in S => Has(r, S)
    BY <1>1 DEF Has
  <2>3. Has(q, S) => Has(r, S)
    BY <1>3 DEF Has
  <2> QED
    BY <2>1, <2>2, <2>3
<1>5. Once(r) => Once(q)
  <2>1. ASSUME Once(r), NEW i \in 1 .. Len(q), NEW j \in 1 .. Len(q),
               q[i] \in Done, q[j] \in Done
        PROVE  i = j
    <3>1. i + 1 = j + 1
      BY <1>3, <2>1 DEF Once
    <3> QED
      BY <1>1, <3>1
  <2> QED
    BY <2>1 DEF Once
<1>6. Once(r) /\ Head(r) \in Done => ~Has(q, Done)
  <2>1. ASSUME Once(r), Head(r) \in Done, NEW i \in 1 .. Len(q), q[i] \in Done
        PROVE  FALSE
    BY <1>1, <1>3, <2>1, SMTT(30) DEF Once
  <2> QED
    BY <2>1 DEF Has
<1>7. Ordered(r) => Ordered(q)
  <2>1. ASSUME Ordered(r), NEW i \in 1 .. Len(q), NEW j \in 1 .. Len(q),
               q[i] \in Tick, q[j] \in Done
        PROVE  i < j
    <3>1. i + 1 < j + 1
      BY <1>3, <2>1 DEF Ordered
    <3> QED
      BY <1>1, <3>1
  <2> QED
    BY <2>1 DEF Ordered
<1>8. Ordered(r) /\ Head(r) \in Done => ~Has(r, Tick)
  BY <1>1 DEF Ordered, Has
<1> QED
  BY <1>1, <1>4, <1>5, <1>6, <1>7, <1>8 DEF q

(* The handlers of a closed session keep their places. *)
LEMMA ReadyOutlive ==
    ASSUME NEW r \in Seq(Handlers)
    PROVE  /\ Outlive(r) \in Seq(Handlers)
           /\ Has(Outlive(r), Done) <=> Has(r, Done)
           /\ Has(Outlive(r), Tick) <=> Has(r, Tick)
           /\ Once(r) => Once(Outlive(r))
           /\ Ordered(r) => Ordered(Outlive(r))
<1> DEFINE q == Outlive(r)
           gone == Handler("on_closed_session", TRUE)
<1>1. gone \in Handlers /\ gone \notin Done /\ gone \notin Tick
  BY DEF Handler, Handlers, Names, Done, Tick
<1>2. /\ DOMAIN r = 1 .. Len(r) /\ Len(r) \in Nat
      /\ \A i \in 1 .. Len(r) : r[i] \in Handlers
  OBVIOUS
<1>3. /\ q = [i \in 1 .. Len(r) |-> IF r[i].f = "on_read_error" THEN gone ELSE r[i]]
  BY <1>2 DEF Outlive
<1> HIDE DEF q, gone
<1>4. q \in Seq(Handlers) /\ Len(q) = Len(r)
  BY <1>1, <1>2, <1>3
<1>5. \A i \in 1 .. Len(r) : (q[i] \in Done <=> r[i] \in Done) /\ (q[i] \in Tick <=> r[i] \in Tick)
  <2>1. \A e : e.f = "on_read_error" => e \notin Done /\ e \notin Tick
    BY DEF Done, Tick
  <2> QED
    BY <1>1, <1>2, <1>3, <2>1
<1>6. /\ Has(q, Done) <=> Has(r, Done)
      /\ Has(q, Tick) <=> Has(r, Tick)
  BY <1>4, <1>5 DEF Has
<1>7. Once(r) => Once(q)
  BY <1>4, <1>5 DEF Once
<1>8. Ordered(r) => Ordered(q)
  BY <1>4, <1>5 DEF Ordered
<1> QED
  BY <1>4, <1>6, <1>7, <1>8 DEF q

(* Which handlers belong to an attempt, and which to m_reconnet_timer. *)
LEMMA Kinds ==
    /\ \A f \in Names, err \in BOOLEAN :
          /\ Handler(f, err) \in Handlers
          /\ Handler(f, err).f = f /\ Handler(f, err).err = err
          /\ Handler(f, err) \in Done <=> f = "on_connet_complete"
          /\ Handler(f, err) \in Tick <=> f = "m_reconnet_timer"
          /\ Handler(f, err) \in Late <=> f = "m_reconnet_timer" /\ err
    /\ Late \subseteq Tick
    /\ Timers \subseteq Names
    /\ "on_connet_complete" \in Names /\ "on_read_error" \in Names
    /\ "do_connect" \in Names /\ "do_close_client" \in Names
    /\ Timers = {"m_reconnet_timer", "m_connect_timer", "m_heart_beat_timer",
                 "m_check_alive_timer"}
  BY DEF Handler, Handlers, Names, Done, Tick, Late, Timers

-----------------------------------------------------------------------------
(* Abort completes the attempt in progress with an error. *)
LEMMA AbortFields ==
    ASSUME NEW x \in ClientState
    PROVE  LET y == Abort(x)
               e == Handler("on_connet_complete", TRUE)
           IN  /\ y \in ClientState /\ ~y.pending
               /\ y.ready = IF x.pending THEN Append(x.ready, e) ELSE x.ready
               /\ y.connecting = x.connecting /\ y.waiting = x.waiting
               /\ y.connected = x.connected /\ y.socket = x.socket
               /\ y.armed = x.armed /\ y.session = x.session
               /\ y.overlap = x.overlap /\ y.crashed = x.crashed
<1> DEFINE e == Handler("on_connet_complete", TRUE)
<1>1. e \in Handlers /\ x.ready \in Seq(Handlers) /\ x.pending \in BOOLEAN
  BY Kinds DEF ClientState
<1>2. Append(x.ready, e) \in Seq(Handlers)
  BY <1>1, ReadyAppend
<1>3. CASE x.pending
  <2> DEFINE y == [x EXCEPT !.pending = FALSE, !.ready = Append(x.ready, e)]
  <2>1. Abort(x) = y
    BY <1>3 DEF Abort, Queue, ClientState
  <2> HIDE DEF e
  <2>2. /\ y \in ClientState /\ ~y.pending /\ y.ready = Append(x.ready, e)
        /\ y.connecting = x.connecting /\ y.waiting = x.waiting
        /\ y.connected = x.connected /\ y.socket = x.socket
        /\ y.armed = x.armed /\ y.session = x.session
        /\ y.overlap = x.overlap /\ y.crashed = x.crashed
    BY <1>1, <1>2 DEF ClientState
  <2> QED
    BY <1>3, <2>1, <2>2 DEF e
<1>4. CASE ~x.pending
  <2>1. Abort(x) = x
    BY <1>4 DEF Abort
  <2> QED
    BY <1>4, <2>1
<1> QED
  BY <1>1, <1>3, <1>4

(* Cancelling a timer; the handler of m_reconnet_timer hears of it. *)
LEMMA CancelFields ==
    ASSUME NEW x \in ClientState, NEW t \in Timers
    PROVE  LET y == cancel(x, t)
               e == Handler("m_reconnet_timer", TRUE)
           IN  /\ y \in ClientState /\ y.armed = x.armed \ {t}
               /\ y.ready = IF t = "m_reconnet_timer" /\ t \in x.armed
                              THEN Append(x.ready, e) ELSE x.ready
               /\ y.connecting = x.connecting /\ y.waiting = x.waiting
               /\ y.connected = x.connected /\ y.socket = x.socket
               /\ y.pending = x.pending /\ y.session = x.session
               /\ y.overlap = x.overlap /\ y.crashed = x.crashed
<1> DEFINE e == Handler("m_reconnet_timer", TRUE)
<1>1. /\ e \in Handlers /\ x.ready \in Seq(Handlers)
      /\ x.armed \ {t} \in SUBSET Timers
  BY Kinds DEF ClientState
<1>2. Append(x.ready, e) \in Seq(Handlers)
  BY <1>1, ReadyAppend
<1>3. CASE t = "m_reconnet_timer" /\ t \in x.armed
  <2> DEFINE y == [x EXCEPT !.armed = x.armed \ {t}, !.ready = Append(x.ready, e)]
  <2>1. cancel(x, t) = y
    BY <1>3 DEF cancel, Queue, ClientState
  <2> HIDE DEF e
  <2>2. /\ y \in ClientState /\ y.armed = x.armed \ {t} /\ y.ready = Append(x.ready, e)
        /\ y.connecting = x.connecting /\ y.waiting = x.waiting
        /\ y.connected = x.connected /\ y.socket = x.socket
        /\ y.pending = x.pending /\ y.session = x.session
        /\ y.overlap = x.overlap /\ y.crashed = x.crashed
    BY <1>1, <1>2 DEF ClientState
  <2> QED
    BY <1>3, <2>1, <2>2 DEF e
<1>4. CASE ~(t = "m_reconnet_timer" /\ t \in x.armed)
  <2> DEFINE y == [x EXCEPT !.armed = x.armed \ {t}]
  <2>1. cancel(x, t) = y
    BY <1>4 DEF cancel, ClientState
  <2>2. /\ y \in ClientState /\ y.armed = x.armed \ {t} /\ y.ready = x.ready
        /\ y.connecting = x.connecting /\ y.waiting = x.waiting
        /\ y.connected = x.connected /\ y.socket = x.socket
        /\ y.pending = x.pending /\ y.session = x.session
        /\ y.overlap = x.overlap /\ y.crashed = x.crashed
    BY <1>1 DEF ClientState
  <2> QED
    BY <1>4, <2>1, <2>2
<1> QED
  BY <1>3, <1>4

(* A timer other than m_reconnet_timer is set. *)
LEMMA WaitFields ==
    ASSUME NEW x \in ClientState, NEW t \in Timers, t # "m_reconnet_timer"
    PROVE  LET y == async_wait(x, t)
           IN  /\ y \in ClientState /\ y.armed = x.armed \cup {t} /\ y.ready = x.ready
               /\ y.connecting = x.connecting /\ y.waiting = x.waiting
               /\ y.connected = x.connected /\ y.socket = x.socket
               /\ y.pending = x.pending /\ y.session = x.session
               /\ y.overlap = x.overlap /\ y.crashed = x.crashed
<1> DEFINE z == cancel(x, t)
           y == [z EXCEPT !.armed = @ \cup {t}]
<1>1. /\ z \in ClientState /\ z.armed = x.armed \ {t} /\ z.ready = x.ready
      /\ z.connecting = x.connecting /\ z.waiting = x.waiting
      /\ z.connected = x.connected /\ z.socket = x.socket
      /\ z.pending = x.pending /\ z.session = x.session
      /\ z.overlap = x.overlap /\ z.crashed = x.crashed
  BY CancelFields
<1> HIDE DEF z
<1>2. z.armed \cup {t} \in SUBSET Timers
  BY <1>1 DEF ClientState
<1>3. /\ y \in ClientState /\ y.armed = z.armed \cup {t} /\ y.ready = z.ready
      /\ y.connecting = z.connecting /\ y.waiting = z.waiting
      /\ y.connected = z.connected /\ y.socket = z.socket
      /\ y.pending = z.pending /\ y.session = z.session
      /\ y.overlap = z.overlap /\ y.crashed = z.crashed
  BY <1>1, <1>2 DEF ClientState
<1>4. async_wait(x, t) = y
  BY DEF async_wait, z
<1> HIDE DEF y
<1>5. y.armed = x.armed \cup {t}
  BY <1>1, <1>3
<1> QED
  BY <1>1, <1>3, <1>4, <1>5

-----------------------------------------------------------------------------
(***************************************************************************)
(* Client::connect: an attempt begins, alone or noted as an overlap.       *)
(***************************************************************************)
LEMMA Connect ==
    ASSUME NEW x \in ClientState, x.connected = x.session,
           ~x.overlap /\ ~x.connecting => Resting(x)
    PROVE  LET y == connect(x)
           IN  /\ Sound(y) /\ (Watched(x) => Watched(y)) /\ y.connected = x.connected
<1> DEFINE a == [x EXCEPT !.overlap = @ \/ x.connecting]
           b == Abort(a)
           d == async_wait(b, "m_connect_timer")
           y == [d EXCEPT !.socket = "open", !.pending = TRUE, !.connecting = TRUE]
           e == Handler("on_connet_complete", TRUE)
<1>1. connect(x) = y
  BY DEF connect
<1>2. /\ x.overlap \in BOOLEAN /\ x.connecting \in BOOLEAN /\ x.ready \in Seq(Handlers)
      /\ x.connected \in BOOLEAN
  BY DEF ClientState
<1>3. /\ a \in ClientState /\ a.overlap = (x.overlap \/ x.connecting)
      /\ a.ready = x.ready /\ a.pending = x.pending /\ a.armed = x.armed
      /\ a.connecting = x.connecting /\ a.waiting = x.waiting
      /\ a.connected = x.connected /\ a.session = x.session /\ a.crashed = x.crashed
  BY <1>2 DEF ClientState
<1> HIDE DEF a
<1>4. /\ b \in ClientState
      /\ b.ready = IF a.pending THEN Append(a.ready, e) ELSE a.ready
      /\ b.armed = a.armed /\ b.waiting = a.waiting /\ b.overlap = a.overlap
      /\ b.connected = a.connected /\ b.session = a.session /\ b.crashed = a.crashed
  BY <1>3, AbortFields
<1> HIDE DEF b, e
<1>5. /\ d \in ClientState /\ d.armed = b.armed \cup {"m_connect_timer"}
      /\ d.ready = b.ready /\ d.waiting = b.waiting /\ d.overlap = b.overlap
      /\ d.connected = b.connected /\ d.session = b.session /\ d.crashed = b.crashed
  BY <1>4, WaitFields, Kinds
<1> HIDE DEF d
<1>6. /\ y \in ClientState /\ y.socket = "open" /\ y.pending /\ y.connecting
      /\ y.armed = d.armed /\ y.ready = d.ready /\ y.waiting = d.waiting
      /\ y.connected = d.connected /\ y.session = d.session /\ y.crashed = d.crashed
      /\ y.overlap = d.overlap
  BY <1>5 DEF ClientState
<1> HIDE DEF y
<1>7. ~y.overlap => Truthful(y)
  <2> SUFFICES ASSUME ~y.overlap
               PROVE  Truthful(y)
    OBVIOUS
  <2>1. Resting(x)
    BY <1>2, <1>3, <1>4, <1>5, <1>6
  <2>2. /\ y.ready = x.ready /\ y.armed = x.armed \cup {"m_connect_timer"}
        /\ ~y.waiting /\ ~y.connected /\ ~y.crashed /\ ~Has(x.ready, Done)
        /\ "m_reconnet_timer" \notin y.armed
    BY <1>3, <1>4, <1>5, <1>6, <2>1 DEF Resting
  <2>3. Attempt(y)
    BY <1>6, <2>2 DEF Attempt, Once, Has
  <2>4. Waiting(y)
    BY <2>2 DEF Waiting, Ordered, Has
  <2> QED
    BY <2>2, <2>3, <2>4 DEF Truthful
<1>8. ASSUME Watched(x)
      PROVE  Watched(y)
  <2>1. \A S : Has(x.ready, S) => Has(y.ready, S)
    <3>1. e \in Handlers
      BY Kinds DEF e
    <3>2. y.ready = x.ready \/ y.ready = Append(x.ready, e)
      BY <1>3, <1>4, <1>5, <1>6
    <3>3. \A S : Has(x.ready, S) => Has(Append(x.ready, e), S)
      BY <1>2, <3>1, ReadyAppend
    <3> QED
      BY <3>2, <3>3
  <2>2. x.armed \subseteq y.armed /\ y.connected = x.connected
    BY <1>3, <1>4, <1>5, <1>6
  <2> QED
    BY <1>8, <2>1, <2>2 DEF Watched, Due
<1>9. y.connected = x.connected /\ y.session = x.session
  BY <1>3, <1>4, <1>5, <1>6
<1> QED
  BY <1>1, <1>6, <1>7, <1>8, <1>9 DEF Sound

(***************************************************************************)
(* TcpSession::do_close and Client::close_session: the end of the session  *)
(* is the beginning of the next attempt.                                   *)
(***************************************************************************)
LEMMA DoClose ==
    ASSUME NEW x, Sound(x)
    PROVE  LET y == do_close(x)
           IN  /\ Sound(y)
               /\ x.session => ~y.connected
               /\ ~x.session => y = x
<1> DEFINE a == [x EXCEPT !.session = FALSE, !.silent = FALSE, !.ready = Outlive(@)]
           b == Abort(a)
           d == [b EXCEPT !.connected = FALSE]
           f == cancel(d, "m_heart_beat_timer")
           g == cancel(f, "m_check_alive_timer")
           y == connect(g)
           e == Handler("on_connet_complete", TRUE)
<1>1. x \in ClientState /\ x.ready \in Seq(Handlers) /\ x.connected = x.session
  BY DEF Sound, ClientState
<1>2. CASE ~x.session
  BY <1>2 DEF do_close
<1>3. CASE x.session
  <2>1. do_close(x) = y
    BY <1>3 DEF do_close, close_session
  <2>2. Outlive(x.ready) \in Seq(Handlers)
    BY <1>1, ReadyOutlive
  <2>3. /\ a \in ClientState /\ ~a.session /\ a.ready = Outlive(x.ready)
        /\ a.pending = x.pending /\ a.armed = x.armed /\ a.overlap = x.overlap
        /\ a.connecting = x.connecting /\ a.waiting = x.waiting
        /\ a.crashed = x.crashed
    BY <1>1, <2>2 DEF ClientState
  <2> HIDE DEF a
  <2>4. /\ b \in ClientState /\ ~b.session /\ ~b.pending
        /\ b.ready = IF a.pending THEN Append(a.ready, e) ELSE a.ready
        /\ b.armed = a.armed /\ b.waiting = a.waiting /\ b.overlap = a.overlap
        /\ b.connecting = a.connecting /\ b.crashed = a.crashed
    BY <2>3, AbortFields
  <2> HIDE DEF b
  <2>5. /\ d \in ClientState /\ ~d.session /\ ~d.connected /\ ~d.pending
        /\ d.ready = b.ready /\ d.armed = b.armed /\ d.waiting = b.waiting
        /\ d.overlap = b.overlap /\ d.connecting = b.connecting
        /\ d.crashed = b.crashed
    BY <2>4 DEF ClientState
  <2> HIDE DEF d
  <2> HIDE DEF e
  <2>. /\ "m_heart_beat_timer" \in Timers /\ "m_heart_beat_timer" # "m_reconnet_timer"
       /\ "m_check_alive_timer" \in Timers /\ "m_check_alive_timer" # "m_reconnet_timer"
    BY DEF Timers
  <2>6. /\ f \in ClientState /\ ~f.session /\ ~f.connected /\ ~f.pending
        /\ f.ready = d.ready /\ f.armed = d.armed \ {"m_heart_beat_timer"}
        /\ f.waiting = d.waiting
        /\ f.overlap = d.overlap /\ f.connecting = d.connecting
        /\ f.crashed = d.crashed
    BY <2>5, CancelFields, ZenonT(40)
  <2> HIDE DEF f
  <2>7. /\ g \in ClientState /\ ~g.session /\ ~g.connected /\ ~g.pending
        /\ g.ready = f.ready /\ g.armed = f.armed \ {"m_check_alive_timer"}
        /\ g.waiting = f.waiting
        /\ g.overlap = f.overlap /\ g.connecting = f.connecting
        /\ g.crashed = f.crashed
    <3>1. f \in ClientState
      BY <2>6
    <3>2. /\ g \in ClientState /\ g.session = f.session /\ g.connected = f.connected
          /\ g.pending = f.pending /\ g.ready = f.ready
          /\ g.armed = f.armed \ {"m_check_alive_timer"} /\ g.waiting = f.waiting
          /\ g.overlap = f.overlap /\ g.connecting = f.connecting
          /\ g.crashed = f.crashed
      BY <3>1, CancelFields
    <3> HIDE DEF g
    <3> QED
      BY <2>6, <3>2
  <2> HIDE DEF g
  <2>8. ~g.overlap /\ ~g.connecting => Resting(g)
    <3> SUFFICES ASSUME ~g.overlap
                 PROVE  Resting(g)
      OBVIOUS
    <3>1. Truthful(x)
      BY <2>3, <2>4, <2>5, <2>6, <2>7 DEF Sound
    <3>2. /\ ~x.connecting /\ ~x.pending /\ ~Has(x.ready, Done) /\ ~x.waiting
          /\ "m_reconnet_timer" \notin x.armed /\ ~x.crashed
      BY <1>1, <1>3, <3>1 DEF Truthful, Attempt, Waiting
    <3>3. g.ready = Outlive(x.ready)
      BY <2>3, <2>4, <2>5, <2>6, <2>7, <3>2
    <3>4. ~Has(g.ready, Done)
      BY <1>1, <3>2, <3>3, ReadyOutlive
    <3> QED
      BY <2>3, <2>4, <2>5, <2>6, <2>7, <3>2, <3>4 DEF Resting
  <2>9. g.connected = g.session
    BY <2>7 DEF ClientState
  <2>10. Sound(y) /\ ~y.connected
    BY <2>7, <2>8, <2>9, Connect
  <2> QED
    BY <1>3, <2>1, <2>10
<1> QED
  BY <1>2, <1>3

(* A timer other than m_reconnet_timer changes nothing else. *)
LEMMA Wait ==
    ASSUME NEW x, Sound(x), NEW t \in Timers, t # "m_reconnet_timer"
    PROVE  LET y == async_wait(x, t)
           IN  /\ Sound(y) /\ y.connected = x.connected /\ Due(y, t)
               /\ \A u : Due(x, u) => Due(y, u)
<1> DEFINE y == async_wait(x, t)
<1>1. /\ y \in ClientState /\ y.armed = x.armed \cup {t} /\ y.ready = x.ready
      /\ y.connecting = x.connecting /\ y.waiting = x.waiting
      /\ y.connected = x.connected /\ y.socket = x.socket
      /\ y.pending = x.pending /\ y.session = x.session
      /\ y.overlap = x.overlap /\ y.crashed = x.crashed
  BY WaitFields DEF Sound
<1> HIDE DEF y
<1>2. Truthful(x) => Truthful(y)
  BY <1>1 DEF Truthful, Attempt, Waiting
<1>3. Sound(y)
  BY <1>1, <1>2 DEF Sound
<1> QED
  BY <1>1, <1>3 DEF Due, y

(* The socket of an attempt is closed; the attempt completes with an error. *)
LEMMA CloseSocket ==
    ASSUME NEW x, Sound(x), x.socket # "null"
    PROVE  LET y == close_socket(x)
           IN  Sound(y) /\ (Watched(x) => Watched(y)) /\ y.connected = x.connected
<1> DEFINE b == Abort(x)
           y == [b EXCEPT !.socket = "closed"]
           e == Handler("on_connet_complete", TRUE)
<1>1. close_socket(x) = y
  BY DEF close_socket
<1>2. x \in ClientState /\ x.ready \in Seq(Handlers) /\ x.pending \in BOOLEAN
  BY DEF Sound, ClientState
<1>3. /\ b \in ClientState /\ ~b.pending
      /\ b.ready = IF x.pending THEN Append(x.ready, e) ELSE x.ready
      /\ b.connecting = x.connecting /\ b.waiting = x.waiting
      /\ b.connected = x.connected
      /\ b.armed = x.armed /\ b.session = x.session
      /\ b.overlap = x.overlap /\ b.crashed = x.crashed
  BY <1>2, AbortFields
<1> HIDE DEF b
<1>4. /\ y \in ClientState /\ ~y.pending /\ y.socket = "closed" /\ y.ready = b.ready
      /\ y.connecting = b.connecting /\ y.waiting = b.waiting
      /\ y.connected = b.connected
      /\ y.armed = b.armed /\ y.session = b.session
      /\ y.overlap = b.overlap /\ y.crashed = b.crashed
  BY <1>3 DEF ClientState
<1> HIDE DEF y
<1>5. e \in Handlers /\ e \in Done /\ e \notin Tick /\ e \notin Late
  BY Kinds
<1> HIDE DEF e
<1>6. /\ \A S : Has(y.ready, S) <=> Has(x.ready, S) \/ (x.pending /\ e \in S)
      /\ Once(x.ready) /\ ~(Has(x.ready, Done) /\ x.pending) => Once(y.ready)
      /\ Ordered(x.ready) => Ordered(y.ready)
  BY <1>2, <1>3, <1>4, <1>5, ReadyAppend
<1>7. ASSUME Truthful(x)
      PROVE  Truthful(y)
  <2>1. Attempt(y)
    BY <1>3, <1>4, <1>5, <1>6, <1>7 DEF Truthful, Attempt
  <2>2. Waiting(y)
    BY <1>3, <1>4, <1>5, <1>6, <1>7 DEF Truthful, Waiting
  <2> QED
    BY <1>3, <1>4, <1>7, <2>1, <2>2 DEF Truthful
<1>8. Sound(y)
  BY <1>3, <1>4, <1>7 DEF Sound
<1>9. Watched(x) => Watched(y)
  BY <1>3, <1>4, <1>6 DEF Watched, Due
<1> QED
  BY <1>1, <1>3, <1>4, <1>8, <1>9

-----------------------------------------------------------------------------
(* Fields that tell nothing of what the client is doing. *)
LEMMA Ask ==
    ASSUME NEW x, Sound(x), NEW a \in BOOLEAN, NEW l \in {"connect", "close"}
    PROVE  LET y == [x EXCEPT !.auto = a, !.last = l]
           IN  /\ Sound(y) /\ (Watched(x) => Watched(y))
               /\ y.connecting = x.connecting /\ y.waiting = x.waiting
               /\ y.connected = x.connected /\ y.socket = x.socket
               /\ y.pending = x.pending /\ y.session = x.session
               /\ y.armed = x.armed /\ y.ready = x.ready
               /\ y.overlap = x.overlap /\ y.crashed = x.crashed
<1> DEFINE y == [x EXCEPT !.auto = a, !.last = l]
<1>1. x \in ClientState
  BY DEF Sound
<1>2. /\ y \in ClientState
      /\ y.connecting = x.connecting /\ y.waiting = x.waiting
      /\ y.connected = x.connected /\ y.socket = x.socket
      /\ y.pending = x.pending /\ y.session = x.session
      /\ y.armed = x.armed /\ y.ready = x.ready
      /\ y.overlap = x.overlap /\ y.crashed = x.crashed
  BY <1>1 DEF ClientState
<1> HIDE DEF y
<1>3. Sound(y)
  BY <1>2 DEF Sound, Truthful, Attempt, Waiting
<1>4. Watched(x) => Watched(y)
  BY <1>2 DEF Watched, Due
<1> QED
  BY <1>2, <1>3, <1>4 DEF y

(* The use of a null pointer: only after attempts overlapped. *)
LEMMA CrashSound ==
    ASSUME NEW x, Sound(x), x.overlap
    PROVE  Sound(Crash(x)) /\ (Watched(x) => Watched(Crash(x)))
           /\ Crash(x).connected = x.connected
<1> DEFINE y == Crash(x)
<1>1. x \in ClientState
  BY DEF Sound
<1>2. /\ y \in ClientState /\ y.connected = x.connected /\ y.session = x.session
      /\ y.armed = x.armed /\ y.ready = x.ready /\ y.overlap = x.overlap
  BY <1>1 DEF Crash, ClientState
<1> HIDE DEF y
<1>3. Sound(y)
  BY <1>2 DEF Sound
<1>4. Watched(x) => Watched(y)
  BY <1>2 DEF Watched, Due
<1> QED
  BY <1>2, <1>3, <1>4 DEF y

(* The wait before the next attempt is given up. *)
LEMMA StopWaiting ==
    ASSUME NEW x, Sound(x), ~x.connected, ~x.connecting, NEW z \in ClientState,
           LET y == cancel(x, "m_reconnet_timer")
           IN  /\ z.ready = y.ready /\ z.armed = y.armed /\ ~z.waiting
               /\ z.connecting = y.connecting /\ z.connected = y.connected
               /\ z.socket = y.socket /\ z.pending = y.pending
               /\ z.session = y.session /\ z.overlap = y.overlap
               /\ z.crashed = y.crashed
    PROVE  /\ Sound(z) /\ ~z.connected /\ ~z.connecting
           /\ ~z.overlap => Resting(z)
<1> DEFINE e == Handler("m_reconnet_timer", TRUE)
<1>1. x \in ClientState /\ x.ready \in Seq(Handlers) /\ "m_reconnet_timer" \in Timers
      /\ x.connected = x.session
  BY DEF Sound, ClientState, Timers
<1>2. /\ z.armed = x.armed \ {"m_reconnet_timer"}
      /\ z.ready = x.ready \/ z.ready = Append(x.ready, e)
      /\ ~z.waiting /\ z.connecting = x.connecting /\ z.connected = x.connected
      /\ z.socket = x.socket /\ z.pending = x.pending
      /\ z.session = x.session /\ z.overlap = x.overlap
      /\ z.crashed = x.crashed
  BY <1>1, CancelFields
<1>3. e \in Handlers /\ e \notin Done
  BY Kinds
<1> HIDE DEF e
<1>4. /\ Has(z.ready, Done) <=> Has(x.ready, Done)
      /\ Once(x.ready) => Once(z.ready)
  <2>1. /\ Has(Append(x.ready, e), Done) <=> Has(x.ready, Done)
        /\ Once(x.ready) => Once(Append(x.ready, e))
    BY <1>1, <1>3, ReadyAppend
  <2> QED
    BY <1>2, <2>1
<1>5. ASSUME Truthful(x)
      PROVE  Truthful(z) /\ Resting(z)
  <2>1. ~x.pending /\ ~Has(x.ready, Done) /\ ~x.crashed /\ x.socket = "null"
    BY <1>5 DEF Truthful, Attempt
  <2>2. Attempt(z)
    BY <1>2, <1>4, <1>5, <2>1 DEF Truthful, Attempt
  <2>3. Ordered(z.ready)
    BY <1>4, <2>1 DEF Ordered, Has
  <2>4. Waiting(z)
    BY <1>2, <2>3 DEF Waiting
  <2> QED
    BY <1>2, <1>4, <2>1, <2>2, <2>4 DEF Truthful, Resting
<1>6. Sound(z)
  BY <1>1, <1>2, <1>5 DEF Sound
<1> QED
  BY <1>2, <1>5, <1>6 DEF Sound

(* Client::do_connect, whatever the client is doing. *)
LEMMA DoConnect ==
    ASSUME NEW x, Sound(x), Watched(x)
    PROVE  Sound(do_connect(x)) /\ Watched(do_connect(x))
<1> DEFINE y == [x EXCEPT !.auto = TRUE, !.last = "connect"]
           z == do_connect(x)
<1>1. /\ Sound(y) /\ Watched(y)
      /\ y.connecting = x.connecting /\ y.waiting = x.waiting
      /\ y.connected = x.connected /\ y.socket = x.socket
      /\ y.session = x.session /\ y.overlap = x.overlap
  BY Ask
<1>2. y \in ClientState /\ y.connected = y.session
  BY <1>1 DEF Sound
<1>3. CASE x.connected
  <2>1. z = do_close(y)
    BY <1>1, <1>2, <1>3 DEF do_connect, close_locked
  <2> HIDE DEF y, z
  <2> QED
    BY <1>1, <1>2, <1>3, <2>1, DoClose DEF Watched, z
<1>4. CASE ~x.connected /\ x.connecting
  <2>1. CASE x.socket = "null"
    <3>1. z = Crash(y)
      BY <1>4, <2>1 DEF do_connect
    <3> HIDE DEF y, z
    <3>2. y.overlap
      BY <1>1, <1>4, <2>1 DEF Sound, Truthful, Attempt
    <3> QED
      BY <1>1, <3>1, <3>2, CrashSound DEF z
  <2>2. CASE x.socket # "null"
    <3>1. z = close_socket(y)
      BY <1>4, <2>2 DEF do_connect
    <3> HIDE DEF y, z
    <3> QED
      BY <1>1, <2>2, <3>1, CloseSocket DEF z
  <2> QED
    BY <2>1, <2>2
<1>5. CASE ~x.connected /\ ~x.connecting /\ x.waiting
  <2> DEFINE k == cancel(y, "m_reconnet_timer")
             v == [k EXCEPT !.waiting = FALSE]
  <2>1. z = connect(v)
    BY <1>5 DEF do_connect
  <2> HIDE DEF y, z
  <2>2. k \in ClientState
    BY <1>2, CancelFields DEF Timers
  <2> HIDE DEF k
  <2>3. /\ v \in ClientState /\ v.ready = k.ready /\ v.armed = k.armed /\ ~v.waiting
        /\ v.connecting = k.connecting /\ v.connected = k.connected
        /\ v.socket = k.socket /\ v.pending = k.pending
        /\ v.session = k.session /\ v.overlap = k.overlap
        /\ v.crashed = k.crashed
    BY <2>2 DEF ClientState
  <2> HIDE DEF v
  <2>4. Sound(v) /\ ~v.connected /\ ~v.connecting /\ (~v.overlap => Resting(v))
    BY <1>1, <1>5, <2>3, StopWaiting DEF k
  <2>5. Sound(z) /\ ~z.connected
    BY <2>1, <2>3, <2>4, Connect DEF Sound
  <2> QED
    BY <2>5 DEF Watched, z
<1>6. CASE ~x.connected /\ ~x.connecting /\ ~x.waiting
  <2>1. z = connect(y)
    BY <1>6 DEF do_connect
  <2> HIDE DEF y, z
  <2>2. ~y.overlap => Resting(y)
    BY <1>1, <1>6 DEF Sound, Truthful, Attempt, Waiting, Resting
  <2> QED
    BY <1>1, <1>2, <2>1, <2>2, Connect DEF z
<1> QED
  BY <1>3, <1>4, <1>5, <1>6

(* Client::do_close_client; a connected client connects again. *)
LEMMA DoCloseClient ==
    ASSUME NEW x, Sound(x), Watched(x)
    PROVE  Sound(do_close_client(x)) /\ Watched(do_close_client(x))
<1> DEFINE y == [x EXCEPT !.auto = FALSE, !.last = "close"]
           z == IF x.connected THEN close_locked(y)
                ELSE IF x.connecting
                  THEN IF x.socket = "null" THEN Crash(y) ELSE close_socket(y)
                ELSE IF x.waiting
                  THEN cancel([y EXCEPT !.waiting = FALSE], "m_reconnet_timer")
                ELSE y
           off == {"m_connect_timer", "m_heart_beat_timer", "m_check_alive_timer"}
           v == [z EXCEPT !.armed = @ \ off]
<1>1. /\ Sound(y) /\ Watched(y)
      /\ y.connecting = x.connecting /\ y.waiting = x.waiting
      /\ y.connected = x.connected /\ y.socket = x.socket
      /\ y.session = x.session /\ y.overlap = x.overlap
  BY Ask
<1>2. y \in ClientState /\ y.connected = y.session
  BY <1>1 DEF Sound
<1>3. do_close_client(x) = v
  BY DEF do_close_client
<1>4. Sound(z) /\ ~z.connected
  <2>1. CASE x.connected
    <3>1. z = do_close(y)
      BY <1>1, <1>2, <2>1 DEF close_locked
    <3> HIDE DEF y, z
    <3> QED
      BY <1>1, <1>2, <2>1, <3>1, DoClose
  <2>2. CASE ~x.connected /\ x.connecting
    <3>1. CASE x.socket = "null"
      <4>1. z = Crash(y)
        BY <2>2, <3>1
      <4> HIDE DEF y, z
      <4>2. y.overlap
        BY <1>1, <2>2, <3>1 DEF Sound, Truthful, Attempt
      <4> QED
        BY <1>1, <2>2, <4>1, <4>2, CrashSound
    <3>2. CASE x.socket # "null"
      <4>1. z = close_socket(y)
        BY <2>2, <3>2
      <4> HIDE DEF y, z
      <4> QED
        BY <1>1, <2>2, <3>2, <4>1, CloseSocket
    <3> QED
      BY <3>1, <3>2
  <2>3. CASE ~x.connected /\ ~x.connecting /\ x.waiting
    <3> DEFINE u == [y EXCEPT !.waiting = FALSE]
               k == cancel(y, "m_reconnet_timer")
    <3>1. z = cancel(u, "m_reconnet_timer")
      BY <2>3
    <3> HIDE DEF y, z
    <3>2. /\ u \in ClientState /\ u.ready = y.ready /\ u.armed = y.armed /\ ~u.waiting
          /\ u.connecting = y.connecting /\ u.connected = y.connected
          /\ u.socket = y.socket /\ u.pending = y.pending
          /\ u.session = y.session /\ u.overlap = y.overlap
          /\ u.crashed = y.crashed
      BY <1>2 DEF ClientState
    <3> HIDE DEF u
    <3>3. "m_reconnet_timer" \in Timers
      BY DEF Timers
    <3>4. /\ k.ready = IF "m_reconnet_timer" \in y.armed
                         THEN Append(y.ready, Handler("m_reconnet_timer", TRUE)) ELSE y.ready
          /\ k.armed = y.armed \ {"m_reconnet_timer"}
          /\ k.connecting = y.connecting /\ k.connected = y.connected
          /\ k.socket = y.socket /\ k.pending = y.pending
          /\ k.session = y.session /\ k.overlap = y.overlap
          /\ k.crashed = y.crashed
      BY <1>2, <3>3, CancelFields
    <3>5. /\ z \in ClientState /\ ~z.waiting
          /\ z.ready = IF "m_reconnet_timer" \in u.armed
                         THEN Append(u.ready, Handler("m_reconnet_timer", TRUE)) ELSE u.ready
          /\ z.armed = u.armed \ {"m_reconnet_timer"}
          /\ z.connecting = u.connecting /\ z.connected = u.connected
          /\ z.socket = u.socket /\ z.pending = u.pending
          /\ z.session = u.session /\ z.overlap = u.overlap
          /\ z.crashed = u.crashed
      BY <3>1, <3>2, <3>3, CancelFields, ZenonT(40)
    <3> HIDE DEF k
    <3>6. /\ z.ready = k.ready /\ z.armed = k.armed
          /\ z.connecting = k.connecting /\ z.connected = k.connected
          /\ z.socket = k.socket /\ z.pending = k.pending
          /\ z.session = k.session /\ z.overlap = k.overlap
          /\ z.crashed = k.crashed
      BY <3>2, <3>4, <3>5
    <3> QED
      BY <1>1, <2>3, <3>5, <3>6, StopWaiting DEF k
  <2>4. CASE ~x.connected /\ ~x.connecting /\ ~x.waiting
    BY <1>1, <2>4
  <2> QED
    BY <2>1, <2>2, <2>3, <2>4
<1> HIDE DEF z
<1>5. z \in ClientState /\ z.armed \ off \in SUBSET Timers
  BY <1>4 DEF Sound, ClientState
<1>6. "m_reconnet_timer" \notin off
  OBVIOUS
<1> HIDE DEF off
<1>7. /\ v \in ClientState /\ v.armed = z.armed \ off /\ v.ready = z.ready
      /\ v.connecting = z.connecting /\ v.waiting = z.waiting
      /\ v.connected = z.connected /\ v.socket = z.socket
      /\ v.pending = z.pending /\ v.session = z.session
      /\ v.overlap = z.overlap /\ v.crashed = z.crashed
  BY <1>5 DEF ClientState
<1> HIDE DEF v
<1>8. Sound(v) /\ ~v.connected
  BY <1>4, <1>6, <1>7 DEF Sound, Truthful, Attempt, Waiting
<1> QED
  BY <1>3, <1>8 DEF Watched

-----------------------------------------------------------------------------
(***************************************************************************)
(* The end of an attempt.  The handler is out of the loop: what it says of *)
(* the client is said by the hypotheses.                                   *)
(***************************************************************************)
Completing(x) ==
    /\ x \in ClientState /\ x.connected = x.session /\ Watched(x)
    /\ ~x.overlap =>
          /\ ~x.connected /\ ~x.waiting /\ ~x.crashed /\ ~x.pending
          /\ x.socket # "null"
          /\ ~Has(x.ready, Done) /\ ~Has(x.ready, Tick)
          /\ "m_reconnet_timer" \notin x.armed

(* No attempt is under way: there is nothing a handler could be early for. *)
LEMMA Nothing ==
    ASSUME NEW r
    PROVE  /\ ~Has(r, Done) => Once(r) /\ Ordered(r)
           /\ ~Has(r, Tick) => ~Has(r, Late)
  BY DEF Has, Once, Ordered, Late

(* A failed attempt: m_socket is dropped; with m_auto_reconnect the timer  *)
(* for the next is set.                                                    *)
LEMMA Failed ==
    ASSUME NEW x, Completing(x), ~x.connecting, NEW auto \in BOOLEAN
    PROVE  LET d == drop_socket(x)
               y == IF auto THEN register_connect_timer(d) ELSE d
           IN  Sound(y) /\ Watched(y)
<1> DEFINE b == Abort(x)
           d == drop_socket(x)
           R == "m_reconnet_timer"
           e == Handler("on_connet_complete", TRUE)
           g == Handler(R, TRUE)
<1>1. /\ x \in ClientState /\ x.ready \in Seq(Handlers) /\ x.connected = x.session
      /\ x.pending \in BOOLEAN
  BY DEF Completing, ClientState
<1>2. /\ b \in ClientState /\ ~b.pending
      /\ b.ready = IF x.pending THEN Append(x.ready, e) ELSE x.ready
      /\ b.connecting = x.connecting /\ b.waiting = x.waiting
      /\ b.connected = x.connected
      /\ b.armed = x.armed /\ b.session = x.session
      /\ b.overlap = x.overlap /\ b.crashed = x.crashed
  BY <1>1, AbortFields
<1> HIDE DEF b
<1>3. /\ d \in ClientState /\ ~d.pending /\ d.socket = "null" /\ d.ready = b.ready
      /\ d.connecting = b.connecting /\ d.waiting = b.waiting
      /\ d.connected = b.connected
      /\ d.armed = b.armed /\ d.session = b.session
      /\ d.overlap = b.overlap /\ d.crashed = b.crashed
  BY <1>2 DEF drop_socket, ClientState, b
<1> HIDE DEF d
<1>4. e \in Handlers /\ g \in Handlers /\ R \in Timers
  BY Kinds
<1>5. \A S : Has(x.ready, S) => Has(d.ready, S)
  <2>1. \A S : Has(x.ready, S) => Has(Append(x.ready, e), S)
    BY <1>1, <1>4, ReadyAppend
  <2> QED
    BY <1>2, <1>3, <2>1
<1>6. Watched(d)
  BY <1>2, <1>3, <1>5 DEF Completing, Watched, Due
<1>7. ASSUME ~x.overlap
      PROVE  /\ d.ready = x.ready /\ ~d.connected /\ ~d.waiting /\ ~d.crashed
             /\ ~Has(d.ready, Done) /\ ~Has(d.ready, Tick) /\ R \notin d.armed
             /\ ~d.connecting
  BY <1>2, <1>3, <1>7 DEF Completing
<1>8. CASE ~auto
  <2>1. ~d.overlap => Truthful(d)
    BY <1>2, <1>3, <1>7, Nothing DEF Truthful, Attempt, Waiting
  <2> QED
    BY <1>1, <1>2, <1>3, <1>6, <1>8, <2>1 DEF Sound, d
<1>9. CASE auto
  <2> DEFINE w == [d EXCEPT !.waiting = TRUE]
             k == cancel(w, R)
             y == [k EXCEPT !.armed = @ \cup {R}]
  <2>1. register_connect_timer(d) = y
    BY DEF register_connect_timer, async_wait
  <2>2. /\ w \in ClientState /\ w.waiting /\ ~w.pending /\ w.socket = "null"
        /\ w.ready = d.ready /\ w.armed = d.armed /\ w.connecting = d.connecting
        /\ w.connected = d.connected /\ w.session = d.session
        /\ w.overlap = d.overlap /\ w.crashed = d.crashed
    BY <1>3 DEF ClientState
  <2> HIDE DEF w
  <2>3. /\ k \in ClientState /\ k.armed = w.armed \ {R}
        /\ k.ready = IF R \in w.armed THEN Append(w.ready, g) ELSE w.ready
        /\ k.connecting = w.connecting /\ k.waiting = w.waiting
        /\ k.connected = w.connected /\ k.socket = w.socket
        /\ k.pending = w.pending /\ k.session = w.session
        /\ k.overlap = w.overlap /\ k.crashed = w.crashed
    BY <1>4, <2>2, CancelFields
  <2> HIDE DEF k
  <2>4. k.armed \cup {R} \in SUBSET Timers
    BY <1>4, <2>3 DEF ClientState
  <2>5. /\ y \in ClientState /\ y.armed = k.armed \cup {R} /\ y.ready = k.ready
        /\ y.connecting = k.connecting /\ y.waiting = k.waiting
        /\ y.connected = k.connected /\ y.socket = k.socket
        /\ y.pending = k.pending /\ y.session = k.session
        /\ y.overlap = k.overlap /\ y.crashed = k.crashed
    BY <2>3, <2>4 DEF ClientState
  <2> HIDE DEF y, R
  <2>6. y.overlap = x.overlap /\ y.connected = x.connected /\ y.session = x.session
    BY <1>2, <1>3, <2>2, <2>3, <2>5
  <2>7. ASSUME ~x.overlap
        PROVE  Truthful(y)
    <3>1. /\ y.ready = d.ready /\ y.armed = d.armed \cup {R} /\ y.waiting
          /\ ~y.connected /\ ~y.connecting /\ ~y.crashed
          /\ y.socket = "null" /\ ~y.pending
          /\ ~Has(y.ready, Done) /\ ~Has(y.ready, Tick)
      BY <1>7, <2>2, <2>3, <2>5, <2>7
    <3> QED
      BY <3>1, Nothing DEF Truthful, Attempt, Waiting, R
  <2>8. /\ \A S : Has(d.ready, S) => Has(y.ready, S)
        /\ d.armed \subseteq y.armed
    <3>1. d.ready \in Seq(Handlers)
      BY <1>3 DEF ClientState
    <3>2. \A S : Has(d.ready, S) => Has(Append(d.ready, g), S)
      BY <1>4, <3>1, ReadyAppend
    <3>3. y.ready = d.ready \/ y.ready = Append(d.ready, g)
      BY <2>2, <2>3, <2>5
    <3> QED
      BY <2>2, <2>3, <2>5, <3>2, <3>3
  <2>9. Watched(y)
    BY <1>2, <1>3, <1>6, <2>6, <2>8 DEF Watched, Due
  <2> QED
    BY <1>1, <1>9, <2>1, <2>5, <2>6, <2>7, <2>9 DEF Sound, d
<1> QED
  BY <1>8, <1>9

(* Client::on_connet_complete, in its three outcomes. *)
LEMMA OnConnetComplete ==
    ASSUME NEW x, Completing(x), NEW err \in BOOLEAN
    PROVE  LET y == on_connet_complete(x, err)
           IN  Sound(y) /\ Watched(y)
<1> DEFINE a == [x EXCEPT !.connecting = FALSE]
           b == cancel(a, "m_connect_timer")
<1>1. x \in ClientState /\ x.auto \in BOOLEAN /\ x.connected = x.session
  BY DEF Completing, ClientState
<1>2. /\ a \in ClientState /\ ~a.connecting /\ a.ready = x.ready /\ a.armed = x.armed
      /\ a.waiting = x.waiting /\ a.connected = x.connected /\ a.socket = x.socket
      /\ a.pending = x.pending /\ a.session = x.session
      /\ a.overlap = x.overlap /\ a.crashed = x.crashed
  BY <1>1 DEF ClientState
<1> HIDE DEF a
<1>3. /\ b \in ClientState /\ ~b.connecting /\ b.ready = a.ready
      /\ b.armed = a.armed \ {"m_connect_timer"}
      /\ b.waiting = a.waiting /\ b.connected = a.connected /\ b.socket = a.socket
      /\ b.pending = a.pending /\ b.session = a.session
      /\ b.overlap = a.overlap /\ b.crashed = a.crashed
  BY <1>2, CancelFields DEF Timers
<1> HIDE DEF b
<1>4. Watched(b)
  BY <1>2, <1>3 DEF Completing, Watched, Due
<1>5. Completing(b)
  BY <1>1, <1>2, <1>3, <1>4 DEF Completing
<1>6. CASE x.socket = "null"
  <2> DEFINE y == Crash(b)
  <2>1. on_connet_complete(x, err) = y
    BY <1>6 DEF on_connet_complete, a, b
  <2>2. b.overlap
    BY <1>2, <1>3, <1>6 DEF Completing
  <2>3. Sound(b)
    BY <1>1, <1>2, <1>3, <2>2 DEF Sound
  <2> QED
    BY <1>4, <2>1, <2>2, <2>3, CrashSound
<1>7. CASE x.socket # "null" /\ (x.socket = "closed" \/ err)
  <2> DEFINE d == drop_socket(b)
             y == IF x.auto THEN register_connect_timer(d) ELSE d
  <2>1. on_connet_complete(x, err) = y
    BY <1>7 DEF on_connet_complete, a, b
  <2> QED
    BY <1>1, <1>3, <1>5, <2>1, Failed
<1>8. CASE x.socket # "null" /\ ~(x.socket = "closed" \/ err)
  <2> DEFINE d == [b EXCEPT !.connected = TRUE, !.session = TRUE, !.silent = FALSE,
                            !.socket = "null"]
             g == async_wait(d, "m_heart_beat_timer")
             y == async_wait(g, "m_check_alive_timer")
  <2>1. on_connet_complete(x, err) = y
    BY <1>8 DEF on_connet_complete, a, b
  <2>2. /\ d \in ClientState /\ d.connected /\ d.session /\ d.socket = "null"
        /\ d.connected = d.session
        /\ ~d.connecting /\ d.ready = b.ready /\ d.armed = b.armed
        /\ d.waiting = b.waiting /\ d.pending = b.pending
        /\ d.overlap = b.overlap /\ d.crashed = b.crashed
    BY <1>3 DEF ClientState
  <2> HIDE DEF d
  <2>3. ~d.overlap => Truthful(d)
    BY <1>5, <2>2, Nothing DEF Completing, Truthful, Attempt, Waiting
  <2>4. Sound(d)
    BY <2>2, <2>3 DEF Sound
  <2>5. Sound(g) /\ g.connected = d.connected /\ Due(g, "m_heart_beat_timer")
    BY <2>4, Wait DEF Timers
  <2> HIDE DEF g
  <2>6. Sound(y) /\ Due(y, "m_heart_beat_timer") /\ Due(y, "m_check_alive_timer")
    BY <2>5, Wait DEF Timers
  <2> QED
    BY <2>1, <2>6 DEF Watched
<1> QED
  BY <1>6, <1>7, <1>8

-----------------------------------------------------------------------------
(* The handler of m_reconnet_timer, out of the loop. *)
Ticking(x) ==
    /\ x \in ClientState /\ x.connected = x.session /\ Watched(x)
    /\ ~x.overlap =>
          /\ Attempt(x) /\ Ordered(x.ready) /\ ~x.connected /\ ~x.crashed
          /\ "m_reconnet_timer" \notin x.armed

(* Client::on_wait_reconnect: one that comes late finds an attempt, and    *)
(* the overlap is noted, or finds the client resting.                      *)
LEMMA OnWaitReconnect ==
    ASSUME NEW x, Ticking(x), NEW err \in BOOLEAN
    PROVE  LET y == on_wait_reconnect(x, err)
           IN  Sound(y) /\ Watched(y)
<1> DEFINE a == [x EXCEPT !.waiting = FALSE]
<1>1. x \in ClientState
  BY DEF Ticking
<1>2. /\ a \in ClientState /\ ~a.waiting /\ a.ready = x.ready /\ a.armed = x.armed
      /\ a.connecting = x.connecting /\ a.connected = x.connected
      /\ a.socket = x.socket /\ a.pending = x.pending /\ a.session = x.session
      /\ a.overlap = x.overlap /\ a.crashed = x.crashed
  BY <1>1 DEF ClientState
<1>3. on_wait_reconnect(x, err) = IF err THEN a ELSE connect(a)
  BY DEF on_wait_reconnect
<1> HIDE DEF a
<1>4. Watched(a) /\ a.connected = a.session
  BY <1>2 DEF Ticking, Watched, Due
<1>5. CASE err
  <2>1. ~a.overlap => Truthful(a)
    BY <1>2 DEF Ticking, Truthful, Attempt, Waiting
  <2> QED
    BY <1>2, <1>3, <1>4, <1>5, <2>1 DEF Sound
<1>6. CASE ~err
  <2>1. ~a.overlap /\ ~a.connecting => Resting(a)
    BY <1>2 DEF Ticking, Attempt, Resting
  <2> QED
    BY <1>2, <1>3, <1>4, <1>6, <2>1, Connect
<1> QED
  BY <1>5, <1>6

(* Client::on_send_heart_beat and on_check_alive set their timer anew.     *)
LEMMA OnSendHeartBeat ==
    ASSUME NEW x, Sound(x), x.connected => Due(x, "m_check_alive_timer"),
           NEW y \in on_send_heart_beat(x)
    PROVE  Sound(y) /\ Watched(y)
<1> DEFINE t == "m_heart_beat_timer"
<1>1. t \in Timers /\ t # "m_reconnet_timer" /\ x.connected = x.session
  BY DEF Timers, Sound
<1>2. CASE ~x.connected
  <2>1. y = x
    BY <1>2 DEF on_send_heart_beat
  <2> QED
    BY <1>2, <2>1 DEF Watched
<1>3. CASE x.connected
  <2>1. PICK z \in {x, do_close(x)} : y = async_wait(z, t)
    BY <1>3 DEF on_send_heart_beat
  <2>2. Sound(z) /\ (z.connected => Due(z, "m_check_alive_timer"))
    BY <1>1, <1>3, DoClose
  <2> HIDE DEF t
  <2>3. /\ Sound(y) /\ y.connected = z.connected /\ Due(y, t)
        /\ \A u : Due(z, u) => Due(y, u)
    BY <1>1, <2>1, <2>2, Wait
  <2> QED
    BY <2>2, <2>3 DEF Watched, t
<1> QED
  BY <1>2, <1>3

(* The same for the check, which may close a silent session. *)
LEMMA OnCheckAlive ==
    ASSUME NEW x, Sound(x), x.connected => Due(x, "m_heart_beat_timer")
    PROVE  LET y == on_check_alive(x)
           IN  Sound(y) /\ Watched(y)
<1> DEFINE t == "m_check_alive_timer"
           z == IF x.silent THEN do_close(x) ELSE x
           y == on_check_alive(x)
<1>1. t \in Timers /\ t # "m_reconnet_timer" /\ x.connected = x.session
  BY DEF Timers, Sound
<1>2. CASE ~x.connected
  <2>1. y = x
    BY <1>2 DEF on_check_alive
  <2> QED
    BY <1>2, <2>1 DEF Watched
<1>3. CASE x.connected
  <2>1. y = async_wait(z, t)
    BY <1>1, <1>3 DEF on_check_alive
  <2>2. Sound(z) /\ (z.connected => Due(z, "m_heart_beat_timer"))
    BY <1>1, <1>3, DoClose
  <2> HIDE DEF t, z, y
  <2>3. /\ Sound(y) /\ y.connected = z.connected /\ Due(y, t)
        /\ \A u : Due(z, u) => Due(y, u)
    BY <1>1, <2>1, <2>2, Wait
  <2> QED
    BY <2>2, <2>3 DEF Watched, t, y
<1> QED
  BY <1>2, <1>3

(* A handler leaves the loop. *)
LEMMA TakeHandler ==
    ASSUME NEW x, Sound(x), Watched(x), x.ready # <<>>
    PROVE  LET y == [x EXCEPT !.ready = Tail(@)]
               e == Head(x.ready)
           IN  /\ e \in Handlers
               /\ e \in Done => Completing(y)
               /\ e \in Tick => Ticking(y)
               /\ e \notin Done /\ e \notin Tick => Sound(y)
               /\ y.connected => \A t \in {"m_heart_beat_timer", "m_check_alive_timer"} :
                     Due(y, t) \/ e = Handler(t, FALSE)
<1> DEFINE y == [x EXCEPT !.ready = Tail(@)]
           e == Head(x.ready)
<1>1. x \in ClientState /\ x.ready \in Seq(Handlers) /\ x.connected = x.session
  BY DEF Sound, ClientState
<1>2. e \in Handlers /\ Tail(x.ready) \in Seq(Handlers)
  BY <1>1, ReadyTail
<1>3. /\ y \in ClientState /\ y.ready = Tail(x.ready) /\ y.armed = x.armed
      /\ y.connecting = x.connecting /\ y.waiting = x.waiting
      /\ y.connected = x.connected /\ y.socket = x.socket
      /\ y.pending = x.pending /\ y.session = x.session
      /\ y.overlap = x.overlap /\ y.crashed = x.crashed
  BY <1>1, <1>2 DEF ClientState
<1> HIDE DEF y
<1>4. \A S : Has(x.ready, S) <=> e \in S \/ Has(y.ready, S)
  BY <1>1, <1>3, ReadyTail
<1>5. /\ Once(x.ready) => Once(y.ready) /\ (e \in Done => ~Has(y.ready, Done))
      /\ Ordered(x.ready) => Ordered(y.ready) /\ (e \in Done => ~Has(x.ready, Tick))
  BY <1>1, <1>3, ReadyTail
<1> HIDE DEF e
<1>6. y.connected => \A t \in {"m_heart_beat_timer", "m_check_alive_timer"} :
                        Due(y, t) \/ e = Handler(t, FALSE)
  BY <1>3, <1>4 DEF Watched, Due
<1>7. e \notin {Handler("m_heart_beat_timer", FALSE), Handler("m_check_alive_timer", FALSE)}
        => Watched(y)
  BY <1>6 DEF Watched
<1>8. \A k \in {"m_heart_beat_timer", "m_check_alive_timer"} :
         Handler(k, FALSE) \notin Done /\ Handler(k, FALSE) \notin Tick
  BY Kinds
<1>9. ASSUME e \in Done
      PROVE  Completing(y)
  <2>1. Watched(y)
    BY <1>7, <1>8, <1>9
  <2>2. ASSUME ~x.overlap
        PROVE  /\ ~y.connected /\ ~y.waiting /\ ~y.crashed /\ ~y.pending
               /\ y.socket # "null" /\ "m_reconnet_timer" \notin y.armed
               /\ ~Has(y.ready, Done) /\ ~Has(y.ready, Tick)
    <3>1. Truthful(x) /\ Has(x.ready, Done)
      BY <1>4, <1>9, <2>2 DEF Sound
    <3>2. Once(x.ready) /\ Ordered(x.ready) /\ x.connecting
      BY <3>1 DEF Truthful, Attempt, Waiting
    <3>3. ~Has(y.ready, Done) /\ ~Has(y.ready, Tick)
      BY <1>4, <1>5, <1>9, <3>2
    <3>4. /\ ~x.connected /\ ~x.waiting /\ ~x.crashed /\ ~x.pending
          /\ x.socket # "null" /\ "m_reconnet_timer" \notin x.armed
      BY <3>1, <3>2 DEF Truthful, Attempt, Waiting
    <3> QED
      BY <1>3, <3>3, <3>4
  <2> QED
    BY <1>1, <1>3, <2>1, <2>2 DEF Completing
<1>10. ASSUME e \in Tick
       PROVE  Ticking(y)
  <2>1. Watched(y)
    BY <1>7, <1>8, <1>10
  <2>2. ASSUME ~x.overlap
        PROVE  /\ Attempt(y) /\ Ordered(y.ready) /\ ~y.connected /\ ~y.crashed
               /\ "m_reconnet_timer" \notin y.armed
    <3>1. Truthful(x) /\ Has(x.ready, Tick)
      BY <1>4, <1>10, <2>2 DEF Sound
    <3>2. e \notin Done
      BY <1>10 DEF Done, Tick
    <3>3. Has(x.ready, Done) <=> Has(y.ready, Done)
      BY <1>4, <3>2
    <3>4. Attempt(y)
      BY <1>3, <1>5, <3>1, <3>3 DEF Truthful, Attempt
    <3> QED
      BY <1>3, <1>5, <3>1, <3>4 DEF Truthful, Waiting
  <2> QED
    BY <1>1, <1>3, <2>1, <2>2 DEF Ticking
<1>11. ASSUME e \notin Done, e \notin Tick
       PROVE  Sound(y)
  <2>1. e \notin Late
    BY <1>11 DEF Late
  <2>2. /\ Has(x.ready, Done) <=> Has(y.ready, Done)
        /\ Has(x.ready, Tick) <=> Has(y.ready, Tick)
        /\ Has(x.ready, Late) <=> Has(y.ready, Late)
    BY <1>4, <1>11, <2>1
  <2>3. Attempt(x) => Attempt(y)
    BY <1>3, <1>5, <2>2 DEF Attempt
  <2>4. Waiting(x) => Waiting(y)
    BY <1>3, <1>5, <2>2 DEF Waiting
  <2> QED
    BY <1>1, <1>3, <2>3, <2>4 DEF Sound, Truthful
<1> QED
  BY <1>2, <1>6, <1>9, <1>10, <1>11 DEF y, e

(* The loop runs its next handler. *)
LEMMA RunInv ==
    ASSUME IInv, run
    PROVE  IInv'
<1> DEFINE x == [c EXCEPT !.ready = Tail(@)]
           e == Head(c.ready)
<1>1. Sound(c) /\ Watched(c) /\ c.ready # <<>> /\ c' \in RunHandler(e, x)
  BY DEF IInv, run
<1>2. /\ e \in Handlers
      /\ e \in Done => Completing(x)
      /\ e \in Tick => Ticking(x)
      /\ e \notin Done /\ e \notin Tick => Sound(x)
      /\ x.connected => \A t \in {"m_heart_beat_timer", "m_check_alive_timer"} :
            Due(x, t) \/ e = Handler(t, FALSE)
  BY <1>1, TakeHandler
<1> HIDE DEF x, e
<1>3. e.f \in Names /\ e.err \in BOOLEAN
  BY <1>2 DEF Handlers
<1>4. \A f, err : e = Handler(f, err) => e.f = f
  BY DEF Handler
<1>5. (e \in Done <=> e.f = "on_connet_complete") /\ (e \in Tick <=> e.f = "m_reconnet_timer")
  BY <1>2 DEF Done, Tick
<1>6. e.f \notin {"m_heart_beat_timer", "m_check_alive_timer"} => Watched(x)
  BY <1>2, <1>4 DEF Watched
<1>7. Sound(c') /\ Watched(c')
  <2>1. CASE e.f = "do_connect"
    <3>1. c' = do_connect(x)
      BY <1>1, <2>1 DEF RunHandler
    <3> QED
      BY <1>2, <1>5, <1>6, <2>1, <3>1, DoConnect
  <2>2. CASE e.f = "do_close_client"
    <3>1. c' = do_close_client(x)
      BY <1>1, <2>2 DEF RunHandler
    <3> QED
      BY <1>2, <1>5, <1>6, <2>2, <3>1, DoCloseClient
  <2>3. CASE e.f = "on_connet_complete"
    <3>1. c' = on_connet_complete(x, e.err)
      BY <1>1, <2>3 DEF RunHandler
    <3> QED
      BY <1>2, <1>3, <1>5, <2>3, <3>1, OnConnetComplete
  <2>4. CASE e.f = "m_reconnet_timer"
    <3>1. c' = on_wait_reconnect(x, e.err)
      BY <1>1, <2>4 DEF RunHandler
    <3> QED
      BY <1>2, <1>3, <1>5, <2>4, <3>1, OnWaitReconnect
  <2>5. CASE e.f = "m_connect_timer"
    <3>1. c' = IF x.socket = "open" THEN close_socket(x) ELSE x
      BY <1>1, <2>5 DEF RunHandler, on_connect_timeout
    <3>2. Sound(x) /\ Watched(x)
      BY <1>2, <1>5, <1>6, <2>5
    <3> QED
      BY <3>1, <3>2, CloseSocket
  <2>6. CASE e.f = "m_heart_beat_timer"
    <3>1. c' \in on_send_heart_beat(x)
      BY <1>1, <2>6 DEF RunHandler
    <3>2. x.connected => Due(x, "m_check_alive_timer")
      BY <1>2, <1>4, <2>6
    <3> QED
      BY <1>2, <1>5, <2>6, <3>1, <3>2, OnSendHeartBeat
  <2>7. CASE e.f = "m_check_alive_timer"
    <3>1. c' = on_check_alive(x)
      BY <1>1, <2>7 DEF RunHandler
    <3>2. x.connected => Due(x, "m_heart_beat_timer")
      BY <1>2, <1>4, <2>7
    <3> QED
      BY <1>2, <1>5, <2>7, <3>1, <3>2, OnCheckAlive
  <2>8. CASE e.f = "on_read_error"
    <3>1. c' = do_close(x)
      BY <1>1, <2>8 DEF RunHandler
    <3>2. Sound(x) /\ Watched(x)
      BY <1>2, <1>5, <1>6, <2>8
    <3> QED
      BY <3>1, <3>2, DoClose DEF Watched
  <2>9. CASE e.f = "on_closed_session"
    <3>1. c' = x
      BY <1>1, <2>9 DEF RunHandler
    <3> QED
      BY <1>2, <1>5, <1>6, <2>9, <3>1
  <2> QED
    BY <1>3, <2>1, <2>2, <2>3, <2>4, <2>5, <2>6, <2>7, <2>8, <2>9 DEF Names, Timers
<1> QED
  BY <1>7 DEF IInv

-----------------------------------------------------------------------------
(* What another thread, or the session, has the loop do later. *)
LEMMA QueuePlain ==
    ASSUME IInv, NEW f \in Names, f # "on_connet_complete", f # "m_reconnet_timer",
           NEW err \in BOOLEAN, c' = Queue(c, f, err)
    PROVE  IInv'
<1> DEFINE e == Handler(f, err)
<1>1. c \in ClientState /\ c.ready \in Seq(Handlers) /\ Sound(c) /\ Watched(c)
  BY DEF IInv, Sound, ClientState
<1>2. e \in Handlers /\ e \notin Done /\ e \notin Tick /\ e \notin Late
  BY Kinds
<1>3. c' = [c EXCEPT !.ready = Append(c.ready, e)]
  BY <1>1 DEF Queue, ClientState
<1> HIDE DEF e
<1>4. Append(c.ready, e) \in Seq(Handlers)
  BY <1>1, <1>2, ReadyAppend
<1>5. /\ c' \in ClientState /\ c'.ready = Append(c.ready, e) /\ c'.armed = c.armed
      /\ c'.connecting = c.connecting /\ c'.waiting = c.waiting
      /\ c'.connected = c.connected /\ c'.socket = c.socket
      /\ c'.pending = c.pending /\ c'.session = c.session
      /\ c'.overlap = c.overlap /\ c'.crashed = c.crashed
  BY <1>1, <1>3, <1>4 DEF ClientState
<1>6. /\ \A S : Has(c'.ready, S) <=> Has(c.ready, S) \/ e \in S
      /\ Once(c.ready) => Once(c'.ready)
      /\ Ordered(c.ready) => Ordered(c'.ready)
  BY <1>1, <1>2, <1>5, ReadyAppend
<1>7. /\ Has(c'.ready, Done) <=> Has(c.ready, Done)
      /\ Has(c'.ready, Tick) <=> Has(c.ready, Tick)
      /\ Has(c'.ready, Late) <=> Has(c.ready, Late)
  BY <1>2, <1>6
<1>8. Truthful(c) => Truthful(c')
  BY <1>5, <1>6, <1>7 DEF Truthful, Attempt, Waiting
<1>9. Sound(c') /\ Watched(c')
  BY <1>1, <1>5, <1>6, <1>8 DEF Sound, Watched, Due
<1> QED
  BY <1>9 DEF IInv

(* A timer expires: its handler takes its place. *)
LEMMA ExpireInv ==
    ASSUME IInv, NEW t \in Timers, expire(t)
    PROVE  IInv'
<1> DEFINE e == Handler(t, FALSE)
           R == "m_reconnet_timer"
<1>1. /\ c \in ClientState /\ c.ready \in Seq(Handlers) /\ Sound(c) /\ Watched(c)
      /\ t \in c.armed /\ c.armed \ {t} \in SUBSET Timers
  BY DEF IInv, Sound, ClientState, expire
<1>2. /\ e \in Handlers /\ e \notin Done /\ e \notin Late
      /\ e \in Tick <=> t = R
  BY Kinds
<1>3. c' = [c EXCEPT !.armed = c.armed \ {t}, !.ready = Append(c.ready, e)]
  BY <1>1 DEF expire, Queue, ClientState
<1> HIDE DEF e
<1>4. Append(c.ready, e) \in Seq(Handlers)
  BY <1>1, <1>2, ReadyAppend
<1>5. /\ c' \in ClientState /\ c'.ready = Append(c.ready, e)
      /\ c'.armed = c.armed \ {t}
      /\ c'.connecting = c.connecting /\ c'.waiting = c.waiting
      /\ c'.connected = c.connected /\ c'.socket = c.socket
      /\ c'.pending = c.pending /\ c'.session = c.session
      /\ c'.overlap = c.overlap /\ c'.crashed = c.crashed
  BY <1>1, <1>3, <1>4 DEF ClientState
<1>6. /\ \A S : Has(c'.ready, S) <=> Has(c.ready, S) \/ e \in S
      /\ Once(c.ready) => Once(c'.ready)
      /\ Ordered(c.ready) /\ ~(Has(c.ready, Done) /\ e \in Tick) => Ordered(c'.ready)
  BY <1>1, <1>2, <1>5, ReadyAppend
<1>7. /\ Has(c'.ready, Done) <=> Has(c.ready, Done)
      /\ Has(c'.ready, Tick) <=> Has(c.ready, Tick) \/ t = R
      /\ Has(c'.ready, Late) <=> Has(c.ready, Late)
  BY <1>2, <1>6
<1>8. ASSUME Truthful(c)
      PROVE  Truthful(c')
  <2>1. Attempt(c')
    BY <1>5, <1>6, <1>7, <1>8 DEF Truthful, Attempt
  <2>2. t = R => c.waiting /\ ~c.connected /\ ~Has(c.ready, Done)
    BY <1>1, <1>8 DEF Truthful, Attempt, Waiting
  <2>3. Ordered(c'.ready)
    BY <1>2, <1>6, <1>8, <2>2 DEF Truthful, Waiting
  <2>4. Waiting(c')
    BY <1>5, <1>7, <1>8, <2>2, <2>3 DEF Truthful, Waiting
  <2> QED
    BY <1>5, <1>8, <2>1, <2>4 DEF Truthful
<1>9. \A u : Due(c, u) => Due(c', u)
  BY <1>5, <1>6 DEF Due, e
<1>10. Sound(c') /\ Watched(c')
  BY <1>1, <1>5, <1>8, <1>9 DEF Sound, Watched
<1> QED
  BY <1>10 DEF IInv

(* The attempt in progress completes. *)
LEMMA ConnectDoneInv ==
    ASSUME IInv, connect_done
    PROVE  IInv'
<1>1. PICK err \in BOOLEAN :
         c' = Queue([c EXCEPT !.pending = FALSE], "on_connet_complete", err)
  BY DEF connect_done
<1> DEFINE e == Handler("on_connet_complete", err)
<1>2. /\ c \in ClientState /\ c.ready \in Seq(Handlers) /\ Sound(c) /\ Watched(c)
      /\ c.pending
  BY DEF IInv, Sound, ClientState, connect_done
<1>3. e \in Handlers /\ e \in Done /\ e \notin Tick /\ e \notin Late
  BY Kinds
<1>4. c' = [c EXCEPT !.pending = FALSE, !.ready = Append(c.ready, e)]
  BY <1>1, <1>2 DEF Queue, ClientState
<1> HIDE DEF e
<1>5. Append(c.ready, e) \in Seq(Handlers)
  BY <1>2, <1>3, ReadyAppend
<1>6. /\ c' \in ClientState /\ c'.ready = Append(c.ready, e) /\ ~c'.pending
      /\ c'.armed = c.armed
      /\ c'.connecting = c.connecting /\ c'.waiting = c.waiting
      /\ c'.connected = c.connected /\ c'.socket = c.socket
      /\ c'.session = c.session
      /\ c'.overlap = c.overlap /\ c'.crashed = c.crashed
  BY <1>2, <1>4, <1>5 DEF ClientState
<1>7. /\ \A S : Has(c'.ready, S) <=> Has(c.ready, S) \/ e \in S
      /\ Once(c.ready) /\ ~Has(c.ready, Done) => Once(c'.ready)
      /\ Ordered(c.ready) => Ordered(c'.ready)
  BY <1>2, <1>3, <1>6, ReadyAppend
<1>8. /\ Has(c'.ready, Done)
      /\ Has(c'.ready, Tick) <=> Has(c.ready, Tick)
      /\ Has(c'.ready, Late) <=> Has(c.ready, Late)
  BY <1>3, <1>7
<1>9. Truthful(c) => Truthful(c')
  BY <1>2, <1>6, <1>7, <1>8 DEF Truthful, Attempt, Waiting
<1>10. Sound(c') /\ Watched(c')
  BY <1>2, <1>6, <1>7, <1>9 DEF Sound, Watched, Due
<1> QED
  BY <1>10 DEF IInv

(* The server is heard of, or is not. *)
LEMMA FallSilentInv ==
    ASSUME IInv, fall_silent
    PROVE  IInv'
<1>1. c \in ClientState /\ Sound(c) /\ Watched(c) /\ (~c.silent) \in BOOLEAN
      /\ c' = [c EXCEPT !.silent = ~c.silent]
  BY DEF IInv, Sound, ClientState, fall_silent
<1>2. /\ c' \in ClientState /\ c'.ready = c.ready /\ c'.armed = c.armed
      /\ c'.connecting = c.connecting /\ c'.waiting = c.waiting
      /\ c'.connected = c.connected /\ c'.socket = c.socket
      /\ c'.pending = c.pending /\ c'.session = c.session
      /\ c'.overlap = c.overlap /\ c'.crashed = c.crashed
  BY <1>1 DEF ClientState
<1>3. Sound(c') /\ Watched(c')
  BY <1>1, <1>2 DEF Sound, Truthful, Attempt, Waiting, Watched, Due
<1> QED
  BY <1>3 DEF IInv

(* A client that was not told anything yet. *)
LEMMA InitInv ==
    ASSUME Init
    PROVE  IInv
<1>1. /\ c \in ClientState /\ c.ready = <<>> /\ c.armed = {} /\ ~c.connecting
      /\ ~c.waiting /\ ~c.connected /\ c.socket = "null" /\ ~c.pending /\ ~c.session
      /\ ~c.overlap /\ ~c.crashed /\ c.connected = c.session
  BY DEF Init, ClientState
<1>2. ~Has(c.ready, Done) /\ ~Has(c.ready, Tick)
  BY <1>1 DEF Has
<1>3. Truthful(c)
  BY <1>1, <1>2, Nothing DEF Truthful, Attempt, Waiting
<1> QED
  BY <1>1, <1>3 DEF IInv, Sound, Watched

(***************************************************************************)
(* The inductive invariant of Client.cpp: what the flags, the socket, the  *)
(* timers and the handlers in the loop have to do with each other.         *)
(***************************************************************************)
THEOREM ClientInvariant == Spec => []IInv
<1>1. Init => IInv
  BY InitInv
<1>2. IInv /\ [Next]_vars => IInv'
  <2> SUFFICES ASSUME IInv, [Next]_vars
               PROVE  IInv'
    OBVIOUS
  <2>1. CASE Call("do_connect")
    BY <2>1, QueuePlain DEF Call, Names
  <2>2. CASE Call("do_close_client")
    BY <2>2, QueuePlain DEF Call, Names
  <2>3. CASE run
    BY <2>3, RunInv
  <2>4. CASE \E t \in Timers : expire(t)
    BY <2>4, ExpireInv
  <2>5. CASE connect_done
    BY <2>5, ConnectDoneInv
  <2>6. CASE lose
    BY <2>6, QueuePlain DEF lose, Names
  <2>7. CASE fall_silent
    BY <2>7, FallSilentInv
  <2>8. CASE UNCHANGED vars
    BY <2>8 DEF vars, IInv, Sound, Watched, Truthful, Attempt, Waiting, Due
  <2> QED
    BY <2>1, <2>2, <2>3, <2>4, <2>5, <2>6, <2>7, <2>8 DEF Next
<1> QED
  BY <1>1, <1>2, PTL DEF Spec

(* A handler in the loop, as the properties name it. *)
LEMMA QueuedHas ==
    ASSUME c \in ClientState, NEW f, NEW err
    PROVE  Queued(c, f, err) <=> Has(c.ready, {Handler(f, err)})
<1>1. DOMAIN c.ready = 1 .. Len(c.ready)
  BY DEF ClientState
<1> QED
  BY <1>1 DEF Queued, Has

(* The flags the calls branch on tell what the client is doing, as long as *)
(* no two attempts overlapped.                                             *)
THEOREM FlagsTruthfulHolds == Spec => []FlagsTruthful
<1>1. IInv => FlagsTruthful
  <2> SUFFICES ASSUME IInv, ~c.overlap
               PROVE  /\ c.connected <=> c.session
                      /\ c.session => c.socket = "null"
                      /\ c.connecting <=> \/ c.pending
                                          \/ \E err \in BOOLEAN :
                                                Queued(c, "on_connet_complete", err)
                      /\ c.waiting => \/ "m_reconnet_timer" \in c.armed
                                      \/ Queued(c, "m_reconnet_timer", FALSE)
                      /\ ~(c.connected /\ c.connecting)
                      /\ c.waiting => ~c.connected /\ ~c.connecting
    BY DEF FlagsTruthful
  <2>1. /\ c \in ClientState /\ c.connected = c.session /\ Truthful(c)
        /\ c.ready \in Seq(Handlers)
    BY DEF IInv, Sound, ClientState
  <2>2. Has(c.ready, Done) <=>
            \E err \in BOOLEAN : Queued(c, "on_connet_complete", err)
    <3>1. /\ \A e \in Done : \/ e = Handler("on_connet_complete", TRUE)
                             \/ e = Handler("on_connet_complete", FALSE)
          /\ Handler("on_connet_complete", TRUE) \in Done
          /\ Handler("on_connet_complete", FALSE) \in Done
      BY DEF Done, Handlers, Handler, Names
    <3>2. Has(c.ready, Done) <=>
              \/ Has(c.ready, {Handler("on_connet_complete", TRUE)})
              \/ Has(c.ready, {Handler("on_connet_complete", FALSE)})
      BY <3>1 DEF Has
    <3> QED
      BY <2>1, <3>2, QueuedHas
  <2>3. Has(c.ready, Tick) =>
            Has(c.ready, Late) \/ Queued(c, "m_reconnet_timer", FALSE)
    <3>1. \A e \in Tick : e \in Late \/ e = Handler("m_reconnet_timer", FALSE)
      BY DEF Tick, Late, Handlers, Handler
    <3>2. Has(c.ready, Tick) =>
              Has(c.ready, Late) \/ Has(c.ready, {Handler("m_reconnet_timer", FALSE)})
      BY <3>1 DEF Has
    <3> QED
      BY <2>1, <3>2, QueuedHas
  <2> QED
    BY <2>1, <2>2, <2>3 DEF Truthful, Attempt, Waiting
<1> QED
  BY <1>1, ClientInvariant, PTL

(* A null m_socket or m_session_ref is used only after attempts overlapped. *)
THEOREM CrashNeedsOverlapHolds == Spec => []CrashNeedsOverlap
<1>1. IInv => CrashNeedsOverlap
  BY DEF IInv, Sound, Truthful, CrashNeedsOverlap
<1> QED
  BY <1>1, ClientInvariant, PTL

(* While connected, a heartbeat and a check of the server are always due,  *)
(* whether or not attempts overlapped.                                     *)
THEOREM WatchedHolds == Spec => []WatchedWhileConnected
<1>1. IInv => WatchedWhileConnected
  <2> SUFFICES ASSUME IInv
               PROVE  WatchedWhileConnected
    OBVIOUS
  <2>1. c \in ClientState /\ Watched(c)
    BY DEF IInv, Sound
  <2> QED
    BY <2>1, QueuedHas DEF Watched, Due, WatchedWhileConnected
<1> QED
  BY <1>1, ClientInvariant, PTL
=============================================================================
