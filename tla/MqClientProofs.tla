---------------------------- MODULE MqClientProofs ----------------------------
(***************************************************************************)
(* Proofs about the client of the message broker, for any exchanges and    *)
(* keys, any configuration, and any number of calls, lost connections and  *)
(* restarts.                                                               *)
(***************************************************************************)
EXTENDS MqClient, FiniteSetTheorems, TLAPS

Bindings == Exchanges \X Keys
Commands ==
    {declareQueue} \cup {declareExchange(e, f) : e \in Exchanges, f \in BOOLEAN}
                   \cup {bindQueue(e, k) : e \in Exchanges, k \in Keys}

Bind(e, k) == [f |-> "do_bind", e |-> e, k |-> k]
Binds == {Bind(e, k) : e \in Exchanges, k \in Keys}
Calls == {[f |-> g] : g \in {"do_connect", "do_close_client", "do_close", "on_timeout"}}
Tasks == Calls \cup Binds

(* m_binds: the keys of the exchanges that are known. *)
Known == UNION {[D -> SUBSET Keys] : D \in SUBSET Exchanges}

(* m_is_connected of a handler is never set. *)
Client ==
    [m_auto_reconnect : BOOLEAN, m_is_connecting : BOOLEAN, m_timer : {"off", "armed"},
     m_mq_handler : {"null", "FALSE"},
     channel : {"none", "opening", "open", "closed", "lost", "error"},
     cmds : Seq(Commands), m_is_session_opend : BOOLEAN, m_binds : Known,
     live : SUBSET Bindings, dangling : BOOLEAN]

Broker == [queue : BOOLEAN, exchanges : SUBSET Exchanges, bound : SUBSET Bindings]

Made == [connects : Nat, binds : Nat, first : SUBSET Bindings, restarts : Nat,
         closed : SUBSET {"client", "session"}]

-----------------------------------------------------------------------------
Has(q, c) == \E i \in 1 .. Len(q) : q[i] = c

(* The connection: an attempt is under way as long as it is wanted. *)
Steady(x) ==
    /\ x.m_auto_reconnect => x.m_is_connecting
    /\ x.channel = "open" => x.m_is_session_opend

(* What is bound, or will be when the commands are answered. *)
Coming(x, b, e, k) == <<e, k>> \in b.bound \/ Has(x.cmds, bindQueue(e, k))

Reach(x, b) ==
    /\ x.channel \in {"opening", "open"} =>
          \A e \in Exchanges, k \in Keys : <<e, k>> \in x.live => Coming(x, b, e, k)
    /\ x.channel = "open" =>
          \A e \in DOMAIN x.m_binds :
             \/ Has(x.cmds, declareQueue)
             \/ Has(x.cmds, declareExchange(e, TRUE))
             \/ \A k \in x.m_binds[e] : Coming(x, b, e, k)
    /\ \A e \in Exchanges : Has(x.cmds, declareExchange(e, TRUE)) => e \in DOMAIN x.m_binds

(* The first key of an exchange that is not configured: recorded, or the   *)
(* first to be recorded.                                                   *)
NextFor(r, e, k) ==
    \E i \in 1 .. Len(r) :
       r[i] = Bind(e, k) /\ \A j \in 1 .. i - 1 : \A h \in Keys : r[j] # Bind(e, h)

AskedFor(a, e) == e \in DOMAIN Config \/ \E k \in Keys : <<e, k>> \in a.first

Firsts(x, r, a) ==
    /\ DOMAIN Config \subseteq DOMAIN x.m_binds
    /\ \A e \in Exchanges, k \in Keys : <<e, k>> \in a.first =>
          IF e \in DOMAIN x.m_binds THEN k \in x.m_binds[e] ELSE NextFor(r, e, k)
    /\ \A e \in Exchanges, k \in Keys : Has(r, Bind(e, k)) => AskedFor(a, e)
    /\ \A e \in DOMAIN x.m_binds : AskedFor(a, e)

(***************************************************************************)
(* An application that connects once and does not close the session: there *)
(* is one connection, nothing goes out before it is open, and then each    *)
(* binding follows the declarations it needs.                              *)
(***************************************************************************)
Calm(a) == a.connects <= 1 /\ "session" \notin a.closed

Once(r, t) == \A i, j \in 1 .. Len(r) : r[i] = t /\ r[j] = t => i = j

Declared(q, b, i, e) ==
    /\ b.queue \/ \E j \in 1 .. i - 1 : q[j] = declareQueue
    /\ e \in b.exchanges \/ \E j \in 1 .. i - 1, f \in BOOLEAN : q[j] = declareExchange(e, f)

Sorted(q, b) ==
    \A i \in 1 .. Len(q) : \A e \in Exchanges, k \in Keys :
       q[i] = bindQueue(e, k) => Declared(q, b, i, e)

Connect == [f |-> "do_connect"]
Close   == [f |-> "do_close"]

OneConnection(x, b, r, a) ==
    /\ Once(r, Connect)
    /\ x.channel # "none" => ~Has(r, Connect)
    /\ a.connects = 0 => ~Has(r, Connect) /\ x.channel = "none"
    /\ ~x.dangling /\ x.channel \notin {"error", "closed"}
    /\ x.channel \in {"none", "opening"} => ~x.m_is_session_opend /\ x.cmds = <<>>
    /\ x.channel = "open" => /\ b.queue \/ Has(x.cmds, declareQueue)
                             /\ Sorted(x.cmds, b)

Types(x, b, r, a) == x \in Client /\ b \in Broker /\ r \in Seq(Tasks) /\ a \in Made

Good(x, b, r, a) ==
    /\ Types(x, b, r, a)
    /\ Steady(x) /\ Reach(x, b) /\ Firsts(x, r, a)
    /\ Has(r, Close) => "session" \in a.closed
    /\ Calm(a) => OneConnection(x, b, r, a)

IInv == Good(m, broker, ready, calls)

-----------------------------------------------------------------------------
(* Commands and tasks of different kinds differ. *)
LEMMA Kinds ==
    /\ declareQueue \in Commands
    /\ \A e \in Exchanges, f \in BOOLEAN : declareExchange(e, f) \in Commands
    /\ \A e \in Exchanges, k \in Keys : bindQueue(e, k) \in Commands
    /\ \A e, f : declareExchange(e, f) # declareQueue
    /\ \A e, k : bindQueue(e, k) # declareQueue
    /\ \A e, k, d, f : bindQueue(e, k) # declareExchange(d, f)
    /\ \A e, k, d, h : bindQueue(e, k) = bindQueue(d, h) => e = d /\ k = h
    /\ \A e, f, d, g : declareExchange(e, f) = declareExchange(d, g) => e = d /\ f = g
<1>1. /\ declareQueue \in Commands
      /\ \A e \in Exchanges, f \in BOOLEAN : declareExchange(e, f) \in Commands
      /\ \A e \in Exchanges, k \in Keys : bindQueue(e, k) \in Commands
  BY DEF Commands
<1>2. /\ declareQueue.c = "queue"
      /\ \A e, f : declareExchange(e, f).c = "exchange" /\ declareExchange(e, f).e = e
                   /\ declareExchange(e, f).then = f
      /\ \A e, k : bindQueue(e, k).c = "bind" /\ bindQueue(e, k).e = e /\ bindQueue(e, k).k = k
  BY DEF declareQueue, declareExchange, bindQueue
<1>3. /\ \A e, f : declareExchange(e, f) # declareQueue
      /\ \A e, k : bindQueue(e, k) # declareQueue
      /\ \A e, k, d, f : bindQueue(e, k) # declareExchange(d, f)
  BY <1>2
<1>4. /\ \A e, k, d, h : bindQueue(e, k) = bindQueue(d, h) => e = d /\ k = h
      /\ \A e, f, d, g : declareExchange(e, f) = declareExchange(d, g) => e = d /\ f = g
  <2>1. ASSUME NEW e, NEW k, NEW d, NEW h, bindQueue(e, k) = bindQueue(d, h)
        PROVE  e = d /\ k = h
    <3>1. bindQueue(e, k).e = e /\ bindQueue(e, k).k = k
      BY <1>2
    <3>2. bindQueue(d, h).e = d /\ bindQueue(d, h).k = h
      BY <1>2
    <3> QED
      BY <2>1, <3>1, <3>2
  <2>2. ASSUME NEW e, NEW f, NEW d, NEW g, declareExchange(e, f) = declareExchange(d, g)
        PROVE  e = d /\ f = g
    <3>1. declareExchange(e, f).e = e /\ declareExchange(e, f).then = f
      BY <1>2
    <3>2. declareExchange(d, g).e = d /\ declareExchange(d, g).then = g
      BY <1>2
    <3> QED
      BY <2>2, <3>1, <3>2
  <2> QED
    BY <2>1, <2>2
<1> QED
  BY <1>1, <1>3, <1>4

(* The kinds of a command. *)
LEMMA CommandIs ==
    ASSUME NEW c \in Commands
    PROVE  /\ c.c = "queue" => c = declareQueue
           /\ c.c = "exchange" => c.e \in Exchanges /\ c.then \in BOOLEAN /\ c = declareExchange(c.e, c.then)
           /\ c.c = "bind" => c.e \in Exchanges /\ c.k \in Keys /\ c = bindQueue(c.e, c.k)
<1>1. CASE c = declareQueue
  BY <1>1 DEF declareQueue
<1>2. ASSUME NEW e \in Exchanges, NEW f \in BOOLEAN, c = declareExchange(e, f)
      PROVE  c.c = "exchange" /\ c.e = e /\ c.then = f
  BY <1>2 DEF declareExchange
<1>3. ASSUME NEW e \in Exchanges, NEW k \in Keys, c = bindQueue(e, k)
      PROVE  c.c = "bind" /\ c.e = e /\ c.k = k
  BY <1>3 DEF bindQueue
<1>4. \/ c = declareQueue
      \/ \E e \in Exchanges, f \in BOOLEAN : c = declareExchange(e, f)
      \/ \E e \in Exchanges, k \in Keys : c = bindQueue(e, k)
  BY DEF Commands
<1>5. CASE \E e \in Exchanges, f \in BOOLEAN : c = declareExchange(e, f)
  BY <1>2, <1>5
<1>6. CASE \E e \in Exchanges, k \in Keys : c = bindQueue(e, k)
  BY <1>3, <1>6
<1> QED
  BY <1>1, <1>4, <1>5, <1>6

(* The kinds of a task. *)
LEMMA TaskIs ==
    /\ \A t \in Tasks :
          /\ t.f = "do_bind" => t.e \in Exchanges /\ t.k \in Keys /\ t = Bind(t.e, t.k)
          /\ t.f = "do_connect" => t = Connect
          /\ t.f = "do_close" => t = Close
          /\ t.f \in {"do_bind", "do_connect", "do_close", "do_close_client", "on_timeout"}
    /\ \A e \in Exchanges, k \in Keys : Bind(e, k) \in Tasks
    /\ Calls \subseteq Tasks
    /\ Connect \in Calls /\ Close \in Calls
    /\ [f |-> "do_close_client"] \in Calls /\ [f |-> "on_timeout"] \in Calls
    /\ Connect.f = "do_connect" /\ Close.f = "do_close"
    /\ \A e, k : Bind(e, k).f = "do_bind" /\ Bind(e, k).e = e /\ Bind(e, k).k = k
    /\ \A e, k : Bind(e, k) \notin Calls
<1>1. \A e, k : Bind(e, k).f = "do_bind" /\ Bind(e, k).e = e /\ Bind(e, k).k = k
  BY DEF Bind
<1>2. \A t \in Calls : t.f \in {"do_connect", "do_close_client", "do_close", "on_timeout"}
  BY DEF Calls
<1>3. /\ Connect \in Calls /\ Close \in Calls
      /\ [f |-> "do_close_client"] \in Calls /\ [f |-> "on_timeout"] \in Calls
      /\ Connect.f = "do_connect" /\ Close.f = "do_close"
  BY DEF Connect, Close, Calls
<1>4. \A t \in Calls : (t.f = "do_connect" => t = Connect) /\ (t.f = "do_close" => t = Close)
  BY DEF Calls, Connect, Close
<1>5. \A t \in Binds : /\ t.f = "do_bind" /\ t.e \in Exchanges /\ t.k \in Keys
                       /\ t = Bind(t.e, t.k)
  BY <1>1 DEF Binds
<1>6. \A e \in Exchanges, k \in Keys : Bind(e, k) \in Tasks
  BY DEF Tasks, Binds
<1>7. \A e, k : Bind(e, k) \notin Calls
  BY <1>1, <1>2
<1>8. \A t \in Tasks :
          /\ t.f = "do_bind" => t.e \in Exchanges /\ t.k \in Keys /\ t = Bind(t.e, t.k)
          /\ t.f = "do_connect" => t = Connect
          /\ t.f = "do_close" => t = Close
          /\ t.f \in {"do_bind", "do_connect", "do_close", "do_close_client", "on_timeout"}
  BY <1>2, <1>4, <1>5 DEF Tasks
<1> QED
  BY <1>1, <1>3, <1>6, <1>7, <1>8 DEF Tasks

-----------------------------------------------------------------------------
(* Commands that are added come after those that wait. *)
LEMMA CommandsAdded ==
    ASSUME NEW q \in Seq(Commands), NEW p \in Seq(Commands)
    PROVE  /\ q \o p \in Seq(Commands)
           /\ \A c : Has(q \o p, c) <=> Has(q, c) \/ Has(p, c)
           /\ \A b : /\ Sorted(q, b)
                     /\ \A i \in 1 .. Len(p) : \A e \in Exchanges, k \in Keys :
                          p[i] = bindQueue(e, k) =>
                             /\ b.queue \/ Has(q, declareQueue)
                             /\ \/ e \in b.exchanges
                                \/ \E j \in 1 .. i - 1, f \in BOOLEAN : p[j] = declareExchange(e, f)
                     => Sorted(q \o p, b)
<1> DEFINE r == q \o p
<1>1. /\ r \in Seq(Commands) /\ Len(r) = Len(q) + Len(p) /\ Len(q) \in Nat /\ Len(p) \in Nat
      /\ \A i \in 1 .. Len(q) : r[i] = q[i]
  OBVIOUS
<1>2. \A i \in 1 .. Len(p) : r[Len(q) + i] = p[i]
  OBVIOUS
<1> HIDE DEF r
<1>3. \A i \in 1 .. Len(r) : i \in 1 .. Len(q) \/ (i - Len(q) \in 1 .. Len(p) /\ r[i] = p[i - Len(q)])
  <2>1. ASSUME NEW i \in 1 .. Len(r), i \notin 1 .. Len(q)
        PROVE  i - Len(q) \in 1 .. Len(p) /\ r[i] = p[i - Len(q)]
    <3>1. i - Len(q) \in 1 .. Len(p)
      BY <1>1, <2>1
    <3>2. r[Len(q) + (i - Len(q))] = p[i - Len(q)]
      BY <1>2, <3>1
    <3>3. Len(q) + (i - Len(q)) = i
      BY <1>1, <2>1
    <3> QED
      BY <3>1, <3>2, <3>3
  <2> QED
    BY <2>1
<1>4. ASSUME NEW c
      PROVE  Has(r, c) <=> Has(q, c) \/ Has(p, c)
  <2>1. Has(r, c) => Has(q, c) \/ Has(p, c)
    BY <1>1, <1>3 DEF Has
  <2>2. Has(q, c) => Has(r, c)
    BY <1>1 DEF Has
  <2>3. Has(p, c) => Has(r, c)
    <3>1. ASSUME NEW i \in 1 .. Len(p), p[i] = c
          PROVE  Has(r, c)
      <4>1. Len(q) + i \in 1 .. Len(r) /\ r[Len(q) + i] = c
        BY <1>1, <1>2, <3>1
      <4> QED
        BY <4>1 DEF Has
    <3> QED
      BY <3>1 DEF Has
  <2> QED
    BY <2>1, <2>2, <2>3
<1>5. ASSUME NEW b, Sorted(q, b),
             \A i \in 1 .. Len(p) : \A e \in Exchanges, k \in Keys :
                p[i] = bindQueue(e, k) =>
                   /\ b.queue \/ Has(q, declareQueue)
                   /\ \/ e \in b.exchanges
                      \/ \E j \in 1 .. i - 1, f \in BOOLEAN : p[j] = declareExchange(e, f)
      PROVE  Sorted(r, b)
  <2> SUFFICES ASSUME NEW i \in 1 .. Len(r), NEW e \in Exchanges, NEW k \in Keys,
                      r[i] = bindQueue(e, k)
               PROVE  Declared(r, b, i, e)
    BY DEF Sorted
  <2>1. CASE i \in 1 .. Len(q)
    <3>1. Declared(q, b, i, e)
      BY <1>1, <1>5, <2>1 DEF Sorted
    <3>2. \A j \in 1 .. i - 1 : r[j] = q[j]
      BY <1>1, <2>1
    <3> QED
      BY <3>1, <3>2 DEF Declared
  <2>2. CASE i \notin 1 .. Len(q)
    <3> DEFINE n == i - Len(q)
    <3>1. n \in 1 .. Len(p) /\ p[n] = bindQueue(e, k)
      BY <1>3, <2>2
    <3>2. /\ b.queue \/ Has(q, declareQueue)
          /\ \/ e \in b.exchanges
             \/ \E j \in 1 .. n - 1, f \in BOOLEAN : p[j] = declareExchange(e, f)
      BY <1>5, <3>1
    <3>3. \A j \in 1 .. Len(q) : j \in 1 .. i - 1 /\ r[j] = q[j]
      BY <1>1, <2>2
    <3>4. \A j \in 1 .. n - 1 : Len(q) + j \in 1 .. i - 1 /\ r[Len(q) + j] = p[j]
      BY <1>1, <1>2, <3>1, SMTT(30)
    <3>5. b.queue \/ \E j \in 1 .. i - 1 : r[j] = declareQueue
      BY <3>2, <3>3 DEF Has
    <3>6. e \in b.exchanges \/ \E j \in 1 .. i - 1, f \in BOOLEAN : r[j] = declareExchange(e, f)
      BY <3>2, <3>4
    <3> QED
      BY <3>5, <3>6 DEF Declared
  <2> QED
    BY <2>1, <2>2
<1> QED
  BY <1>1, <1>4, <1>5 DEF r

(* The first command is answered. *)
LEMMA CommandAnswered ==
    ASSUME NEW q \in Seq(Commands), q # <<>>
    PROVE  /\ Head(q) \in Commands /\ Tail(q) \in Seq(Commands)
           /\ \A c : Has(q, c) <=> Head(q) = c \/ Has(Tail(q), c)
           /\ \A b : Sorted(q, b) =>
                 \A e \in Exchanges, k \in Keys :
                    Head(q) = bindQueue(e, k) => b.queue /\ e \in b.exchanges
           /\ \A b, d : /\ Sorted(q, b)
                        /\ b.queue \/ Head(q) = declareQueue => d.queue
                        /\ b.exchanges \subseteq d.exchanges
                        /\ \A e \in Exchanges, f \in BOOLEAN :
                              Head(q) = declareExchange(e, f) => e \in d.exchanges
                        => Sorted(Tail(q), d)
<1> DEFINE p == Tail(q)
<1>1. /\ p \in Seq(Commands) /\ Len(p) = Len(q) - 1 /\ Len(q) \in Nat \ {0}
      /\ \A i \in 1 .. Len(p) : p[i] = q[i + 1]
      /\ Head(q) = q[1] /\ q[1] \in Commands
  OBVIOUS
<1> HIDE DEF p
<1>2. \A i \in 1 .. Len(q) : i = 1 \/ (i - 1 \in 1 .. Len(p) /\ q[i] = p[i - 1])
  BY <1>1
<1>3. \A i \in 1 .. Len(p) : i + 1 \in 1 .. Len(q) /\ q[i + 1] = p[i] /\ i + 1 # 1
  BY <1>1
<1>4. ASSUME NEW c
      PROVE  Has(q, c) <=> Head(q) = c \/ Has(p, c)
  <2>1. Has(q, c) => Head(q) = c \/ Has(p, c)
    BY <1>1, <1>2 DEF Has
  <2>2. Head(q) = c => Has(q, c)
    BY <1>1 DEF Has
  <2>3. Has(p, c) => Has(q, c)
    BY <1>3 DEF Has
  <2> QED
    BY <2>1, <2>2, <2>3
<1>5. ASSUME NEW b, Sorted(q, b), NEW e \in Exchanges, NEW k \in Keys, Head(q) = bindQueue(e, k)
      PROVE  b.queue /\ e \in b.exchanges
  <2>1. 1 \in 1 .. Len(q) /\ q[1] = bindQueue(e, k)
    BY <1>1, <1>5
  <2>2. Declared(q, b, 1, e)
    BY <1>5, <2>1 DEF Sorted
  <2>3. \A j : j \notin 1 .. 1 - 1
    OBVIOUS
  <2> QED
    BY <2>2, <2>3 DEF Declared
<1>6. ASSUME NEW b, NEW d, Sorted(q, b),
             b.queue \/ Head(q) = declareQueue => d.queue,
             b.exchanges \subseteq d.exchanges,
             \A e \in Exchanges, f \in BOOLEAN :
                Head(q) = declareExchange(e, f) => e \in d.exchanges
      PROVE  Sorted(p, d)
  <2> SUFFICES ASSUME NEW i \in 1 .. Len(p), NEW e \in Exchanges, NEW k \in Keys,
                      p[i] = bindQueue(e, k)
               PROVE  Declared(p, d, i, e)
    BY DEF Sorted
  <2>1. Declared(q, b, i + 1, e)
    BY <1>3, <1>6 DEF Sorted
  <2>2. \A j \in 1 .. (i + 1) - 1 : j = 1 \/ (j - 1 \in 1 .. i - 1 /\ q[j] = p[j - 1])
    BY <1>1, <1>2
  <2>3. d.queue \/ \E j \in 1 .. i - 1 : p[j] = declareQueue
    <3>1. CASE b.queue
      BY <1>6, <3>1
    <3>2. ASSUME NEW j \in 1 .. (i + 1) - 1, q[j] = declareQueue
          PROVE  d.queue \/ \E g \in 1 .. i - 1 : p[g] = declareQueue
      BY <1>1, <1>6, <2>2, <3>2
    <3> QED
      BY <2>1, <3>1, <3>2 DEF Declared
  <2>4. e \in d.exchanges \/ \E j \in 1 .. i - 1, f \in BOOLEAN : p[j] = declareExchange(e, f)
    <3>1. CASE e \in b.exchanges
      BY <1>6, <3>1
    <3>2. ASSUME NEW j \in 1 .. (i + 1) - 1, NEW f \in BOOLEAN, q[j] = declareExchange(e, f)
          PROVE  e \in d.exchanges \/ \E g \in 1 .. i - 1 : p[g] = declareExchange(e, f)
      BY <1>1, <1>6, <2>2, <3>2
    <3> QED
      BY <2>1, <3>1, <3>2 DEF Declared
  <2> QED
    BY <2>3, <2>4 DEF Declared
<1> QED
  BY <1>1, <1>4, <1>5, <1>6 DEF p

-----------------------------------------------------------------------------
(* A task at the end of the loop. *)
LEMMA TaskPosted ==
    ASSUME NEW r \in Seq(Tasks), NEW t \in Tasks
    PROVE  /\ Append(r, t) \in Seq(Tasks)
           /\ \A c : Has(Append(r, t), c) <=> Has(r, c) \/ t = c
           /\ \A c : Once(r, c) /\ ~(Has(r, c) /\ t = c) => Once(Append(r, t), c)
           /\ \A e, k : NextFor(r, e, k) => NextFor(Append(r, t), e, k)
           /\ \A e, k : t = Bind(e, k) /\ (\A h \in Keys : ~Has(r, Bind(e, h)))
                           => NextFor(Append(r, t), e, k)
<1> DEFINE p == Append(r, t)
<1>1. /\ p \in Seq(Tasks) /\ Len(p) = Len(r) + 1 /\ Len(r) \in Nat
      /\ \A i \in 1 .. Len(r) : p[i] = r[i]
      /\ p[Len(r) + 1] = t
  OBVIOUS
<1> HIDE DEF p
<1>2. ASSUME NEW c
      PROVE  Has(p, c) <=> Has(r, c) \/ t = c
  BY <1>1 DEF Has
<1>3. ASSUME NEW c, Once(r, c), ~(Has(r, c) /\ t = c)
      PROVE  Once(p, c)
  BY <1>1, <1>3 DEF Has, Once
<1>4. ASSUME NEW e, NEW k, NextFor(r, e, k)
      PROVE  NextFor(p, e, k)
  <2>1. PICK i \in 1 .. Len(r) :
           r[i] = Bind(e, k) /\ \A j \in 1 .. i - 1 : \A h \in Keys : r[j] # Bind(e, h)
    BY <1>4 DEF NextFor
  <2>2. i \in 1 .. Len(p) /\ p[i] = r[i] /\ \A j \in 1 .. i - 1 : p[j] = r[j]
    BY <1>1
  <2> QED
    BY <2>1, <2>2 DEF NextFor
<1>5. ASSUME NEW e, NEW k, t = Bind(e, k), \A h \in Keys : ~Has(r, Bind(e, h))
      PROVE  NextFor(p, e, k)
  <2>1. Len(r) + 1 \in 1 .. Len(p) /\ p[Len(r) + 1] = Bind(e, k)
    BY <1>1, <1>5
  <2>2. \A j \in 1 .. (Len(r) + 1) - 1 : \A h \in Keys : p[j] # Bind(e, h)
    BY <1>1, <1>5 DEF Has
  <2> QED
    BY <2>1, <2>2 DEF NextFor
<1> QED
  BY <1>1, <1>2, <1>3, <1>4, <1>5 DEF p

(* The loop takes its first task. *)
LEMMA TaskTaken ==
    ASSUME NEW r \in Seq(Tasks), r # <<>>
    PROVE  /\ Head(r) \in Tasks /\ Tail(r) \in Seq(Tasks)
           /\ \A c : Has(r, c) <=> Head(r) = c \/ Has(Tail(r), c)
           /\ \A c : Once(r, c) => Once(Tail(r), c)
           /\ \A c : Once(r, c) /\ Head(r) = c => ~Has(Tail(r), c)
           /\ \A e, k : NextFor(r, e, k) =>
                 \/ Head(r) = Bind(e, k)
                 \/ NextFor(Tail(r), e, k) /\ \A h \in Keys : Head(r) # Bind(e, h)
<1> DEFINE p == Tail(r)
<1>1. /\ p \in Seq(Tasks) /\ Len(p) = Len(r) - 1 /\ Len(r) \in Nat \ {0}
      /\ \A i \in 1 .. Len(p) : p[i] = r[i + 1]
      /\ Head(r) = r[1] /\ r[1] \in Tasks
  OBVIOUS
<1> HIDE DEF p
<1>2. \A i \in 1 .. Len(r) : i = 1 \/ (i - 1 \in 1 .. Len(p) /\ r[i] = p[i - 1])
  BY <1>1
<1>3. \A i \in 1 .. Len(p) : i + 1 \in 1 .. Len(r) /\ r[i + 1] = p[i] /\ i + 1 # 1
  BY <1>1
<1>4. ASSUME NEW c
      PROVE  Has(r, c) <=> Head(r) = c \/ Has(p, c)
  <2>1. Has(r, c) => Head(r) = c \/ Has(p, c)
    BY <1>1, <1>2 DEF Has
  <2>2. Head(r) = c => Has(r, c)
    BY <1>1 DEF Has
  <2>3. Has(p, c) => Has(r, c)
    BY <1>3 DEF Has
  <2> QED
    BY <2>1, <2>2, <2>3
<1>5. ASSUME NEW c, Once(r, c)
      PROVE  Once(p, c)
  <2>1. ASSUME NEW i \in 1 .. Len(p), NEW j \in 1 .. Len(p), p[i] = c, p[j] = c
        PROVE  i = j
    <3>1. i + 1 = j + 1
      BY <1>3, <1>5, <2>1 DEF Once
    <3> QED
      BY <1>1, <3>1
  <2> QED
    BY <2>1 DEF Once
<1>6. ASSUME NEW c, Once(r, c), Head(r) = c
      PROVE  ~Has(p, c)
  <2>1. ASSUME NEW i \in 1 .. Len(p), p[i] = c
        PROVE  FALSE
    BY <1>1, <1>3, <1>6, <2>1 DEF Once
  <2> QED
    BY <2>1 DEF Has
<1>7. ASSUME NEW e, NEW k, NextFor(r, e, k), Head(r) # Bind(e, k)
      PROVE  NextFor(p, e, k) /\ \A h \in Keys : Head(r) # Bind(e, h)
  <2>1. PICK i \in 1 .. Len(r) :
           r[i] = Bind(e, k) /\ \A j \in 1 .. i - 1 : \A h \in Keys : r[j] # Bind(e, h)
    BY <1>7 DEF NextFor
  <2>2. i # 1 /\ i - 1 \in 1 .. Len(p) /\ p[i - 1] = Bind(e, k)
    BY <1>1, <1>2, <1>7, <2>1
  <2>3. \A j \in 1 .. (i - 1) - 1 : j + 1 \in 1 .. i - 1 /\ p[j] = r[j + 1]
    BY <1>1, <2>2
  <2>4. 1 \in 1 .. i - 1
    BY <2>2
  <2>5. \A h \in Keys : Head(r) # Bind(e, h)
    BY <1>1, <2>1, <2>4
  <2>6. \A j \in 1 .. (i - 1) - 1 : \A h \in Keys : p[j] # Bind(e, h)
    BY <2>1, <2>3
  <2>7. NextFor(p, e, k)
    BY <2>2, <2>6 DEF NextFor
  <2> QED
    BY <2>5, <2>7
<1> QED
  BY <1>1, <1>4, <1>5, <1>6, <1>7 DEF p

-----------------------------------------------------------------------------
(* An enumeration of a finite set names each of its elements. *)
LEMMA Enumerated ==
    ASSUME NEW D, IsFiniteSet(D), NEW f \in [1 .. Cardinality(D) -> D],
           \A i, j \in 1 .. Cardinality(D) : f[i] = f[j] => i = j
    PROVE  Cardinality(D) \in Nat /\ \A d \in D : \E i \in 1 .. Cardinality(D) : f[i] = d
<1> DEFINE n == Cardinality(D)
           S == 1 .. n
<1>1. n \in Nat
  BY FS_CardinalityType
<1>2. IsFiniteSet(S) /\ Cardinality(S) = n
  BY <1>1, FS_Interval
<1>3. f \in Injection(S, D)
  BY DEF Injection, IsInjective
<1> HIDE DEF n
<1>4. Cardinality(S) = Cardinality(D)
  BY <1>2 DEF n
<1> HIDE DEF S
<1>5. f \in Surjection(S, D)
  BY <1>3, <1>4, FS_Injection
<1>6. \A d \in D : \E i \in S : f[i] = d
  BY <1>5 DEF Surjection
<1> QED
  BY <1>1, <1>6 DEF S, n

(* The declarations of binding_exchange, in any order. *)
LEMMA ExchangeCommands ==
    ASSUME NEW D \in SUBSET Exchanges, NEW es \in SetToSeqs(D)
    PROVE  LET p == [i \in DOMAIN es |-> declareExchange(es[i], TRUE)]
           IN  /\ p \in Seq(Commands)
               /\ \A c : Has(p, c) <=> \E e \in D : c = declareExchange(e, TRUE)
<1> DEFINE n == Cardinality(D)
           p == [i \in DOMAIN es |-> declareExchange(es[i], TRUE)]
<1>1. IsFiniteSet(D)
  BY MqAssumption, FS_Subset
<1>2. es \in [1 .. n -> D] /\ \A i, j \in 1 .. n : es[i] = es[j] => i = j
  BY DEF SetToSeqs
<1>3. n \in Nat /\ \A d \in D : \E i \in 1 .. n : es[i] = d
  BY <1>1, <1>2, Enumerated
<1> HIDE DEF n
<1>4. p = [i \in 1 .. n |-> declareExchange(es[i], TRUE)]
  BY <1>2
<1>5. \A i \in 1 .. n : es[i] \in D /\ declareExchange(es[i], TRUE) \in Commands
  BY <1>2, Kinds
<1>6. p \in [1 .. n -> Commands]
  BY <1>4, <1>5
<1>7. \A i \in 1 .. n : p[i] = declareExchange(es[i], TRUE)
  BY <1>4
<1> HIDE DEF p
<1>8. p \in Seq(Commands) /\ Len(p) = n
  BY <1>3, <1>6
<1>9. \A c : Has(p, c) <=> \E e \in D : c = declareExchange(e, TRUE)
  <2>1. ASSUME NEW c, NEW i \in 1 .. n, p[i] = c
        PROVE  \E e \in D : c = declareExchange(e, TRUE)
    BY <1>5, <1>7, <2>1
  <2>2. ASSUME NEW e \in D
        PROVE  Has(p, declareExchange(e, TRUE))
    <3>1. PICK i \in 1 .. n : es[i] = e
      BY <1>3
    <3>2. p[i] = declareExchange(e, TRUE)
      BY <1>7, <3>1
    <3> QED
      BY <1>8, <3>2 DEF Has
  <2> QED
    BY <1>8, <2>1, <2>2 DEF Has
<1> QED
  BY <1>8, <1>9 DEF p

(* The bindings that the success of a declaration asks for. *)
LEMMA BindCommands ==
    ASSUME NEW K \in SUBSET Keys, NEW e \in Exchanges
    PROVE  LET p == [i \in DOMAIN SetToSeq(K) |-> bindQueue(e, SetToSeq(K)[i])]
           IN  /\ p \in Seq(Commands)
               /\ \A c : Has(p, c) <=> \E k \in K : c = bindQueue(e, k)
<1> DEFINE n == Cardinality(K)
           ks == SetToSeq(K)
           p == [i \in DOMAIN ks |-> bindQueue(e, ks[i])]
<1>1. IsFiniteSet(K)
  BY MqAssumption, FS_Subset
<1>2. ks \in [1 .. n -> K] /\ \A i, j \in 1 .. n : ks[i] = ks[j] => i = j
  <2>1. \E f \in [1 .. n -> K] : IsInjective(f)
    <3>1. ExistsBijection(1 .. n, K)
      BY <1>1, FS_CardinalityType
    <3> HIDE DEF n
    <3> QED
      BY <3>1 DEF ExistsBijection, Bijection, Injection
  <2>2. ks \in [1 .. n -> K] /\ IsInjective(ks)
    BY <2>1 DEF SetToSeq
  <2> HIDE DEF n, ks
  <2> QED
    BY <2>2 DEF IsInjective
<1> HIDE DEF ks
<1>3. n \in Nat /\ \A k \in K : \E i \in 1 .. n : ks[i] = k
  BY <1>1, <1>2, Enumerated
<1> HIDE DEF n
<1>4. p = [i \in 1 .. n |-> bindQueue(e, ks[i])]
  BY <1>2
<1>5. \A i \in 1 .. n : ks[i] \in K /\ bindQueue(e, ks[i]) \in Commands
  BY <1>2, Kinds
<1>6. p \in [1 .. n -> Commands]
  BY <1>4, <1>5
<1>7. \A i \in 1 .. n : p[i] = bindQueue(e, ks[i])
  BY <1>4
<1> HIDE DEF p
<1>8. p \in Seq(Commands) /\ Len(p) = n
  BY <1>3, <1>6
<1>9. \A c : Has(p, c) <=> \E k \in K : c = bindQueue(e, k)
  <2>1. ASSUME NEW c, NEW i \in 1 .. n, p[i] = c
        PROVE  \E k \in K : c = bindQueue(e, k)
    BY <1>5, <1>7, <2>1
  <2>2. ASSUME NEW k \in K
        PROVE  Has(p, bindQueue(e, k))
    <3>1. PICK i \in 1 .. n : ks[i] = k
      BY <1>3
    <3>2. p[i] = bindQueue(e, k)
      BY <1>7, <3>1
    <3> QED
      BY <1>8, <3>2 DEF Has
  <2> QED
    BY <1>8, <2>1, <2>2 DEF Has
<1> QED
  BY <1>8, <1>9 DEF p, ks

(* Commands are sent on a channel that is opening or open. *)
LEMMA CommandFields ==
    ASSUME NEW x \in Client, NEW p \in Seq(Commands)
    PROVE  LET y == Command(x, p)
           IN  /\ y \in Client
               /\ y.cmds = IF x.channel \in {"opening", "open"} THEN x.cmds \o p ELSE x.cmds
               /\ y.m_auto_reconnect = x.m_auto_reconnect
               /\ y.m_is_connecting = x.m_is_connecting /\ y.channel = x.channel
               /\ y.m_is_session_opend = x.m_is_session_opend /\ y.m_binds = x.m_binds
               /\ y.live = x.live /\ y.dangling = x.dangling
<1> DEFINE q == x.cmds \o p
           y == [x EXCEPT !.cmds = q]
<1>1. x.cmds \in Seq(Commands)
  BY DEF Client
<1>2. q \in Seq(Commands)
  BY <1>1, CommandsAdded
<1> HIDE DEF q
<1>3. /\ y \in Client /\ y.cmds = q
      /\ y.m_auto_reconnect = x.m_auto_reconnect
      /\ y.m_is_connecting = x.m_is_connecting /\ y.channel = x.channel
      /\ y.m_is_session_opend = x.m_is_session_opend /\ y.m_binds = x.m_binds
      /\ y.live = x.live /\ y.dangling = x.dangling
  BY <1>2 DEF Client
<1>4. Command(x, p) = IF x.channel \in {"opening", "open"} THEN y ELSE x
  BY DEF Command, Client, q
<1> HIDE DEF y
<1>5. CASE x.channel \in {"opening", "open"}
  BY <1>3, <1>4, <1>5 DEF q
<1>6. CASE x.channel \notin {"opening", "open"}
  BY <1>4, <1>6
<1> QED
  BY <1>5, <1>6

(* m_binds: what it is, and what one more key makes of it. *)
LEMMA KnownIs ==
    /\ \A D \in SUBSET Exchanges : \A g \in [D -> SUBSET Keys] : g \in Known
    /\ \A g \in Known : DOMAIN g \subseteq Exchanges /\ g \in [DOMAIN g -> SUBSET Keys]
  BY DEF Known

(* A key of an exchange is recorded unless the exchange is known. *)
LEMMA InsertFields ==
    ASSUME NEW x \in Client, NEW e \in Exchanges, NEW k \in Keys
    PROVE  LET y == Insert(x, e, k)
           IN  /\ y \in Client /\ DOMAIN y.m_binds = DOMAIN x.m_binds \cup {e}
               /\ \A d \in DOMAIN x.m_binds : y.m_binds[d] = x.m_binds[d]
               /\ e \notin DOMAIN x.m_binds => y.m_binds[e] = {k}
               /\ y.m_auto_reconnect = x.m_auto_reconnect
               /\ y.m_is_connecting = x.m_is_connecting /\ y.channel = x.channel
               /\ y.m_is_session_opend = x.m_is_session_opend /\ y.cmds = x.cmds
               /\ y.live = x.live /\ y.dangling = x.dangling
<1> DEFINE D == DOMAIN x.m_binds \cup {e}
           g == [f \in D |-> IF f \in DOMAIN x.m_binds THEN x.m_binds[f] ELSE {k}]
           y == [x EXCEPT !.m_binds = g]
<1>1. x.m_binds \in Known
  BY DEF Client
<1>2. DOMAIN x.m_binds \subseteq Exchanges /\ x.m_binds \in [DOMAIN x.m_binds -> SUBSET Keys]
  BY <1>1, KnownIs
<1>3. /\ D \in SUBSET Exchanges /\ g \in [D -> SUBSET Keys] /\ DOMAIN g = D
      /\ \A d \in DOMAIN x.m_binds : g[d] = x.m_binds[d]
      /\ e \notin DOMAIN x.m_binds => g[e] = {k}
  BY <1>2
<1>4. g \in Known
  BY <1>3, KnownIs
<1>5. Insert(x, e, k) = y
  BY DEF Insert, Client
<1> HIDE DEF g
<1>6. /\ y \in Client /\ y.m_binds = g
      /\ y.m_auto_reconnect = x.m_auto_reconnect
      /\ y.m_is_connecting = x.m_is_connecting /\ y.channel = x.channel
      /\ y.m_is_session_opend = x.m_is_session_opend /\ y.cmds = x.cmds
      /\ y.live = x.live /\ y.dangling = x.dangling
  BY <1>4 DEF Client
<1> HIDE DEF y
<1> QED
  BY <1>3, <1>5, <1>6

-----------------------------------------------------------------------------
(* The same channel, with the same commands. *)
LEMMA ChannelAs ==
    ASSUME NEW x, NEW y, NEW b, NEW r, NEW a,
           y.channel = x.channel, y.cmds = x.cmds, y.m_binds = x.m_binds, y.live = x.live,
           y.m_is_session_opend = x.m_is_session_opend, y.dangling = x.dangling
    PROVE  /\ Reach(x, b) => Reach(y, b)
           /\ Firsts(x, r, a) => Firsts(y, r, a)
           /\ OneConnection(x, b, r, a) => OneConnection(y, b, r, a)
  BY DEF Reach, Coming, Firsts, OneConnection

(* A call is posted that is none of bind_exchange. *)
LEMMA CallPosted ==
    ASSUME NEW x, NEW b, NEW r, NEW a, NEW y, NEW a2, NEW t \in Calls,
           Good(x, b, r, a), y \in Client, Steady(y), a2 \in Made,
           y.channel = x.channel, y.cmds = x.cmds, y.m_binds = x.m_binds, y.live = x.live,
           y.m_is_session_opend = x.m_is_session_opend, y.dangling = x.dangling,
           a2.first = a.first, a.closed \subseteq a2.closed, a.connects <= a2.connects,
           t = Close => "session" \in a2.closed,
           t = Connect => a2.connects = a.connects + 1
    PROVE  Good(y, b, Append(r, t), a2)
<1> DEFINE p == Append(r, t)
<1>1. /\ Types(x, b, r, a) /\ Steady(x) /\ Reach(x, b) /\ Firsts(x, r, a)
      /\ Has(r, Close) => "session" \in a.closed
      /\ Calm(a) => OneConnection(x, b, r, a)
      /\ a.connects \in Nat /\ a2.connects \in Nat
  BY DEF Good, Types, Made
<1>2. t \in Tasks /\ r \in Seq(Tasks) /\ (\A e, k : t # Bind(e, k))
  BY <1>1, TaskIs DEF Types
<1>3. /\ p \in Seq(Tasks)
      /\ \A c : Has(p, c) <=> Has(r, c) \/ t = c
      /\ \A c : Once(r, c) /\ ~(Has(r, c) /\ t = c) => Once(p, c)
      /\ \A e, k : NextFor(r, e, k) => NextFor(p, e, k)
  BY <1>2, TaskPosted
<1> HIDE DEF p
<1>4. Reach(y, b) /\ Firsts(y, r, a)
  BY <1>1, ChannelAs
<1>5. Firsts(y, p, a2)
  BY <1>2, <1>3, <1>4 DEF Firsts, AskedFor
<1>6. Has(p, Close) => "session" \in a2.closed
  BY <1>1, <1>3
<1>7. Calm(a2) => OneConnection(y, b, p, a2)
  <2> SUFFICES ASSUME Calm(a2) PROVE OneConnection(y, b, p, a2)
    OBVIOUS
  <2>1. Calm(a)
    BY <1>1 DEF Calm
  <2>2. OneConnection(x, b, r, a)
    BY <1>1, <2>1
  <2>3. t = Connect => a.connects = 0 /\ a2.connects = 1
    BY <1>1 DEF Calm
  <2>4. a2.connects = 0 => a.connects = 0
    BY <1>1
  <2> QED
    BY <1>3, <2>2, <2>3, <2>4 DEF OneConnection
<1>8. Good(y, b, p, a2)
  BY <1>1, <1>3, <1>4, <1>5, <1>6, <1>7 DEF Good, Types
<1> QED
  BY <1>8 DEF p

(* connect, close_client, close. *)
LEMMA CallsPreserve ==
    ASSUME IInv, connect \/ close_client \/ close
    PROVE  IInv'
<1>1. Good(m, broker, ready, calls) /\ m \in Client /\ Steady(m) /\ calls \in Made
  BY DEF IInv, Good, Types
<1>2. m' = m /\ broker' = broker
  BY DEF connect, close_client, close
<1>3. CASE connect
  <2> DEFINE a2 == [calls EXCEPT !.connects = calls.connects + 1]
  <2>1. ready' = Append(ready, Connect) /\ calls' = a2
    BY <1>1, <1>3 DEF connect, Post, Connect, Made
  <2>2. calls.connects \in Nat /\ calls.connects + 1 \in Nat /\ calls.connects <= calls.connects + 1
    BY <1>1 DEF Made
  <2>3. /\ a2 \in Made /\ a2.first = calls.first /\ a2.closed = calls.closed
        /\ a2.connects = calls.connects + 1
    BY <1>1, <2>2 DEF Made
  <2> HIDE DEF a2
  <2>4. Connect \in Calls /\ Connect # Close
    BY TaskIs
  <2>5. Good(m, broker, Append(ready, Connect), a2)
    BY <1>1, <2>2, <2>3, <2>4, CallPosted
  <2> QED
    BY <1>2, <2>1, <2>5 DEF IInv
<1>4. CASE close_client
  <2> DEFINE a2 == [calls EXCEPT !.closed = calls.closed \cup {"client"}]
             t == [f |-> "do_close_client"]
  <2>1. ready' = Append(ready, t) /\ calls' = a2
    BY <1>1, <1>4 DEF close_client, Post, Made
  <2>2. /\ calls.closed \cup {"client"} \in SUBSET {"client", "session"}
        /\ calls.connects \in Nat /\ calls.connects <= calls.connects
    BY <1>1 DEF Made
  <2>3. /\ a2 \in Made /\ a2.first = calls.first /\ a2.closed = calls.closed \cup {"client"}
        /\ a2.connects = calls.connects
    BY <1>1, <2>2 DEF Made
  <2>4. t \in Calls /\ t # Close /\ t # Connect
    BY TaskIs DEF Close, Connect
  <2> HIDE DEF a2, t
  <2>5. Good(m, broker, Append(ready, t), a2)
    BY <1>1, <2>2, <2>3, <2>4, CallPosted
  <2> QED
    BY <1>2, <2>1, <2>5 DEF IInv
<1>5. CASE close
  <2> DEFINE a2 == [calls EXCEPT !.closed = calls.closed \cup {"session"}]
  <2>1. ready' = Append(ready, Close) /\ calls' = a2
    BY <1>1, <1>5 DEF close, Post, Made, Close
  <2>2. /\ calls.closed \cup {"session"} \in SUBSET {"client", "session"}
        /\ calls.connects \in Nat /\ calls.connects <= calls.connects
    BY <1>1 DEF Made
  <2>3. /\ a2 \in Made /\ a2.first = calls.first /\ a2.closed = calls.closed \cup {"session"}
        /\ a2.connects = calls.connects
    BY <1>1, <2>2 DEF Made
  <2>4. Close \in Calls /\ Close # Connect
    BY TaskIs
  <2> HIDE DEF a2
  <2>5. Good(m, broker, Append(ready, Close), a2)
    BY <1>1, <2>2, <2>3, <2>4, CallPosted
  <2> QED
    BY <1>2, <2>1, <2>5 DEF IInv
<1> QED
  BY <1>3, <1>4, <1>5

(* The timer expires. *)
LEMMA ExpirePreserves ==
    ASSUME IInv, expire
    PROVE  IInv'
<1> DEFINE y == [m EXCEPT !.m_timer = "off"]
           t == [f |-> "on_timeout"]
<1>1. Good(m, broker, ready, calls) /\ m \in Client /\ Steady(m) /\ calls \in Made
  BY DEF IInv, Good, Types
<1>2. m' = y /\ broker' = broker /\ calls' = calls /\ ready' = Append(ready, t)
  BY DEF expire, Post
<1>3. /\ y \in Client /\ y.channel = m.channel /\ y.cmds = m.cmds /\ y.m_binds = m.m_binds
      /\ y.live = m.live /\ y.m_is_session_opend = m.m_is_session_opend
      /\ y.dangling = m.dangling /\ y.m_auto_reconnect = m.m_auto_reconnect
      /\ y.m_is_connecting = m.m_is_connecting
  BY <1>1 DEF Client
<1>4. t \in Calls /\ t # Close /\ t # Connect
  BY TaskIs DEF Close, Connect
<1> HIDE DEF y, t
<1>5. Steady(y)
  BY <1>1, <1>3 DEF Steady
<1>6. calls.connects <= calls.connects
  BY <1>1 DEF Made
<1>7. Good(y, broker, Append(ready, t), calls)
  BY <1>1, <1>3, <1>4, <1>5, <1>6, CallPosted
<1> QED
  BY <1>2, <1>7 DEF IInv

(* A key is asked for: the first for an exchange nobody asked for yet is   *)
(* the first of it in the loop, too.                                       *)
LEMMA BindPreserves ==
    ASSUME IInv, NEW e \in Exchanges, NEW k \in Keys, bind_exchange(e, k)
    PROVE  IInv'
<1> DEFINE asked == e \in DOMAIN Config \/ \E q \in calls.first : q[1] = e
           fs == IF asked THEN calls.first ELSE calls.first \cup {<<e, k>>}
           a2 == [calls EXCEPT !.binds = calls.binds + 1, !.first = fs]
           t == Bind(e, k)
           p == Append(ready, t)
<1>1. /\ Types(m, broker, ready, calls) /\ Steady(m) /\ Reach(m, broker)
      /\ Firsts(m, ready, calls)
      /\ Has(ready, Close) => "session" \in calls.closed
      /\ Calm(calls) => OneConnection(m, broker, ready, calls)
  BY DEF IInv, Good
<1>2. calls \in Made /\ ready \in Seq(Tasks) /\ calls.first \in SUBSET Bindings
  BY <1>1 DEF Types, Made
<1>3. m' = m /\ broker' = broker /\ calls' = a2 /\ ready' = p
  BY <1>2 DEF bind_exchange, Post, Bind, Made
<1>4. /\ fs \in SUBSET Bindings /\ calls.binds + 1 \in Nat
      /\ calls.first \subseteq fs /\ fs \subseteq calls.first \cup {<<e, k>>}
  BY <1>2 DEF Bindings, Made
<1>5. asked <=> AskedFor(calls, e)
  <2>1. \A q \in calls.first : q = <<q[1], q[2]>> /\ q[2] \in Keys
    BY <1>2 DEF Bindings
  <2>2. \A h \in Keys : <<e, h>>[1] = e
    OBVIOUS
  <2> QED
    BY <2>1, <2>2 DEF AskedFor
<1>6. ~asked => <<e, k>> \in fs
  OBVIOUS
<1>7. asked => fs = calls.first
  OBVIOUS
<1> HIDE DEF fs, asked
<1>8. /\ a2 \in Made /\ a2.first = fs /\ a2.closed = calls.closed
      /\ a2.connects = calls.connects
  BY <1>2, <1>4 DEF Made
<1> HIDE DEF a2
<1>9. t \in Tasks /\ t # Close /\ t # Connect
  BY TaskIs
<1>10. /\ p \in Seq(Tasks)
       /\ \A c : Has(p, c) <=> Has(ready, c) \/ t = c
       /\ \A c : Once(ready, c) /\ ~(Has(ready, c) /\ t = c) => Once(p, c)
       /\ \A d, h : NextFor(ready, d, h) => NextFor(p, d, h)
       /\ \A d, h : t = Bind(d, h) /\ (\A g \in Keys : ~Has(ready, Bind(d, g)))
                       => NextFor(p, d, h)
  BY <1>2, <1>9, TaskPosted
<1> HIDE DEF p
<1>11. AskedFor(a2, e) /\ \A d : AskedFor(calls, d) => AskedFor(a2, d)
  BY <1>4, <1>5, <1>6, <1>7, <1>8 DEF AskedFor
<1>12. ~asked => e \notin DOMAIN m.m_binds /\ NextFor(p, e, k)
  <2>1. ~asked => e \notin DOMAIN m.m_binds /\ \A g \in Keys : ~Has(ready, Bind(e, g))
    BY <1>1, <1>5 DEF Firsts
  <2> QED
    BY <1>10, <2>1
<1>13. Firsts(m, p, a2)
  <2>1. DOMAIN m.m_binds \subseteq Exchanges
    BY <1>1, KnownIs DEF Types, Client
  <2>2. ASSUME NEW d \in Exchanges, NEW h \in Keys, <<d, h>> \in fs
        PROVE  IF d \in DOMAIN m.m_binds THEN h \in m.m_binds[d] ELSE NextFor(p, d, h)
    <3>1. CASE <<d, h>> \in calls.first
      BY <1>1, <1>10, <3>1 DEF Firsts
    <3>2. CASE <<d, h>> \notin calls.first
      <4>1. d = e /\ h = k /\ ~asked
        BY <1>4, <1>7, <2>2, <3>2
      <4> QED
        BY <1>12, <4>1
    <3> QED
      BY <3>1, <3>2
  <2>3. ASSUME NEW d \in Exchanges, NEW h \in Keys, Has(p, Bind(d, h))
        PROVE  AskedFor(a2, d)
    <3>1. Has(ready, Bind(d, h)) \/ t = Bind(d, h)
      BY <1>10, <2>3
    <3>2. CASE Has(ready, Bind(d, h))
      BY <1>1, <1>11, <3>2 DEF Firsts
    <3>3. CASE t = Bind(d, h)
      <4>1. d = e
        <5>1. t.e = e /\ Bind(d, h).e = d
          BY TaskIs
        <5> QED
          BY <3>3, <5>1
      <4> QED
        BY <1>11, <4>1
    <3> QED
      BY <3>1, <3>2, <3>3
  <2>4. DOMAIN Config \subseteq DOMAIN m.m_binds /\ \A d \in DOMAIN m.m_binds : AskedFor(a2, d)
    BY <1>1, <1>11 DEF Firsts
  <2> QED
    BY <1>8, <2>2, <2>3, <2>4 DEF Firsts
<1>14. Has(p, Close) => "session" \in a2.closed
  BY <1>1, <1>8, <1>9, <1>10
<1>15. Calm(a2) => OneConnection(m, broker, p, a2)
  <2>1. Calm(a2) => Calm(calls)
    BY <1>8 DEF Calm
  <2>2. /\ Has(p, Connect) <=> Has(ready, Connect)
        /\ Once(ready, Connect) => Once(p, Connect)
    BY <1>9, <1>10
  <2> QED
    BY <1>1, <1>8, <2>1, <2>2 DEF OneConnection
<1>16. Good(m, broker, p, a2)
  BY <1>1, <1>8, <1>10, <1>13, <1>14, <1>15 DEF Good, Types
<1> QED
  BY <1>3, <1>16 DEF IInv

-----------------------------------------------------------------------------
(* The loop goes on with what is left after the task it takes. *)
LEMMA Taken ==
    ASSUME NEW x, NEW b, NEW r, NEW a, Good(x, b, r, a), r # <<>>
    PROVE  /\ Head(r) \in Tasks /\ Has(r, Head(r)) /\ Types(x, b, Tail(r), a)
           /\ \A c : Has(Tail(r), c) => Has(r, c)
           /\ Once(r, Connect) => Once(Tail(r), Connect)
           /\ Head(r) = Connect /\ Once(r, Connect) => ~Has(Tail(r), Connect)
           /\ Has(Tail(r), Close) => "session" \in a.closed
           /\ Calm(a) => OneConnection(x, b, Tail(r), a)
           /\ Head(r) = Close => ~Calm(a)
           /\ Head(r).f # "do_bind" => Firsts(x, Tail(r), a)
<1> DEFINE p == Tail(r)
<1>1. /\ Types(x, b, r, a) /\ Firsts(x, r, a)
      /\ Has(r, Close) => "session" \in a.closed
      /\ Calm(a) => OneConnection(x, b, r, a)
      /\ r \in Seq(Tasks)
  BY DEF Good, Types
<1>2. /\ Head(r) \in Tasks /\ p \in Seq(Tasks)
      /\ \A c : Has(r, c) <=> Head(r) = c \/ Has(p, c)
      /\ \A c : Once(r, c) => Once(p, c)
      /\ \A c : Once(r, c) /\ Head(r) = c => ~Has(p, c)
      /\ \A e, k : NextFor(r, e, k) =>
            \/ Head(r) = Bind(e, k)
            \/ NextFor(p, e, k) /\ \A h \in Keys : Head(r) # Bind(e, h)
  BY <1>1, TaskTaken
<1> HIDE DEF p
<1>3. Types(x, b, p, a) /\ Has(r, Head(r)) /\ \A c : Has(p, c) => Has(r, c)
  BY <1>1, <1>2 DEF Types
<1>4. Calm(a) => OneConnection(x, b, p, a)
  BY <1>1, <1>2 DEF OneConnection
<1>5. Head(r) = Close => ~Calm(a)
  BY <1>1, <1>2 DEF Calm
<1>6. Head(r).f # "do_bind" => Firsts(x, p, a)
  <2>1. ASSUME Head(r).f # "do_bind"
        PROVE  \A e, k : Head(r) # Bind(e, k)
    BY <2>1, TaskIs
  <2> QED
    BY <1>1, <1>2, <2>1 DEF Firsts
<1>7. Has(p, Close) => "session" \in a.closed
  BY <1>1, <1>3
<1> QED
  BY <1>2, <1>3, <1>4, <1>5, <1>6, <1>7 DEF p

(* A handler that leaves the channel alone. *)
LEMMA ChannelKept ==
    ASSUME NEW x, NEW b, NEW r, NEW a, NEW y, Good(x, b, r, a), r # <<>>,
           Head(r).f # "do_bind", y \in Client, Steady(y),
           y.channel = x.channel, y.cmds = x.cmds, y.m_binds = x.m_binds, y.live = x.live,
           y.m_is_session_opend = x.m_is_session_opend, y.dangling = x.dangling
    PROVE  Good(y, b, Tail(r), a)
<1>1. /\ Types(x, b, Tail(r), a)
      /\ Has(Tail(r), Close) => "session" \in a.closed
      /\ Calm(a) => OneConnection(x, b, Tail(r), a)
      /\ Firsts(x, Tail(r), a)
  BY Taken
<1>2. Reach(x, b)
  BY DEF Good
<1>3. /\ Reach(y, b) /\ Firsts(y, Tail(r), a)
      /\ Calm(a) => OneConnection(y, b, Tail(r), a)
  BY <1>1, <1>2, ChannelAs
<1> QED
  BY <1>1, <1>3 DEF Good, Types

(* A channel that is neither opening nor open, without commands. *)
LEMMA ChannelOver ==
    ASSUME NEW y, NEW b, y.channel \notin {"opening", "open"}, y.cmds = <<>>
    PROVE  Reach(y, b)
<1>1. \A c : ~Has(y.cmds, c)
  <2>1. Len(y.cmds) = 0
    OBVIOUS
  <2> QED
    BY <2>1 DEF Has
<1> QED
  BY <1>1 DEF Reach

(* connect, in the loop: a new connection. *)
LEMMA ConnectRuns ==
    ASSUME NEW x, NEW b, NEW r, NEW a, Good(x, b, r, a), r # <<>>, Head(r) = Connect
    PROVE  Good(do_connect(x), b, Tail(r), a)
<1> DEFINE p == Tail(r)
           y == [x EXCEPT !.m_auto_reconnect = TRUE, !.m_is_connecting = TRUE,
                          !.m_timer = "armed", !.m_mq_handler = "FALSE",
                          !.channel = "opening", !.cmds = <<>>, !.live = {},
                          !.dangling = x.dangling \/ x.channel # "none"]
<1>1. /\ Types(x, b, p, a) /\ Has(r, Connect)
      /\ Once(r, Connect) => ~Has(p, Connect)
      /\ Has(p, Close) => "session" \in a.closed
      /\ Calm(a) => OneConnection(x, b, p, a)
      /\ Firsts(x, p, a)
  <2>1. Head(r).f # "do_bind"
    BY TaskIs
  <2> QED
    BY <2>1, Taken
<1>2. x \in Client /\ (Calm(a) => OneConnection(x, b, r, a))
  BY DEF Good, Types
<1> HIDE DEF p
<1>3. do_connect(x) = y
  <2>1. ~is_connected(x)
    BY <1>2 DEF is_connected, Client
  <2> QED
    BY <1>2, <2>1 DEF do_connect, register_timer, connect_mq, init, Client
<1>4. <<>> \in Seq(Commands)
  OBVIOUS
<1>5. /\ y \in Client /\ y.m_is_connecting /\ y.channel = "opening" /\ y.cmds = <<>>
      /\ y.live = {} /\ y.dangling = (x.dangling \/ x.channel # "none")
      /\ y.m_binds = x.m_binds /\ y.m_is_session_opend = x.m_is_session_opend
  BY <1>2, <1>4 DEF Client
<1> HIDE DEF y
<1>6. \A c : ~Has(y.cmds, c)
  <2>1. Len(y.cmds) = 0
    BY <1>5
  <2> QED
    BY <2>1 DEF Has
<1>7. Steady(y) /\ Reach(y, b)
  BY <1>5, <1>6 DEF Steady, Reach
<1>8. Firsts(y, p, a)
  BY <1>1, <1>5 DEF Firsts
<1>9. Calm(a) => OneConnection(y, b, p, a)
  <2> SUFFICES ASSUME Calm(a) PROVE OneConnection(y, b, p, a)
    OBVIOUS
  <2>1. OneConnection(x, b, r, a) /\ OneConnection(x, b, p, a)
    BY <1>1, <1>2
  <2>2. x.channel = "none" /\ ~Has(p, Connect) /\ a.connects # 0
    BY <1>1, <2>1 DEF OneConnection
  <2> QED
    BY <1>5, <2>1, <2>2 DEF OneConnection
<1>10. Good(y, b, p, a)
  BY <1>1, <1>5, <1>7, <1>8, <1>9 DEF Good, Types
<1> QED
  BY <1>3, <1>10 DEF p

(* close_client and on_timeout, in the loop: is_connected is never true,   *)
(* so the one closes no session and the other finds the attempt under way. *)
LEMMA WatchRuns ==
    ASSUME NEW x, NEW b, NEW r, NEW a, Good(x, b, r, a), r # <<>>
    PROVE  /\ Head(r).f = "do_close_client" => Good(do_close_client(x), b, Tail(r), a)
           /\ Head(r).f = "on_timeout" => Good(on_timeout(x), b, Tail(r), a)
<1>1. x \in Client /\ Steady(x) /\ ~is_connected(x)
  BY DEF Good, Types, Client, is_connected
<1>2. ASSUME Head(r).f = "do_close_client"
      PROVE  Good(do_close_client(x), b, Tail(r), a)
  <2> DEFINE y == [x EXCEPT !.m_auto_reconnect = FALSE, !.m_is_connecting = FALSE,
                            !.m_timer = "off"]
  <2>1. do_close_client(x) = y
    BY <1>1 DEF do_close_client, close_session, is_connected, Client
  <2>2. /\ y \in Client /\ ~y.m_auto_reconnect
        /\ y.channel = x.channel /\ y.cmds = x.cmds /\ y.m_binds = x.m_binds /\ y.live = x.live
        /\ y.m_is_session_opend = x.m_is_session_opend /\ y.dangling = x.dangling
    BY <1>1 DEF Client
  <2> HIDE DEF y
  <2>3. Steady(y)
    BY <1>1, <2>2 DEF Steady
  <2>4. Good(y, b, Tail(r), a)
    BY <1>2, <2>2, <2>3, ChannelKept
  <2> QED
    BY <2>1, <2>4
<1>3. ASSUME Head(r).f = "on_timeout"
      PROVE  Good(on_timeout(x), b, Tail(r), a)
  <2> DEFINE y == [x EXCEPT !.m_timer = "armed"]
  <2>1. on_timeout(x) = y
    <3>1. CASE x.m_is_connecting
      BY <1>1, <3>1 DEF on_timeout, register_timer, is_connected, Client
    <3>2. CASE ~x.m_is_connecting
      BY <1>1, <3>2 DEF on_timeout, register_timer, close_session, is_connected, Client, Steady
    <3> QED
      BY <3>1, <3>2
  <2>2. /\ y \in Client /\ y.m_auto_reconnect = x.m_auto_reconnect
        /\ y.m_is_connecting = x.m_is_connecting
        /\ y.channel = x.channel /\ y.cmds = x.cmds /\ y.m_binds = x.m_binds /\ y.live = x.live
        /\ y.m_is_session_opend = x.m_is_session_opend /\ y.dangling = x.dangling
    BY <1>1 DEF Client
  <2> HIDE DEF y
  <2>3. Steady(y)
    BY <1>1, <2>2 DEF Steady
  <2>4. Good(y, b, Tail(r), a)
    BY <1>3, <2>2, <2>3, ChannelKept
  <2> QED
    BY <2>1, <2>4
<1> QED
  BY <1>2, <1>3

(* close, in the loop: an open session is closed. *)
LEMMA CloseRuns ==
    ASSUME NEW x, NEW b, NEW r, NEW a, Good(x, b, r, a), r # <<>>, Head(r) = Close
    PROVE  Good(do_close(x), b, Tail(r), a)
<1>1. x \in Client /\ Steady(x)
  BY DEF Good, Types
<1>2. Head(r).f # "do_bind"
  BY TaskIs
<1>3. CASE ~x.m_is_session_opend
  <2>1. do_close(x) = x
    BY <1>3 DEF do_close
  <2>2. Good(x, b, Tail(r), a)
    BY <1>1, <1>2, ChannelKept
  <2> QED
    BY <2>1, <2>2
<1>4. CASE x.m_is_session_opend
  <2> DEFINE y == [x EXCEPT !.m_is_session_opend = FALSE, !.m_mq_handler = "null",
                            !.dangling = TRUE, !.channel = "closed", !.cmds = <<>>]
             p == Tail(r)
  <2>1. do_close(x) = y
    BY <1>4 DEF do_close
  <2>2. <<>> \in Seq(Commands)
    OBVIOUS
  <2>3. /\ y \in Client /\ y.m_auto_reconnect = x.m_auto_reconnect
        /\ y.m_is_connecting = x.m_is_connecting /\ y.channel = "closed" /\ y.cmds = <<>>
        /\ y.m_binds = x.m_binds
    BY <1>1, <2>2 DEF Client
  <2>4. /\ Types(x, b, p, a) /\ Firsts(x, p, a) /\ ~Calm(a)
        /\ Has(p, Close) => "session" \in a.closed
    BY <1>2, Taken
  <2> HIDE DEF y, p
  <2>5. Steady(y) /\ Firsts(y, p, a)
    BY <1>1, <2>3, <2>4 DEF Steady, Firsts
  <2>6. Reach(y, b)
    BY <2>3, ChannelOver
  <2>7. Good(y, b, p, a)
    BY <2>3, <2>4, <2>5, <2>6 DEF Good, Types
  <2> QED
    BY <2>1, <2>7 DEF p
<1> QED
  BY <1>3, <1>4

-----------------------------------------------------------------------------
(* Two commands at once. *)
LEMMA TwoCommands ==
    ASSUME NEW c \in Commands, NEW d \in Commands
    PROVE  LET p == <<c, d>>
           IN  p \in Seq(Commands) /\ Len(p) = 2 /\ p[1] = c /\ p[2] = d
  OBVIOUS

(* bind_one_exchange: the key is recorded unless the exchange is known, and *)
(* asked for at once on an open session.                                   *)
LEMMA BindFields ==
    ASSUME NEW x \in Client, NEW e \in Exchanges, NEW k \in Keys
    PROVE  LET y == bind_one_exchange(x, e, k)
               p == <<declareExchange(e, FALSE), bindQueue(e, k)>>
           IN  /\ y \in Client /\ DOMAIN y.m_binds = DOMAIN x.m_binds \cup {e}
               /\ \A d \in DOMAIN x.m_binds : y.m_binds[d] = x.m_binds[d]
               /\ e \notin DOMAIN x.m_binds => y.m_binds[e] = {k}
               /\ y.m_auto_reconnect = x.m_auto_reconnect
               /\ y.m_is_connecting = x.m_is_connecting /\ y.channel = x.channel
               /\ y.m_is_session_opend = x.m_is_session_opend /\ y.dangling = x.dangling
               /\ y.live = IF x.m_is_session_opend THEN x.live \cup {<<e, k>>} ELSE x.live
               /\ y.cmds = IF x.m_is_session_opend /\ x.channel \in {"opening", "open"}
                             THEN x.cmds \o p ELSE x.cmds
<1> DEFINE z == Insert(x, e, k)
           w == [z EXCEPT !.live = z.live \cup {<<e, k>>}]
           p == <<declareExchange(e, FALSE), bindQueue(e, k)>>
           y == Command(w, p)
<1>1. /\ z \in Client /\ DOMAIN z.m_binds = DOMAIN x.m_binds \cup {e}
      /\ \A d \in DOMAIN x.m_binds : z.m_binds[d] = x.m_binds[d]
      /\ e \notin DOMAIN x.m_binds => z.m_binds[e] = {k}
      /\ z.m_auto_reconnect = x.m_auto_reconnect
      /\ z.m_is_connecting = x.m_is_connecting /\ z.channel = x.channel
      /\ z.m_is_session_opend = x.m_is_session_opend /\ z.cmds = x.cmds
      /\ z.live = x.live /\ z.dangling = x.dangling
  BY InsertFields
<1>2. p \in Seq(Commands)
  <2>1. declareExchange(e, FALSE) \in Commands /\ bindQueue(e, k) \in Commands
    BY Kinds
  <2> QED
    BY <2>1, TwoCommands
<1>3. bind_one_exchange(x, e, k) = IF ~x.m_is_session_opend THEN z ELSE y
  BY <1>1 DEF bind_one_exchange, Client
<1> HIDE DEF z, p
<1>4. /\ w \in Client /\ w.live = z.live \cup {<<e, k>>} /\ w.cmds = z.cmds
      /\ w.m_auto_reconnect = z.m_auto_reconnect
      /\ w.m_is_connecting = z.m_is_connecting /\ w.channel = z.channel
      /\ w.m_is_session_opend = z.m_is_session_opend /\ w.m_binds = z.m_binds
      /\ w.dangling = z.dangling
  BY <1>1 DEF Client, Bindings
<1> HIDE DEF w
<1>5. /\ y \in Client
      /\ y.cmds = IF w.channel \in {"opening", "open"} THEN w.cmds \o p ELSE w.cmds
      /\ y.m_auto_reconnect = w.m_auto_reconnect
      /\ y.m_is_connecting = w.m_is_connecting /\ y.channel = w.channel
      /\ y.m_is_session_opend = w.m_is_session_opend /\ y.m_binds = w.m_binds
      /\ y.live = w.live /\ y.dangling = w.dangling
  BY <1>2, <1>4, CommandFields
<1> HIDE DEF y
<1>6. CASE x.m_is_session_opend
  BY <1>1, <1>3, <1>4, <1>5, <1>6, ZenonT(40) DEF p
<1>7. CASE ~x.m_is_session_opend
  BY <1>1, <1>3, <1>7 DEF p
<1> QED
  BY <1>6, <1>7

(* bind_exchange, in the loop. *)
LEMMA BindRuns ==
    ASSUME NEW x, NEW b, NEW r, NEW a, Good(x, b, r, a), r # <<>>,
           NEW e \in Exchanges, NEW k \in Keys, Head(r) = Bind(e, k)
    PROVE  Good(bind_one_exchange(x, e, k), b, Tail(r), a)
<1> DEFINE t == Tail(r)
           y == bind_one_exchange(x, e, k)
           p == <<declareExchange(e, FALSE), bindQueue(e, k)>>
<1>1. /\ Types(x, b, r, a) /\ Steady(x) /\ Reach(x, b) /\ Firsts(x, r, a)
      /\ x \in Client /\ r \in Seq(Tasks) /\ x.cmds \in Seq(Commands)
  BY DEF Good, Types, Client
<1>2. /\ Types(x, b, t, a) /\ Has(r, Bind(e, k))
      /\ \A c : Has(t, c) => Has(r, c)
      /\ Has(t, Close) => "session" \in a.closed
      /\ Calm(a) => OneConnection(x, b, t, a)
  BY Taken
<1>3. \A d, h : NextFor(r, d, h) =>
         \/ Bind(e, k) = Bind(d, h)
         \/ NextFor(t, d, h) /\ \A g \in Keys : Bind(e, k) # Bind(d, g)
  BY <1>1, TaskTaken
<1>4. /\ y \in Client /\ DOMAIN y.m_binds = DOMAIN x.m_binds \cup {e}
      /\ \A d \in DOMAIN x.m_binds : y.m_binds[d] = x.m_binds[d]
      /\ e \notin DOMAIN x.m_binds => y.m_binds[e] = {k}
      /\ y.m_auto_reconnect = x.m_auto_reconnect
      /\ y.m_is_connecting = x.m_is_connecting /\ y.channel = x.channel
      /\ y.m_is_session_opend = x.m_is_session_opend /\ y.dangling = x.dangling
      /\ y.live = IF x.m_is_session_opend THEN x.live \cup {<<e, k>>} ELSE x.live
      /\ y.cmds = IF x.m_is_session_opend /\ x.channel \in {"opening", "open"}
                    THEN x.cmds \o p ELSE x.cmds
  BY <1>1, BindFields
<1>5. /\ p \in Seq(Commands) /\ Len(p) = 2
      /\ p[1] = declareExchange(e, FALSE) /\ p[2] = bindQueue(e, k)
  <2>1. declareExchange(e, FALSE) \in Commands /\ bindQueue(e, k) \in Commands
    BY Kinds
  <2> QED
    BY <2>1, TwoCommands
<1> HIDE DEF t, y, p
<1>6. \A c : Has(p, c) <=> c = declareExchange(e, FALSE) \/ c = bindQueue(e, k)
  <2>1. 1 .. Len(p) = {1, 2}
    BY <1>5
  <2> QED
    BY <1>5, <2>1 DEF Has
<1>7. \A c : Has(x.cmds \o p, c) <=> Has(x.cmds, c) \/ Has(p, c)
  BY <1>1, <1>5, CommandsAdded
<1>8. /\ \A c : Has(x.cmds, c) => Has(y.cmds, c)
      /\ \A c : Has(y.cmds, c) => Has(x.cmds, c) \/ c = declareExchange(e, FALSE) \/ c = bindQueue(e, k)
      /\ x.m_is_session_opend /\ x.channel \in {"opening", "open"} => Has(y.cmds, bindQueue(e, k))
  BY <1>4, <1>6, <1>7
<1>9. \A d, h : Coming(x, b, d, h) => Coming(y, b, d, h)
  BY <1>8 DEF Coming
<1>10. Steady(y)
  BY <1>1, <1>4 DEF Steady
<1>11. Reach(y, b)
  <2>1. ASSUME y.channel \in {"opening", "open"}, NEW d \in Exchanges, NEW h \in Keys, <<d, h>> \in y.live
        PROVE  Coming(y, b, d, h)
    <3>1. CASE <<d, h>> \in x.live
      BY <1>1, <1>4, <1>9, <2>1, <3>1 DEF Reach
    <3>2. CASE <<d, h>> \notin x.live
      <4>1. x.m_is_session_opend /\ d = e /\ h = k
        BY <1>4, <2>1, <3>2
      <4> QED
        BY <1>4, <1>8, <2>1, <4>1 DEF Coming
    <3> QED
      BY <3>1, <3>2
  <2>2. ASSUME y.channel = "open", NEW d \in DOMAIN y.m_binds
        PROVE  \/ Has(y.cmds, declareQueue)
               \/ Has(y.cmds, declareExchange(d, TRUE))
               \/ \A h \in y.m_binds[d] : Coming(y, b, d, h)
    <3>1. CASE d \in DOMAIN x.m_binds
      <4>1. \/ Has(x.cmds, declareQueue)
            \/ Has(x.cmds, declareExchange(d, TRUE))
            \/ \A h \in x.m_binds[d] : Coming(x, b, d, h)
        BY <1>1, <1>4, <2>2, <3>1 DEF Reach
      <4> QED
        BY <1>4, <1>8, <1>9, <3>1, <4>1
    <3>2. CASE d \notin DOMAIN x.m_binds
      <4>1. d = e /\ y.m_binds[d] = {k}
        BY <1>4, <3>2
      <4>2. Coming(y, b, e, k)
        BY <1>1, <1>4, <1>8, <2>2 DEF Steady, Coming
      <4> QED
        BY <4>1, <4>2
    <3> QED
      BY <3>1, <3>2
  <2>3. ASSUME NEW d \in Exchanges, Has(y.cmds, declareExchange(d, TRUE))
        PROVE  d \in DOMAIN y.m_binds
    <3>1. declareExchange(d, TRUE) # declareExchange(e, FALSE) /\ declareExchange(d, TRUE) # bindQueue(e, k)
      BY Kinds
    <3>2. Has(x.cmds, declareExchange(d, TRUE))
      BY <1>8, <2>3, <3>1
    <3> QED
      BY <1>1, <1>4, <3>2 DEF Reach
  <2> QED
    BY <2>1, <2>2, <2>3 DEF Reach
<1>12. Firsts(y, t, a)
  <2>1. ASSUME NEW d \in Exchanges, NEW h \in Keys, <<d, h>> \in a.first
        PROVE  IF d \in DOMAIN y.m_binds THEN h \in y.m_binds[d] ELSE NextFor(t, d, h)
    <3>1. CASE d \in DOMAIN x.m_binds
      BY <1>1, <1>4, <2>1, <3>1 DEF Firsts
    <3>2. CASE d \notin DOMAIN x.m_binds
      <4>1. NextFor(r, d, h)
        BY <1>1, <2>1, <3>2 DEF Firsts
      <4>2. CASE Bind(e, k) = Bind(d, h)
        <5>1. d = e /\ h = k
          <6>1. Bind(e, k).e = e /\ Bind(e, k).k = k /\ Bind(d, h).e = d /\ Bind(d, h).k = h
            BY TaskIs
          <6> QED
            BY <4>2, <6>1
        <5> QED
          BY <1>4, <3>2, <5>1
      <4>3. CASE NextFor(t, d, h) /\ \A g \in Keys : Bind(e, k) # Bind(d, g)
        <5>1. d # e
          BY <4>3
        <5> QED
          BY <1>4, <3>2, <4>3, <5>1
      <4> QED
        BY <1>3, <4>1, <4>2, <4>3
    <3> QED
      BY <3>1, <3>2
  <2>2. \A d \in Exchanges, h \in Keys : Has(t, Bind(d, h)) => AskedFor(a, d)
    BY <1>1, <1>2 DEF Firsts
  <2>3. AskedFor(a, e)
    BY <1>1, <1>2 DEF Firsts
  <2>4. \A d \in DOMAIN y.m_binds : AskedFor(a, d)
    BY <1>1, <1>4, <2>3 DEF Firsts
  <2>5. DOMAIN Config \subseteq DOMAIN y.m_binds
    BY <1>1, <1>4 DEF Firsts
  <2> QED
    BY <2>1, <2>2, <2>4, <2>5 DEF Firsts
<1>13. Calm(a) => OneConnection(y, b, t, a)
  <2> SUFFICES ASSUME Calm(a) PROVE OneConnection(y, b, t, a)
    OBVIOUS
  <2>1. OneConnection(x, b, t, a)
    BY <1>2
  <2>2. x.channel \in {"none", "opening"} => y.cmds = <<>> /\ ~y.m_is_session_opend
    BY <1>4, <2>1 DEF OneConnection
  <2>3. ASSUME y.channel = "open"
        PROVE  (b.queue \/ Has(y.cmds, declareQueue)) /\ Sorted(y.cmds, b)
    <3>1. x.channel = "open" /\ y.cmds = x.cmds \o p
      BY <1>1, <1>4, <2>3 DEF Steady
    <3>2. Sorted(x.cmds, b) /\ (b.queue \/ Has(x.cmds, declareQueue))
      BY <2>1, <3>1 DEF OneConnection
    <3>3. ASSUME NEW i \in 1 .. Len(p), NEW d \in Exchanges, NEW h \in Keys, p[i] = bindQueue(d, h)
          PROVE  \E j \in 1 .. i - 1, f \in BOOLEAN : p[j] = declareExchange(d, f)
      <4>1. i = 1 \/ i = 2
        BY <1>5
      <4>2. i = 2 /\ bindQueue(e, k) = bindQueue(d, h)
        <5>1. i # 1
          <6>1. bindQueue(d, h) # declareExchange(e, FALSE)
            BY Kinds
          <6> QED
            BY <1>5, <3>3, <6>1
        <5>2. i = 2
          BY <4>1, <5>1
        <5> QED
          BY <1>5, <3>3, <5>2
      <4>3. d = e
        BY <4>2, Kinds
      <4>4. 1 \in 1 .. i - 1 /\ p[1] = declareExchange(d, FALSE) /\ FALSE \in BOOLEAN
        BY <1>5, <4>2, <4>3
      <4> QED
        BY <4>4
    <3>4. Sorted(x.cmds \o p, b)
      BY <1>1, <1>5, <3>2, <3>3, CommandsAdded
    <3> QED
      BY <1>8, <3>1, <3>2, <3>4
  <2> QED
    BY <1>4, <2>1, <2>2, <2>3 DEF OneConnection
<1>14. Good(y, b, t, a)
  BY <1>2, <1>4, <1>10, <1>11, <1>12, <1>13 DEF Good, Types
<1> QED
  BY <1>14 DEF y, t

(* The loop runs a task. *)
LEMMA RunPreserves ==
    ASSUME IInv, run
    PROVE  IInv'
<1> DEFINE t == Head(ready)
<1>1. Good(m, broker, ready, calls) /\ ready # <<>>
  BY DEF IInv, run
<1>2. t \in Tasks
  BY <1>1, Taken
<1>3. broker' = broker /\ calls' = calls /\ ready' = Tail(ready)
  BY DEF run
<1>4. /\ t.f = "do_bind" => t.e \in Exchanges /\ t.k \in Keys /\ t = Bind(t.e, t.k)
      /\ t.f = "do_connect" => t = Connect
      /\ t.f = "do_close" => t = Close
      /\ t.f \in {"do_bind", "do_connect", "do_close", "do_close_client", "on_timeout"}
  BY <1>2, TaskIs
<1>5. /\ t.f = "do_connect"      => m' = do_connect(m)
      /\ t.f = "do_bind"         => m' = bind_one_exchange(m, t.e, t.k)
      /\ t.f = "do_close_client" => m' = do_close_client(m)
      /\ t.f = "do_close"        => m' = do_close(m)
      /\ t.f = "on_timeout"      => m' = on_timeout(m)
  BY DEF run
<1>6. Good(m', broker, Tail(ready), calls)
  <2>1. CASE t.f = "do_connect"
    BY <1>1, <1>4, <1>5, <2>1, ConnectRuns
  <2>2. CASE t.f = "do_bind"
    BY <1>1, <1>4, <1>5, <2>2, BindRuns
  <2>3. CASE t.f = "do_close_client"
    BY <1>1, <1>5, <2>3, WatchRuns
  <2>4. CASE t.f = "do_close"
    BY <1>1, <1>4, <1>5, <2>4, CloseRuns
  <2>5. CASE t.f = "on_timeout"
    BY <1>1, <1>5, <2>5, WatchRuns
  <2> QED
    BY <1>4, <2>1, <2>2, <2>3, <2>4, <2>5
<1> QED
  BY <1>3, <1>6 DEF IInv

-----------------------------------------------------------------------------
(* The same queue of tasks, and a channel of the same connection. *)
LEMMA SameTasks ==
    ASSUME NEW x, NEW b, NEW r, NEW a, NEW y, NEW d, Good(x, b, r, a),
           y \in Client, d \in Broker, Steady(y), Reach(y, d), y.m_binds = x.m_binds,
           Calm(a) => /\ x.channel # "none" /\ y.channel \in {"open", "lost"}
                      /\ y.dangling = x.dangling
                      /\ y.channel = "open" => /\ d.queue \/ Has(y.cmds, declareQueue)
                                               /\ Sorted(y.cmds, d)
    PROVE  Good(y, d, r, a)
<1>1. /\ Types(x, b, r, a) /\ Firsts(x, r, a)
      /\ Has(r, Close) => "session" \in a.closed
      /\ Calm(a) => OneConnection(x, b, r, a)
  BY DEF Good
<1>2. Firsts(y, r, a)
  BY <1>1 DEF Firsts
<1>3. Calm(a) => OneConnection(y, d, r, a)
  BY <1>1 DEF OneConnection
<1> QED
  BY <1>1, <1>2, <1>3 DEF Good, Types

(* binding_exchange: every known exchange is declared. *)
LEMMA BindingExchange ==
    ASSUME NEW x \in Client, NEW y \in binding_exchange(x), x.channel = "open"
    PROVE  /\ y \in Client /\ y.channel = "open"
           /\ y.m_auto_reconnect = x.m_auto_reconnect
           /\ y.m_is_connecting = x.m_is_connecting
           /\ y.m_is_session_opend = x.m_is_session_opend /\ y.m_binds = x.m_binds
           /\ y.live = x.live /\ y.dangling = x.dangling
           /\ \A c : Has(y.cmds, c) <=>
                 Has(x.cmds, c) \/ \E e \in DOMAIN x.m_binds : c = declareExchange(e, TRUE)
           /\ \A b : Sorted(x.cmds, b) => Sorted(y.cmds, b)
<1>1. PICK es \in SetToSeqs(DOMAIN x.m_binds) :
         y = Command(x, [i \in DOMAIN es |-> declareExchange(es[i], TRUE)])
  BY DEF binding_exchange
<1> DEFINE p == [i \in DOMAIN es |-> declareExchange(es[i], TRUE)]
<1>2. DOMAIN x.m_binds \in SUBSET Exchanges /\ x.cmds \in Seq(Commands)
  BY KnownIs DEF Client
<1>3. /\ p \in Seq(Commands)
      /\ \A c : Has(p, c) <=> \E e \in DOMAIN x.m_binds : c = declareExchange(e, TRUE)
  BY <1>2, ExchangeCommands
<1>4. y = Command(x, p)
  BY <1>1
<1> HIDE DEF p
<1>5. /\ y \in Client /\ y.cmds = x.cmds \o p
      /\ y.m_auto_reconnect = x.m_auto_reconnect
      /\ y.m_is_connecting = x.m_is_connecting /\ y.channel = x.channel
      /\ y.m_is_session_opend = x.m_is_session_opend /\ y.m_binds = x.m_binds
      /\ y.live = x.live /\ y.dangling = x.dangling
  BY <1>3, <1>4, CommandFields
<1>6. \A c : Has(x.cmds \o p, c) <=> Has(x.cmds, c) \/ Has(p, c)
  BY <1>2, <1>3, CommandsAdded
<1>7. ASSUME NEW b, Sorted(x.cmds, b)
      PROVE  Sorted(x.cmds \o p, b)
  <2>1. \A i \in 1 .. Len(p) : \A e \in Exchanges, k \in Keys : p[i] # bindQueue(e, k)
    <3>1. ASSUME NEW i \in 1 .. Len(p), NEW e \in Exchanges, NEW k \in Keys, p[i] = bindQueue(e, k)
          PROVE  FALSE
      <4>1. Has(p, bindQueue(e, k))
        BY <3>1 DEF Has
      <4>2. PICK d \in DOMAIN x.m_binds : bindQueue(e, k) = declareExchange(d, TRUE)
        BY <1>3, <4>1
      <4> QED
        BY <4>2, Kinds
    <3> QED
      BY <3>1
  <2> QED
    BY <1>2, <1>3, <1>7, <2>1, CommandsAdded
<1>8. \A c : Has(y.cmds, c) <=>
         Has(x.cmds, c) \/ \E e \in DOMAIN x.m_binds : c = declareExchange(e, TRUE)
  BY <1>3, <1>5, <1>6
<1> QED
  BY <1>5, <1>7, <1>8

(* The channel opens: the queue is declared, then the exchanges. *)
LEMMA ReadyPreserves ==
    ASSUME IInv, channel_ready
    PROVE  IInv'
<1> DEFINE x == m
           z == [m EXCEPT !.m_mq_handler = "FALSE", !.channel = "open", !.m_is_session_opend = TRUE]
           q == <<declareQueue>>
           w == Command(z, q)
           y == m'
<1>1. /\ Good(x, broker, ready, calls) /\ x \in Client /\ Steady(x) /\ Reach(x, broker)
      /\ broker \in Broker /\ x.cmds \in Seq(Commands)
      /\ Calm(calls) => OneConnection(x, broker, ready, calls)
  BY DEF IInv, Good, Types, Client
<1>2. /\ x.channel = "opening" /\ y \in binding_exchange(w)
      /\ broker' = broker /\ ready' = ready /\ calls' = calls
  BY DEF channel_ready
<1>3. /\ z \in Client /\ z.channel = "open" /\ z.m_is_session_opend = TRUE /\ z.cmds = x.cmds
      /\ z.m_auto_reconnect = x.m_auto_reconnect
      /\ z.m_is_connecting = x.m_is_connecting /\ z.m_binds = x.m_binds
      /\ z.live = x.live /\ z.dangling = x.dangling
  BY <1>1 DEF Client
<1>4. q \in Seq(Commands) /\ Len(q) = 1 /\ q[1] = declareQueue
  <2>1. declareQueue \in Commands
    BY Kinds
  <2> QED
    BY <2>1
<1> HIDE DEF z, q
<1>5. /\ w \in Client /\ w.cmds = z.cmds \o q
      /\ w.m_auto_reconnect = z.m_auto_reconnect
      /\ w.m_is_connecting = z.m_is_connecting /\ w.channel = z.channel
      /\ w.m_is_session_opend = z.m_is_session_opend /\ w.m_binds = z.m_binds
      /\ w.live = z.live /\ w.dangling = z.dangling
  BY <1>3, <1>4, CommandFields
<1> HIDE DEF w, y
<1>6. \A c : Has(w.cmds, c) <=> Has(x.cmds, c) \/ c = declareQueue
  <2>1. \A c : Has(q, c) <=> c = declareQueue
    BY <1>4 DEF Has
  <2>2. \A c : Has(x.cmds \o q, c) <=> Has(x.cmds, c) \/ Has(q, c)
    BY <1>1, <1>4, CommandsAdded
  <2> QED
    BY <1>3, <1>5, <2>1, <2>2
<1>7. /\ y \in Client /\ y.channel = "open"
      /\ y.m_auto_reconnect = w.m_auto_reconnect
      /\ y.m_is_connecting = w.m_is_connecting
      /\ y.m_is_session_opend = w.m_is_session_opend /\ y.m_binds = w.m_binds
      /\ y.live = w.live /\ y.dangling = w.dangling
      /\ \A c : Has(y.cmds, c) <=>
            Has(w.cmds, c) \/ \E e \in DOMAIN w.m_binds : c = declareExchange(e, TRUE)
      /\ \A b : Sorted(w.cmds, b) => Sorted(y.cmds, b)
  <2>1. w.channel = "open"
    BY <1>3, <1>5
  <2> QED
    BY <1>2, <1>5, <2>1, BindingExchange
<1>8. Steady(y)
  BY <1>1, <1>3, <1>5, <1>7 DEF Steady
<1>9. Reach(y, broker)
  <2>1. \A e, k : Coming(x, broker, e, k) => Coming(y, broker, e, k)
    BY <1>6, <1>7 DEF Coming
  <2>2. \A e \in Exchanges, k \in Keys : <<e, k>> \in y.live => Coming(y, broker, e, k)
    BY <1>1, <1>2, <1>3, <1>5, <1>7, <2>1 DEF Reach
  <2>3. Has(y.cmds, declareQueue)
    BY <1>6, <1>7
  <2>4. ASSUME NEW e \in Exchanges, Has(y.cmds, declareExchange(e, TRUE))
        PROVE  e \in DOMAIN y.m_binds
    <3>1. declareExchange(e, TRUE) # declareQueue
      BY Kinds
    <3>2. \/ Has(x.cmds, declareExchange(e, TRUE))
          \/ \E d \in DOMAIN w.m_binds : declareExchange(e, TRUE) = declareExchange(d, TRUE)
      BY <1>6, <1>7, <2>4, <3>1
    <3>3. CASE Has(x.cmds, declareExchange(e, TRUE))
      BY <1>1, <1>3, <1>5, <1>7, <3>3 DEF Reach
    <3>4. ASSUME NEW d \in DOMAIN w.m_binds, declareExchange(e, TRUE) = declareExchange(d, TRUE)
          PROVE  e \in DOMAIN y.m_binds
      <4>1. e = d
        BY <3>4, Kinds
      <4> QED
        BY <1>7, <4>1
    <3> QED
      BY <3>2, <3>3, <3>4
  <2> QED
    BY <2>2, <2>3, <2>4 DEF Reach
<1>10. Calm(calls) => Sorted(y.cmds, broker)
  <2> SUFFICES ASSUME Calm(calls) PROVE Sorted(y.cmds, broker)
    OBVIOUS
  <2>1. x.cmds = <<>>
    BY <1>1, <1>2 DEF OneConnection
  <2>2. \A c : Has(w.cmds, c) => c = declareQueue
    <3>1. Len(x.cmds) = 0
      BY <2>1
    <3>2. \A c : ~Has(x.cmds, c)
      BY <3>1 DEF Has
    <3> QED
      BY <1>6, <3>2
  <2>3. ASSUME NEW i \in 1 .. Len(w.cmds), NEW e \in Exchanges, NEW k \in Keys,
               w.cmds[i] = bindQueue(e, k)
        PROVE  FALSE
    <3>1. Has(w.cmds, bindQueue(e, k))
      BY <2>3 DEF Has
    <3>2. bindQueue(e, k) # declareQueue
      BY Kinds
    <3> QED
      BY <2>2, <3>1, <3>2
  <2>4. Sorted(w.cmds, broker)
    BY <2>3 DEF Sorted
  <2> QED
    BY <1>7, <2>4
<1>11. Has(y.cmds, declareQueue)
  BY <1>6, <1>7
<1>12. Good(y, broker, ready, calls)
  BY <1>1, <1>2, <1>3, <1>5, <1>7, <1>8, <1>9, <1>10, <1>11, SameTasks
<1> QED
  BY <1>2, <1>12 DEF IInv, y

(* The connection is lost, with the broker or not. *)
LEMMA LosePreserves ==
    ASSUME IInv, NEW restart \in BOOLEAN, lose(restart)
    PROVE  IInv'
<1> DEFINE y == [m EXCEPT !.m_mq_handler = "FALSE", !.channel = "lost", !.cmds = <<>>]
           n == IF restart THEN calls.restarts + 1 ELSE calls.restarts
           a2 == [calls EXCEPT !.restarts = n]
<1>1. /\ Good(m, broker, ready, calls) /\ m \in Client /\ Steady(m)
      /\ broker \in Broker /\ calls \in Made
  BY DEF IInv, Good, Types
<1>2. /\ m.channel \in {"opening", "open", "error"} /\ m' = y /\ calls' = a2 /\ ready' = ready
      /\ broker' = IF restart THEN [queue |-> FALSE, exchanges |-> {}, bound |-> {}] ELSE broker
  BY <1>1 DEF lose, Made
<1>3. broker' \in Broker
  BY <1>1, <1>2 DEF Broker, Bindings
<1>4. <<>> \in Seq(Commands)
  OBVIOUS
<1>5. /\ y \in Client /\ y.channel = "lost" /\ y.cmds = <<>> /\ y.m_binds = m.m_binds
      /\ y.dangling = m.dangling /\ y.m_auto_reconnect = m.m_auto_reconnect
      /\ y.m_is_connecting = m.m_is_connecting
  BY <1>1, <1>4 DEF Client
<1>6. n \in Nat
  BY <1>1 DEF Made
<1> HIDE DEF n
<1>7. /\ a2 \in Made /\ a2.first = calls.first /\ a2.closed = calls.closed
      /\ a2.connects = calls.connects
  BY <1>1, <1>6 DEF Made
<1> HIDE DEF y, a2
<1>8. Steady(y)
  BY <1>1, <1>5 DEF Steady
<1>9. Reach(y, broker')
  BY <1>5, ChannelOver
<1>10. Good(y, broker', ready, calls)
  BY <1>1, <1>2, <1>3, <1>5, <1>8, <1>9, SameTasks
<1>11. Good(y, broker', ready, a2)
  BY <1>7, <1>10 DEF Good, Types, Firsts, AskedFor, Calm, OneConnection
<1> QED
  BY <1>2, <1>11 DEF IInv

-----------------------------------------------------------------------------
(* The broker answers the first command of an open channel. *)
LEMMA AnswerPreserves ==
    ASSUME IInv, answer
    PROVE  IInv'
<1> DEFINE q == m.cmds
           c == Head(q)
           x == [m EXCEPT !.cmds = Tail(q)]
           y == m'
           d == broker'
<1>1. /\ Good(m, broker, ready, calls) /\ m \in Client /\ Steady(m) /\ Reach(m, broker)
      /\ broker \in Broker /\ q \in Seq(Commands)
      /\ Calm(calls) => OneConnection(m, broker, ready, calls)
  BY DEF IInv, Good, Types, Client
<1>2. m.channel = "open" /\ q # <<>> /\ ready' = ready /\ calls' = calls
  BY DEF answer
<1>3. \/ c.c = "queue" /\ d = [broker EXCEPT !.queue = TRUE] /\ y \in binding_exchange(x)
      \/ /\ c.c = "exchange" /\ d = [broker EXCEPT !.exchanges = broker.exchanges \cup {c.e}]
         /\ y = IF ~c.then THEN x
                ELSE Command(x, [i \in DOMAIN SetToSeq(m.m_binds[c.e]) |->
                                   bindQueue(c.e, SetToSeq(m.m_binds[c.e])[i])])
      \/ /\ c.c = "bind" /\ d = [broker EXCEPT !.bound = broker.bound \cup {<<c.e, c.k>>}]
         /\ y = x
      \/ /\ c.c = "bind" /\ ~(broker.queue /\ c.e \in broker.exchanges)
         /\ y = [x EXCEPT !.channel = "error", !.cmds = <<>>] /\ d = broker
  BY <1>1 DEF answer, Client, Broker
<1>4. /\ c \in Commands /\ Tail(q) \in Seq(Commands)
      /\ \A g : Has(q, g) <=> c = g \/ Has(Tail(q), g)
      /\ \A b : Sorted(q, b) =>
            \A e \in Exchanges, k \in Keys :
               c = bindQueue(e, k) => b.queue /\ e \in b.exchanges
      /\ \A b, g : /\ Sorted(q, b)
                   /\ b.queue \/ c = declareQueue => g.queue
                   /\ b.exchanges \subseteq g.exchanges
                   /\ \A e \in Exchanges, f \in BOOLEAN :
                         c = declareExchange(e, f) => e \in g.exchanges
                   => Sorted(Tail(q), g)
  BY <1>1, <1>2, CommandAnswered
<1>5. /\ x \in Client /\ x.cmds = Tail(q) /\ x.channel = "open"
      /\ x.m_auto_reconnect = m.m_auto_reconnect
      /\ x.m_is_connecting = m.m_is_connecting
      /\ x.m_is_session_opend = m.m_is_session_opend /\ x.m_binds = m.m_binds
      /\ x.live = m.live /\ x.dangling = m.dangling
  BY <1>1, <1>2, <1>4 DEF Client
<1>6. /\ c.c = "queue" => c = declareQueue
      /\ c.c = "exchange" => c.e \in Exchanges /\ c.then \in BOOLEAN /\ c = declareExchange(c.e, c.then)
      /\ c.c = "bind" => c.e \in Exchanges /\ c.k \in Keys /\ c = bindQueue(c.e, c.k)
  BY <1>4, CommandIs
<1>7. Calm(calls) => Sorted(q, broker) /\ (broker.queue \/ Has(q, declareQueue))
  BY <1>1, <1>2 DEF OneConnection
<1>8. DOMAIN m.m_binds \subseteq Exchanges /\ m.m_binds \in [DOMAIN m.m_binds -> SUBSET Keys]
  BY <1>1, KnownIs DEF Client
<1>9. /\ \A e \in Exchanges, k \in Keys : <<e, k>> \in m.live => Coming(m, broker, e, k)
      /\ \A e \in DOMAIN m.m_binds :
            \/ Has(q, declareQueue)
            \/ Has(q, declareExchange(e, TRUE))
            \/ \A k \in m.m_binds[e] : Coming(m, broker, e, k)
      /\ \A e \in Exchanges : Has(q, declareExchange(e, TRUE)) => e \in DOMAIN m.m_binds
  BY <1>1, <1>2 DEF Reach
<1>10. /\ Steady(x)
       /\ \A e, k : Coming(m, broker, e, k) <=> <<e, k>> \in broker.bound \/ Has(q, bindQueue(e, k))
  BY <1>1, <1>2, <1>5 DEF Steady, Coming
<1> HIDE DEF x, y, d, q, c
(* queue_success_call: the exchanges are declared. *)
<1>11. CASE c.c = "queue" /\ d = [broker EXCEPT !.queue = TRUE] /\ y \in binding_exchange(x)
  <2>1. c = declareQueue
    BY <1>6, <1>11
  <2>2. d \in Broker /\ d.queue = TRUE /\ d.exchanges = broker.exchanges /\ d.bound = broker.bound
    BY <1>1, <1>11 DEF Broker
  <2>3. /\ y \in Client /\ y.channel = "open"
        /\ y.m_auto_reconnect = x.m_auto_reconnect
        /\ y.m_is_connecting = x.m_is_connecting
        /\ y.m_is_session_opend = x.m_is_session_opend /\ y.m_binds = x.m_binds
        /\ y.live = x.live /\ y.dangling = x.dangling
        /\ \A g : Has(y.cmds, g) <=>
              Has(x.cmds, g) \/ \E e \in DOMAIN x.m_binds : g = declareExchange(e, TRUE)
        /\ \A b : Sorted(x.cmds, b) => Sorted(y.cmds, b)
    BY <1>5, <1>11, BindingExchange
  <2>4. Steady(y)
    BY <1>5, <1>10, <2>3 DEF Steady
  <2>5. \A e, k : Coming(m, broker, e, k) => Coming(y, d, e, k)
    <3>1. \A e, k : c # bindQueue(e, k)
      BY <2>1, Kinds
    <3> QED
      BY <1>4, <1>5, <1>10, <2>2, <2>3, <3>1 DEF Coming
  <2>6. Reach(y, d)
    <3>1. \A e \in Exchanges, k \in Keys : <<e, k>> \in y.live => Coming(y, d, e, k)
      BY <1>5, <1>9, <2>3, <2>5
    <3>2. \A e \in DOMAIN y.m_binds : Has(y.cmds, declareExchange(e, TRUE))
      BY <2>3
    <3>3. ASSUME NEW e \in Exchanges, Has(y.cmds, declareExchange(e, TRUE))
          PROVE  e \in DOMAIN y.m_binds
      <4>1. CASE Has(q, declareExchange(e, TRUE))
        BY <1>5, <1>9, <2>3, <4>1
      <4>2. ASSUME NEW g \in DOMAIN x.m_binds, declareExchange(e, TRUE) = declareExchange(g, TRUE)
            PROVE  e \in DOMAIN y.m_binds
        <5>1. e = g
          BY <4>2, Kinds
        <5> QED
          BY <2>3, <5>1
      <4> QED
        BY <1>4, <1>5, <2>3, <3>3, <4>1, <4>2
    <3> QED
      BY <3>1, <3>2, <3>3 DEF Reach
  <2>7. Calm(calls) => Sorted(y.cmds, d)
    <3>1. \A e, f : c # declareExchange(e, f)
      BY <2>1, Kinds
    <3>2. Calm(calls) => Sorted(Tail(q), d)
      BY <1>4, <1>7, <2>2, <3>1
    <3> QED
      BY <1>5, <2>3, <3>2
  <2>8. Good(y, d, ready, calls)
    BY <1>1, <1>2, <1>5, <2>2, <2>3, <2>4, <2>6, <2>7, SameTasks
  <2> QED
    BY <1>2, <2>8 DEF IInv, y, d
(* exchange_success_call: the keys that m_binds has for it are bound. *)
<1>12. ASSUME c.c = "exchange", d = [broker EXCEPT !.exchanges = broker.exchanges \cup {c.e}],
              y = IF ~c.then THEN x
                  ELSE Command(x, [i \in DOMAIN SetToSeq(m.m_binds[c.e]) |->
                                     bindQueue(c.e, SetToSeq(m.m_binds[c.e])[i])])
       PROVE  IInv'
  <2>1. c.e \in Exchanges /\ c.then \in BOOLEAN /\ c = declareExchange(c.e, c.then)
    BY <1>6, <1>12
  <2>2. /\ d \in Broker /\ d.queue = broker.queue /\ d.bound = broker.bound
        /\ d.exchanges = broker.exchanges \cup {c.e}
    BY <1>1, <1>12, <2>1 DEF Broker
  <2>3. (\A e, k : c # bindQueue(e, k)) /\ c # declareQueue
    BY <2>1, Kinds
  <2>4. ASSUME NEW e, NEW f, c = declareExchange(e, f)
        PROVE  e = c.e /\ f = c.then
    BY <2>1, <2>4, Kinds
  <2>5. Calm(calls) => Sorted(Tail(q), d) /\ (d.queue \/ Has(Tail(q), declareQueue))
    BY <1>4, <1>7, <2>2, <2>3, <2>4
  <2>6. \A e, k : Coming(m, broker, e, k) => <<e, k>> \in d.bound \/ Has(Tail(q), bindQueue(e, k))
    BY <1>4, <1>10, <2>2, <2>3
  <2>7. CASE ~c.then
    <3>1. y = x
      BY <1>12, <2>7
    <3>2. \A e : c # declareExchange(e, TRUE)
      BY <2>1, <2>4, <2>7
    <3>3. \A g : Has(y.cmds, g) <=> Has(Tail(q), g)
      BY <1>5, <3>1
    <3>4. \A e, k : Coming(m, broker, e, k) => Coming(y, d, e, k)
      BY <2>6, <3>3 DEF Coming
    <3>5. Reach(y, d)
      BY <1>4, <1>5, <1>9, <2>3, <3>1, <3>2, <3>3, <3>4 DEF Reach
    <3>6. Good(y, d, ready, calls)
      BY <1>1, <1>2, <1>5, <1>10, <2>2, <2>5, <3>1, <3>5, SameTasks
    <3> QED
      BY <1>2, <3>6 DEF IInv, y, d
  <2>8. CASE c.then
    <3> DEFINE K == m.m_binds[c.e]
               e0 == c.e
               p == [i \in DOMAIN SetToSeq(K) |-> bindQueue(e0, SetToSeq(K)[i])]
    <3>1. c = declareExchange(e0, TRUE) /\ e0 \in Exchanges
      BY <2>1, <2>8
    <3>2. e0 \in DOMAIN m.m_binds /\ K \in SUBSET Keys
      <4>1. Has(q, declareExchange(e0, TRUE))
        BY <1>4, <3>1
      <4>2. e0 \in DOMAIN m.m_binds
        BY <1>9, <3>1, <4>1
      <4> QED
        BY <1>8, <4>2
    <3>3. y = Command(x, p)
      BY <1>12, <2>8
    <3> HIDE DEF K, e0
    <3>4. /\ p \in Seq(Commands)
          /\ \A g : Has(p, g) <=> \E k \in K : g = bindQueue(e0, k)
      BY <3>1, <3>2, BindCommands
    <3> HIDE DEF p
    <3>5. /\ y \in Client /\ y.cmds = Tail(q) \o p /\ y.channel = "open"
          /\ y.m_auto_reconnect = x.m_auto_reconnect
          /\ y.m_is_connecting = x.m_is_connecting
          /\ y.m_is_session_opend = x.m_is_session_opend /\ y.m_binds = x.m_binds
          /\ y.live = x.live /\ y.dangling = x.dangling
      <4>1. /\ Command(x, p) \in Client
            /\ Command(x, p).cmds = IF x.channel \in {"opening", "open"} THEN x.cmds \o p ELSE x.cmds
            /\ Command(x, p).m_auto_reconnect = x.m_auto_reconnect
            /\ Command(x, p).m_is_connecting = x.m_is_connecting /\ Command(x, p).channel = x.channel
            /\ Command(x, p).m_is_session_opend = x.m_is_session_opend
            /\ Command(x, p).m_binds = x.m_binds
            /\ Command(x, p).live = x.live /\ Command(x, p).dangling = x.dangling
        BY <1>5, <3>4, CommandFields
      <4> QED
        BY <1>5, <3>3, <4>1
    <3>6. \A g : Has(y.cmds, g) <=> Has(Tail(q), g) \/ \E k \in K : g = bindQueue(e0, k)
      <4>1. \A g : Has(Tail(q) \o p, g) <=> Has(Tail(q), g) \/ Has(p, g)
        BY <1>4, <3>4, CommandsAdded
      <4> QED
        BY <3>4, <3>5, <4>1
    <3>7. \A e, k : Coming(m, broker, e, k) => Coming(y, d, e, k)
      BY <2>6, <3>6 DEF Coming
    <3>8. Reach(y, d)
      <4>1. \A e \in Exchanges, k \in Keys : <<e, k>> \in y.live => Coming(y, d, e, k)
        BY <1>5, <1>9, <3>5, <3>7
      <4>2. ASSUME NEW e \in DOMAIN y.m_binds
            PROVE  \/ Has(y.cmds, declareQueue)
                   \/ Has(y.cmds, declareExchange(e, TRUE))
                   \/ \A k \in y.m_binds[e] : Coming(y, d, e, k)
        <5>1. CASE e = e0
          <6>1. y.m_binds[e] = K
            BY <1>5, <3>5, <5>1 DEF K, e0
          <6>2. \A k \in K : Has(y.cmds, bindQueue(e0, k))
            BY <3>6
          <6> QED
            BY <5>1, <6>1, <6>2 DEF Coming
        <5>2. CASE e # e0
          <6>1. c # declareExchange(e, TRUE)
            BY <2>4, <5>2 DEF e0
          <6>2. \/ Has(q, declareQueue)
                \/ Has(q, declareExchange(e, TRUE))
                \/ \A k \in m.m_binds[e] : Coming(m, broker, e, k)
            BY <1>5, <1>9, <3>5
          <6> QED
            BY <1>4, <1>5, <2>3, <3>5, <3>6, <3>7, <6>1, <6>2
        <5> QED
          BY <5>1, <5>2
      <4>3. ASSUME NEW e \in Exchanges, Has(y.cmds, declareExchange(e, TRUE))
            PROVE  e \in DOMAIN y.m_binds
        <5>1. \A k : declareExchange(e, TRUE) # bindQueue(e0, k)
          BY Kinds
        <5>2. Has(q, declareExchange(e, TRUE))
          BY <1>4, <3>6, <4>3, <5>1
        <5> QED
          BY <1>5, <1>9, <3>5, <5>2
      <4> QED
        BY <4>1, <4>2, <4>3 DEF Reach
    <3>9. Calm(calls) => Sorted(y.cmds, d)
      <4> SUFFICES ASSUME Calm(calls) PROVE Sorted(y.cmds, d)
        OBVIOUS
      <4>1. ASSUME NEW i \in 1 .. Len(p), NEW e \in Exchanges, NEW k \in Keys, p[i] = bindQueue(e, k)
            PROVE  (d.queue \/ Has(Tail(q), declareQueue)) /\ e \in d.exchanges
        <5>1. Has(p, bindQueue(e, k))
          BY <4>1 DEF Has
        <5>2. PICK h \in K : bindQueue(e, k) = bindQueue(e0, h)
          BY <3>4, <5>1
        <5>3. e = e0
          BY <5>2, Kinds
        <5> QED
          BY <2>2, <2>5, <5>3 DEF e0
      <4>2. Sorted(Tail(q) \o p, d)
        BY <1>4, <2>5, <3>4, <4>1, CommandsAdded
      <4> QED
        BY <3>5, <4>2
    <3>10. Calm(calls) => d.queue \/ Has(y.cmds, declareQueue)
      BY <2>5, <3>6
    <3>11. Steady(y)
      BY <1>5, <1>10, <3>5 DEF Steady
    <3>12. Good(y, d, ready, calls)
      BY <1>1, <1>2, <1>5, <2>2, <3>5, <3>8, <3>9, <3>10, <3>11, SameTasks
    <3> QED
      BY <1>2, <3>12 DEF IInv, y, d
  <2> QED
    BY <2>1, <2>7, <2>8
(* The binding is made. *)
<1>13. CASE /\ c.c = "bind" /\ d = [broker EXCEPT !.bound = broker.bound \cup {<<c.e, c.k>>}]
            /\ y = x
  <2>1. c.e \in Exchanges /\ c.k \in Keys /\ c = bindQueue(c.e, c.k)
    BY <1>6, <1>13
  <2>2. /\ d \in Broker /\ d.queue = broker.queue /\ d.exchanges = broker.exchanges
        /\ d.bound = broker.bound \cup {<<c.e, c.k>>}
    BY <1>1, <1>13, <2>1 DEF Broker, Bindings
  <2>3. (\A e, f : c # declareExchange(e, f)) /\ c # declareQueue
    BY <2>1, Kinds
  <2>4. ASSUME NEW e, NEW k, Coming(m, broker, e, k)
        PROVE  Coming(y, d, e, k)
    <3>1. c = bindQueue(e, k) => e = c.e /\ k = c.k
      BY <2>1, Kinds
    <3> QED
      BY <1>4, <1>5, <1>10, <1>13, <2>2, <2>4, <3>1 DEF Coming
  <2>5. Calm(calls) => Sorted(Tail(q), d) /\ (d.queue \/ Has(Tail(q), declareQueue))
    BY <1>4, <1>7, <2>2, <2>3
  <2>6. Reach(y, d)
    <3>1. y.cmds = Tail(q) /\ y.channel = "open" /\ y.m_binds = m.m_binds /\ y.live = m.live
      BY <1>5, <1>13
    <3> QED
      BY <1>4, <1>9, <2>3, <2>4, <3>1 DEF Reach
  <2>7. /\ y \in Client /\ Steady(y) /\ y.m_binds = m.m_binds /\ y.channel = "open"
        /\ y.dangling = m.dangling /\ y.cmds = Tail(q)
    BY <1>5, <1>10, <1>13
  <2>8. Good(y, d, ready, calls)
    BY <1>1, <1>2, <2>2, <2>5, <2>6, <2>7, SameTasks
  <2> QED
    BY <1>2, <2>8 DEF IInv, y, d
(* The binding is refused, which ends the channel. *)
<1>14. CASE /\ c.c = "bind" /\ ~(broker.queue /\ c.e \in broker.exchanges)
            /\ y = [x EXCEPT !.channel = "error", !.cmds = <<>>] /\ d = broker
  <2>1. c.e \in Exchanges /\ c.k \in Keys /\ c = bindQueue(c.e, c.k)
    BY <1>6, <1>14
  <2>2. ~Calm(calls)
    BY <1>4, <1>7, <1>14, <2>1
  <2>3. <<>> \in Seq(Commands)
    OBVIOUS
  <2>4. /\ y \in Client /\ y.channel = "error" /\ y.cmds = <<>> /\ y.m_binds = x.m_binds
        /\ y.m_auto_reconnect = x.m_auto_reconnect /\ y.m_is_connecting = x.m_is_connecting
    BY <1>5, <1>14, <2>3 DEF Client
  <2>5. Steady(y)
    BY <1>10, <2>4 DEF Steady
  <2>6. Reach(y, d)
    BY <2>4, ChannelOver
  <2>7. d \in Broker /\ y.m_binds = m.m_binds
    BY <1>1, <1>5, <1>14, <2>4
  <2>8. Good(y, d, ready, calls)
    BY <1>1, <2>2, <2>4, <2>5, <2>6, <2>7, SameTasks
  <2> QED
    BY <1>2, <2>8 DEF IInv, y, d
<1> QED
  BY <1>3, <1>11, <1>12, <1>13, <1>14

-----------------------------------------------------------------------------
(* Nothing is connected yet, and the keys of the configuration are known. *)
LEMMA InitGood == Init => IInv
<1> SUFFICES ASSUME Init PROVE IInv
  OBVIOUS
<1>1. /\ ready = <<>>
      /\ broker = [queue |-> FALSE, exchanges |-> {}, bound |-> {}]
      /\ calls = [connects |-> 0, binds |-> 0, first |-> Pairs(Config),
                  restarts |-> 0, closed |-> {}]
  BY DEF Init
<1>2. Config \in Known
  BY MqAssumption, KnownIs
<1>3. <<>> \in Seq(Commands) /\ <<>> \in Seq(Tasks) /\ Len(<<>>) = 0
  OBVIOUS
<1>4. /\ m \in Client /\ m.channel = "none" /\ m.cmds = <<>> /\ m.m_auto_reconnect = FALSE
      /\ m.m_binds = Config /\ m.m_is_session_opend = FALSE /\ m.dangling = FALSE
  BY <1>2, <1>3 DEF Init, Client
<1>5. Pairs(Config) \subseteq Bindings
  BY DEF Pairs, Bindings
<1>6. /\ broker \in Broker /\ calls \in Made
      /\ calls.first = Pairs(Config) /\ calls.closed = {} /\ calls.connects = 0
  BY <1>1, <1>5 DEF Broker, Made
<1>7. \A t : ~Has(ready, t)
  BY <1>1, <1>3 DEF Has
<1>8. Once(ready, Connect)
  BY <1>1, <1>3 DEF Once
<1>9. Reach(m, broker)
  BY <1>4, ChannelOver
<1>10. Steady(m)
  BY <1>4 DEF Steady
<1>11. Firsts(m, ready, calls)
  <2>1. ASSUME NEW e \in Exchanges, NEW k \in Keys, <<e, k>> \in Pairs(Config)
        PROVE  e \in DOMAIN Config /\ k \in Config[e]
    BY <2>1 DEF Pairs
  <2>2. \A e \in DOMAIN Config : AskedFor(calls, e)
    BY DEF AskedFor
  <2> QED
    BY <1>4, <1>6, <1>7, <2>1, <2>2 DEF Firsts
<1>12. OneConnection(m, broker, ready, calls)
  BY <1>4, <1>7, <1>8 DEF OneConnection
<1> QED
  BY <1>1, <1>3, <1>4, <1>6, <1>7, <1>9, <1>10, <1>11, <1>12 DEF IInv, Good, Types

(***************************************************************************)
(* The inductive invariant: what is recorded in m_binds and asked for on   *)
(* the channel is bound or has a command before it that will have it       *)
(* bound, and with one connection a binding follows its declarations.      *)
(***************************************************************************)
THEOREM MqInvariant == Spec => []IInv
<1>1. Init => IInv
  BY InitGood
<1>2. IInv /\ [Next]_vars => IInv'
  <2> SUFFICES ASSUME IInv, [Next]_vars PROVE IInv'
    OBVIOUS
  <2>1. CASE connect \/ close_client \/ close
    BY <2>1, CallsPreserve
  <2>2. CASE expire
    BY <2>2, ExpirePreserves
  <2>3. CASE run
    BY <2>3, RunPreserves
  <2>4. ASSUME NEW e \in Exchanges, NEW k \in Keys, bind_exchange(e, k)
        PROVE  IInv'
    BY <2>4, BindPreserves
  <2>5. CASE channel_ready
    BY <2>5, ReadyPreserves
  <2>6. CASE answer
    BY <2>6, AnswerPreserves
  <2>7. ASSUME NEW restart \in BOOLEAN, lose(restart)
        PROVE  IInv'
    BY <2>7, LosePreserves
  <2>8. CASE UNCHANGED vars
    BY <2>8 DEF vars, IInv
  <2> QED
    BY <2>1, <2>2, <2>3, <2>4, <2>5, <2>6, <2>7, <2>8 DEF Next
<1> QED
  BY <1>1, <1>2, PTL DEF Spec

(* Once the commands of an open channel are answered, the configured keys, *)
(* the first key of any other exchange (bind_one_exchange) and every key   *)
(* asked for on this channel are bound at the broker, whatever was asked   *)
(* for before the channel opened and however often the broker restarted.   *)
THEOREM BindingsReachHolds == Spec => []BindingsReach
<1>1. IInv => BindingsReach
  <2> SUFFICES ASSUME IInv, m.channel = "open", m.cmds = <<>>,
                      ~\E i \in DOMAIN ready : ready[i].f = "do_bind"
               PROVE  calls.first \cup m.live \subseteq broker.bound
    BY DEF BindingsReach
  <2>1. /\ m \in Client /\ ready \in Seq(Tasks) /\ calls \in Made
        /\ Reach(m, broker) /\ Firsts(m, ready, calls)
    BY DEF IInv, Good, Types
  <2>2. \A c : ~Has(m.cmds, c)
    <3>1. Len(m.cmds) = 0
      OBVIOUS
    <3> QED
      BY <3>1 DEF Has
  <2>3. \A e, k : Coming(m, broker, e, k) => <<e, k>> \in broker.bound
    BY <2>2 DEF Coming
  <2>4. \A e, k : ~NextFor(ready, e, k)
    <3>1. DOMAIN ready = 1 .. Len(ready)
      BY <2>1
    <3>2. \A e, k : Bind(e, k).f = "do_bind"
      BY TaskIs
    <3> QED
      BY <3>1, <3>2 DEF NextFor
  <2>5. ASSUME NEW e \in Exchanges, NEW k \in Keys, <<e, k>> \in calls.first
        PROVE  <<e, k>> \in broker.bound
    <3>1. e \in DOMAIN m.m_binds /\ k \in m.m_binds[e]
      BY <2>1, <2>4, <2>5 DEF Firsts
    <3>2. Coming(m, broker, e, k)
      BY <2>1, <2>2, <3>1 DEF Reach
    <3> QED
      BY <2>3, <3>2
  <2>6. ASSUME NEW e \in Exchanges, NEW k \in Keys, <<e, k>> \in m.live
        PROVE  <<e, k>> \in broker.bound
    <3>1. Coming(m, broker, e, k)
      BY <2>1, <2>6 DEF Reach
    <3> QED
      BY <2>3, <3>1
  <2>7. \A p \in calls.first \cup m.live : \E e \in Exchanges, k \in Keys : p = <<e, k>>
    BY <2>1 DEF Made, Client, Bindings
  <2> QED
    BY <2>5, <2>6, <2>7
<1> QED
  BY <1>1, MqInvariant, PTL

(* An application that connects once and does not close the session never *)
(* has a connection whose handler is gone (init, do_close), and no command *)
(* of it is refused: each binding follows the queue and its exchange.      *)
THEOREM OneConnectIsSafeHolds == Spec => []OneConnectIsSafe
<1>1. IInv => OneConnectIsSafe
  BY DEF IInv, Good, Calm, OneConnection, OneConnectIsSafe
<1> QED
  BY <1>1, MqInvariant, PTL
=============================================================================
