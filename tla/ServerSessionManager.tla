------------------------ MODULE ServerSessionManager -------------------------
(***************************************************************************)
(* A server's sessions and the ServerSessionManager that numbers, counts   *)
(* and watches them (libserver/Server.cpp, ServerSessionManager.cpp, and   *)
(* the life of a TcpSession as TcpSession.tla details it).                 *)
(*                                                                         *)
(* The manager lives in the first loop of the server's IoLoopPool, each    *)
(* session in the loop the pool gives out next, round robin; each loop is  *)
(* one thread and a FIFO of tasks.  IoLoop::post runs a task on the spot   *)
(* when the poster is the loop's own thread: a session that shares the     *)
(* manager's loop calls into the manager and back within one task.  The    *)
(* functions below give the state after a call made by the thread of loop  *)
(* `here`.                                                                 *)
(***************************************************************************)
EXTENDS Integers, Sequences, FiniteSets, Functions

CONSTANTS SessionCount,   \* bound: connections that are ever accepted
          PoolSize,       \* loops of the pool
          Servers         \* the servers that are looked at

(***************************************************************************)
(* m_max_session_count: of the server's configuration;  sessions: bound,   *)
(* the connections it accepts;  messages: bound, those received on one     *)
(* session.                                                                *)
(***************************************************************************)
Server == [m_max_session_count : Nat, sessions : 0 .. SessionCount, messages : Nat]

ASSUME ManagerAssumption ==
    /\ SessionCount \in Nat
    /\ PoolSize \in Nat \ {0}
    /\ Servers \subseteq Server

Sessions  == 1 .. SessionCount      \* in the order they are accepted
NoSession == 0

Loops   == 0 .. PoolSize - 1
Manager == 0
NoLoop  == -1

VARIABLES
    server,         \* the server of this behaviour
    w,              \* the sessions, the manager and the loops
    loop,           \* loop[s]: the loop of session s once it is accepted
    m_next_index,   \* IoLoopPool::m_next_index
    starting,       \* the session the manager's thread is in start() of
    walk,           \* the entries check_session_alive has yet to visit
    crashed         \* the process died of an undefined behaviour

vars == <<server, w, loop, m_next_index, starting, walk, crashed>>

(***************************************************************************)
(* q: the loops;  open: sessions whose socket is open;  reading: with a    *)
(* read in progress;  silent: not heard of for m_alive_interval seconds;   *)
(* id: m_session_id;  all: m_session_all;  current: m_current_session;     *)
(* started, rejected: what do_add_session did;  dealt: what the dealer was *)
(* given;  broken: an element was erased from m_session_all under the      *)
(* iterator of check_session_alive.                                        *)
(***************************************************************************)
Init ==
    /\ server \in Servers
    /\ w = [q |-> [l \in Loops |-> <<>>], open |-> {}, reading |-> {},
            silent |-> {}, id |-> [s \in Sessions |-> 0], all |-> <<>>,
            current |-> 0, started |-> {}, rejected |-> {},
            dealt |-> [s \in Sessions |-> <<>>], broken |-> FALSE]
    /\ loop = [s \in Sessions |-> NoLoop]
    /\ m_next_index = 1 % PoolSize
    /\ starting = NoSession
    /\ walk = {}
    /\ crashed = FALSE

Task(f, s) == [f |-> f, s |-> s]
Queue(x, l, task) == [x EXCEPT !.q[l] = Append(@, task)]
Deal(x, s, what)  == [x EXCEPT !.dealt[s] = Append(@, what)]
Tracked(x) == {x.all[i] : i \in DOMAIN x.all}

(* m_session_all.erase(it++) *)
erase(x, s) ==
    [x EXCEPT !.all = Restrict(@, {i \in DOMAIN @ : @[i] # s})]

do_close_session(x, s) ==
    [x EXCEPT !.all = Restrict(@, DOMAIN @ \ {x.id[s]}), !.id[s] = -1]

close_session(x, s, here) ==
    IF here = Manager THEN do_close_session(x, s)
                      ELSE Queue(x, Manager, Task("do_close_session", s))

(* Fault: do_close forgets the manager. *)
do_close_unreported(x, s) ==
    IF s \in x.open
      THEN Deal([x EXCEPT !.open = @ \ {s}, !.reading = @ \ {s}], s, "close")
      ELSE x

(* Fault: do_close is not guarded by is_open. *)
do_close_again(x, s) ==
    Deal(close_session([x EXCEPT !.open = @ \ {s}, !.reading = @ \ {s}], s, loop[s]),
         s, "close")

(* TcpSession::do_close *)
do_close(x, s) ==
    IF s \in x.open
      THEN Deal(close_session([x EXCEPT !.open = @ \ {s}, !.reading = @ \ {s}],
                              s, loop[s]), s, "close")
      ELSE x

do_read_head_len(x, s) ==
    [x EXCEPT !.reading = IF s \in x.open THEN @ \cup {s} ELSE @]

on_read_complete(x, s) ==
    do_read_head_len(Deal([x EXCEPT !.silent = @ \ {s}], s, "message"), s)

do_session_open(x, s) == Deal(x, s, "open")

(* Fault: the time of the last message is compared the wrong way round. *)
do_check_alive_reversed(x, s) == IF s \in x.silent THEN x ELSE do_close(x, s)

do_check_alive(x, s) == IF s \in x.silent THEN do_close(x, s) ELSE x

(* Fault: the manager checks and closes every session in its own thread. *)
check_alive_inline(x, s) ==
    IF s \in x.silent \cap x.open
      THEN do_close_session([x EXCEPT !.open = @ \ {s}, !.reading = @ \ {s}], s)
      ELSE x

(* Session::close and TcpSession::check_alive, called by the manager. *)
close(x, s) ==
    IF loop[s] = Manager THEN do_close(x, s)
                         ELSE Queue(x, loop[s], Task("do_close", s))

check_alive(x, s) ==
    IF loop[s] = Manager THEN do_check_alive(x, s)
                         ELSE Queue(x, loop[s], Task("do_check_alive", s))

-----------------------------------------------------------------------------
Idle(l) == ~crashed /\ (l = Manager => starting = NoSession /\ walk = {})

Rest == UNCHANGED <<server, loop, m_next_index>>

NextUp(s) ==
    s <= server.sessions /\ \A r \in Sessions : loop[r] = NoLoop <=> r >= s

(* Server::on_accept_complete hands the session to the manager; accept has *)
(* given it the pool's next loop.                                          *)
on_accept_complete(s) ==
    /\ ~crashed
    /\ NextUp(s)
    /\ loop' = [loop EXCEPT ![s] = m_next_index]
    /\ m_next_index' = (m_next_index + 1) % PoolSize
    /\ w' = Queue([w EXCEPT !.open = @ \cup {s}], Manager, Task("do_add_session", s))
    /\ UNCHANGED <<server, starting, walk, crashed>>

(* The connection failed: the next accept takes another loop. *)
on_accept_failed ==
    /\ ~crashed
    /\ \E s \in Sessions : NextUp(s)
    /\ m_next_index' = (m_next_index + 1) % PoolSize
    /\ UNCHANGED <<server, w, loop, starting, walk, crashed>>

(* Fault: the limit is compared with >. *)
is_session_over_limit_late(x) == Cardinality(DOMAIN x.all) > server.m_max_session_count

is_session_over_limit(x) == Cardinality(DOMAIN x.all) >= server.m_max_session_count

(* Fault: the key is taken before the number is advanced. *)
Number_stale(x, s) ==
    [x EXCEPT !.current = @ + 1, !.id[s] = x.current + 1, !.started = @ \cup {s},
              !.all = [i \in DOMAIN x.all \cup {x.current} |->
                           IF i \in DOMAIN x.all THEN x.all[i] ELSE s],
              !.silent = @ \ {s}]

(* The next number: `% m_max_session_id' binds to the 1 alone. *)
Number(x, s) ==
    LET n == x.current + 1
    IN  [x EXCEPT !.current = n, !.id[s] = n, !.started = @ \cup {s},
                  !.all = [i \in DOMAIN x.all \cup {n} |->
                               IF i \in DOMAIN x.all THEN x.all[i] ELSE s],
                  !.silent = @ \ {s}]

(* Fault: a session over the limit is left as it is. *)
do_add_session_unclosed(x, s) ==
    IF is_session_over_limit(x)
      THEN w' = [x EXCEPT !.rejected = @ \cup {s}] /\ UNCHANGED starting
      ELSE IF loop[s] = Manager
        THEN /\ w' = do_session_open(do_read_head_len(Number(x, s), s), s)
             /\ UNCHANGED starting
        ELSE /\ w' = Queue(Number(x, s), loop[s], Task("do_read_head_len", s))
             /\ starting' = s

(* do_add_session up to the first post of TcpSession::start, which is all  *)
(* of it for a session that shares the manager's loop.                     *)
do_add_session(x, s) ==
    IF is_session_over_limit(x)
      THEN w' = close([x EXCEPT !.rejected = @ \cup {s}], s) /\ UNCHANGED starting
      ELSE IF loop[s] = Manager
        THEN /\ w' = do_session_open(do_read_head_len(Number(x, s), s), s)
             /\ UNCHANGED starting
        ELSE /\ w' = Queue(Number(x, s), loop[s], Task("do_read_head_len", s))
             /\ starting' = s

(* The second post of TcpSession::start. *)
start_rest ==
    /\ ~crashed
    /\ starting # NoSession
    /\ w' = Queue(w, loop[starting], Task("do_session_open", starting))
    /\ starting' = NoSession
    /\ Rest /\ UNCHANGED <<walk, crashed>>

(* A loop runs its next task. *)
RunTask(l) ==
    /\ Idle(l)
    /\ w.q[l] # <<>>
    /\ LET s == Head(w.q[l]).s
           f == Head(w.q[l]).f
           x == [w EXCEPT !.q[l] = Tail(@)]
       IN  \/ f = "do_add_session" /\ do_add_session(x, s)
           \/ /\ f # "do_add_session"
              /\ w' = CASE f = "do_close_session" -> do_close_session(x, s)
                        [] f = "do_close"         -> do_close(x, s)
                        [] f = "do_check_alive"   -> do_check_alive(x, s)
                        [] f = "do_read_head_len" -> do_read_head_len(x, s)
                        [] f = "do_session_open"  -> do_session_open(x, s)
                        [] f = "on_read_complete" -> on_read_complete(x, s)
                        [] f = "on_read_error"    -> do_close(x, s)
              /\ UNCHANGED starting
    /\ Rest /\ UNCHANGED <<walk, crashed>>

(***************************************************************************)
(* The check timer: every session of the table is asked to check itself,   *)
(* one after the other, in the order of an unordered_map, while the other  *)
(* loops run.  A session that shares this loop and is silent closes itself *)
(* on the spot, and do_close_session erases the element the walk stands    *)
(* on; advancing the iterator then either goes on or kills the process.    *)
(* Bound: a round of checks is over before the timer's next one, ten       *)
(* seconds later.                                                          *)
(***************************************************************************)
RoundOver == \A l \in Loops : \A i \in DOMAIN w.q[l] : w.q[l][i].f # "do_check_alive"

on_check_handle ==
    /\ Idle(Manager)
    /\ RoundOver
    /\ walk' = Tracked(w)
    /\ Rest /\ UNCHANGED <<w, starting, crashed>>

(* A handler or a task still holds the session: its weak_ptr can be locked. *)
Held(s) ==
    \/ s \in w.reading
    \/ starting = s
    \/ \E l \in Loops : \E i \in DOMAIN w.q[l] : w.q[l][i].s = s

check_session_alive(s) ==
    /\ ~crashed
    /\ s \in walk
    /\ walk' = walk \ {s}
    /\ IF Held(s)
         THEN LET x == check_alive(w, s)
                  erased == Tracked(x) # Tracked(w)
              IN  /\ w' = [x EXCEPT !.broken = @ \/ erased]
                  /\ crashed' \in IF erased THEN BOOLEAN ELSE {FALSE}
         ELSE /\ w' = erase(w, s)
              /\ UNCHANGED crashed
    /\ Rest /\ UNCHANGED starting

(* Peers: a message arrives, a peer leaves, or stays silent too long. *)
receive(s) ==
    /\ ~crashed
    /\ s \in w.reading
    /\ Len(SelectSeq(w.dealt[s], LAMBDA d : d = "message")) < server.messages
    /\ w' = Queue([w EXCEPT !.reading = @ \ {s}], loop[s], Task("on_read_complete", s))
    /\ Rest /\ UNCHANGED <<starting, walk, crashed>>

leave(s) ==
    /\ ~crashed
    /\ s \in w.reading
    /\ w' = Queue([w EXCEPT !.reading = @ \ {s}], loop[s], Task("on_read_error", s))
    /\ Rest /\ UNCHANGED <<starting, walk, crashed>>

fall_silent(s) ==
    /\ ~crashed
    /\ s \in w.started \ w.silent
    /\ w' = [w EXCEPT !.silent = @ \cup {s}]
    /\ Rest /\ UNCHANGED <<starting, walk, crashed>>

Next ==
    \/ \E s \in Sessions : on_accept_complete(s)
    \/ on_accept_failed
    \/ start_rest
    \/ \E l \in Loops : RunTask(l)
    \/ on_check_handle
    \/ \E s \in Sessions : check_session_alive(s)
    \/ \E s \in Sessions : receive(s) \/ leave(s) \/ fall_silent(s)

Spec == Init /\ [][Next]_vars

(***************************************************************************)
(* Loops run their tasks, and the check timer, which on_check_handle       *)
(* registers again each time, keeps firing.  The walk over the table comes *)
(* between the tasks of the manager's loop, again and again, and does not  *)
(* put a task off for ever: both are handlers of one FIFO.  Peers owe      *)
(* nothing.                                                                *)
(***************************************************************************)
FairSpec == Spec /\ WF_vars(start_rest) /\ WF_vars(on_check_handle)
                 /\ WF_vars(\E s \in Sessions : check_session_alive(s))
                 /\ \A l \in Loops : SF_vars(RunTask(l))

-----------------------------------------------------------------------------
(* Every open session that was started is in the table under its own id,   *)
(* so that the liveness check reaches it.                                  *)
OpenIsTracked ==
    \A s \in w.started \cap w.open :
        w.id[s] \in DOMAIN w.all /\ w.all[w.id[s]] = s

(* The limit bounds the sessions that are served, although the manager     *)
(* hears of their end later than it happens.                               *)
LimitHolds ==
    Cardinality(w.started \cap w.open) <= server.m_max_session_count

(* A handler or a task still holds each session of the table: its weak_ptr *)
(* can be locked, and an entry is not left to a session that is gone.      *)
EntriesHeld == \A s \in Tracked(w) : Held(s)

(* The dealer hears of each session's opening and end at most once, of a   *)
(* rejected session's end only, and after the end of at most one message   *)
(* and, the two posts of start() being apart, of the opening.              *)
LifeCycle ==
    \A s \in Sessions : LET d == w.dealt[s] IN
        /\ \A i, j \in DOMAIN d : d[i] = d[j] /\ d[i] # "message" => i = j
        /\ s \in w.rejected => d \in {<<>>, <<"close">>}
        /\ \A i \in DOMAIN d : d[i] = "close" =>
              /\ s \notin w.open
              /\ Len(d) - i <= (IF loop[s] = Manager THEN 1 ELSE 2)

(* Only a session that shares the manager's loop can be erased from the    *)
(* table while check_session_alive walks it.                               *)
WalkBrokenBySharedLoop ==
    w.broken => \E s \in w.started \ w.open : loop[s] = Manager

(* A peer that stays silent is disconnected. *)
SilentIsClosed ==
    \A s \in Sessions :
        s \in w.started \cap w.silent ~> crashed \/ s \notin w.open \cap w.silent

(* The place of a session that ended is freed, and a session that came     *)
(* over the limit is closed.                                               *)
PlacesFreed ==
    \A s \in Sessions :
        /\ s \in w.started \ w.open ~> crashed \/ s \notin Tracked(w)
        /\ s \in w.rejected ~> crashed \/ w.dealt[s] = <<"close">>
=============================================================================
