------------------------------- MODULE Client --------------------------------
(***************************************************************************)
(* A Client keeps one connection to a server (libserver/Client.cpp): it    *)
(* connects, times the attempt, opens a TcpSession on success, waits and   *)
(* tries again on failure, sends heartbeats, checks that the server is     *)
(* heard of and connects again when the session ends.                      *)
(*                                                                         *)
(* Everything runs in one loop, the session too: what the client asks of   *)
(* its session, and the session of it, is a call made on the spot.  Calls  *)
(* of other threads are posted.  A handler whose operation is complete     *)
(* waits in `ready`; cancelling its timer then comes too late.  The        *)
(* functions below give the client after a call.                           *)
(***************************************************************************)
EXTENDS Naturals, Sequences

CONSTANT MaxCalls       \* bound: calls of connect(ip, port) and close_client

ASSUME ClientAssumption == MaxCalls \in Nat

Timers == {"m_reconnet_timer", "m_connect_timer", "m_heart_beat_timer",
           "m_check_alive_timer"}

VARIABLES c, calls
vars == <<c, calls>>

(***************************************************************************)
(* auto, connecting, waiting, connected: m_auto_reconnect, m_is_connecting,*)
(* m_is_wait_connect, m_is_connected;  socket: m_socket;  pending: an      *)
(* async_connect is in progress;  armed: the timers being waited for;      *)
(* session: a session is open;  silent: it has not heard of the server for *)
(* m_alive_interval seconds;  ready: the loop;  last: the last of the      *)
(* callers' requests to be carried out;  overlap: connect() was called     *)
(* while an attempt was in progress;  crashed: a null pointer was used.    *)
(***************************************************************************)
Init ==
    /\ c = [auto |-> FALSE, connecting |-> FALSE, waiting |-> FALSE,
            connected |-> FALSE, socket |-> "null", pending |-> FALSE,
            armed |-> {}, session |-> FALSE, silent |-> FALSE,
            ready |-> <<>>, last |-> "none", overlap |-> FALSE, crashed |-> FALSE]
    /\ calls = 0

Handler(f, err) == [f |-> f, err |-> err]
Queue(x, f, err) == [x EXCEPT !.ready = Append(@, Handler(f, err))]
Queued(x, f, err) == \E i \in DOMAIN x.ready : x.ready[i] = Handler(f, err)
Crash(x) == [x EXCEPT !.crashed = TRUE]

(* deadline_timer: cancelling, and setting anew, aborts the wait in        *)
(* progress.  Only the handler of m_reconnet_timer acts when aborted.      *)
cancel(x, t) ==
    IF t \in x.armed /\ t = "m_reconnet_timer"
      THEN Queue([x EXCEPT !.armed = @ \ {t}], t, TRUE)
      ELSE [x EXCEPT !.armed = @ \ {t}]

async_wait(x, t) == [cancel(x, t) EXCEPT !.armed = @ \cup {t}]

(* Closing or destroying a socket aborts its async_connect. *)
Abort(x) ==
    IF x.pending THEN Queue([x EXCEPT !.pending = FALSE], "on_connet_complete", TRUE)
                 ELSE x

close_socket(x) == [Abort(x) EXCEPT !.socket = "closed"]

drop_socket(x) == [Abort(x) EXCEPT !.socket = "null"]

register_connect_timer(x) ==
    async_wait([x EXCEPT !.waiting = TRUE], "m_reconnet_timer")

(* Fault: the attempt is not timed. *)
connect_untimed(x) ==
    [Abort([x EXCEPT !.overlap = @ \/ x.connecting])
        EXCEPT !.socket = "open", !.pending = TRUE, !.connecting = TRUE]

connect(x) ==
    [async_wait(Abort([x EXCEPT !.overlap = @ \/ x.connecting]), "m_connect_timer")
        EXCEPT !.socket = "open", !.pending = TRUE, !.connecting = TRUE]

(* Fault: m_is_connected is not reset. *)
close_session_unset(x) ==
    connect(cancel(cancel(x, "m_heart_beat_timer"), "m_check_alive_timer"))

close_session(x) ==
    connect(cancel(cancel([x EXCEPT !.connected = FALSE], "m_heart_beat_timer"),
                   "m_check_alive_timer"))

(* The handlers of a session that is closed find its socket closed. *)
Outlive(ready) ==
    [i \in DOMAIN ready |->
        IF ready[i].f = "on_read_error" THEN Handler("on_closed_session", TRUE)
                                        ELSE ready[i]]

(* TcpSession::do_close.  A connect in progress on its socket is aborted. *)
do_close(x) ==
    IF x.session
      THEN close_session(Abort([x EXCEPT !.session = FALSE, !.silent = FALSE,
                                         !.ready = Outlive(@)]))
      ELSE x

on_connet_complete(x, err) ==
    LET y == cancel([x EXCEPT !.connecting = FALSE], "m_connect_timer")
    IN  IF x.socket = "null" THEN Crash(y)
        ELSE IF x.socket = "closed" \/ err
        THEN IF x.auto THEN register_connect_timer(drop_socket(y)) ELSE drop_socket(y)
        ELSE async_wait(async_wait(
                 [y EXCEPT !.connected = TRUE, !.session = TRUE, !.silent = FALSE,
                           !.socket = "null"],
                 "m_heart_beat_timer"), "m_check_alive_timer")

on_connect_timeout(x) == IF x.socket = "open" THEN close_socket(x) ELSE x

on_wait_reconnect(x, err) ==
    LET y == [x EXCEPT !.waiting = FALSE] IN IF err THEN y ELSE connect(y)

(* Fault: the heartbeat is sent once. *)
on_send_heart_beat_once(x) == IF x.connected THEN {x, do_close(x)} ELSE {x}

(* The heartbeat may find the session's send queue full, which closes it. *)
on_send_heart_beat(x) ==
    IF x.connected
      THEN {async_wait(y, "m_heart_beat_timer") : y \in {x, do_close(x)}}
      ELSE {x}

(* Fault: the timer's next round is left to the session. *)
on_check_alive_once(x) ==
    IF x.connected /\ x.session /\ x.silent
      THEN async_wait(do_close(x), "m_check_alive_timer")
      ELSE x

(* session->check_alive() runs do_check_alive on the spot. *)
on_check_alive(x) ==
    IF x.connected /\ x.session
      THEN async_wait(IF x.silent THEN do_close(x) ELSE x, "m_check_alive_timer")
      ELSE x

(* m_session_ref.lock()->close() *)
close_locked(x) == IF x.session THEN do_close(x) ELSE Crash(x)

do_connect(x) ==
    LET y == [x EXCEPT !.auto = TRUE, !.last = "connect"]
    IN  IF x.connected THEN close_locked(y)
        ELSE IF x.connecting
          THEN IF x.socket = "null" THEN Crash(y) ELSE close_socket(y)
        ELSE IF x.waiting
          THEN connect([cancel(y, "m_reconnet_timer") EXCEPT !.waiting = FALSE])
        ELSE connect(y)

(* Fault: the socket is destroyed under its connect. *)
do_close_client_drop(x) ==
    LET y == [x EXCEPT !.auto = FALSE, !.last = "close"]
        z == IF x.connected THEN close_locked(y)
             ELSE IF x.connecting THEN drop_socket(y)
             ELSE IF x.waiting
               THEN cancel([y EXCEPT !.waiting = FALSE], "m_reconnet_timer")
             ELSE y
    IN  [z EXCEPT !.armed = @ \ {"m_connect_timer", "m_heart_beat_timer",
                                 "m_check_alive_timer"}]

do_close_client(x) ==
    LET y == [x EXCEPT !.auto = FALSE, !.last = "close"]
        z == IF x.connected THEN close_locked(y)
             ELSE IF x.connecting
               THEN IF x.socket = "null" THEN Crash(y) ELSE close_socket(y)
             ELSE IF x.waiting
               THEN cancel([y EXCEPT !.waiting = FALSE], "m_reconnet_timer")
             ELSE y
    IN  [z EXCEPT !.armed = @ \ {"m_connect_timer", "m_heart_beat_timer",
                                 "m_check_alive_timer"}]

-----------------------------------------------------------------------------
(* Calls of other threads. *)
Call(f) ==
    /\ ~c.crashed
    /\ calls < MaxCalls
    /\ calls' = calls + 1
    /\ c' = Queue(c, f, FALSE)

(* A timer expires: its handler is ready.  Bound: the loop serves a        *)
(* handler before the timer, a second or more later, expires again.        *)
expire(t) ==
    /\ ~c.crashed
    /\ t \in c.armed
    /\ ~Queued(c, t, FALSE)
    /\ c' = Queue([c EXCEPT !.armed = @ \ {t}], t, FALSE)
    /\ UNCHANGED calls

(* The connect in progress succeeds or is refused. *)
connect_done ==
    /\ ~c.crashed
    /\ c.pending
    /\ \E err \in BOOLEAN :
          c' = Queue([c EXCEPT !.pending = FALSE], "on_connet_complete", err)
    /\ UNCHANGED calls

(* The server ends the connection. *)
lose ==
    /\ ~c.crashed
    /\ c.session
    /\ ~Queued(c, "on_read_error", TRUE)
    /\ c' = Queue(c, "on_read_error", TRUE)
    /\ UNCHANGED calls

(* The server is not heard of for too long, or again. *)
fall_silent ==
    /\ ~c.crashed
    /\ c.session
    /\ c' = [c EXCEPT !.silent = ~@]
    /\ UNCHANGED calls

RunHandler(h, x) ==
    CASE h.f = "do_connect"          -> {do_connect(x)}
      [] h.f = "do_close_client"     -> {do_close_client(x)}
      [] h.f = "on_connet_complete"  -> {on_connet_complete(x, h.err)}
      [] h.f = "m_reconnet_timer"    -> {on_wait_reconnect(x, h.err)}
      [] h.f = "m_connect_timer"     -> {on_connect_timeout(x)}
      [] h.f = "m_heart_beat_timer"  -> on_send_heart_beat(x)
      [] h.f = "m_check_alive_timer" -> {on_check_alive(x)}
      [] h.f = "on_read_error"       -> {do_close(x)}
      [] h.f = "on_closed_session"   -> {x}

(* The loop runs its next handler. *)
run ==
    /\ ~c.crashed
    /\ c.ready # <<>>
    /\ c' \in RunHandler(Head(c.ready), [c EXCEPT !.ready = Tail(@)])
    /\ UNCHANGED calls

Next ==
    \/ Call("do_connect") \/ Call("do_close_client")
    \/ run
    \/ \E t \in Timers : expire(t)
    \/ connect_done
    \/ lose
    \/ fall_silent

Spec == Init /\ [][Next]_vars

(* The loop runs and timers expire.  The network owes nothing: a connect   *)
(* may stay in progress for ever.                                          *)
FairSpec == Spec /\ WF_vars(run) /\ \A t \in Timers : WF_vars(expire(t))

-----------------------------------------------------------------------------
(* The flags the calls branch on tell what the client is doing, although   *)
(* handlers of earlier attempts are still on their way, as long as no two  *)
(* attempts overlapped.                                                    *)
FlagsTruthful ==
    ~c.overlap =>
        /\ c.connected <=> c.session
        /\ c.session => c.socket = "null"
        /\ c.connecting <=> \/ c.pending
                            \/ \E err \in BOOLEAN : Queued(c, "on_connet_complete", err)
        /\ c.waiting => \/ "m_reconnet_timer" \in c.armed
                        \/ Queued(c, "m_reconnet_timer", FALSE)
        /\ ~(c.connected /\ c.connecting)
        /\ c.waiting => ~c.connected /\ ~c.connecting

(* A null m_socket or m_session_ref is never used unless attempts overlap. *)
CrashNeedsOverlap == c.crashed => c.overlap

(* While connected, a heartbeat and a check of the server are always due,  *)
(* whatever cancelled and expired timers left behind.                      *)
WatchedWhileConnected ==
    c.connected =>
        \A t \in {"m_heart_beat_timer", "m_check_alive_timer"} :
            t \in c.armed \/ Queued(c, t, FALSE)

(* close_client: "close the socket, do not reconnect" (Client.cpp:229): no *)
(* attempt is in progress once it has been carried out.                    *)
NoReconnectAfterClose == c.last = "close" => ~c.pending

(* A client told to connect is never left idle, and its attempts end, if   *)
(* only by their timer, unless it is closed.                               *)
KeepsTrying ==
    /\ []<>(~c.auto \/ c.connecting \/ c.connected \/ c.overlap)
    /\ c.auto /\ c.connecting ~> ~c.auto \/ ~c.connecting \/ c.overlap

(* The session to a server that stays silent is closed. *)
SilentServerDropped ==
    c.session /\ c.silent ~> ~(c.session /\ c.silent) \/ c.crashed
=============================================================================
