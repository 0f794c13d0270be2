------------------------------- MODULE MqClient -------------------------------
(***************************************************************************)
(* The client of the message broker (libserver/MqClient.cpp, MqSession.cpp *)
(* and MqHandler.h): one loop, a connection with one channel, a timer that *)
(* watches it, and the bindings of the process's queue, some known from    *)
(* the configuration and some asked for later.                             *)
(*                                                                         *)
(* AMQP-CPP and the broker are external: a channel carries commands in     *)
(* order and answers them in order; a command the broker refuses ends the  *)
(* channel.  Sending is left out: do_write returns before it publishes     *)
(* (encode_message's result is taken for an error), and recv_data gives    *)
(* nothing to the dealer.                                                  *)
(***************************************************************************)
EXTENDS Naturals, Sequences, SequencesExt

CONSTANTS Exchanges, Keys,
          Config,       \* m_binds as parse_config leaves it
          MaxConnects,  \* bound: calls of connect()
          MaxBinds,     \* bound: calls of bind_exchange()
          MaxRestarts   \* bound: restarts of the broker

ASSUME MqAssumption ==
    /\ IsFiniteSet(Exchanges) /\ IsFiniteSet(Keys)
    /\ DOMAIN Config \subseteq Exchanges /\ Config \in [DOMAIN Config -> SUBSET Keys]
    /\ MaxConnects \in Nat /\ MaxBinds \in Nat /\ MaxRestarts \in Nat

VARIABLES
    ready,     \* what is posted to the loop, in order
    m,         \* MqClient and its MqSession
    broker,    \* the broker: the queue, the exchanges, the bindings
    calls      \* what the application did so far

Pairs(binds) == {p \in Exchanges \X Keys : p[1] \in DOMAIN binds /\ p[2] \in binds[p[1]]}

vars == <<ready, m, broker, calls>>

(***************************************************************************)
(* m_mq_handler: "null", or the m_is_connected of the handler;  channel:   *)
(* of the last connection;  cmds: its commands that are not answered;      *)
(* live: the bindings asked for on this channel;  dangling: a handler was  *)
(* destroyed under its connection, which still refers to it;  first: the   *)
(* keys of the configuration, and for each exchange that is not configured *)
(* the first key it was asked for with.                                    *)
(***************************************************************************)
Init ==
    /\ ready = <<>>
    /\ m = [m_auto_reconnect |-> FALSE, m_is_connecting |-> FALSE, m_timer |-> "off",
            m_mq_handler |-> "null", channel |-> "none", cmds |-> <<>>,
            m_is_session_opend |-> FALSE, m_binds |-> Config, live |-> {},
            dangling |-> FALSE]
    /\ broker = [queue |-> FALSE, exchanges |-> {}, bound |-> {}]
    /\ calls = [connects |-> 0, binds |-> 0, first |-> Pairs(Config),
              restarts |-> 0, closed |-> {}]

is_connected(x) == x.m_mq_handler = "TRUE"

(* Commands go to a channel that is opening or open. *)
Command(x, cs) ==
    IF x.channel \in {"opening", "open"} THEN [x EXCEPT !.cmds = @ \o cs] ELSE x

declareQueue          == [c |-> "queue"]
declareExchange(e, f) == [c |-> "exchange", e |-> e, then |-> f]
bindQueue(e, k)       == [c |-> "bind", e |-> e, k |-> k]

-----------------------------------------------------------------------------
(* MqSession *)

(* The old handler goes before the connection that refers to it. *)
init(x) ==
    [x EXCEPT !.m_mq_handler = "FALSE", !.channel = "opening", !.cmds = <<>>,
              !.live = {}, !.dangling = @ \/ x.channel # "none"]

(* In the order of an unordered_map. *)
binding_exchange(x) ==
    {Command(x, [i \in DOMAIN es |-> declareExchange(es[i], TRUE)]) :
        es \in SetToSeqs(DOMAIN x.m_binds)}

Insert(x, e, k) ==
    [x EXCEPT !.m_binds = [f \in DOMAIN @ \cup {e} |-> IF f \in DOMAIN @ THEN @[f] ELSE {k}]]

(* Fault: what is asked for before the channel is open is not recorded. *)
bind_one_exchange_unopened(x, e, k) ==
    IF ~x.m_is_session_opend THEN x
    ELSE Command([Insert(x, e, k) EXCEPT !.live = @ \cup {<<e, k>>}],
                 <<declareExchange(e, FALSE), bindQueue(e, k)>>)

(* The first key of an exchange is recorded, the later ones are not. *)
bind_one_exchange(x, e, k) ==
    IF ~x.m_is_session_opend THEN Insert(x, e, k)
    ELSE Command([Insert(x, e, k) EXCEPT !.live = @ \cup {<<e, k>>}],
                 <<declareExchange(e, FALSE), bindQueue(e, k)>>)

(* The handler is destroyed, then its connection is closed. *)
do_close(x) ==
    IF x.m_is_session_opend
      THEN [x EXCEPT !.m_is_session_opend = FALSE, !.m_mq_handler = "null",
                     !.dangling = TRUE, !.channel = "closed", !.cmds = <<>>]
      ELSE x

-----------------------------------------------------------------------------
(* MqClient *)
register_timer(x) == [x EXCEPT !.m_timer = "armed"]

connect_mq(x) == init([x EXCEPT !.m_is_connecting = TRUE])

do_connect(x) ==
    IF is_connected(x) THEN x
    ELSE register_timer(connect_mq([x EXCEPT !.m_auto_reconnect = TRUE]))

close_session(x) == IF is_connected(x) THEN do_close(x) ELSE x

(* A completion of the timer that is already posted is not cancelled. *)
do_close_client(x) ==
    [close_session([x EXCEPT !.m_auto_reconnect = FALSE, !.m_is_connecting = FALSE])
        EXCEPT !.m_timer = "off"]

(* Fault: an attempt under way is not waited for. *)
on_timeout_impatient(x) ==
    register_timer(IF x.m_auto_reconnect /\ ~is_connected(x) THEN connect_mq(x) ELSE x)

(* close_session is called if there is no connection, and then does        *)
(* nothing.                                                                *)
on_timeout(x) ==
    register_timer(
      IF x.m_is_connecting
        THEN [x EXCEPT !.m_is_connecting = ~is_connected(x)]
        ELSE LET y == IF is_connected(x) THEN x ELSE close_session(x)
             IN  IF y.m_auto_reconnect /\ ~is_connected(y) THEN connect_mq(y) ELSE y)

-----------------------------------------------------------------------------
Post(task) == ready' = Append(ready, task)

connect ==
    /\ calls.connects < MaxConnects
    /\ Post([f |-> "do_connect"])
    /\ calls' = [calls EXCEPT !.connects = @ + 1]
    /\ UNCHANGED <<m, broker>>

bind_exchange(e, k) ==
    /\ calls.binds < MaxBinds
    /\ Post([f |-> "do_bind", e |-> e, k |-> k])
    /\ calls' = [calls EXCEPT !.binds = @ + 1,
                     !.first = IF e \in DOMAIN Config \/ \E p \in @ : p[1] = e
                                 THEN @ ELSE @ \cup {<<e, k>>}]
    /\ UNCHANGED <<m, broker>>

(* Bound: close_client and close are called once each. *)
close_client ==
    /\ "client" \notin calls.closed
    /\ Post([f |-> "do_close_client"])
    /\ calls' = [calls EXCEPT !.closed = @ \cup {"client"}]
    /\ UNCHANGED <<m, broker>>

(* Session::close, also by a message CMD_SHUTDOWN_SESSION. *)
close ==
    /\ "session" \notin calls.closed
    /\ Post([f |-> "do_close"])
    /\ calls' = [calls EXCEPT !.closed = @ \cup {"session"}]
    /\ UNCHANGED <<m, broker>>

expire ==
    /\ m.m_timer = "armed"
    /\ m' = [m EXCEPT !.m_timer = "off"]
    /\ Post([f |-> "on_timeout"])
    /\ UNCHANGED <<broker, calls>>

run ==
    /\ ready # <<>>
    /\ ready' = Tail(ready)
    /\ LET t == Head(ready) IN
         m' = CASE t.f = "do_connect"      -> do_connect(m)
                [] t.f = "do_bind"         -> bind_one_exchange(m, t.e, t.k)
                [] t.f = "do_close_client" -> do_close_client(m)
                [] t.f = "do_close"        -> do_close(m)
                [] t.f = "on_timeout"      -> on_timeout(m)
    /\ UNCHANGED <<broker, calls>>

(* The connection is made (MqHandler::onConnected, which ends like         *)
(* onClosed) and the channel opens (channel_ready_call).                   *)
channel_ready ==
    /\ m.channel = "opening"
    /\ m' \in binding_exchange(Command([m EXCEPT !.m_mq_handler = "FALSE", !.channel = "open",
                                                 !.m_is_session_opend = TRUE],
                                       <<declareQueue>>))
    /\ UNCHANGED <<ready, broker, calls>>

(* The broker answers the next command; queue_success_call,                *)
(* exchange_success_call.  The consume of queue_success_call is left out:  *)
(* it comes after the bindings, of a queue that is there, and changes none *)
(* of the state kept here.                                                 *)
answer ==
    /\ m.channel = "open" /\ m.cmds # <<>>
    /\ LET c == Head(m.cmds)
           x == [m EXCEPT !.cmds = Tail(@)]
       IN  \/ /\ c.c = "queue"
              /\ broker' = [broker EXCEPT !.queue = TRUE]
              /\ m' \in binding_exchange(x)
           \/ /\ c.c = "exchange"
              /\ broker' = [broker EXCEPT !.exchanges = @ \cup {c.e}]
              /\ m' = IF ~c.then THEN x
                      ELSE Command(x, [i \in DOMAIN SetToSeq(m.m_binds[c.e]) |->
                                         bindQueue(c.e, SetToSeq(m.m_binds[c.e])[i])])
           \/ /\ c.c = "bind" /\ broker.queue /\ c.e \in broker.exchanges
              /\ broker' = [broker EXCEPT !.bound = @ \cup {<<c.e, c.k>>}]
              /\ m' = x
           \/ /\ c.c = "bind" /\ ~(broker.queue /\ c.e \in broker.exchanges)
              /\ m' = [x EXCEPT !.channel = "error", !.cmds = <<>>]
              /\ UNCHANGED broker
    /\ UNCHANGED <<ready, calls>>

(* The connection is lost (MqHandler::onError), with the broker or not. *)
lose(restart) ==
    /\ m.channel \in {"opening", "open", "error"}
    /\ restart => calls.restarts < MaxRestarts
    /\ m' = [m EXCEPT !.m_mq_handler = "FALSE", !.channel = "lost", !.cmds = <<>>]
    /\ broker' = IF restart THEN [queue |-> FALSE, exchanges |-> {}, bound |-> {}] ELSE broker
    /\ calls' = [calls EXCEPT !.restarts = IF restart THEN @ + 1 ELSE @]
    /\ UNCHANGED ready

Next ==
    \/ connect \/ close_client \/ close \/ expire \/ run
    \/ \E e \in Exchanges, k \in Keys : bind_exchange(e, k)
    \/ channel_ready \/ answer \/ \E restart \in BOOLEAN : lose(restart)

Spec == Init /\ [][Next]_vars

-----------------------------------------------------------------------------
(* Whichever comes first, bind_exchange or the opening of the channel, and *)
(* also after a restart of the broker: once the commands of an open        *)
(* channel are answered, the configured keys, the first key asked for with *)
(* any other exchange, and every key asked for on this channel are bound.  *)
(* (A later key of an exchange that is asked for before the channel opens  *)
(* is none of these: m_binds.insert ignores it.)                           *)
BindingsReach ==
    /\ m.channel = "open" /\ m.cmds = <<>>
    /\ ~\E i \in DOMAIN ready : ready[i].f = "do_bind"
    => calls.first \cup m.live \subseteq broker.bound

(* An application that connects once and does not close the session has a  *)
(* connection that is never replaced, by on_timeout or otherwise, under a  *)
(* broker that calls back, and no command is refused.  A second connect()  *)
(* finds m_is_session_opend still set: what is bound before the new        *)
(* channel is ready goes ahead of the queue.                               *)
OneConnectIsSafe ==
    calls.connects <= 1 /\ "session" \notin calls.closed => ~m.dangling /\ m.channel # "error"
=============================================================================
