---------------------------- MODULE AsyncRequest -----------------------------
(***************************************************************************)
(* The asynchronous requests of one session: Session<MsgTag>::send(msg,    *)
(* fun, milliseconds, io_loop) and AsyncRequest<MsgTag>, the table of      *)
(* requests that wait for a response (libserver/Session.inl,               *)
(* libserver/AsyncRequest.inl).                                            *)
(*                                                                         *)
(* All the table's handlers run in the thread of the session's IoLoop, one *)
(* at a time.  Sequence ids come from m_sequenceid, an atomic counter that *)
(* threads making synchronous requests read and increment, in two steps,   *)
(* at the same time as the loop thread.  Each entry owns a deadline timer  *)
(* whose handler is outstanding from the moment the entry is made; once    *)
(* the timer expired its handler is queued with success, and cancelling it *)
(* then has no effect.                                                     *)
(***************************************************************************)
EXTENDS Integers, Sequences, Functions

CONSTANTS Requests,      \* the asynchronous requests issued on the session
          NoRequest,     \* no request is being sent by the loop thread
          SyncThreads,   \* threads that make synchronous requests
          MaxSyncId,     \* bound: synchronous requests draw ids below it
          MaxResponses   \* bound: responses the peer sends in all

ASSUME RequestAssumption ==
    /\ NoRequest \notin Requests
    /\ MaxSyncId \in Nat
    /\ MaxResponses \in Nat

VARIABLES
    m_sequenceid,   \* Session::m_sequenceid
    drawn,          \* drawn[t]: id thread t loaded, m_sequenceid not yet incremented
    m_items,        \* AsyncRequest::m_items: sequence id -> request
    m_timer,        \* outstanding timer handlers: sequence id -> timer state
    current,        \* the request do_send_asyn_message is at work on
    current_id,     \* the id the loop thread read for it
    written,        \* ids of the requests handed to do_write
    responses,      \* number of responses received
    phase,          \* phase[r]: "idle", "posted" or "sent"
    m_io_loop,      \* loop in which the callback of r is to run
    calls,          \* calls[r]: what m_fun was bound to, in posting order
    ran             \* ran[r]: how many of these calls have run

vars == <<m_sequenceid, drawn, m_items, m_timer, current, current_id,
          written, responses, phase, m_io_loop, calls, ran>>

tableVars == <<m_items, m_timer>>
sendVars  == <<m_sequenceid, drawn, current, current_id, written, phase,
               m_io_loop>>
callVars  == <<calls, ran>>

Loops      == {"session", "other"}
TimerState == {"armed", "expired", "aborted"}
Outcome    == {"response", "timeout"}
NoId       == -1

Insert(f, k, v) == [x \in DOMAIN f \cup {k} |-> IF x = k THEN v ELSE f[x]]
Erase(f, k)     == Restrict(f, DOMAIN f \ {k})

-----------------------------------------------------------------------------

Init ==
    /\ m_sequenceid = 0
    /\ drawn = [t \in SyncThreads |-> NoId]
    /\ m_items = <<>>
    /\ m_timer = <<>>
    /\ current = NoRequest
    /\ current_id = 0
    /\ written = {}
    /\ responses = 0
    /\ phase = [r \in Requests |-> "idle"]
    /\ m_io_loop = [r \in Requests |-> "session"]
    /\ calls = [r \in Requests |-> <<>>]
    /\ ran = [r \in Requests |-> 0]

(***************************************************************************)
(* A synchronous send draws its id in the thread of its caller: it loads   *)
(* m_sequenceid into the message, then increments it.                      *)
(***************************************************************************)
sync_load(t) ==
    /\ drawn[t] = NoId
    /\ m_sequenceid < MaxSyncId
    /\ drawn' = [drawn EXCEPT ![t] = m_sequenceid]
    /\ UNCHANGED <<m_sequenceid, current, current_id, written, phase,
                   m_io_loop, tableVars, responses, callVars>>

(* Fault: the counter runs downwards. *)
sync_increment_down(t) ==
    /\ drawn[t] # NoId
    /\ m_sequenceid' = m_sequenceid - 1
    /\ drawn' = [drawn EXCEPT ![t] = NoId]
    /\ UNCHANGED <<current, current_id, written, phase, m_io_loop, tableVars,
                   responses, callVars>>

sync_increment(t) ==
    /\ drawn[t] # NoId
    /\ m_sequenceid' = m_sequenceid + 1
    /\ drawn' = [drawn EXCEPT ![t] = NoId]
    /\ UNCHANGED <<current, current_id, written, phase, m_io_loop, tableVars,
                   responses, callVars>>

(* Session::send with a callback posts do_send_asyn_message to the loop. *)
send(r, l) ==
    /\ phase[r] = "idle"
    /\ phase' = [phase EXCEPT ![r] = "posted"]
    /\ m_io_loop' = [m_io_loop EXCEPT ![r] = l]
    /\ UNCHANGED <<m_sequenceid, drawn, current, current_id, written,
                   tableVars, responses, callVars>>

(* do_send_asyn_message up to the load of m_sequenceid. *)
do_send_asyn_message(r) ==
    /\ current = NoRequest
    /\ phase[r] = "posted"
    /\ current' = r
    /\ current_id' = m_sequenceid
    /\ UNCHANGED <<m_sequenceid, drawn, written, phase, m_io_loop, tableVars,
                   responses, callVars>>

(* Fault: the entry's constructor does not start the timer's wait, which a *)
(* response alone ends.                                                    *)
send_request_untimed ==
    /\ current # NoRequest
    /\ m_sequenceid' = m_sequenceid + 1
    /\ m_items' = Insert(m_items, current_id, current)
    /\ written' = written \cup {current_id}
    /\ phase' = [phase EXCEPT ![current] = "sent"]
    /\ current' = NoRequest
    /\ UNCHANGED <<drawn, current_id, m_timer, responses, m_io_loop, callVars>>

(* Fault: the id drawn is not counted. *)
send_request_uncounted ==
    /\ current # NoRequest
    /\ IF current_id \in DOMAIN m_items
         THEN UNCHANGED tableVars
         ELSE /\ m_items' = Insert(m_items, current_id, current)
              /\ m_timer' = Insert(m_timer, current_id, "armed")
    /\ written' = written \cup {current_id}
    /\ phase' = [phase EXCEPT ![current] = "sent"]
    /\ current' = NoRequest
    /\ UNCHANGED <<m_sequenceid, drawn, current_id, responses, m_io_loop, callVars>>

(* The rest of it: the increment, AsyncRequest::send_request and do_write. *)
(* The entry's constructor arms the timer; an id in use is not inserted.   *)
send_request ==
    /\ current # NoRequest
    /\ m_sequenceid' = m_sequenceid + 1
    /\ IF current_id \in DOMAIN m_items
         THEN UNCHANGED tableVars
         ELSE /\ m_items' = Insert(m_items, current_id, current)
              /\ m_timer' = Insert(m_timer, current_id, "armed")
    /\ written' = written \cup {current_id}
    /\ phase' = [phase EXCEPT ![current] = "sent"]
    /\ current' = NoRequest
    /\ UNCHANGED <<drawn, current_id, responses, m_io_loop, callVars>>

(* Time passes the deadline: the handler is queued with success. *)
expire(s) ==
    /\ s \in DOMAIN m_timer
    /\ m_timer[s] = "armed"
    /\ m_timer' = [m_timer EXCEPT ![s] = "expired"]
    /\ UNCHANGED <<m_items, sendVars, responses, callVars>>

(* AsynItem posts std::bind(m_fun, m_request, response) to the loop of the *)
(* callback; IoLoop::post runs it on the spot in the loop's own thread.    *)
Call(r, outcome) ==
    /\ calls' = [calls EXCEPT ![r] = Append(@, outcome)]
    /\ ran' = IF m_io_loop[r] = "session" THEN [ran EXCEPT ![r] = @ + 1] ELSE ran

(* Fault: the response erases its entry at once. *)
on_response_come_erasing(s) ==
    /\ current = NoRequest
    /\ responses < MaxResponses
    /\ responses' = responses + 1
    /\ s \in DOMAIN m_items
    /\ m_timer' = [m_timer EXCEPT ![s] = IF @ = "armed" THEN "aborted" ELSE @]
    /\ Call(m_items[s], "response")
    /\ m_items' = Erase(m_items, s)
    /\ UNCHANGED sendVars

(***************************************************************************)
(* A response arrives.  The peer answers a request it was sent at any      *)
(* later time, more than once or never; the reply of Message::             *)
(* send_response(int, PbMessagePtr) carries id 0.  The entry stays in the  *)
(* table until the handler of its cancelled timer runs.                    *)
(***************************************************************************)
on_response_come(s) ==
    /\ current = NoRequest
    /\ responses < MaxResponses
    /\ responses' = responses + 1
    /\ IF s \in DOMAIN m_items
         THEN /\ m_timer' = [m_timer EXCEPT ![s] =
                                 IF @ = "armed" THEN "aborted" ELSE @]
              /\ Call(m_items[s], "response")
         ELSE UNCHANGED <<m_timer, callVars>>
    /\ UNCHANGED <<m_items, sendVars>>

(* Fault: the entry of an expired timer stays in the table. *)
on_response_timeout_keeping(s) ==
    /\ current = NoRequest
    /\ s \in DOMAIN m_timer
    /\ m_timer[s] # "armed"
    /\ m_timer' = Erase(m_timer, s)
    /\ IF m_timer[s] = "expired"
         THEN Call(m_items[s], "timeout") /\ UNCHANGED m_items
         ELSE UNCHANGED callVars /\ m_items' = Erase(m_items, s)
    /\ UNCHANGED <<sendVars, responses>>

(* Fault: an expired timer erases the entry without calling back. *)
on_response_timeout_silent(s) ==
    /\ current = NoRequest
    /\ s \in DOMAIN m_timer
    /\ m_timer[s] # "armed"
    /\ m_items' = Erase(m_items, s)
    /\ m_timer' = Erase(m_timer, s)
    /\ UNCHANGED <<sendVars, responses, callVars>>

(* The timer's handler: a queued success calls back with a timeout, an     *)
(* abort does not; either way the entry is erased.                         *)
on_response_timeout(s) ==
    /\ current = NoRequest
    /\ s \in DOMAIN m_timer
    /\ m_timer[s] # "armed"
    /\ IF m_timer[s] = "expired"
         THEN Call(m_items[s], "timeout")
         ELSE UNCHANGED callVars
    /\ m_items' = Erase(m_items, s)
    /\ m_timer' = Erase(m_timer, s)
    /\ UNCHANGED <<sendVars, responses>>

(* The callback's own loop runs the next posted call. *)
run(r) ==
    /\ ran[r] < Len(calls[r])
    /\ ran' = [ran EXCEPT ![r] = @ + 1]
    /\ UNCHANGED <<calls, tableVars, sendVars, responses>>

Next ==
    \/ \E t \in SyncThreads : sync_load(t) \/ sync_increment(t)
    \/ \E r \in Requests, l \in Loops : send(r, l)
    \/ \E r \in Requests : do_send_asyn_message(r) \/ run(r)
    \/ send_request
    \/ \E s \in written \cup {0} : on_response_come(s)
    \/ \E s \in DOMAIN m_timer : expire(s) \/ on_response_timeout(s)

Spec == Init /\ [][Next]_vars

(***************************************************************************)
(* Loops keep running their handlers and time passes.  Nothing is assumed  *)
(* of the peer or of the threads.                                          *)
(***************************************************************************)
Fairness ==
    /\ \A r \in Requests : WF_vars(do_send_asyn_message(r)) /\ WF_vars(run(r))
    /\ WF_vars(send_request)
    /\ WF_vars(\E s \in DOMAIN m_timer : expire(s))
    /\ WF_vars(\E s \in DOMAIN m_timer : on_response_timeout(s))

FairSpec == Spec /\ Fairness

-----------------------------------------------------------------------------

TypeOK ==
    /\ m_sequenceid \in Nat
    /\ drawn \in [SyncThreads -> Nat \cup {NoId}]
    /\ m_items \in [DOMAIN m_items -> Requests]
    /\ m_timer \in [DOMAIN m_timer -> TimerState]
    /\ DOMAIN m_items \subseteq Nat
    /\ current \in Requests \cup {NoRequest}
    /\ current_id \in Nat
    /\ written \subseteq Nat
    /\ responses \in Nat
    /\ phase \in [Requests -> {"idle", "posted", "sent"}]
    /\ m_io_loop \in [Requests -> Loops]
    /\ calls \in [Requests -> Seq(Outcome)]
    /\ ran \in [Requests -> Nat]

(***************************************************************************)
(* assert(it != m_items.end()) in on_response_timeout: an outstanding      *)
(* timer handler finds its entry.  And no entry is without a handler that  *)
(* will erase it.                                                          *)
(***************************************************************************)
HandlerFindsItem == DOMAIN m_timer = DOMAIN m_items

(* The entry of r is in the table. *)
Waiting(r) == \E s \in DOMAIN m_items : m_items[s] = r

(***************************************************************************)
(* A request that went out waits in the table or its callback was called:  *)
(* send_request never meets an id in use, whatever the threads of          *)
(* synchronous requests do to the counter, and no entry is erased before   *)
(* its callback was called.                                                *)
(***************************************************************************)
NoRequestForgotten ==
    \A r \in Requests : phase[r] = "sent" => Waiting(r) \/ calls[r] # <<>>

(***************************************************************************)
(* A callback told CODE_WAIT_RESP_TIMEOUT is told nothing afterwards: a    *)
(* response that races the deadline or comes after it is not delivered     *)
(* behind the timeout.                                                     *)
(***************************************************************************)
TimeoutIsLast ==
    \A r \in Requests : \A i \in DOMAIN calls[r] :
        calls[r][i] = "timeout" => i = Len(calls[r]) /\ ~Waiting(r)

(***************************************************************************)
(* What makes these invariants inductive: ids in the table lie below the   *)
(* counter, and below the id being given out; an entry belongs to a        *)
(* request that went out, and a request has one entry; a timer was aborted *)
(* by a response that called back; a request not yet out was not called.   *)
(***************************************************************************)
IdsBelowCounter == \A s \in DOMAIN m_items : s < m_sequenceid

CurrentIdFresh ==
    current # NoRequest =>
        /\ phase[current] = "posted"
        /\ current_id <= m_sequenceid
        /\ \A s \in DOMAIN m_items : s < current_id

OneEntryEach ==
    /\ \A s \in DOMAIN m_items : phase[m_items[s]] = "sent"
    /\ \A s, u \in DOMAIN m_items : m_items[s] = m_items[u] => s = u

AbortedWasAnswered ==
    \A s \in DOMAIN m_items : m_timer[s] = "aborted" => calls[m_items[s]] # <<>>

UnsentNotCalled == \A r \in Requests : phase[r] # "sent" => calls[r] = <<>>

TableInv ==
    /\ TypeOK
    /\ HandlerFindsItem
    /\ IdsBelowCounter
    /\ CurrentIdFresh
    /\ OneEntryEach
    /\ AbortedWasAnswered
    /\ UnsentNotCalled
    /\ NoRequestForgotten
    /\ TimeoutIsLast

(***************************************************************************)
(* The callback of every request that was posted runs: a response lost, a  *)
(* peer that never answers or a session that was closed end in a timeout.  *)
(***************************************************************************)
EveryRequestCalledBack ==
    \A r \in Requests : phase[r] = "posted" ~> ran[r] > 0

(* How far a request is, as its contract sees it. *)
Status == [r \in Requests |-> IF Waiting(r) THEN "pending"
                              ELSE IF phase[r] = "sent" THEN "closed"
                              ELSE "idle"]

Contract == INSTANCE RequestContract WITH status <- Status, handed <- calls

(***************************************************************************)
(* The table implements what RequestContract promises of a request.        *)
(***************************************************************************)
ImplementsContract == Contract!CSpec
=============================================================================
