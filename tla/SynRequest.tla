----------------------------- MODULE SynRequest ------------------------------
(***************************************************************************)
(* Synchronous requests of a session (libserver/Synrequest.inl, reached    *)
(* through Session::send(msg, response, milliseconds)): the calling thread *)
(* leaves a promise, has the request written and waits for the answer or   *)
(* for its timeout; the session's loop thread finds the promise when an    *)
(* answer comes.  One SynRequest, with one id and one promise, serves all  *)
(* the threads that call on the session.                                   *)
(*                                                                         *)
(* A promise is named after the request it was made for, and an answer     *)
(* after the request it answers.  Ids are the requests: that concurrent    *)
(* callers may draw the same one is AsyncRequest.tla's matter.             *)
(***************************************************************************)
EXTENDS Integers, FiniteSets

CONSTANTS Callers,      \* threads that make synchronous requests
          MaxRequests,  \* bound: requests made
          MaxAnswers    \* bound: answers the peer gives to one request

ASSUME SynAssumption == MaxRequests \in Nat /\ MaxAnswers \in Nat

Requests == 0 .. MaxRequests - 1
None     == -1
Timeout  == -2      \* CODE_WAIT_RESP_TIMEOUT

VARIABLES
    m_send_sequenceid,
    m_promise,      \* the promise the loop thread may set
    retrieved,      \* promises whose future was taken
    value,          \* value[p]: what promise p was set to
    pc,             \* where each caller is in its call
    req,            \* the request it makes there
    fu,             \* the promise of its future
    result,         \* result[r]: what wait_response returned for r
    wire,           \* wire[r]: answers to r in flight
    answers,        \* answers[r]: answers given to r
    dealing,        \* the answer response_come has let pass
    next,           \* the next id
    overlap,        \* two callers were in a call at a time
    raced,          \* requests given up while their answer was let pass
    crashed         \* an exception nobody catches, or a null pointer

caller == <<pc, req, fu, result, next, overlap, raced>>
net    == <<wire, answers>>
vars   == <<m_send_sequenceid, m_promise, retrieved, value, caller, net,
            dealing, crashed>>

Init ==
    /\ m_send_sequenceid = 0
    /\ m_promise = None
    /\ retrieved = {}
    /\ value = [r \in Requests |-> None]
    /\ pc = [t \in Callers |-> "out"]
    /\ req = [t \in Callers |-> None]
    /\ fu = [t \in Callers |-> None]
    /\ result = [r \in Requests |-> None]
    /\ wire = [r \in Requests |-> 0]
    /\ answers = [r \in Requests |-> 0]
    /\ dealing = None
    /\ next = 0
    /\ overlap = FALSE
    /\ raced = {}
    /\ crashed = FALSE

At(t, l) == ~crashed /\ pc[t] = l
Go(t, l) == pc' = [pc EXCEPT ![t] = l]

(* A call, step by step: set_msg_sequenceid draws the id, and only then    *)
(* wait_response stores it for the loop thread to compare with.            *)
enter(t) ==
    /\ At(t, "out")
    /\ next < MaxRequests
    /\ next' = next + 1
    /\ req' = [req EXCEPT ![t] = next]
    /\ overlap' = (overlap \/ \E u \in Callers : pc[u] # "out")
    /\ Go(t, "store")
    /\ UNCHANGED <<m_send_sequenceid, m_promise, retrieved, value, fu, result, net,
                   dealing, raced, crashed>>

store_id(t) ==
    /\ At(t, "store")
    /\ m_send_sequenceid' = req[t]
    /\ Go(t, "make")
    /\ UNCHANGED <<m_promise, retrieved, value, req, fu, result, next, overlap, raced,
                   net, dealing, crashed>>

make_promise(t) ==
    /\ At(t, "make")
    /\ m_promise' = req[t]
    /\ Go(t, "future")
    /\ UNCHANGED <<m_send_sequenceid, retrieved, value, req, fu, result, next,
                   overlap, raced, net, dealing, crashed>>

(* get_future on a null pointer, or for the second time, ends the process. *)
get_future(t) ==
    /\ At(t, "future")
    /\ fu' = [fu EXCEPT ![t] = m_promise]
    /\ retrieved' = retrieved \cup {m_promise}
    /\ crashed' = (m_promise \in retrieved \cup {None})
    /\ Go(t, "post")
    /\ UNCHANGED <<m_send_sequenceid, m_promise, value, req, result, next,
                   overlap, raced, net, dealing>>

(* The request is written; the peer answers when and how often it likes. *)
post_write(t) ==
    /\ At(t, "post")
    /\ Go(t, "wait")
    /\ UNCHANGED <<m_send_sequenceid, m_promise, retrieved, value, req, fu, result,
                   next, overlap, raced, net, dealing, crashed>>

(* The future is ready: a value was set, or its promise is gone and get()  *)
(* throws.  Promises are held by m_promise alone.                          *)
ready(t) ==
    /\ At(t, "wait")
    /\ value[fu[t]] # None \/ m_promise # fu[t]
    /\ result' = [result EXCEPT ![req[t]] = value[fu[t]]]
    /\ crashed' = (value[fu[t]] = None)
    /\ Go(t, "forget")
    /\ UNCHANGED <<m_send_sequenceid, m_promise, retrieved, value, req, fu, next,
                   overlap, raced, net, dealing>>

(* Fault: the caller waits without a limit. *)
timeout_never(t) == At(t, "wait") /\ FALSE /\ UNCHANGED vars

timeout(t) ==
    /\ At(t, "wait")
    /\ value[fu[t]] = None /\ m_promise = fu[t]
    /\ result' = [result EXCEPT ![req[t]] = Timeout]
    /\ Go(t, "forget")
    /\ UNCHANGED <<m_send_sequenceid, m_promise, retrieved, value, req, fu, next,
                   overlap, raced, net, dealing, crashed>>

(* Fault: the id is not forgotten. *)
forget_nothing(t) ==
    /\ At(t, "forget")
    /\ raced' = IF dealing = req[t] THEN raced \cup {req[t]} ELSE raced
    /\ Go(t, "reset")
    /\ UNCHANGED <<m_send_sequenceid, m_promise, retrieved, value, req, fu, result,
                   next, overlap, net, dealing, crashed>>

(* m_send_sequenceid = -1 *)
forget(t) ==
    /\ At(t, "forget")
    /\ m_send_sequenceid' = None
    /\ raced' = IF dealing = req[t] THEN raced \cup {req[t]} ELSE raced
    /\ Go(t, "reset")
    /\ UNCHANGED <<m_promise, retrieved, value, req, fu, result, next, overlap,
                   net, dealing, crashed>>

(* Fault: the promise stays. *)
reset_promise_not(t) ==
    /\ At(t, "reset")
    /\ Go(t, "out")
    /\ UNCHANGED <<m_send_sequenceid, m_promise, retrieved, value, req, fu, result,
                   next, overlap, raced, net, dealing, crashed>>

reset_promise(t) ==
    /\ At(t, "reset")
    /\ m_promise' = None
    /\ Go(t, "out")
    /\ UNCHANGED <<m_send_sequenceid, retrieved, value, req, fu, result, next,
                   overlap, raced, net, dealing, crashed>>

-----------------------------------------------------------------------------
(* The peer answers a request that was written. *)
answer(r) ==
    /\ ~crashed
    /\ result[r] # None \/ \E t \in Callers : req[t] = r /\ pc[t] = "wait"
    /\ answers[r] < MaxAnswers
    /\ answers' = [answers EXCEPT ![r] = @ + 1]
    /\ wire' = [wire EXCEPT ![r] = @ + 1]
    /\ UNCHANGED <<m_send_sequenceid, m_promise, retrieved, value, caller, dealing, crashed>>

Receive(r) ==
    /\ ~crashed
    /\ dealing = None
    /\ wire[r] > 0
    /\ wire' = [wire EXCEPT ![r] = @ - 1]
    /\ UNCHANGED <<m_send_sequenceid, m_promise, retrieved, value, caller, answers, crashed>>

(* Fault: the ids are not compared. *)
response_come_any(r) == Receive(r) /\ dealing' = r

(* response_come compares the ids, and only then takes the lock. *)
response_come(r) ==
    /\ Receive(r)
    /\ dealing' = IF m_send_sequenceid = r THEN r ELSE None

(* Setting a promise twice throws in the loop thread. *)
set_value ==
    /\ ~crashed
    /\ dealing # None
    /\ IF m_promise = None THEN UNCHANGED <<value, crashed>>
       ELSE /\ crashed' = (value[m_promise] # None)
            /\ value' = [value EXCEPT ![m_promise] = dealing]
    /\ dealing' = None
    /\ UNCHANGED <<m_send_sequenceid, m_promise, retrieved, caller, net>>

wait_response(t) ==
    \/ enter(t) \/ store_id(t) \/ make_promise(t) \/ get_future(t) \/ post_write(t)
    \/ ready(t) \/ timeout(t) \/ forget(t) \/ reset_promise(t)

Next ==
    \/ \E t \in Callers : wait_response(t)
    \/ \E r \in Requests : answer(r) \/ response_come(r)
    \/ set_value

Spec == Init /\ [][Next]_vars

(* The callers' threads and the loop's run; wait_for ends by its timeout.  *)
(* A caller need not call again, and the peer need not answer.             *)
FairSpec ==
    /\ Spec
    /\ \A t \in Callers : WF_vars(wait_response(t) /\ pc[t] # "out")
    /\ WF_vars(set_value)

-----------------------------------------------------------------------------
(* A caller is given the answer to its own request, unless callers met or  *)
(* an earlier request was given up just when its answer had been let pass. *)
OwnAnswer ==
    ~overlap => \A r \in Requests :
        result[r] \in Requests => result[r] = r \/ result[r] \in raced

(* One caller at a time and one answer to a request: the process survives, *)
(* but for an answer that was let pass and then set on a later promise.    *)
Survives ==
    crashed => \/ overlap
               \/ \E r \in Requests : answers[r] > 1
               \/ raced # {}

(* Once all callers have left, nothing is left for an answer to find. *)
NothingLeft ==
    (\A t \in Callers : pc[t] = "out") => m_promise = None

(* A synchronous call returns, whatever the peer does. *)
CallsReturn ==
    \A t \in Callers : pc[t] # "out" ~> crashed \/ pc[t] = "out"
=============================================================================
