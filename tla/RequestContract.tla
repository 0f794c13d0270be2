--------------------------- MODULE RequestContract ---------------------------
(***************************************************************************)
(* What an asynchronous request of a session promises the code that issued *)
(* it with Session::send(msg, fun, milliseconds, io_loop): its callback is *)
(* handed any number of responses and then at most one                     *)
(* CODE_WAIT_RESP_TIMEOUT, nothing follows the timeout, and the request is *)
(* not forgotten before its callback was handed something.                 *)
(***************************************************************************)
EXTENDS Sequences, Naturals

CONSTANT Requests       \* the asynchronous requests of one session

VARIABLES status,       \* status[r]: "idle", "pending" or "closed"
          handed        \* handed[r]: what the callback of r was handed

cvars == <<status, handed>>

Outcome == {"response", "timeout"}

CInit ==
    /\ status = [r \in Requests |-> "idle"]
    /\ handed = [r \in Requests |-> <<>>]

Issue(r) ==
    /\ status[r] = "idle"
    /\ status' = [status EXCEPT ![r] = "pending"]
    /\ UNCHANGED handed

Answer(r) ==
    /\ status[r] = "pending"
    /\ handed' = [handed EXCEPT ![r] = Append(@, "response")]
    /\ UNCHANGED status

TimeOut(r) ==
    /\ status[r] = "pending"
    /\ status' = [status EXCEPT ![r] = "closed"]
    /\ handed' = [handed EXCEPT ![r] = Append(@, "timeout")]

Retire(r) ==
    /\ status[r] = "pending"
    /\ handed[r] # <<>>
    /\ status' = [status EXCEPT ![r] = "closed"]
    /\ UNCHANGED handed

CNext == \E r \in Requests : Issue(r) \/ Answer(r) \/ TimeOut(r) \/ Retire(r)

CSafety == CInit /\ [][CNext]_cvars

(* A pending request does not stay pending for ever. *)
CSpec == CSafety /\ \A r \in Requests : WF_cvars(TimeOut(r) \/ Retire(r))
=============================================================================
