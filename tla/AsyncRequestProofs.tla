------------------------- MODULE AsyncRequestProofs --------------------------
(***************************************************************************)
(* TableInv is an inductive invariant of AsyncRequest, for every set of    *)
(* requests and of threads and every bound: the assertion of               *)
(* on_response_timeout holds, no request is forgotten and a timeout is the *)
(* last thing a callback is told.                                          *)
(***************************************************************************)
EXTENDS AsyncRequest, TLAPS

LEMMA InitTable == Init => TableInv
  BY RequestAssumption
  DEF Init, TableInv, TypeOK, HandlerFindsItem, IdsBelowCounter, CurrentIdFresh,
      OneEntryEach, AbortedWasAnswered, UnsentNotCalled, NoRequestForgotten,
      TimeoutIsLast, Waiting, Loops, NoId

LEMMA NextTable == TableInv /\ [Next]_vars => TableInv'
<1> SUFFICES ASSUME TableInv, [Next]_vars PROVE TableInv'
  OBVIOUS
<1> USE DEF TableInv, TypeOK, HandlerFindsItem, IdsBelowCounter, CurrentIdFresh,
      OneEntryEach, AbortedWasAnswered, UnsentNotCalled, NoRequestForgotten,
      TimeoutIsLast, Waiting, tableVars, sendVars, callVars
<1>1. ASSUME NEW t \in SyncThreads, sync_load(t) PROVE TableInv'
  BY <1>1 DEF sync_load
<1>2. ASSUME NEW t \in SyncThreads, sync_increment(t) PROVE TableInv'
  BY <1>2 DEF sync_increment
<1>3. ASSUME NEW r \in Requests, NEW l \in Loops, send(r, l) PROVE TableInv'
  BY <1>3 DEF send
<1>4. ASSUME NEW r \in Requests, do_send_asyn_message(r) PROVE TableInv'
  BY <1>4, RequestAssumption DEF do_send_asyn_message
<1>5. ASSUME NEW r \in Requests, run(r) PROVE TableInv'
  BY <1>5 DEF run
<1>6. ASSUME send_request PROVE TableInv'
  <2>1. /\ current \in Requests
        /\ current_id \notin DOMAIN m_items
        /\ \A s \in DOMAIN m_items : m_items[s] # current
        /\ calls[current] = <<>>
    BY <1>6 DEF send_request
  <2>2. /\ DOMAIN m_items' = DOMAIN m_items \cup {current_id}
        /\ DOMAIN m_timer' = DOMAIN m_timer \cup {current_id}
        /\ m_items'[current_id] = current
        /\ m_timer'[current_id] = "armed"
        /\ \A s \in DOMAIN m_items : /\ m_items'[s] = m_items[s]
                                     /\ m_timer'[s] = m_timer[s]
    BY <1>6, <2>1 DEF send_request, Insert
  <2>3. TypeOK'
    BY <1>6, <2>1 DEF send_request, Insert, TimerState
  <2>4. HandlerFindsItem' /\ IdsBelowCounter' /\ CurrentIdFresh'
    BY <1>6, <2>2 DEF send_request
  <2>5. OneEntryEach' /\ AbortedWasAnswered' /\ UnsentNotCalled'
    BY <1>6, <2>1, <2>2 DEF send_request
  <2>6. NoRequestForgotten'
    BY <1>6, <2>1, <2>2 DEF send_request
  <2>7. TimeoutIsLast'
    BY <1>6, <2>1, <2>2 DEF send_request
  <2> QED BY <2>3, <2>4, <2>5, <2>6, <2>7
<1>7. ASSUME NEW s \in DOMAIN m_timer, expire(s) PROVE TableInv'
  BY <1>7 DEF expire, TimerState
<1>8. ASSUME NEW s, on_response_come(s) PROVE TableInv'
  <2>1. CASE s \notin DOMAIN m_items
    BY <1>8, <2>1 DEF on_response_come
  <2>2. CASE s \in DOMAIN m_items
    <3> DEFINE r == m_items[s]
    <3>1. /\ r \in Requests
          /\ phase[r] = "sent"
          /\ calls' = [calls EXCEPT ![r] = Append(@, "response")]
          /\ UNCHANGED <<m_items, sendVars>>
      BY <1>8, <2>2 DEF on_response_come, Call
    <3>2. /\ calls'[r] = Append(calls[r], "response")
          /\ calls'[r] # <<>>
          /\ \A q \in Requests : q # r => calls'[q] = calls[q]
      BY <3>1
    <3>3. TypeOK'
      <4>1. calls' \in [Requests -> Seq(Outcome)]
        BY <3>1 DEF Outcome
      <4>2. ran' \in [Requests -> Nat]
        <5>1. ran' = ran \/ ran' = [ran EXCEPT ![r] = @ + 1]
          BY <1>8, <2>2 DEF on_response_come, Call
        <5> QED BY <3>1, <5>1
      <4>3. m_timer' \in [DOMAIN m_timer' -> TimerState] /\ responses' \in Nat
        <5>1. m_timer[s] \in TimerState
          BY <2>2
        <5>2. PICK x \in TimerState : m_timer' = [m_timer EXCEPT ![s] = x]
          BY <1>8, <2>2, <5>1 DEF on_response_come, TimerState
        <5>3. m_timer' \in [DOMAIN m_timer' -> TimerState]
          BY <2>2, <5>2
        <5> QED BY <1>8, <5>3 DEF on_response_come
      <4> QED BY <3>1, <4>1, <4>2, <4>3
    <3>4. HandlerFindsItem' /\ IdsBelowCounter' /\ CurrentIdFresh'
      BY <1>8, <2>2, <3>1 DEF on_response_come
    <3>5. OneEntryEach' /\ UnsentNotCalled'
      BY <3>1, <3>2
    <3>6. AbortedWasAnswered'
      BY <1>8, <2>2, <3>1, <3>2 DEF on_response_come
    <3>7. NoRequestForgotten'
      BY <3>1, <3>2
    <3>8. TimeoutIsLast'
      <4>1. \A i \in DOMAIN calls[r] : calls[r][i] # "timeout"
        BY <2>2, <3>1
      <4>2. \A i \in DOMAIN calls'[r] : calls'[r][i] # "timeout"
        BY <3>1, <3>2, <4>1, SMTT(30) DEF Outcome
      <4> QED BY <3>1, <3>2, <4>2, SMTT(30)
    <3> QED BY <3>3, <3>4, <3>5, <3>6, <3>7, <3>8
  <2> QED BY <2>1, <2>2
<1>9. ASSUME NEW s \in DOMAIN m_timer, on_response_timeout(s) PROVE TableInv'
  <2> DEFINE r == m_items[s]
  <2>1. /\ r \in Requests
        /\ s \in DOMAIN m_items
        /\ phase[r] = "sent"
        /\ UNCHANGED <<sendVars, responses>>
    BY <1>9 DEF on_response_timeout
  <2>2. /\ DOMAIN m_items' = DOMAIN m_items \ {s}
        /\ DOMAIN m_timer' = DOMAIN m_timer \ {s}
        /\ \A u \in DOMAIN m_items \ {s} : /\ m_items'[u] = m_items[u]
                                           /\ m_timer'[u] = m_timer[u]
    BY <1>9 DEF on_response_timeout, Erase, Restrict
  <2>3. /\ calls' \in [Requests -> Seq(Outcome)]
        /\ calls'[r] # <<>>
        /\ \A q \in Requests : q # r => calls'[q] = calls[q]
        /\ \A i \in DOMAIN calls'[r] : calls'[r][i] = "timeout" => i = Len(calls'[r])
        /\ ran' \in [Requests -> Nat]
    <3>1. CASE m_timer[s] = "expired"
      <4>1. /\ calls' = [calls EXCEPT ![r] = Append(@, "timeout")]
            /\ ran' = ran \/ ran' = [ran EXCEPT ![r] = @ + 1]
        BY <1>9, <3>1, <2>1 DEF on_response_timeout, Call
      <4>2. \A i \in DOMAIN calls[r] : calls[r][i] # "timeout"
        BY <2>1
      <4>3. /\ calls' \in [Requests -> Seq(Outcome)]
            /\ calls'[r] = Append(calls[r], "timeout")
            /\ \A q \in Requests : q # r => calls'[q] = calls[q]
        BY <2>1, <4>1 DEF Outcome
      <4>4. ran' \in [Requests -> Nat]
        BY <2>1, <4>1
      <4>5. /\ calls'[r] # <<>>
            /\ \A i \in DOMAIN calls'[r] :
                  calls'[r][i] = "timeout" => i = Len(calls'[r])
        BY <2>1, <4>2, <4>3 DEF Outcome
      <4> QED BY <4>3, <4>4, <4>5
    <3>2. CASE m_timer[s] = "aborted"
      BY <1>9, <3>2, <2>1 DEF on_response_timeout
    <3> QED BY <1>9, <3>1, <3>2 DEF on_response_timeout, TimerState
  <2>4. TypeOK'
    BY <1>9, <2>1, <2>3 DEF on_response_timeout, Erase, Restrict
  <2>5. HandlerFindsItem' /\ IdsBelowCounter' /\ CurrentIdFresh'
    BY <1>9, <2>1, <2>2 DEF on_response_timeout
  <2>6. OneEntryEach' /\ UnsentNotCalled'
    BY <2>1, <2>2, <2>3
  <2>7. AbortedWasAnswered'
    BY <2>1, <2>2, <2>3
  <2>8. NoRequestForgotten'
    <3> SUFFICES ASSUME NEW q \in Requests, phase'[q] = "sent", q # r
                 PROVE Waiting(q)' \/ calls'[q] # <<>>
      BY <2>3
    <3>1. phase[q] = "sent" /\ calls'[q] = calls[q]
      BY <2>1, <2>3
    <3>2. Waiting(q) => Waiting(q)'
      BY <2>2
    <3> QED BY <3>1, <3>2
  <2>9. TimeoutIsLast'
    BY <2>1, <2>2, <2>3
  <2> QED BY <2>4, <2>5, <2>6, <2>7, <2>8, <2>9
<1>10. CASE UNCHANGED vars
  BY <1>10 DEF vars
<1> QED
  BY <1>1, <1>2, <1>3, <1>4, <1>5, <1>6, <1>7, <1>8, <1>9, <1>10 DEF Next

(* TableInv holds in every state of the request table.                     *)
THEOREM TableInvariant == Spec => []TableInv
<1>1. Init => TableInv BY InitTable
<1>2. TableInv /\ [Next]_vars => TableInv' BY NextTable
<1> QED BY <1>1, <1>2, PTL DEF Spec

(* The request table and its timers stay of the types AsyncRequest.h gives *)
(* them: ids are naturals, an entry holds a request, a timer is in one of  *)
(* its states, a callback hears one of the outcomes.                       *)
THEOREM TableTypes == Spec => []TypeOK
<1>1. TableInv => TypeOK
  BY DEF TableInv
<1>2. QED
  BY <1>1, TableInvariant, PTL

(* The handler of a timer finds its entry: the assertion in                *)
(* AsyncRequest::on_response_timeout never fails, and no entry is leaked.  *)
THEOREM AssertionHolds == Spec => []HandlerFindsItem
<1>1. TableInv => HandlerFindsItem BY DEF TableInv
<1> QED BY <1>1, TableInvariant, PTL

(* Every request sent waits in the table or was called back, whatever the  *)
(* threads of synchronous requests do to the id counter.                   *)
THEOREM RequestsKept == Spec => []NoRequestForgotten
<1>1. TableInv => NoRequestForgotten BY DEF TableInv
<1> QED BY <1>1, TableInvariant, PTL

(* Nothing is handed to a callback after CODE_WAIT_RESP_TIMEOUT.           *)
THEOREM NothingAfterTimeout == Spec => []TimeoutIsLast
<1>1. TableInv => TimeoutIsLast BY DEF TableInv
<1> QED BY <1>1, TableInvariant, PTL

-----------------------------------------------------------------------------
(* What a step does to the requests, in the terms of their contract.       *)
LEMMA InitRefines == Init => Contract!CInit
<1> SUFFICES ASSUME Init PROVE Contract!CInit
  OBVIOUS
<1>1. \A r \in Requests : ~Waiting(r) /\ phase[r] # "sent"
  BY DEF Init, Waiting
<1>2. Status = [r \in Requests |-> "idle"]
  BY <1>1 DEF Status
<1> QED BY <1>2 DEF Init, Contract!CInit

LEMMA StepRefines ==
    TableInv /\ TableInv' /\ [Next]_vars => [Contract!CNext]_(Contract!cvars)
<1> SUFFICES ASSUME TableInv, TableInv', [Next]_vars
             PROVE  \/ Contract!CNext
                    \/ UNCHANGED <<Status, calls>>
  BY DEF Contract!cvars
<1> USE DEF tableVars, sendVars, callVars
<1>1. ASSUME UNCHANGED <<m_items, calls>>,
             \A r \in Requests : (phase'[r] = "sent") <=> (phase[r] = "sent")
      PROVE  UNCHANGED <<Status, calls>>
  <2>1. \A r \in Requests : Waiting(r)' <=> Waiting(r)
    BY <1>1 DEF Waiting
  <2>2. Status' = Status
    BY <1>1, <2>1 DEF Status
  <2> QED BY <1>1, <2>2
<1>2. CASE \E t \in SyncThreads : sync_load(t) \/ sync_increment(t)
  BY <1>1, <1>2 DEF sync_load, sync_increment
<1>3. CASE \E r \in Requests, l \in Loops : send(r, l)
  <2>1. UNCHANGED <<m_items, calls>>
    BY <1>3 DEF send
  <2>2. \A r \in Requests : (phase'[r] = "sent") <=> (phase[r] = "sent")
    BY <1>3 DEF send, TableInv, TypeOK
  <2> QED BY <1>1, <2>1, <2>2
<1>4. CASE \E r \in Requests : do_send_asyn_message(r) \/ run(r)
  BY <1>1, <1>4 DEF do_send_asyn_message, run
<1>5. CASE send_request
  <2>1. PICK c \in Requests :
            /\ c = current
            /\ current_id \notin DOMAIN m_items
            /\ phase[c] = "posted"
            /\ UNCHANGED calls
    BY <1>5 DEF send_request, TableInv, TypeOK, CurrentIdFresh
  <2>2. /\ m_items' = Insert(m_items, current_id, c)
        /\ phase' = [phase EXCEPT ![c] = "sent"]
    BY <1>5, <2>1 DEF send_request
  <2>3. ~Waiting(c) /\ Waiting(c)'
    BY <2>1, <2>2 DEF Waiting, Insert, TableInv, OneEntryEach
  <2>4. \A q \in Requests \ {c} :
            (Waiting(q)' <=> Waiting(q)) /\ phase'[q] = phase[q]
    BY <2>1, <2>2 DEF Waiting, Insert, TableInv, TypeOK
  <2>5. Status[c] = "idle"
    BY <2>1, <2>3 DEF Status
  <2>6. Status' = [Status EXCEPT ![c] = "pending"]
    BY <2>1, <2>3, <2>4 DEF Status
  <2>7. Contract!Issue(c)
    BY <2>1, <2>5, <2>6 DEF Contract!Issue
  <2> QED BY <2>1, <2>7 DEF Contract!CNext
<1>6. ASSUME NEW s \in DOMAIN m_timer, expire(s)
      PROVE  UNCHANGED <<Status, calls>>
  BY <1>1, <1>6 DEF expire
<1>7. ASSUME NEW s, on_response_come(s)
      PROVE  Contract!CNext \/ UNCHANGED <<Status, calls>>
  <2>1. UNCHANGED <<m_items, phase>>
    BY <1>7 DEF on_response_come
  <2>2. UNCHANGED Status
    <3>1. \A r \in Requests : Waiting(r)' <=> Waiting(r)
      BY <2>1 DEF Waiting
    <3> QED BY <2>1, <3>1 DEF Status
  <2>3. CASE s \notin DOMAIN m_items
    BY <1>7, <2>2, <2>3 DEF on_response_come
  <2>4. CASE s \in DOMAIN m_items
    <3>1. m_items[s] \in Requests /\ Waiting(m_items[s])
      BY <2>4 DEF TableInv, TypeOK, Waiting
    <3>2. calls' = [calls EXCEPT ![m_items[s]] = Append(@, "response")]
      BY <1>7, <2>4 DEF on_response_come, Call
    <3>3. Status[m_items[s]] = "pending"
      BY <3>1 DEF Status
    <3>4. Contract!Answer(m_items[s])
      BY <2>2, <3>2, <3>3 DEF Contract!Answer
    <3> QED BY <3>1, <3>4 DEF Contract!CNext
  <2> QED BY <2>3, <2>4
<1>8. ASSUME NEW s \in DOMAIN m_timer, on_response_timeout(s)
      PROVE  Contract!CNext
  <2>1. PICK r \in Requests :
            /\ s \in DOMAIN m_items
            /\ r = m_items[s]
            /\ phase[r] = "sent"
            /\ Waiting(r)
            /\ UNCHANGED phase
    BY <1>8 DEF on_response_timeout, TableInv, TypeOK, HandlerFindsItem, Waiting,
                OneEntryEach
  <2>2. /\ DOMAIN m_items' = DOMAIN m_items \ {s}
        /\ \A u \in DOMAIN m_items \ {s} : m_items'[u] = m_items[u]
    BY <1>8 DEF on_response_timeout, Erase, Restrict
  <2>3. ~Waiting(r)'
    <3>1. \A u \in DOMAIN m_items \ {s} : m_items[u] # r
      BY <2>1 DEF TableInv, OneEntryEach
    <3> QED BY <2>2, <3>1 DEF Waiting
  <2>4. \A q \in Requests \ {r} : Waiting(q)' <=> Waiting(q)
    BY <2>1, <2>2 DEF Waiting
  <2>5. Status[r] = "pending"
    BY <2>1 DEF Status
  <2>6. Status' = [Status EXCEPT ![r] = "closed"]
    BY <2>1, <2>3, <2>4 DEF Status
  <2>7. CASE m_timer[s] = "expired"
    <3>1. calls' = [calls EXCEPT ![r] = Append(@, "timeout")]
      BY <1>8, <2>1, <2>7 DEF on_response_timeout, Call
    <3>2. Contract!TimeOut(r)
      BY <2>5, <2>6, <3>1 DEF Contract!TimeOut
    <3> QED BY <2>1, <3>2 DEF Contract!CNext
  <2>8. CASE m_timer[s] = "aborted"
    <3>1. calls[r] # <<>>
      BY <2>1, <2>8 DEF TableInv, AbortedWasAnswered
    <3>2. UNCHANGED calls
      BY <1>8, <2>8 DEF on_response_timeout
    <3>3. Contract!Retire(r)
      BY <2>5, <2>6, <3>1, <3>2 DEF Contract!Retire
    <3> QED BY <2>1, <3>3 DEF Contract!CNext
  <2> QED BY <1>8, <2>7, <2>8 DEF on_response_timeout, TableInv, TypeOK, TimerState
<1>9. CASE UNCHANGED vars
  BY <1>1, <1>9 DEF vars
<1> QED
  BY <1>2, <1>3, <1>4, <1>5, <1>6, <1>7, <1>8, <1>9 DEF Next

(* The request table implements the safety part of RequestContract: any    *)
(* number of responses, then at most one timeout, and no request dropped   *)
(* before its callback was called.                                         *)
THEOREM TableImplementsContract == Spec => Contract!CSafety
<1>1. Init => Contract!CInit BY InitRefines
<1>2. TableInv /\ TableInv' /\ [Next]_vars => [Contract!CNext]_(Contract!cvars)
  BY StepRefines
<1> QED BY <1>1, <1>2, TableInvariant, PTL DEF Spec, Contract!CSafety
=============================================================================
