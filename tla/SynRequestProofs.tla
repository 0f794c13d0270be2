-------------------------- MODULE SynRequestProofs ---------------------------
(* Proofs about synchronous requests, for any number of calling threads,   *)
(* of requests and of answers to each.                                     *)
EXTENDS SynRequest, TLAPS

Places == {"out", "store", "make", "future", "post", "wait", "forget", "reset"}

TypeOK ==
    /\ m_send_sequenceid \in Nat \cup {None}
    /\ m_promise \in Requests \cup {None}
    /\ value \in [Requests -> Requests \cup {None}]
    /\ pc \in [Callers -> Places]
    /\ req \in [Callers -> Requests \cup {None}]
    /\ fu \in [Callers -> Requests \cup {None}]
    /\ result \in [Requests -> Requests \cup {None, Timeout}]
    /\ wire \in [Requests -> Nat] /\ answers \in [Requests -> Nat]
    /\ dealing \in Requests \cup {None}
    /\ next \in Nat
    /\ overlap \in BOOLEAN /\ crashed \in BOOLEAN

(* A promise is there only while a caller that can reset it is inside. *)
PromiseHasCaller ==
    m_promise # None =>
        \E t \in Callers : pc[t] \in {"future", "post", "wait", "forget", "reset"}

(* Each answer is on its way, let pass, set, or used up. *)
AnswersCounted ==
    \A r \in Requests :
        wire[r] + (IF dealing = r THEN 1 ELSE 0) + (IF value[r] = r THEN 1 ELSE 0)
            <= answers[r]

(* Only what was asked for is answered. *)
AnsweredWasAsked ==
    /\ \A r \in Requests : answers[r] > 0 \/ result[r] # None => r < next
    /\ \A t \in Callers : pc[t] # "out" => req[t] \in Requests /\ req[t] < next

(* Who waits has a future to wait on. *)
FutureThere ==
    \A t \in Callers : ~crashed /\ pc[t] \in {"post", "wait", "forget"} => fu[t] \in Requests

(* Without overlap one caller is inside. *)
CallerAlone ==
    ~overlap => \A t, u \in Callers : pc[t] # "out" /\ pc[u] # "out" => t = u

(* The one promise and the one id are those of the caller inside. *)
PromiseIsOwn ==
    ~overlap => \A t \in Callers :
        /\ pc[t] \in {"future", "post", "wait", "forget", "reset"} => m_promise = req[t]
        /\ ~crashed /\ pc[t] \in {"post", "wait", "forget"} => fu[t] = req[t]
        /\ pc[t] \in {"make", "future", "post", "wait", "forget"} =>
              m_send_sequenceid = req[t]

(* With no id stored no answer passes: the id is that of no request, or    *)
(* nothing was answered yet.                                               *)
IdleId ==
    ~overlap /\ (\A t \in Callers : pc[t] \in {"out", "store", "reset"}) =>
        \/ m_send_sequenceid = None
        \/ \A r \in Requests : answers[r] = 0 /\ result[r] = None

(* An answer that was let pass finds its caller inside, or was too late. *)
PassedInTime ==
    ~overlap /\ dealing # None =>
        \/ dealing \in raced
        \/ \E t \in Callers : /\ req[t] = dealing
                              /\ pc[t] \in {"make", "future", "post", "wait", "forget"}

(* What a promise was set to. *)
ValueIsOwn ==
    ~overlap => \A r \in Requests : value[r] # None => value[r] = r \/ value[r] \in raced

(* A future is taken once. *)
TakenOnce ==
    ~overlap => /\ \A r \in Requests : r \in retrieved => r < next
                /\ \A t \in Callers : pc[t] \in {"store", "make", "future"} => req[t] \notin retrieved

IInv ==
    /\ TypeOK /\ PromiseHasCaller /\ AnswersCounted /\ AnsweredWasAsked
    /\ FutureThere /\ CallerAlone /\ PromiseIsOwn /\ IdleId /\ PassedInTime /\ ValueIsOwn
    /\ TakenOnce /\ OwnAnswer /\ Survives
-----------------------------------------------------------------------------
(* IInv holds at the start. *)
LEMMA InitSyn == Init => IInv
<1> SUFFICES ASSUME Init PROVE IInv
  OBVIOUS
<1> USE SynAssumption DEF Init, Requests, None, Timeout
<1>1. TypeOK
  BY DEF TypeOK, Places
<1>2. PromiseHasCaller /\ AnswersCounted /\ AnsweredWasAsked /\ FutureThere
  BY DEF PromiseHasCaller, AnswersCounted, AnsweredWasAsked, FutureThere
<1>3. CallerAlone /\ PromiseIsOwn /\ IdleId /\ PassedInTime
  BY DEF CallerAlone, PromiseIsOwn, IdleId, PassedInTime
<1>4. ValueIsOwn /\ TakenOnce /\ OwnAnswer /\ Survives
  BY DEF ValueIsOwn, TakenOnce, OwnAnswer, Survives
<1> QED
  BY <1>1, <1>2, <1>3, <1>4 DEF IInv

(* A caller enters and draws the next id. *)
LEMMA EnterInv ==
    ASSUME IInv, NEW t \in Callers, enter(t)
    PROVE  IInv'
<1> USE SynAssumption DEF None, Timeout, Requests, enter, At, Go, net
<1>1. AnswersCounted'
  BY DEF IInv, AnswersCounted
<1>2. TypeOK'
  <2>1. next \in Requests /\ next' \in Nat
    BY DEF IInv, TypeOK
  <2>2. req' \in [Callers -> Requests \cup {None}] /\ pc' \in [Callers -> Places]
    BY <2>1 DEF IInv, TypeOK, Places
  <2>3. overlap' \in BOOLEAN
    BY DEF IInv, TypeOK
  <2> QED
    BY <2>1, <2>2, <2>3 DEF IInv, TypeOK
<1>3. PromiseHasCaller'
  BY DEF IInv, PromiseHasCaller
<1>4. AnsweredWasAsked'
  BY DEF IInv, AnsweredWasAsked, TypeOK, Places
<1>5. FutureThere'
  BY DEF IInv, FutureThere
<1>6. CallerAlone'
  BY DEF IInv, CallerAlone, TypeOK, Places
<1>7. PromiseIsOwn'
  BY DEF IInv, PromiseIsOwn, TypeOK, Places
<1>8. IdleId'
  BY DEF IInv, IdleId, TypeOK, Places
<1>9. PassedInTime'
  BY DEF IInv, PassedInTime
<1>10. ValueIsOwn'
  BY DEF IInv, ValueIsOwn
<1>11. TakenOnce'
  BY DEF IInv, TakenOnce, TypeOK, Places
<1>12. OwnAnswer'
  BY DEF IInv, OwnAnswer
<1>13. Survives'
  BY DEF IInv, Survives
<1> QED
  BY <1>1, <1>2, <1>3, <1>4, <1>5, <1>6, <1>7, <1>8, <1>9, <1>10, <1>11, <1>12,
     <1>13 DEF IInv

(* The id is stored. *)
LEMMA StoreIdInv ==
    ASSUME IInv, NEW t \in Callers, store_id(t)
    PROVE  IInv'
<1> USE SynAssumption DEF None, Timeout, Requests, store_id, At, Go, net
<1>1. AnswersCounted' /\ ValueIsOwn' /\ OwnAnswer' /\ Survives'
  BY DEF IInv, AnswersCounted, ValueIsOwn, OwnAnswer, Survives
<1>2. TypeOK'
  BY DEF IInv, TypeOK, AnsweredWasAsked, Places
<1>3. PromiseHasCaller'
  BY DEF IInv, PromiseHasCaller
<1>4. AnsweredWasAsked'
  BY DEF IInv, AnsweredWasAsked
<1>5. FutureThere'
  BY DEF IInv, FutureThere
<1>6. CallerAlone'
  BY DEF IInv, CallerAlone
<1>7. PromiseIsOwn'
  BY DEF IInv, PromiseIsOwn, TypeOK, CallerAlone, Places
<1>8. IdleId'
  BY DEF IInv, IdleId, TypeOK, Places
<1>9. PassedInTime'
  BY DEF IInv, PassedInTime
<1>10. TakenOnce'
  BY DEF IInv, TakenOnce
<1> QED
  BY <1>1, <1>2, <1>3, <1>4, <1>5, <1>6, <1>7, <1>8, <1>9, <1>10 DEF IInv

(* The promise is made anew. *)
LEMMA MakePromiseInv ==
    ASSUME IInv, NEW t \in Callers, make_promise(t)
    PROVE  IInv'
<1> USE SynAssumption DEF None, Timeout, Requests, make_promise, At, Go, net
<1>1. AnswersCounted' /\ ValueIsOwn' /\ OwnAnswer' /\ Survives'
  BY DEF IInv, AnswersCounted, ValueIsOwn, OwnAnswer, Survives
<1>2. TypeOK'
  BY DEF IInv, TypeOK, Places
<1>3. PromiseHasCaller'
  BY DEF IInv, PromiseHasCaller, TypeOK, Places
<1>4. AnsweredWasAsked'
  BY DEF IInv, AnsweredWasAsked
<1>5. FutureThere'
  BY DEF IInv, FutureThere
<1>6. CallerAlone'
  BY DEF IInv, CallerAlone
<1>7. PromiseIsOwn'
  BY DEF IInv, PromiseIsOwn, CallerAlone, Places
<1>8. IdleId'
  BY DEF IInv, IdleId
<1>9. PassedInTime'
  BY DEF IInv, PassedInTime
<1>10. TakenOnce'
  BY DEF IInv, TakenOnce
<1> QED
  BY <1>1, <1>2, <1>3, <1>4, <1>5, <1>6, <1>7, <1>8, <1>9, <1>10 DEF IInv

(* The future is taken, or the process ends. *)
LEMMA GetFutureInv ==
    ASSUME IInv, NEW t \in Callers, get_future(t)
    PROVE  IInv'
<1> USE SynAssumption DEF None, Timeout, Requests, get_future, At, Go, net
<1>1. AnswersCounted' /\ ValueIsOwn' /\ OwnAnswer'
  BY DEF IInv, AnswersCounted, ValueIsOwn, OwnAnswer
<1>2. TypeOK'
  BY DEF IInv, TypeOK, Places
<1>3. PromiseHasCaller'
  BY DEF IInv, PromiseHasCaller
<1>4. AnsweredWasAsked'
  BY DEF IInv, AnsweredWasAsked
<1>5. FutureThere'
  BY DEF IInv, FutureThere, TypeOK, Places
<1>6. CallerAlone'
  BY DEF IInv, CallerAlone
<1>7. PromiseIsOwn'
  BY DEF IInv, PromiseIsOwn, TypeOK, Places
<1>8. IdleId'
  BY DEF IInv, IdleId
<1>9. PassedInTime'
  BY DEF IInv, PassedInTime
<1>10. TakenOnce'
  <2>1. ~overlap => m_promise = req[t] /\ req[t] \in Requests /\ req[t] < next
    BY DEF IInv, TypeOK, PromiseIsOwn, AnsweredWasAsked
  <2>2. ~overlap => \A u \in Callers : pc'[u] # "out" => u = t
    BY DEF IInv, TypeOK, CallerAlone, Places
  <2>3. pc'[t] = "post"
    BY DEF IInv, TypeOK
  <2>4. ~overlap' => \A s \in Requests : s \in retrieved' => s < next'
    BY <2>1 DEF IInv, TakenOnce
  <2>5. ~overlap' => \A u \in Callers :
           pc'[u] \in {"store", "make", "future"} => req'[u] \notin retrieved'
    BY <2>2, <2>3
  <2> QED
    BY <2>4, <2>5 DEF TakenOnce
<1>11. Survives'
  <2>1. ~overlap => m_promise = req[t] /\ req[t] \notin retrieved /\ req[t] \in Requests
    BY DEF IInv, TypeOK, AnsweredWasAsked, PromiseIsOwn, TakenOnce
  <2>2. ~overlap => m_promise \notin retrieved \cup {None}
    BY <2>1 DEF IInv, TypeOK
  <2>3. crashed' => m_promise \in retrieved \cup {None}
    BY Zenon
  <2>4. overlap' = overlap
    OBVIOUS
  <2> HIDE DEF get_future, None, Requests
  <2> QED
    BY <2>2, <2>3, <2>4 DEF Survives
<1> QED
  BY <1>1, <1>2, <1>3, <1>4, <1>5, <1>6, <1>7, <1>8, <1>9, <1>10, <1>11 DEF
     IInv

(* The request is written. *)
LEMMA PostWriteInv ==
    ASSUME IInv, NEW t \in Callers, post_write(t)
    PROVE  IInv'
<1> USE SynAssumption DEF None, Timeout, Requests, post_write, At, Go, net
<1>1. AnswersCounted' /\ ValueIsOwn' /\ OwnAnswer' /\ Survives'
  BY DEF IInv, AnswersCounted, ValueIsOwn, OwnAnswer, Survives
<1>2. TypeOK'
  BY DEF IInv, TypeOK, Places
<1>3. PromiseHasCaller'
  BY DEF IInv, PromiseHasCaller
<1>4. AnsweredWasAsked'
  BY DEF IInv, AnsweredWasAsked
<1>5. FutureThere'
  BY DEF IInv, FutureThere
<1>6. CallerAlone'
  BY DEF IInv, CallerAlone
<1>7. PromiseIsOwn'
  BY DEF IInv, PromiseIsOwn
<1>8. IdleId'
  BY DEF IInv, IdleId
<1>9. PassedInTime'
  BY DEF IInv, PassedInTime
<1>10. TakenOnce'
  BY DEF IInv, TakenOnce
<1> QED
  BY <1>1, <1>2, <1>3, <1>4, <1>5, <1>6, <1>7, <1>8, <1>9, <1>10 DEF IInv

(* The future is ready. *)
LEMMA ReadyInv ==
    ASSUME IInv, NEW t \in Callers, ready(t)
    PROVE  IInv'
<1> USE SynAssumption DEF None, Timeout, Requests, ready, At, Go, net
<1>1. AnswersCounted' /\ ValueIsOwn'
  BY DEF IInv, AnswersCounted, ValueIsOwn
<1>2. TypeOK'
  BY DEF IInv, TypeOK, AnsweredWasAsked, FutureThere, PromiseIsOwn, Places
<1>3. PromiseHasCaller'
  BY DEF IInv, PromiseHasCaller
<1>4. AnsweredWasAsked'
  BY DEF IInv, AnsweredWasAsked
<1>5. FutureThere'
  BY DEF IInv, FutureThere
<1>6. CallerAlone'
  BY DEF IInv, CallerAlone
<1>7. PromiseIsOwn'
  BY DEF IInv, PromiseIsOwn
<1>8. IdleId'
  BY DEF IInv, IdleId
<1>9. PassedInTime'
  BY DEF IInv, PassedInTime
<1>10. TakenOnce'
  BY DEF IInv, TakenOnce
<1>11. OwnAnswer'
  BY DEF IInv, OwnAnswer, PromiseIsOwn, ValueIsOwn, Places
<1>12. Survives'
  BY DEF IInv, Survives, TypeOK, PromiseIsOwn, Places
<1> QED
  BY <1>1, <1>2, <1>3, <1>4, <1>5, <1>6, <1>7, <1>8, <1>9, <1>10, <1>11, <1>12
     DEF IInv

(* The caller has waited long enough. *)
LEMMA TimeoutInv ==
    ASSUME IInv, NEW t \in Callers, timeout(t)
    PROVE  IInv'
<1> USE SynAssumption DEF None, Timeout, Requests, timeout, At, Go, net
<1>1. AnswersCounted' /\ ValueIsOwn' /\ Survives'
  BY DEF IInv, AnswersCounted, ValueIsOwn, Survives
<1>2. TypeOK'
  BY DEF IInv, TypeOK, Places
<1>3. PromiseHasCaller'
  BY DEF IInv, PromiseHasCaller
<1>4. AnsweredWasAsked'
  BY DEF IInv, AnsweredWasAsked
<1>5. FutureThere'
  BY DEF IInv, FutureThere
<1>6. CallerAlone'
  BY DEF IInv, CallerAlone
<1>7. PromiseIsOwn'
  BY DEF IInv, PromiseIsOwn
<1>8. IdleId'
  BY DEF IInv, IdleId
<1>9. PassedInTime'
  BY DEF IInv, PassedInTime
<1>10. TakenOnce'
  BY DEF IInv, TakenOnce
<1>11. OwnAnswer'
  BY DEF IInv, OwnAnswer
<1> QED
  BY <1>1, <1>2, <1>3, <1>4, <1>5, <1>6, <1>7, <1>8, <1>9, <1>10, <1>11 DEF
     IInv

(* The id is forgotten; an answer let pass by now is too late. *)
LEMMA ForgetInv ==
    ASSUME IInv, NEW t \in Callers, forget(t)
    PROVE  IInv'
<1> USE SynAssumption DEF None, Timeout, Requests, forget, At, Go, net
<1>1. AnswersCounted'
  BY DEF IInv, AnswersCounted
<1>2. TypeOK'
  BY DEF IInv, TypeOK, Places
<1>3. PromiseHasCaller'
  BY DEF IInv, PromiseHasCaller
<1>4. AnsweredWasAsked'
  BY DEF IInv, AnsweredWasAsked
<1>5. FutureThere'
  BY DEF IInv, FutureThere
<1>6. CallerAlone'
  BY DEF IInv, CallerAlone
<1>7. PromiseIsOwn'
  BY DEF IInv, PromiseIsOwn, TypeOK, CallerAlone, Places
<1>8. IdleId'
  BY DEF IInv, IdleId
<1>9. PassedInTime'
  BY DEF IInv, PassedInTime
<1>10. ValueIsOwn'
  BY DEF IInv, ValueIsOwn
<1>11. TakenOnce'
  BY DEF IInv, TakenOnce
<1>12. OwnAnswer'
  BY DEF IInv, OwnAnswer
<1>13. Survives'
  BY DEF IInv, Survives
<1> QED
  BY <1>1, <1>2, <1>3, <1>4, <1>5, <1>6, <1>7, <1>8, <1>9, <1>10, <1>11, <1>12,
     <1>13 DEF IInv

(* The promise is dropped and the caller leaves. *)
LEMMA ResetPromiseInv ==
    ASSUME IInv, NEW t \in Callers, reset_promise(t)
    PROVE  IInv'
<1> USE SynAssumption DEF None, Timeout, Requests, reset_promise, At, Go, net
<1>1. AnswersCounted' /\ ValueIsOwn' /\ OwnAnswer' /\ Survives'
  BY DEF IInv, AnswersCounted, ValueIsOwn, OwnAnswer, Survives
<1>2. TypeOK'
  BY DEF IInv, TypeOK, Places
<1>3. PromiseHasCaller'
  BY DEF IInv, PromiseHasCaller
<1>4. AnsweredWasAsked'
  BY DEF IInv, AnsweredWasAsked
<1>5. FutureThere'
  BY DEF IInv, FutureThere
<1>6. CallerAlone'
  BY DEF IInv, CallerAlone
<1>7. PromiseIsOwn'
  BY DEF IInv, PromiseIsOwn, TypeOK, CallerAlone, Places
<1>8. IdleId'
  BY DEF IInv, IdleId
<1>9. PassedInTime'
  BY DEF IInv, PassedInTime
<1>10. TakenOnce'
  BY DEF IInv, TakenOnce
<1> QED
  BY <1>1, <1>2, <1>3, <1>4, <1>5, <1>6, <1>7, <1>8, <1>9, <1>10 DEF IInv

(* The peer answers. *)
LEMMA AnswerInv ==
    ASSUME IInv, NEW r \in Requests, answer(r)
    PROVE  IInv'
<1> USE SynAssumption DEF None, Timeout, Requests, answer, caller
<1>1. PromiseHasCaller' /\ FutureThere' /\ CallerAlone' /\ PromiseIsOwn' /\
     IdleId' /\ PassedInTime' /\ ValueIsOwn' /\ TakenOnce' /\ OwnAnswer'
  BY DEF IInv, PromiseHasCaller, FutureThere, CallerAlone, PromiseIsOwn,
         IdleId, PassedInTime, ValueIsOwn, TakenOnce, OwnAnswer
<1>2. TypeOK'
  <2>1. answers' \in [Requests -> Nat] /\ wire' \in [Requests -> Nat]
    BY SMTT(30) DEF IInv, TypeOK
  <2> QED
    BY <2>1 DEF IInv, TypeOK, Places
<1>3. AnswersCounted'
  BY SMTT(30) DEF IInv, AnswersCounted, TypeOK, Places
<1>4. AnsweredWasAsked'
  BY DEF IInv, AnsweredWasAsked
<1>5. Survives'
  BY DEF IInv, Survives
<1> QED
  BY <1>1, <1>2, <1>3, <1>4, <1>5 DEF IInv

(* An answer is let pass, or dropped. *)
LEMMA ResponseComeInv ==
    ASSUME IInv, NEW r \in Requests, response_come(r)
    PROVE  IInv'
<1> USE SynAssumption DEF None, Timeout, Requests, response_come, Receive, caller
<1>1. PromiseHasCaller' /\ AnsweredWasAsked' /\ FutureThere' /\ CallerAlone' /\
     PromiseIsOwn' /\ IdleId' /\ ValueIsOwn' /\ TakenOnce' /\ OwnAnswer' /\
     Survives'
  BY DEF IInv, PromiseHasCaller, AnsweredWasAsked, FutureThere, CallerAlone,
         PromiseIsOwn, IdleId, ValueIsOwn, TakenOnce, OwnAnswer, Survives
<1>2. TypeOK'
  <2>1. wire[r] \in Nat /\ wire[r] - 1 \in Nat
    BY DEF IInv, TypeOK
  <2>2. wire' \in [Requests -> Nat]
    BY <2>1 DEF IInv, TypeOK
  <2> QED
    BY <2>2 DEF IInv, TypeOK, Places
<1>3. AnswersCounted'
  BY DEF IInv, AnswersCounted, TypeOK, Places
<1>4. PassedInTime'
  <2> SUFFICES ASSUME ~overlap, dealing' = r, m_send_sequenceid = r
               PROVE  \E t \in Callers :
                         /\ req[t] = r
                         /\ pc[t] \in {"make", "future", "post", "wait", "forget"}
    BY DEF IInv, TypeOK, PassedInTime
  <2>1. answers[r] > 0
    <3>1. wire[r] \in Nat /\ answers[r] \in Nat
      BY DEF IInv, TypeOK
    <3>2. wire[r] + (IF dealing = r THEN 1 ELSE 0) + (IF value[r] = r THEN 1 ELSE 0)
            <= answers[r]
      BY DEF IInv, AnswersCounted
    <3> QED
      BY <3>1, <3>2
  <2>2. PICK t \in Callers : pc[t] \notin {"out", "store", "reset"}
    BY <2>1 DEF IInv, IdleId
  <2>3. pc[t] \in {"make", "future", "post", "wait", "forget"}
    BY <2>2 DEF IInv, TypeOK, Places
  <2> QED
    BY <2>2, <2>3 DEF IInv, PromiseIsOwn
<1> QED
  BY <1>1, <1>2, <1>3, <1>4 DEF IInv

(* The promise of the caller inside is set. *)
LEMMA SetValueInv ==
    ASSUME IInv, set_value
    PROVE  IInv'
<1> USE SynAssumption DEF None, Timeout, Requests, set_value, caller, net
<1>a. ASSUME ~overlap, m_promise # None
      PROVE  dealing = m_promise \/ dealing \in raced
  <2>1. PICK t \in Callers : pc[t] \in {"future", "post", "wait", "forget", "reset"}
    BY <1>a DEF IInv, PromiseHasCaller
  <2>2. m_promise = req[t]
    BY <1>a, <2>1 DEF IInv, PromiseIsOwn
  <2>3. \A u \in Callers : pc[u] # "out" => u = t
    BY <1>a, <2>1 DEF IInv, CallerAlone
  <2> QED
    BY <1>a, <2>2, <2>3 DEF IInv, PassedInTime
<1>1. PromiseHasCaller' /\ AnsweredWasAsked' /\ CallerAlone' /\ IdleId' /\
     TakenOnce' /\ OwnAnswer'
  BY DEF IInv, PromiseHasCaller, AnsweredWasAsked, CallerAlone, IdleId,
         TakenOnce, OwnAnswer
<1>2. TypeOK'
  BY DEF IInv, TypeOK, Places
<1>3. AnswersCounted'
  BY DEF IInv, AnswersCounted, TypeOK, Places
<1>4. FutureThere'
  BY DEF IInv, FutureThere
<1>5. PromiseIsOwn'
  BY DEF IInv, PromiseIsOwn
<1>6. PassedInTime'
  BY DEF IInv, PassedInTime
<1>7. ValueIsOwn'
  <2>1. CASE m_promise = None
    BY <2>1 DEF IInv, ValueIsOwn
  <2>2. CASE m_promise # None
    BY <2>2, <1>a, SMTT(30) DEF IInv, TypeOK, ValueIsOwn
  <2> QED
    BY <2>1, <2>2
<1>8. Survives'
  <2> SUFFICES ASSUME m_promise # None, value[m_promise] # None, ~overlap, raced = {}
               PROVE  \E r \in Requests : answers[r] > 1
    BY DEF IInv, Survives
  <2>1. dealing = m_promise /\ m_promise \in Requests
    BY <1>a DEF IInv, TypeOK
  <2>2. value[m_promise] = m_promise
    BY <2>1 DEF IInv, ValueIsOwn
  <2>3. wire[m_promise] \in Nat /\ answers[m_promise] \in Nat
    BY <2>1 DEF IInv, TypeOK
  <2>4. wire[m_promise] + 1 + 1 <= answers[m_promise]
    BY <2>1, <2>2 DEF IInv, AnswersCounted
  <2> QED
    BY <2>1, <2>3, <2>4
<1> QED
  BY <1>1, <1>2, <1>3, <1>4, <1>5, <1>6, <1>7, <1>8 DEF IInv

(* A step of any caller, of the peer or of the loop. *)
LEMMA NextSyn == IInv /\ [Next]_vars => IInv'
<1> SUFFICES ASSUME IInv, [Next]_vars PROVE IInv'
  OBVIOUS
<1>1. ASSUME NEW t \in Callers, wait_response(t) PROVE IInv'
  BY <1>1, EnterInv, StoreIdInv, MakePromiseInv, GetFutureInv, PostWriteInv, ReadyInv,
     TimeoutInv, ForgetInv, ResetPromiseInv DEF wait_response
<1>2. ASSUME NEW r \in Requests, answer(r) \/ response_come(r) PROVE IInv'
  BY <1>2, AnswerInv, ResponseComeInv
<1>3. CASE set_value
  BY <1>3, SetValueInv
<1>4. CASE UNCHANGED vars
  BY <1>4 DEF IInv, TypeOK, PromiseHasCaller, AnswersCounted, AnsweredWasAsked, FutureThere,
     CallerAlone, PromiseIsOwn, IdleId, PassedInTime, ValueIsOwn, TakenOnce, OwnAnswer,
     Survives, vars, caller, net
<1> QED
  BY <1>1, <1>2, <1>3, <1>4 DEF Next

(* The callers, the promise and the answers stay consistent in every      *)
(* interleaving of wait_response, response_come and the peer.              *)
THEOREM SynInvariant == Spec => []IInv
<1>1. Init => IInv
  BY InitSyn
<1>2. IInv /\ [Next]_vars => IInv'
  BY NextSyn
<1> QED
  BY <1>1, <1>2, PTL DEF Spec

(* wait_response returns the answer to its own request, unless callers     *)
(* were inside at the same time or an answer let pass by response_come met *)
(* the next request's promise.                                             *)
THEOREM AnswersAreOwn == Spec => []OwnAnswer
<1>1. IInv => OwnAnswer
  BY DEF IInv
<1> QED
  BY <1>1, SynInvariant, PTL

(* With one caller inside at a time, one answer to a request and none that *)
(* is let pass too late, neither get_future nor set_value throws and no    *)
(* promise is broken.                                                      *)
THEOREM ProcessSurvives == Spec => []Survives
<1>1. IInv => Survives
  BY DEF IInv
<1> QED
  BY <1>1, SynInvariant, PTL

(* wait_response leaves no promise behind, however many callers met.       *)
THEOREM NoPromiseLeft == Spec => []NothingLeft
<1>1. IInv => NothingLeft
  BY DEF IInv, PromiseHasCaller, NothingLeft
<1> QED
  BY <1>1, SynInvariant, PTL
=============================================================================
