--------------------------- MODULE DeliveryProofs ---------------------------
(***************************************************************************)
(* Delivery: types, what a late copy can do, and the implementation of     *)
(* ResultDelivery, for every limit of failures and number of results; and  *)
(* how far the thread is from being done with the result in hand.          *)
(*                                                                         *)
(* The inductive invariant has three parts.  Attempts: the attempts made   *)
(* for the result in hand are all counted in consecutive_failures, except  *)
(* the one that is running.  Requests: no request is of a result or of an  *)
(* attempt to come, and none that is under way has been stored.            *)
(* InOrder: every result before the last is stored, and the last one too   *)
(* wherever the thread may go on to the next.                              *)
(***************************************************************************)
EXTENDS Delivery, TLAPS

Attempts ==
    /\ at \in {"sending", "posting"} => taken \in 1..MaxResults
    /\ at = "sending" => attempts <= consecutive_failures
    /\ at = "posting" => attempts \in 1..(consecutive_failures + 1)
    /\ at # "failed" => consecutive_failures < MaxFailures

Requests ==
    /\ \A e \in in_flight \cup stored :
          /\ e.result <= taken
          /\ e.result = taken => e.attempt <= attempts
    /\ in_flight \cap stored = {}

InOrder ==
    /\ \A n \in 1..(taken - 1) : Abstract!StoredOnce(n)
    /\ at \in {"loop", "due", "beating"} /\ ~stop_event /\ taken > 0 =>
          Abstract!StoredOnce(taken)

IInv == TypeOK /\ Attempts /\ Requests /\ InOrder

LEMMA InitIInv == Init => IInv
<1> SUFFICES ASSUME Init PROVE IInv
  OBVIOUS
<1> USE DeliveryAssumption DEF DeliveryAssumption, Init
<1>1. TypeOK
  <2>1. consecutive_failures \in 0..MaxFailures /\ attempts \in 0..MaxFailures
    BY DeliveryAssumption
  <2>2. taken \in 0..MaxResults
    BY DeliveryAssumption
  <2>3. at \in Places /\ in_flight = {} /\ stored = {} /\ latest = NoEntry
    BY DEF Places
  <2> QED
    BY <2>1, <2>2, <2>3 DEF TypeOK
<1>2. Attempts /\ Requests
  BY DEF Attempts, Requests
<1>3. InOrder
  BY 1..(0 - 1) = {} DEF InOrder
<1> QED
  BY <1>1, <1>2, <1>3 DEF IInv

LEMMA StepIInv == IInv /\ [Next]_vars => IInv'
<1> SUFFICES ASSUME IInv, [Next]_vars
             PROVE  IInv'
  OBVIOUS
<1> USE DeliveryAssumption DEF DeliveryAssumption, IInv, Abstract!StoredOnce
<1>1. CASE TakeResult
  <2> USE <1>1 DEF TakeResult
  <2>1. TypeOK' /\ Attempts'
    BY DEF TypeOK, Attempts, Places
  <2>2. Requests' /\ InOrder'
    BY DEF TypeOK, Requests, InOrder, Entries
  <2> QED
    BY <2>1, <2>2
<1>2. CASE TakeNothing \/ LeaveLoop \/ NoHeartbeat \/ GiveUpResult \/ BeginHeartbeat
  <2> USE <1>2 DEF TakeNothing, LeaveLoop, NoHeartbeat, GiveUpResult, BeginHeartbeat, GoTo
  <2>1. TypeOK' /\ Attempts'
    BY DEF TypeOK, Attempts, Places
  <2>2. Requests' /\ InOrder'
    BY DEF TypeOK, Requests, InOrder, Entries
  <2> QED
    BY <2>1, <2>2
<1>3. CASE Attempt
  <2> USE <1>3 DEF Attempt
  <2>1. [result |-> taken, attempt |-> attempts + 1] \in Entries
    BY DEF TypeOK, Attempts, Entries
  <2>2. TypeOK'
    BY <2>1 DEF TypeOK, Attempts, Places
  <2>3. Attempts'
    BY DEF TypeOK, Attempts
  <2>4. Requests' /\ InOrder'
    BY DEF TypeOK, Requests, InOrder, Entries
  <2> QED
    BY <2>2, <2>3, <2>4
<1>4. CASE PostSucceeds
  <2> USE <1>4 DEF PostSucceeds, Accepted, Current, Succeed
  <2>1. TypeOK' /\ Attempts'
    BY DEF TypeOK, Attempts, Places
  <2>2. Requests' /\ InOrder'
    BY DEF TypeOK, Requests, InOrder, Entries
  <2> QED
    BY <2>1, <2>2
<1>5. CASE HeartbeatSucceeds
  <2> USE <1>5 DEF HeartbeatSucceeds, Succeed
  <2>1. TypeOK' /\ Attempts'
    BY DEF TypeOK, Attempts, Places
  <2>2. Requests' /\ InOrder'
    BY DEF TypeOK, Requests, InOrder, Entries
  <2> QED
    BY <2>1, <2>2
<1>6. CASE RequestFails
  <2> USE <1>6 DEF RequestFails, LimitReached, AfterFailure
  <2>1. TypeOK' /\ Attempts'
    BY DEF TypeOK, Attempts, Places
  <2>2. Requests' /\ InOrder'
    BY DEF TypeOK, Requests, InOrder, Entries
  <2> QED
    BY <2>1, <2>2
<1>7. CASE RequestRaises
  <2> USE <1>7 DEF RequestRaises, GoTo
  <2>1. TypeOK' /\ Attempts'
    BY DEF TypeOK, Attempts, Places
  <2>2. Requests' /\ InOrder'
    BY DEF TypeOK, Requests, InOrder, Entries
  <2> QED
    BY <2>1, <2>2
<1>8. CASE BackendStores
  <2> USE <1>8 DEF BackendStores
  <2>1. TypeOK' /\ Attempts'
    BY DEF TypeOK, Attempts, Places
  <2>2. Requests' /\ InOrder'
    BY DEF TypeOK, Requests, InOrder, Entries
  <2> QED
    BY <2>1, <2>2
<1>9. CASE RequestLost
  <2> USE <1>9 DEF RequestLost
  <2>1. TypeOK' /\ Attempts'
    BY DEF TypeOK, Attempts, Places
  <2>2. Requests' /\ InOrder'
    BY DEF TypeOK, Requests, InOrder, Entries
  <2> QED
    BY <2>1, <2>2
<1>10. CASE SetStop \/ UNCHANGED vars
  <2> USE <1>10 DEF SetStop, vars
  <2>1. TypeOK' /\ Attempts'
    BY DEF TypeOK, Attempts, Places
  <2>2. Requests' /\ InOrder'
    BY DEF TypeOK, Requests, InOrder, Entries
  <2> QED
    BY <2>1, <2>2
<1> QED
  BY <1>1, <1>2, <1>3, <1>4, <1>5, <1>6, <1>7, <1>8, <1>9, <1>10 DEF Next, Worker

(* The invariant holds whatever the network loses, delays and reorders.    *)
THEOREM Invariance == Spec => []IInv
  BY InitIInv, StepIInv, PTL DEF Spec

(* consecutive_failures never passes its limit, and no result is sent more *)
(* often than the limit allows, whatever it is set to.                     *)
THEOREM Typing == Spec => []TypeOK
  BY Invariance, PTL DEF IInv

LEMMA EntriesDiffer ==
  ASSUME NEW e \in Entries, NEW f \in Entries, e # f, e.result = f.result
  PROVE  e.attempt # f.attempt
  BY DEF Entries

LEMMA StepStale == IInv /\ StaleOnlyFromRetry /\ [Next]_vars => StaleOnlyFromRetry'
<1> SUFFICES ASSUME IInv, StaleOnlyFromRetry, [Next]_vars
             PROVE  StaleOnlyFromRetry'
  OBVIOUS
<1>1. CASE BackendStores
  <2>1. PICK m \in in_flight : stored' = stored \cup {m} /\ latest' = m
    BY <1>1 DEF BackendStores
  <2>2. m \in Entries /\ stored \subseteq Entries
    BY DEF IInv, TypeOK
  <2>3. SUFFICES ASSUME NEW e \in stored', m.result < e.result
                 PROVE  \E f \in stored' : f.result = m.result /\ f.attempt # m.attempt
    BY <2>1 DEF StaleOnlyFromRetry
  <2>4. e \in stored
    BY <2>1, <2>2, <2>3 DEF Entries
  <2>5. m.result \in 1..(taken - 1)
    BY <2>2, <2>3, <2>4, DeliveryAssumption
    DEF DeliveryAssumption, IInv, TypeOK, Requests, Entries
  <2>6. PICK f \in stored : f.result = m.result
    BY <2>5 DEF IInv, InOrder, Abstract!StoredOnce
  <2>7. f # m
    BY <2>6 DEF IInv, Requests
  <2>8. f.attempt # m.attempt
    BY <2>2, <2>6, <2>7, EntriesDiffer
  <2> QED
    BY <2>1, <2>6, <2>8
<1>2. CASE ~BackendStores
  <2>1. UNCHANGED <<stored, latest>>
    BY <1>2 DEF Next, Worker, TakeResult, TakeNothing, LeaveLoop, Attempt, GiveUpResult,
                BeginHeartbeat, NoHeartbeat, PostSucceeds, HeartbeatSucceeds, RequestFails,
                RequestRaises, RequestLost, SetStop, GoTo, vars
  <2> QED
    BY <2>1 DEF StaleOnlyFromRetry
<1> QED
  BY <1>1, <1>2

(* Only a copy of a result that was stored before can bring back an old    *)
(* count.                                                                  *)
THEOREM Staleness == Spec => []StaleOnlyFromRetry
<1>1. Init => StaleOnlyFromRetry
  BY DEF Init, StaleOnlyFromRetry
<1> QED
  BY <1>1, Invariance, StepStale, PTL DEF Spec

LEMMA StepImplements == IInv /\ [Next]_vars => [Abstract!Next]_(Abstract!deliveryVars)
<1> SUFFICES ASSUME IInv, [Next]_vars
             PROVE  [Abstract!Next]_(Abstract!deliveryVars)
  OBVIOUS
<1> USE DEF Abstract!deliveryVars
<1>1. CASE TakeResult
  <2>1. \A n \in 1..taken : Abstract!StoredOnce(n)
    <3> SUFFICES ASSUME NEW n \in 1..taken PROVE Abstract!StoredOnce(n)
      OBVIOUS
    <3>1. taken \in Nat
      BY DeliveryAssumption DEF DeliveryAssumption, IInv, TypeOK
    <3>2. n \in 1..(taken - 1) \/ (n = taken /\ taken > 0)
      BY <3>1
    <3> QED
      BY <1>1, <3>2 DEF TakeResult, IInv, InOrder
  <2> QED
    BY <1>1, <2>1 DEF TakeResult, Abstract!Next, Abstract!Offer
<1>2. CASE BackendStores
  <2>1. PICK m \in in_flight : stored' = stored \cup {m} /\ UNCHANGED taken
    BY <1>2 DEF BackendStores
  <2>2. /\ m = [result |-> m.result, attempt |-> m.attempt]
        /\ m.result \in 1..taken
        /\ m.attempt \in 1..MaxFailures
    BY DeliveryAssumption DEF DeliveryAssumption, IInv, TypeOK, Requests, Entries
  <2>3. m \notin stored
    BY DEF IInv, Requests
  <2> QED
    BY <2>1, <2>2, <2>3 DEF Abstract!Next, Abstract!Store
<1>3. CASE ~TakeResult /\ ~BackendStores
  BY <1>3 DEF Next, Worker, TakeNothing, LeaveLoop, Attempt, GiveUpResult,
              BeginHeartbeat, NoHeartbeat, PostSucceeds, HeartbeatSucceeds, RequestFails,
              RequestRaises, RequestLost, SetStop, GoTo, vars
<1> QED
  BY <1>1, <1>2, <1>3

(* The Communication thread, the network and the backend implement the     *)
(* abstract delivery: in order, nothing skipped, copies bounded.           *)
THEOREM Refinement == Spec => ImplementsDelivery
<1>1. Init => Abstract!Init
  BY DEF Init, Abstract!Init
<1> QED
  BY <1>1, Invariance, StepImplements, PTL DEF Spec, ImplementsDelivery, Abstract!Spec
-----------------------------------------------------------------------------
(* How many steps the thread has left for the result in hand.              *)
InHand == at \in {"sending", "posting"}

RequestsLeft == 2 * (MaxFailures - consecutive_failures) + (IF at = "sending" THEN 1 ELSE 0)

\* The thread is done with the result in hand, and in which way.
Settled == at = "failed" \/ (at = "due" /\ (stop_event \/ Abstract!StoredOnce(taken)))

\* What a step does to the result in hand.
Handles == /\ taken' = taken
           /\ Worker => Settled' \/ (InHand' /\ RequestsLeft' < RequestsLeft)
           /\ ~Worker => InHand' /\ RequestsLeft' = RequestsLeft

LEMMA HandlesStep ==
  ASSUME IInv, InHand, [Next]_vars
  PROVE  Handles
<1> DEFINE Done == Settled' \/ (InHand' /\ RequestsLeft' < RequestsLeft)
<1> USE DeliveryAssumption DEF DeliveryAssumption, InHand, RequestsLeft, Settled
<1>1. CASE Attempt
  <2>1. taken' = taken /\ Done
    BY <1>1 DEF Attempt, IInv, TypeOK
  <2> QED
    BY <1>1, <2>1 DEF Handles, Worker
<1>2. CASE GiveUpResult
  <2>1. taken' = taken /\ Done
    BY <1>2 DEF GiveUpResult, GoTo
  <2> QED
    BY <1>2, <2>1 DEF Handles, Worker
<1>3. CASE PostSucceeds
  <2>1. taken' = taken /\ Done
    BY <1>3 DEF PostSucceeds, Accepted, Current, Abstract!StoredOnce
  <2> QED
    BY <1>3, <2>1 DEF Handles, Worker
<1>4. CASE RequestFails
  <2>1. taken' = taken /\ Done
    BY <1>4 DEF RequestFails, LimitReached, AfterFailure, IInv, TypeOK
  <2> QED
    BY <1>4, <2>1 DEF Handles, Worker
<1>5. CASE RequestRaises
  <2>1. taken' = taken /\ Done
    BY <1>5 DEF RequestRaises, GoTo
  <2> QED
    BY <1>5, <2>1 DEF Handles, Worker
<1>6. CASE TakeResult \/ TakeNothing \/ LeaveLoop \/ BeginHeartbeat \/ NoHeartbeat \/ HeartbeatSucceeds
  BY <1>6 DEF TakeResult, TakeNothing, LeaveLoop, BeginHeartbeat, NoHeartbeat, HeartbeatSucceeds
<1>7. CASE ~Worker
  BY <1>7 DEF Handles, Next, BackendStores, RequestLost, SetStop, vars
<1> QED
  BY <1>1, <1>2, <1>3, <1>4, <1>5, <1>6, <1>7 DEF Worker

(* Whatever the network and the backend do, each step the thread takes     *)
(* with a result in hand is one of at most two for every failure that the  *)
(* limit allows, and the last of them leaves the result stored, the client *)
(* stopping, or the thread failed (communication_thread.py:62-117).        *)
THEOREM ResultIsNear == Spec => [][InHand => Handles]_vars
<1>1. IInv /\ [Next]_vars => [InHand => Handles]_vars
  BY HandlesStep
<1> QED
  BY <1>1, Invariance, PTL DEF Spec

(* The number of those steps, whatever heartbeats have counted before.     *)
THEOREM ResultIsBounded == Spec => [](InHand => RequestsLeft \in 2..(2 * MaxFailures + 1))
<1>1. IInv => (InHand => RequestsLeft \in 2..(2 * MaxFailures + 1))
  BY DeliveryAssumption
  DEF DeliveryAssumption, IInv, TypeOK, Attempts, InHand, RequestsLeft
<1> QED
  BY <1>1, Invariance, PTL
=============================================================================
