------------------------- MODULE LegacySenderProofs -------------------------
(***************************************************************************)
(* LegacySender implements ResultDelivery, and exit status 0 means that    *)
(* every line was stored, for any --max-attempts and any input.            *)
(*                                                                         *)
(* The inductive invariant says of Requests that none is of an attempt to  *)
(* come and none under way is stored, and InOrder that main() reads a line *)
(* only when all before it are stored.                                     *)
(***************************************************************************)
EXTENDS LegacySender, TLAPS

Readings == [result : 1..MaxReadings, attempt : 1..MaxAttempts]

Types ==
    /\ at \in Places
    /\ taken \in 0..MaxReadings
    /\ attempt \in 0..MaxAttempts
    /\ in_flight \subseteq Readings
    /\ stored \subseteq Readings
    /\ at \in {"sending", "posting"} => taken >= 1 /\ attempt >= 1

Requests ==
    /\ in_flight \cap stored = {}
    /\ \A e \in in_flight \cup stored :
          /\ e.result <= taken
          /\ at = "sending" /\ e.result = taken => e.attempt < attempt
          /\ at = "posting" /\ e.result = taken => e.attempt <= attempt

InOrder ==
    /\ \A n \in 1..(taken - 1) : Abstract!StoredOnce(n)
    /\ at = "reading" \/ (at = "exited" /\ status = 0) =>
          \A n \in 1..taken : Abstract!StoredOnce(n)
    /\ at # "exited" => status = 0

IInv == Types /\ Requests /\ InOrder

LEMMA InitIInv == Init => IInv
<1> SUFFICES ASSUME Init PROVE IInv
  OBVIOUS
<1> USE SenderAssumption DEF SenderAssumption, Init
<1>1. taken \in 0..MaxReadings /\ attempt \in 0..MaxAttempts
  OBVIOUS
<1>2. Types /\ Requests
  BY <1>1 DEF Types, Requests, Places
<1>3. InOrder
  BY 1..(0 - 1) = {}, 1..0 = {} DEF InOrder
<1> QED
  BY <1>2, <1>3 DEF IInv

LEMMA StepIInv == IInv /\ [Next]_vars => IInv'
<1> SUFFICES ASSUME IInv, [Next]_vars
             PROVE  IInv'
  OBVIOUS
<1> USE SenderAssumption DEF SenderAssumption, IInv, Abstract!StoredOnce
<1>1. CASE ReadLine
  <2> USE <1>1 DEF ReadLine
  <2>1. Types'
    BY DEF Types, Places, Readings
  <2>2. Requests'
    BY DEF Types, Requests, Readings
  <2>3. InOrder'
    BY DEF Types, InOrder, Readings
  <2> QED
    BY <2>1, <2>2, <2>3
<1>2. CASE ReadInvalid \/ ReadEnd \/ Interrupt
  <2> USE <1>2 DEF ReadInvalid, ReadEnd, Interrupt, Exit
  <2>1. Types'
    BY DEF Types, Places, Readings
  <2>2. Requests'
    BY DEF Types, Requests, Readings
  <2>3. InOrder'
    BY DEF Types, InOrder, Readings
  <2> QED
    BY <2>1, <2>2, <2>3
<1>3. CASE Post
  <2> USE <1>3 DEF Post, Current
  <2>1. Types'
    BY DEF Types, Places, Readings
  <2>2. Requests'
    BY DEF Types, Requests, Readings
  <2>3. InOrder'
    BY DEF Types, InOrder, Readings
  <2> QED
    BY <2>1, <2>2, <2>3
<1>4. CASE SendReturns \/ AnswerUnusable \/ Rejected
  <2> USE <1>4 DEF SendReturns, AnswerUnusable, Rejected, Accepted, Current, GoTo, Exit
  <2>1. Types'
    BY DEF Types, Places, Readings
  <2>2. Requests'
    BY DEF Types, Requests, Readings
  <2>3. InOrder'
    BY DEF Types, InOrder, Readings
  <2> QED
    BY <2>1, <2>2, <2>3
<1>5. CASE AttemptFails
  <2> USE <1>5 DEF AttemptFails, LastAttempt, Exit
  <2>1. Types'
    BY DEF Types, Places, Readings
  <2>2. Requests'
    BY DEF Types, Requests, Readings
  <2>3. InOrder'
    BY DEF Types, InOrder, Readings
  <2> QED
    BY <2>1, <2>2, <2>3
<1>6. CASE ServerStores
  <2> USE <1>6 DEF ServerStores
  <2>1. Types'
    BY DEF Types, Places, Readings
  <2>2. Requests'
    BY DEF Types, Requests, Readings
  <2>3. InOrder'
    BY DEF Types, InOrder, Readings
  <2> QED
    BY <2>1, <2>2, <2>3
<1>7. CASE RequestLost \/ UNCHANGED vars
  <2> USE <1>7 DEF RequestLost, vars
  <2>1. Types'
    BY DEF Types, Places, Readings
  <2>2. Requests'
    BY DEF Types, Requests, Readings
  <2>3. InOrder'
    BY DEF Types, InOrder, Readings
  <2> QED
    BY <2>1, <2>2, <2>3
<1> QED
  BY <1>1, <1>2, <1>3, <1>4, <1>5, <1>6, <1>7 DEF Next, Send

(* The invariant holds for any input, number of attempts and lost answers. *)
THEOREM Invariance == Spec => []IInv
  BY InitIInv, StepIInv, PTL DEF Spec

(* main() returns 0 only when every line it has read was stored.           *)
THEOREM ExitStatus == Spec => []ExitTellsDelivery
<1>1. IInv => ExitTellsDelivery
  BY DEF IInv, InOrder, ExitTellsDelivery
<1> QED
  BY <1>1, Invariance, PTL

LEMMA StepImplements == IInv /\ [Next]_vars => [Abstract!Next]_(Abstract!deliveryVars)
<1> SUFFICES ASSUME IInv, [Next]_vars
             PROVE  [Abstract!Next]_(Abstract!deliveryVars)
  OBVIOUS
<1> USE DEF Abstract!deliveryVars
<1>1. CASE ReadLine
  BY <1>1 DEF ReadLine, IInv, InOrder, Abstract!Next, Abstract!Offer
<1>2. CASE ServerStores
  <2>1. PICK m \in in_flight : stored' = stored \cup {m} /\ UNCHANGED taken
    BY <1>2 DEF ServerStores
  <2>2. /\ m = [result |-> m.result, attempt |-> m.attempt]
        /\ m.result \in 1..taken
        /\ m.attempt \in 1..MaxAttempts
    BY SenderAssumption DEF SenderAssumption, IInv, Types, Requests, Readings
  <2>3. m \notin stored
    BY DEF IInv, Requests
  <2> QED
    BY <2>1, <2>2, <2>3 DEF Abstract!Next, Abstract!Store
<1>3. CASE ~ReadLine /\ ~ServerStores
  BY <1>3 DEF Next, Send, Post, SendReturns, AnswerUnusable, Rejected, AttemptFails,
              ReadInvalid, ReadEnd, Interrupt, RequestLost, GoTo, vars
<1> QED
  BY <1>1, <1>2, <1>3

(* The legacy sender implements the abstract delivery: readings in order,  *)
(* none skipped, max_attempts copies of each at most.                      *)
THEOREM Refinement == Spec => ImplementsDelivery
<1>1. Init => Abstract!Init
  BY DEF Init, Abstract!Init
<1> QED
  BY <1>1, Invariance, StepImplements, PTL DEF Spec, ImplementsDelivery, Abstract!Spec
=============================================================================
