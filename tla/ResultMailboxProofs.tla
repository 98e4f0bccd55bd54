------------------------ MODULE ResultMailboxProofs ------------------------
(***************************************************************************)
(* Theorems about ResultMailbox, for any number of publishers and takers   *)
(* and any set of results.                                                 *)
(***************************************************************************)
EXTENDS ResultMailbox, SequenceTheorems, TLAPS

(* Every reachable state of the mailbox is well typed.                     *)
THEOREM Typing == Spec => []TypeOK
<1>1. Init => TypeOK
  BY EmptySeq DEF Init, TypeOK
<1>2. TypeOK /\ [Next]_vars => TypeOK'
  <2> SUFFICES ASSUME TypeOK, [Next]_vars
               PROVE  TypeOK'
    OBVIOUS
  <2> USE DEF TypeOK
  <2>1. ASSUME NEW p \in Publishers, Publish(p)
        PROVE  TypeOK'
    <3>1. CASE PublishStores(p)
      <4>1. publishing[p] \in Results
        BY <3>1 DEF PublishStores
      <4> QED
        BY <3>1, <4>1, AppendProperties DEF PublishStores
    <3>2. CASE PublishReturnsFalse(p)
      BY <3>2 DEF PublishReturnsFalse
    <3> QED
      BY <2>1, <3>1, <3>2 DEF Publish
  <2>2. ASSUME NEW p \in Publishers, NEW r \in Results, BeginPublish(p, r)
        PROVE  TypeOK'
    BY <2>2 DEF BeginPublish
  <2>3. ASSUME NEW t \in Takers, BeginTake(t) \/ DeadlinePasses(t)
        PROVE  TypeOK'
    BY <2>3 DEF BeginTake, DeadlinePasses
  <2>4. ASSUME NEW t \in Takers, Take(t)
        PROVE  TypeOK'
    <3>1. CASE TakeReturnsResult(t)
      <4>1. value \in Results
        BY <3>1 DEF TakeReturnsResult
      <4> QED
        BY <3>1, <4>1, AppendProperties DEF TakeReturnsResult
    <3>2. CASE TakeReturnsNone(t)
      BY <3>2 DEF TakeReturnsNone
    <3> QED
      BY <2>4, <3>1, <3>2 DEF Take
  <2>5. CASE SetStop \/ Close
    BY <2>5 DEF SetStop, Close
  <2>6. CASE UNCHANGED vars
    BY <2>6 DEF vars
  <2> QED
    BY <2>1, <2>2, <2>3, <2>4, <2>5, <2>6 DEF Next
<1> QED
  BY <1>1, <1>2, PTL DEF Spec

(* The order of the handoff is an invariant of every step: the equation    *)
(* itself is inductive once the types are known.                           *)
LEMMA OrderStep == TypeOK /\ HandoffInOrder /\ [Next]_vars => HandoffInOrder'
<1> SUFFICES ASSUME TypeOK, HandoffInOrder, [Next]_vars
             PROVE  HandoffInOrder'
  OBVIOUS
<1> USE DEF HandoffInOrder
<1>1. ASSUME NEW p \in Publishers, PublishStores(p)
      PROVE  HandoffInOrder'
  BY <1>1, MailboxAssumption DEF PublishStores, SlotFree, TypeOK
<1>2. ASSUME NEW t \in Takers, TakeReturnsResult(t)
      PROVE  HandoffInOrder'
  BY <1>2 DEF TakeReturnsResult
<1>3. ASSUME UNCHANGED <<value, published, taken>>
      PROVE  HandoffInOrder'
  BY <1>3
<1> QED
  BY <1>1, <1>2, <1>3
  DEF Next, Publish, PublishReturnsFalse, BeginPublish, BeginTake, DeadlinePasses,
      Take, TakeReturnsNone, SetStop, Close, vars

(* Nothing is overwritten, lost, duplicated or reordered between publish() *)
(* and take(), for any number of threads on either side.                   *)
THEOREM OrderOfHandoff == Spec => []HandoffInOrder
<1>1. Init => HandoffInOrder
  BY DEF Init, HandoffInOrder
<1> QED
  BY <1>1, OrderStep, Typing, PTL DEF Spec

(* Every step of the mailbox is a step of the abstract handoff, or leaves  *)
(* its two sequences as they are.                                          *)
LEMMA StepRefines ==
    TypeOK /\ HandoffInOrder /\ [Next]_vars => [Handoff!Next]_(Handoff!handoffVars)
<1> SUFFICES ASSUME TypeOK, HandoffInOrder, [Next]_vars
             PROVE  [Handoff!Next]_(Handoff!handoffVars)
  OBVIOUS
<1>1. ASSUME NEW p \in Publishers, PublishStores(p)
      PROVE  Handoff!Next
  <2>1. Len(published) = Len(taken)
    BY <1>1 DEF PublishStores, SlotFree, HandoffInOrder
  <2>2. publishing[p] \in Results
    BY <1>1 DEF PublishStores, TypeOK
  <2>3. Handoff!Send(publishing[p])
    BY <1>1, <2>1 DEF PublishStores, Handoff!Send, Handoff!SlotEmpty
  <2> QED
    BY <2>2, <2>3 DEF Handoff!Next
<1>2. ASSUME NEW t \in Takers, TakeReturnsResult(t)
      PROVE  Handoff!Next
  <2>1. published = Append(taken, value) /\ taken \in Seq(Results) /\ value \in Results
    BY <1>2 DEF TakeReturnsResult, HandoffInOrder, TypeOK
  <2>2. Len(published) = Len(taken) + 1 /\ published[Len(taken) + 1] = value
    BY <2>1
  <2>3. Handoff!Receive
    BY <1>2, <2>1, <2>2 DEF TakeReturnsResult, Handoff!Receive, Handoff!SlotEmpty
  <2> QED
    BY <2>3 DEF Handoff!Next
<1>3. ASSUME UNCHANGED <<value, published, taken>>
      PROVE  UNCHANGED Handoff!handoffVars
  BY <1>3 DEF Handoff!handoffVars
<1> QED
  BY <1>1, <1>2, <1>3
  DEF Next, Publish, PublishReturnsFalse, BeginPublish, BeginTake, DeadlinePasses,
      Take, TakeReturnsNone, SetStop, Close, vars

(* The mailbox implements the single-slot handoff its docstring promises.  *)
THEOREM Refinement == Spec => ImplementsHandoff
<1>1. Init => Handoff!Init
  BY DEF Init, Handoff!Init
<1> QED
  BY <1>1, StepRefines, Typing, OrderOfHandoff, PTL
  DEF Spec, ImplementsHandoff, Handoff!Spec
=============================================================================
