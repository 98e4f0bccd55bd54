------------------- MODULE SensorClientApplicationProofs -------------------
(***************************************************************************)
(* Theorems about SensorClientApplication, for any number of workers and   *)
(* queues and any pattern of Ctrl+C.                                       *)
(*                                                                         *)
(* IInv is the inductive invariant.  Unstarted says that Main starts each  *)
(* worker once; Accounted, where the failure of a worker is at every       *)
(* moment; Joined, how far the joins have come; Drained and Leftover, what *)
(* can still be in the queues after them.                                  *)
(*                                                                         *)
(* That the application implements WorkerGroup needs one thing more,       *)
(* Stopping: Main drains only after the event, and a worker that has ended *)
(* has left it set.  MainSteps counts the steps to the end of run(): those *)
(* of Main to its last place, and one for each failure it may yet find.    *)
(***************************************************************************)
EXTENDS SensorClientApplication, FiniteSetTheorems, TLAPS

\* The worker has put its failure into failure_queue.
Reported(w) == worker[w] \in {"reported", "failed"}

\* A reported failure is in the queue, in Main's hand, in the exit code, or was
\* in Main's hand when Ctrl+C came.
Accounted == /\ \A w \in Workers :
                   Reported(w) => w \in failures \/ w = got \/ exit_code = 1 \/ w \in dropped
             /\ \A w \in failures : Reported(w)
             /\ main = "got" => got \in Workers /\ Reported(got)
             /\ main # "got" => got = 0
             /\ exit_code = 1 => Raised # {}

\* Main starts every worker once.
Unstarted == main = "start" => \A w \in Workers : w >= next => worker[w] = "new"

\* The joins begin with the first worker.  The workers before `next', and after the
\* last join all of them, have ended or are known not to have.
Joined == /\ main \in {"monitor", "check", "got", "shutdown"} => next = 1
          /\ main = "join" => \A w \in Workers : w < next => w \in overran \/ Ended(w)
          /\ main \in {"drain", "collect", "finished"} =>
                \A w \in Workers : w \in overran \/ Ended(w)

Drained == main \in {"collect", "finished"} /\ overran = {} => backlog = {}

Leftover == main = "finished" => failures \subseteq overran

IInv == TypeOK /\ Unstarted /\ Accounted /\ Joined /\ Drained /\ Leftover

USE DEF Workers, MainPlaces

LEMMA FirstWorker == 1 \in Workers
BY ApplicationAssumption

LEMMA InitIInv == Init => IInv
<1> SUFFICES ASSUME Init PROVE IInv
  OBVIOUS
<1>1. TypeOK
  <2>1. worker \in [Workers -> {"new", "running", "raised", "reported",
                                "returned", "failed"}]
    BY DEF Init
  <2>2. 0 \in 0..MaxInterrupts
    BY ApplicationAssumption
  <2> QED
    BY <2>1, <2>2, FirstWorker DEF Init, TypeOK
<1>2. Accounted
  BY DEF Init, Accounted, Reported
<1>3. Unstarted /\ Joined /\ Drained /\ Leftover
  BY DEF Init, Unstarted, Joined, Drained, Leftover
<1> QED
  BY <1>1, <1>2, <1>3 DEF IInv

(* The steps of the worker threads preserve the invariant.                 *)
LEMMA WorkerIInv ==
    ASSUME IInv, NEW w \in Workers, Worker(w)
    PROVE  IInv'
<1> USE DEF IInv, mainVars
<1>1. TypeOK'
  BY DEF Worker, Return, Raise, ReportFailure, SetStop, TypeOK
<1>2. Accounted'
  <2>1. CASE Return(w)
    BY <2>1 DEF Return, TypeOK, Accounted, Reported, Raised
  <2>2. CASE Raise(w)
    BY <2>2 DEF Raise, TypeOK, Accounted, Reported, Raised
  <2>3. CASE ReportFailure(w)
    BY <2>3 DEF ReportFailure, TypeOK, Accounted, Reported, Raised
  <2>4. CASE SetStop(w)
    BY <2>4 DEF SetStop, TypeOK, Accounted, Reported, Raised
  <2> QED
    BY <2>1, <2>2, <2>3, <2>4 DEF Worker
<1>3. Unstarted' /\ Joined' /\ Drained' /\ Leftover'
  <2>1. CASE Return(w)
    BY <2>1 DEF Return, TypeOK, Unstarted, Joined, Drained, Leftover, Ended
  <2>2. CASE Raise(w)
    BY <2>2 DEF Raise, TypeOK, Unstarted, Joined, Drained, Leftover, Ended
  <2>3. CASE ReportFailure(w)
    BY <2>3 DEF ReportFailure, TypeOK, Unstarted, Joined, Drained, Leftover, Ended
  <2>4. CASE SetStop(w)
    BY <2>4 DEF SetStop, TypeOK, Unstarted, Joined, Drained, Leftover, Ended
  <2> QED
    BY <2>1, <2>2, <2>3, <2>4 DEF Worker
<1> QED
  BY <1>1, <1>2, <1>3

(* The exchange of data between running workers does, too: once no join    *)
(* has timed out, no worker runs after the last join.                      *)
LEMMA ExchangeIInv ==
    ASSUME IInv, NEW q \in Queues, Exchange(q)
    PROVE  IInv'
<1> USE DEF IInv, mainVars, Exchange
<1>1. TypeOK'
  BY DEF TypeOK
<1>2. Unstarted' /\ Accounted' /\ Joined' /\ Leftover'
  BY DEF TypeOK, Unstarted, Accounted, Reported, Raised, Joined, Leftover, Ended
<1>3. Drained'
  BY ApplicationAssumption DEF TypeOK, Joined, Drained, Ended
<1> QED
  BY <1>1, <1>2, <1>3

(* The steps of Main while it starts the workers and monitors them.        *)
LEMMA MonitorIInv ==
    ASSUME IInv,
           StartWorker \/ GetFailure \/ GetTimesOut \/ CheckStop \/ RecordFailure
    PROVE  IInv'
<1> USE DEF IInv
<1>1. CASE StartWorker
  <2> USE <1>1 DEF StartWorker
  <2>1. TypeOK'
    BY FirstWorker, ApplicationAssumption DEF TypeOK
  <2>2. Accounted'
    BY DEF TypeOK, Unstarted, Accounted, Reported, Raised
  <2>3. Unstarted' /\ Joined' /\ Drained' /\ Leftover'
    BY DEF TypeOK, Unstarted, Joined, Drained, Leftover
  <2> QED
    BY <2>1, <2>2, <2>3
<1>2. CASE GetFailure
  <2> USE <1>2 DEF GetFailure
  <2>1. TypeOK'
    BY DEF TypeOK
  <2>2. Accounted'
    BY DEF TypeOK, Accounted, Reported, Raised
  <2>3. Unstarted' /\ Joined' /\ Drained' /\ Leftover'
    BY DEF TypeOK, Unstarted, Joined, Drained, Leftover
  <2> QED
    BY <2>1, <2>2, <2>3
<1>3. CASE GetTimesOut \/ CheckStop
  BY <1>3 DEF GetTimesOut, CheckStop, TypeOK, Accounted, Reported, Raised, Unstarted, Joined, Drained, Leftover
<1>4. CASE RecordFailure
  <2> USE <1>4 DEF RecordFailure
  <2>1. TypeOK'
    BY DEF TypeOK
  <2>2. Accounted'
    BY DEF TypeOK, Accounted, Reported, Raised
  <2>3. Unstarted' /\ Joined' /\ Drained' /\ Leftover'
    BY DEF TypeOK, Unstarted, Joined, Drained, Leftover
  <2> QED
    BY <2>1, <2>2, <2>3
<1> QED
  BY <1>1, <1>2, <1>3, <1>4

(* The steps of Main in its finally block.                                 *)
LEMMA FinallyIInv ==
    ASSUME IInv,
           BeginShutdown \/ JoinWorker \/ DrainQueues \/ CollectFailure \/ Finish
    PROVE  IInv'
<1> USE DEF IInv
<1>1. CASE JoinWorker
  <2> USE <1>1 DEF JoinWorker, JoinTimesOut
  <2>1. TypeOK'
    <3>1. next' \in Workers
      BY FirstWorker, ApplicationAssumption DEF TypeOK
    <3>2. overran' \subseteq Workers /\ main' \in MainPlaces \cup {"finished", "aborted"}
      BY DEF TypeOK
    <3> QED
      BY <3>1, <3>2 DEF TypeOK
  <2>2. Accounted'
    BY DEF TypeOK, Accounted, Reported, Raised
  <2>3. \A w \in Workers : w <= next => w \in overran' \/ Ended(w)'
    BY DEF TypeOK, Joined, Ended
  <2>4. Joined'
    BY <2>3, ApplicationAssumption DEF TypeOK, Joined
  <2>5. Unstarted' /\ Drained' /\ Leftover'
    BY DEF TypeOK, Unstarted, Drained, Leftover
  <2> QED
    BY <2>1, <2>2, <2>4, <2>5
<1>2. CASE BeginShutdown
  <2> USE <1>2 DEF BeginShutdown
  <2>1. TypeOK' /\ Accounted'
    BY DEF TypeOK, Accounted, Reported, Raised
  <2>2. Joined'
    BY ApplicationAssumption DEF TypeOK, Joined
  <2>3. Unstarted' /\ Drained' /\ Leftover'
    BY DEF TypeOK, Unstarted, Drained, Leftover
  <2> QED
    BY <2>1, <2>2, <2>3
<1>3. CASE DrainQueues
  BY <1>3 DEF DrainQueues, TypeOK, Accounted, Reported, Raised, Unstarted, Joined, Drained, Leftover, Ended
<1>4. CASE CollectFailure
  <2> USE <1>4 DEF CollectFailure
  <2>1. TypeOK'
    BY DEF TypeOK
  <2>2. PICK w \in failures : failures' = failures \ {w}
    OBVIOUS
  <2>3. Accounted'
    BY <2>2 DEF TypeOK, Accounted, Reported, Raised
  <2>4. Unstarted' /\ Joined' /\ Drained' /\ Leftover'
    BY DEF TypeOK, Unstarted, Joined, Drained, Leftover, Ended
  <2> QED
    BY <2>1, <2>3, <2>4
<1>5. CASE Finish
  BY <1>5 DEF Finish, TypeOK, Accounted, Reported, Raised, Unstarted, Joined, Drained, Leftover, Ended
<1> QED
  BY <1>1, <1>2, <1>3, <1>4, <1>5

(* Ctrl+C preserves the invariant, wherever it finds Main.                 *)
LEMMA InterruptIInv == ASSUME IInv, Interrupt PROVE IInv'
<1> USE DEF IInv, Interrupt
<1>1. TypeOK'
  BY ApplicationAssumption DEF TypeOK, Accounted
<1>2. Accounted'
  BY DEF TypeOK, Accounted, Reported, Raised
<1>3. Unstarted' /\ Joined' /\ Drained' /\ Leftover'
  BY DEF TypeOK, Unstarted, Joined, Drained, Leftover
<1> QED
  BY <1>1, <1>2, <1>3

(* The inductive invariant holds in every reachable state.                 *)
THEOREM Invariance == Spec => []IInv
<1>1. IInv /\ [Next]_vars => IInv'
  <2> SUFFICES ASSUME IInv, [Next]_vars PROVE IInv'
    OBVIOUS
  <2>1. CASE UNCHANGED vars
    BY <2>1 DEF vars, mainVars, IInv, TypeOK, Accounted, Reported, Raised, Unstarted, Joined,
                Drained, Leftover, Ended
  <2> QED
    BY <2>1, WorkerIInv, ExchangeIInv, MonitorIInv, FinallyIInv, InterruptIInv
    DEF Next, Main, Terminated
<1> QED
  BY <1>1, InitIInv, PTL DEF Spec

(* Every reachable state is well typed.                                    *)
THEOREM Typing == Spec => []TypeOK
<1>1. IInv => TypeOK
  BY DEF IInv
<1> QED
  BY <1>1, Invariance, PTL

(* Whatever the number of workers and the moment of each failure, run()    *)
(* returns 0 only if each failure belongs to a worker that outlived its    *)
(* join, or was in Main's hand when Ctrl+C came; and 1 only if one failed. *)
THEOREM ExitCode == Spec => []ExitCodeTellsFailure
<1>1. IInv => ExitCodeTellsFailure
  <2> SUFFICES ASSUME IInv, main = "finished" PROVE ExitCodeTellsFailure
    BY DEF ExitCodeTellsFailure
  <2>1. ASSUME exit_code = 0, NEW w \in Raised
        PROVE  w \in overran \cup dropped
    <3>1. w \in Workers /\ (Reported(w) \/ ~Ended(w))
      BY DEF Raised, Reported, Ended
    <3>2. got = 0 /\ w # got
      BY <3>1 DEF IInv, Accounted
    <3>3. Reported(w) => w \in failures \/ w \in dropped
      BY <2>1, <3>1, <3>2 DEF IInv, Accounted
    <3>4. ~Ended(w) => w \in overran
      BY <3>1 DEF IInv, Joined
    <3> QED
      BY <3>1, <3>3, <3>4 DEF IInv, Leftover
  <2> QED
    BY <2>1 DEF ExitCodeTellsFailure, IInv, Accounted
<1> QED
  BY <1>1, Invariance, PTL

(* When run() returns and every join succeeded, no thread, no queue and no *)
(* failure is left over.                                                   *)
THEOREM Quiet == Spec => []QuietAfterShutdown
<1>1. IInv => QuietAfterShutdown
  BY DEF IInv, QuietAfterShutdown, Unstarted, Joined, Drained, Leftover
<1> QED
  BY <1>1, Invariance, PTL
-----------------------------------------------------------------------------
(* The promise of the group.  Main drains the queues only after shutdown() *)
(* has set the event, which nobody clears (Stopping).                      *)
Stopping == main \in {"join", "drain", "collect", "finished"} => stop_event

LEMMA StoppingStep == ASSUME TypeOK, Stopping, [Next]_vars PROVE Stopping'
<1> USE DEF Stopping
<1>1. CASE Main
  BY <1>1 DEF Main, StartWorker, GetFailure, GetTimesOut, CheckStop, RecordFailure, BeginShutdown,
              JoinWorker, DrainQueues, CollectFailure, Finish
<1>2. CASE \E w \in Workers : Worker(w)
  BY <1>2 DEF Worker, Return, Raise, ReportFailure, SetStop, mainVars
<1>3. CASE Interrupt
  BY <1>3 DEF Interrupt
<1>4. CASE (\E q \in Queues : Exchange(q)) \/ Terminated \/ UNCHANGED vars
  BY <1>4 DEF Exchange, Terminated, vars, mainVars
<1> QED
  BY <1>1, <1>2, <1>3, <1>4 DEF Next

LEMMA InitGroup == Init => Group!Init
<1> SUFFICES ASSUME Init PROVE Group!Init
  OBVIOUS
<1>1. {w \in Workers : ~Ended(w)} = Workers
  BY DEF Init, Ended
<1> QED
  BY <1>1 DEF Init, Group!Init

\* A worker ends by a return, which needs the event, or after its failure, which sets it.
LEMMA WorkerGroupStep ==
  ASSUME TypeOK, NEW w \in Workers, Worker(w)
  PROVE  [Group!Next]_(Group!groupVars)
<1>1. backlog' = backlog /\ backlog \subseteq Queues
  BY DEF Worker, Return, Raise, ReportFailure, SetStop, TypeOK
<1>2. Group!Exchange(w)
  BY <1>1 DEF Group!Exchange
<1>3. CASE Return(w) \/ SetStop(w)
  <2>1. ~Ended(w) /\ stop_event' = TRUE
    BY <1>3 DEF Return, SetStop, Ended, TypeOK
  <2>2. {v \in Workers : Ended(v)'} = {v \in Workers : Ended(v)} \cup {w}
    BY <1>3 DEF Return, SetStop, Ended, TypeOK
  <2>3. {v \in Workers : ~Ended(v)}' = {v \in Workers : ~Ended(v)} \ {w}
    BY <2>2
  <2>4. Group!End(w)
    BY <1>2, <2>1, <2>3 DEF Group!End
  <2> QED
    BY <2>4 DEF Group!Next
<1>4. CASE Raise(w) \/ ReportFailure(w)
  <2>1. \A v \in Workers : Ended(v)' <=> Ended(v)
    BY <1>4 DEF Raise, ReportFailure, Ended, TypeOK
  <2>2. stop_event' = stop_event
    BY <1>4 DEF Raise, ReportFailure
  <2> QED
    BY <1>1, <2>1, <2>2 DEF Group!groupVars
<1> QED
  BY <1>3, <1>4 DEF Worker

\* A worker that is running touches its own queues.
LEMMA ExchangeGroupStep ==
  ASSUME TypeOK, NEW q \in Queues, Exchange(q)
  PROVE  [Group!Next]_(Group!groupVars)
<1>1. UNCHANGED <<worker, stop_event>> /\ backlog' \in SUBSET Queues
  BY DEF Exchange, TypeOK
<1>2. \A v \in Workers : Ended(v)' <=> Ended(v)
  BY <1>1 DEF Ended
<1>3. PICK w \in Workers : worker[w] = "running" /\ Group!Exchange(w)
  <2>1. CASE worker[Writer[q]] = "running" /\ backlog' = backlog \cup {q}
    BY <1>1, <2>1, ApplicationAssumption DEF ApplicationAssumption, Group!Exchange
  <2>2. CASE worker[Reader[q]] = "running" /\ backlog' = backlog \ {q}
    BY <1>1, <2>2, ApplicationAssumption DEF ApplicationAssumption, Group!Exchange
  <2> QED
    BY <2>1, <2>2 DEF Exchange
<1>4. Group!Work(w)
  BY <1>1, <1>2, <1>3 DEF Group!Work, Ended
<1> QED
  BY <1>4 DEF Group!Next

\* Main starts workers, sets the event and drains the queues.
LEMMA MainGroupStep ==
  ASSUME TypeOK, Unstarted, Stopping, Main
  PROVE  [Group!Next]_(Group!groupVars)
<1>1. \A v \in Workers : Ended(v)' <=> Ended(v)
  <2>1. CASE StartWorker
    BY <2>1 DEF StartWorker, Unstarted, Ended, TypeOK
  <2>2. CASE ~StartWorker
    BY <2>2 DEF Main, GetFailure, GetTimesOut, CheckStop, RecordFailure, BeginShutdown, JoinWorker,
                DrainQueues, CollectFailure, Finish, Ended
  <2> QED
    BY <2>1, <2>2
<1>2. CASE RecordFailure \/ BeginShutdown
  <2>1. stop_event' = TRUE /\ backlog' = backlog
    BY <1>2 DEF RecordFailure, BeginShutdown
  <2>2. Group!SetStop
    BY <1>1, <2>1 DEF Group!SetStop
  <2> QED
    BY <2>2 DEF Group!Next
<1>3. CASE DrainQueues
  <2>1. stop_event /\ stop_event' = stop_event /\ backlog' = {}
    BY <1>3 DEF DrainQueues, Stopping
  <2>2. Group!Drain
    BY <1>1, <2>1 DEF Group!Drain
  <2> QED
    BY <2>2 DEF Group!Next
<1>4. CASE StartWorker \/ GetFailure \/ GetTimesOut \/ CheckStop \/ JoinWorker \/ CollectFailure
           \/ Finish
  <2>1. UNCHANGED <<stop_event, backlog>>
    BY <1>4 DEF StartWorker, GetFailure, GetTimesOut, CheckStop, JoinWorker, CollectFailure, Finish
  <2> QED
    BY <1>1, <2>1 DEF Group!groupVars
<1> QED
  BY <1>2, <1>3, <1>4 DEF Main

(* Main and the workers keep the promise of the group, for any number of   *)
(* workers and queues: a worker that has ended touches no queue, the event *)
(* is set when the first one has ended, also when Ctrl+C has taken Main    *)
(* out of run(), and no queue is drained before (shared_runtime.py:158-165,*)
(* sensor_client.py:121-134).                                              *)
THEOREM Refinement == Spec => ImplementsGroup
<1>1. Init => Stopping
  BY DEF Init, Stopping
<1>2. IInv /\ Stopping /\ [Next]_vars => Stopping'
  BY StoppingStep DEF IInv
<1>3. IInv /\ Stopping /\ [Next]_vars => [Group!Next]_(Group!groupVars)
  <2> SUFFICES ASSUME IInv, Stopping, [Next]_vars
               PROVE  [Group!Next]_(Group!groupVars)
    OBVIOUS
  <2>1. CASE Interrupt \/ Terminated \/ UNCHANGED vars
    BY <2>1 DEF Interrupt, Terminated, vars, Group!groupVars, Ended
  <2> QED
    BY <2>1, WorkerGroupStep, ExchangeGroupStep, MainGroupStep DEF IInv, Next
<1> QED
  BY <1>1, <1>2, <1>3, InitGroup, Invariance, PTL DEF Spec, ImplementsGroup, Group!Spec
-----------------------------------------------------------------------------
(* The way of Main to its end.  Once the event is set, every place of Main *)
(* has a number of steps ahead of it, and every failure that Main can      *)
(* still find (ToCome) costs one more.                                     *)
ToCome == failures \cup {w \in Workers : ~Reported(w)}

Ahead == [start |-> 2 * NumWorkers + 6 - next, monitor |-> NumWorkers + 5,
          check |-> NumWorkers + 4, got |-> NumWorkers + 4, shutdown |-> NumWorkers + 3,
          join |-> NumWorkers + 3 - next, drain |-> 2, collect |-> 1,
          finished |-> 0, aborted |-> 0]

MainSteps == Ahead[main] + Cardinality(ToCome)

LEMMA ToComeIsFinite ==
  ASSUME TypeOK
  PROVE  /\ IsFiniteSet(ToCome)
         /\ Cardinality(ToCome) \in Nat /\ Cardinality(ToCome) <= NumWorkers
<1>1. ToCome \in SUBSET (1..NumWorkers)
  BY DEF ToCome, TypeOK
<1>2. NumWorkers \in Int /\ NumWorkers > 0
  BY ApplicationAssumption DEF ApplicationAssumption
<1>3. IsFiniteSet(1..NumWorkers) /\ Cardinality(1..NumWorkers) = NumWorkers - 1 + 1
  <2>1. 1 \in Int
    OBVIOUS
  <2> QED
    BY <1>2, <2>1, FS_Interval
<1>4. IsFiniteSet(ToCome) /\ Cardinality(ToCome) <= Cardinality(1..NumWorkers)
  BY <1>1, <1>3, FS_Subset
<1>5. Cardinality(ToCome) \in Nat
  BY <1>4, FS_CardinalityType
<1> QED
  BY <1>2, <1>3, <1>4, <1>5

\* No step lets Main find more failures, and one that it takes out is gone.
LEMMA ToComeStep ==
  ASSUME TypeOK, Accounted, Unstarted, [Next]_vars
  PROVE  /\ ToCome' \subseteq ToCome
         /\ GetFailure \/ CollectFailure => \E w \in ToCome : ToCome' = ToCome \ {w}
<1>1. ASSUME GetFailure \/ CollectFailure
      PROVE  \E w \in ToCome : ToCome' = ToCome \ {w}
  <2>1. PICK w \in failures : failures' = failures \ {w} /\ worker' = worker
    BY <1>1 DEF GetFailure, CollectFailure
  <2>2. Reported(w)
    BY <2>1 DEF Accounted
  <2> QED
    BY <2>1, <2>2 DEF ToCome, Reported
<1>2. ASSUME Main /\ ~GetFailure /\ ~CollectFailure
      PROVE  ToCome' \subseteq ToCome
  <2>1. failures' = failures
    BY <1>2 DEF Main, StartWorker, GetTimesOut, CheckStop, RecordFailure, BeginShutdown, JoinWorker,
                DrainQueues, Finish
  <2>2. \A w \in Workers : Reported(w) => Reported(w)'
    <3>1. CASE StartWorker
      BY <3>1 DEF StartWorker, Unstarted, Reported, TypeOK
    <3>2. CASE ~StartWorker
      BY <1>2, <3>2 DEF Main, GetTimesOut, CheckStop, RecordFailure, BeginShutdown, JoinWorker,
                        DrainQueues, Finish, Reported
    <3> QED
      BY <3>1, <3>2
  <2> QED
    BY <1>2, <2>1, <2>2 DEF ToCome
<1>3. ASSUME \E w \in Workers : Worker(w)
      PROVE  ToCome' \subseteq ToCome
  <2>1. PICK w \in Workers : Worker(w)
    BY <1>3
  <2>2. \A v \in Workers : Reported(v) => Reported(v)'
    BY <2>1 DEF Worker, Return, Raise, ReportFailure, SetStop, Reported, TypeOK
  <2>3. failures' = failures \/ ReportFailure(w)
    BY <2>1 DEF Worker, Return, Raise, SetStop
  <2>4. ReportFailure(w) => failures' = failures \cup {w} /\ w \in ToCome
    BY DEF ReportFailure, ToCome, Reported
  <2> QED
    BY <2>2, <2>3, <2>4 DEF ToCome
<1>4. ASSUME Interrupt \/ (\E q \in Queues : Exchange(q)) \/ Terminated \/ UNCHANGED vars
      PROVE  ToCome' \subseteq ToCome
  <2>1. failures' = failures /\ worker' = worker
    BY <1>4 DEF Interrupt, Exchange, Terminated, vars, mainVars
  <2> QED
    BY <2>1 DEF ToCome, Reported
<1>5. ToCome' \subseteq ToCome
  BY <1>1, <1>2, <1>3, <1>4 DEF Next, Main
<1> QED
  BY <1>1, <1>5

LEMMA AheadTypes ==
  ASSUME TypeOK
  PROVE  Ahead[main] \in Nat /\ Ahead[main] <= 2 * NumWorkers + 5
<1>1. NumWorkers \in Nat /\ NumWorkers > 0 /\ next \in Nat /\ 1 <= next /\ next <= NumWorkers
  BY ApplicationAssumption DEF ApplicationAssumption, TypeOK
<1>2. main \in MainPlaces \cup {"finished", "aborted"}
  BY DEF TypeOK
<1> QED
  BY <1>1, <1>2 DEF Ahead

\* A step of Main, or Ctrl+C, brings Main forward.
LEMMA AheadStep ==
  ASSUME TypeOK, Joined, stop_event, Main \/ Interrupt
  PROVE  /\ Ahead'[main'] <= Ahead[main]
         /\ ~CollectFailure => Ahead'[main'] < Ahead[main]
<1>1. NumWorkers \in Nat /\ NumWorkers > 0 /\ next \in Nat /\ 1 <= next /\ next <= NumWorkers
  BY ApplicationAssumption DEF ApplicationAssumption, TypeOK
<1>2. CASE StartWorker
  <2>1. CASE next < NumWorkers
    BY <1>1, <1>2, <2>1 DEF StartWorker, Ahead
  <2>2. CASE ~(next < NumWorkers)
    BY <1>1, <1>2, <2>2 DEF StartWorker, Ahead
  <2> QED
    BY <2>1, <2>2
<1>3. CASE GetFailure \/ GetTimesOut
  <2>1. main = "monitor" /\ main' \in {"got", "check"}
    BY <1>3 DEF GetFailure, GetTimesOut
  <2>2. \A x : x \in {"got", "check"} => Ahead'[x] = NumWorkers + 4
    BY DEF Ahead
  <2>3. Ahead["monitor"] = NumWorkers + 5
    BY DEF Ahead
  <2> QED
    BY <1>1, <2>1, <2>2, <2>3
<1>9. CASE CheckStop \/ RecordFailure
  <2>1. main \in {"got", "check"} /\ main' = "shutdown"
    BY <1>9 DEF CheckStop, RecordFailure
  <2>2. \A x : x \in {"got", "check"} => Ahead[x] = NumWorkers + 4
    BY DEF Ahead
  <2>3. Ahead'["shutdown"] = NumWorkers + 3
    BY DEF Ahead
  <2> QED
    BY <1>1, <2>1, <2>2, <2>3
<1>4. CASE BeginShutdown
  <2>1. next = 1
    BY <1>4 DEF BeginShutdown, Joined
  <2> QED
    BY <1>1, <1>4, <2>1 DEF BeginShutdown, Ahead
<1>5. CASE JoinWorker
  <2>1. CASE next < NumWorkers
    BY <1>1, <1>5, <2>1 DEF JoinWorker, Ahead
  <2>2. CASE ~(next < NumWorkers)
    BY <1>1, <1>5, <2>2 DEF JoinWorker, Ahead
  <2> QED
    BY <2>1, <2>2
<1>6. CASE DrainQueues
  <2>1. Ahead["drain"] = 2 /\ Ahead'["collect"] = 1
    BY DEF Ahead
  <2> QED
    BY <1>6, <2>1 DEF DrainQueues
<1>10. CASE Finish
  <2>1. Ahead["collect"] = 1 /\ Ahead'["finished"] = 0
    BY DEF Ahead
  <2> QED
    BY <1>10, <2>1 DEF Finish
<1>7. CASE CollectFailure
  BY <1>7 DEF CollectFailure, Ahead
<1>8. CASE Interrupt
  <2>1. CASE main \in {"monitor", "check", "got"}
    BY <1>1, <1>8, <2>1 DEF Interrupt, Ahead
  <2>2. CASE main \in {"start", "shutdown", "join", "drain", "collect"}
    BY <1>1, <1>8, <2>2 DEF Interrupt, Ahead
  <2>3. main \in MainPlaces
    BY <1>8, ApplicationAssumption DEF Interrupt, ApplicationAssumption
  <2> QED
    BY <2>1, <2>2, <2>3
<1> QED
  BY <1>2, <1>3, <1>4, <1>5, <1>6, <1>7, <1>8, <1>9, <1>10 DEF Main

LEMMA MainStepsStep ==
  ASSUME IInv, IInv', [Next]_vars, stop_event
  PROVE  /\ MainSteps' <= MainSteps
         /\ Main \/ Interrupt => MainSteps' < MainSteps
<1> DEFINE a == Ahead[main]
           b == Ahead'[main']
           c == Cardinality(ToCome)
           d == Cardinality(ToCome')
<1>1. a \in Nat /\ b \in Nat
  <2>1. NumWorkers \in Nat /\ NumWorkers > 0
    BY ApplicationAssumption DEF ApplicationAssumption
  <2>2. next' \in Workers /\ main' \in MainPlaces \cup {"finished", "aborted"}
    BY DEF IInv, TypeOK
  <2>3. b \in Nat
    BY <2>1, <2>2 DEF Ahead
  <2> QED
    BY <2>3, AheadTypes DEF IInv
<1>2. IsFiniteSet(ToCome) /\ c \in Nat
  BY ToComeIsFinite DEF IInv
<1>3. ToCome' \subseteq ToCome
  BY ToComeStep DEF IInv
<1>4. d <= c /\ IsFiniteSet(ToCome')
  BY <1>2, <1>3, FS_Subset
<1>5. d \in Nat
  BY <1>4, FS_CardinalityType
<1>6. ASSUME CollectFailure
      PROVE  d < c
  <2>1. PICK w \in ToCome : ToCome' = ToCome \ {w}
    BY <1>6, ToComeStep DEF IInv
  <2>2. d = c - 1
    BY <1>2, <2>1, FS_RemoveElement
  <2> QED
    BY <1>2, <2>2
<1>7. MainSteps = a + c /\ MainSteps' = b + d
  BY DEF MainSteps
<1>8. ASSUME Main \/ Interrupt
      PROVE  b <= a /\ (~CollectFailure => b < a)
  BY <1>8, AheadStep DEF IInv
<1>9. CASE ~(Main \/ Interrupt)
  <2>1. main' = main /\ next' = next
    BY <1>9 DEF Next, Worker, Return, Raise, ReportFailure, SetStop, Exchange, Terminated, vars, mainVars
  <2>2. a = b
    BY <2>1 DEF Ahead
  <2> HIDE DEF a, b, c, d
  <2> QED
    BY <1>1, <1>2, <1>4, <1>5, <1>7, <1>9, <2>2
<1> HIDE DEF a, b, c, d
<1>10. CASE Main \/ Interrupt
  BY <1>1, <1>2, <1>4, <1>5, <1>6, <1>7, <1>8, <1>10
<1> QED
  BY <1>9, <1>10

(* Once the event is set, every step of Main, and every Ctrl+C, brings the *)
(* end of run() nearer, and no step of a worker moves it away: a failure   *)
(* that is reported meanwhile has been counted before.                     *)
THEOREM MainIsNear ==
  Spec => [][stop_event => /\ MainSteps' <= MainSteps
                           /\ Main \/ Interrupt => MainSteps' < MainSteps]_vars
<1> DEFINE Near == stop_event => /\ MainSteps' <= MainSteps
                                 /\ Main \/ Interrupt => MainSteps' < MainSteps
<1>1. IInv /\ IInv' /\ [Next]_vars => [Near]_vars
  BY MainStepsStep
<1> QED
  BY <1>1, Invariance, PTL DEF Spec

(* There are never more of them than five and three for each worker, which *)
(* is started, joined, and reported as failed.                             *)
THEOREM MainIsBounded == Spec => [](MainSteps \in 0..(3 * NumWorkers + 5))
<1>1. IInv => MainSteps \in 0..(3 * NumWorkers + 5)
  <2> SUFFICES ASSUME IInv PROVE MainSteps \in 0..(3 * NumWorkers + 5)
    OBVIOUS
  <2> DEFINE a == Ahead[main]
             c == Cardinality(ToCome)
  <2>1. a \in Nat /\ a <= 2 * NumWorkers + 5
    BY AheadTypes DEF IInv
  <2>2. c \in Nat /\ c <= NumWorkers /\ NumWorkers \in Nat
    BY ToComeIsFinite, ApplicationAssumption DEF IInv, ApplicationAssumption
  <2>3. MainSteps = a + c
    BY DEF MainSteps
  <2> HIDE DEF a, c
  <2> QED
    BY <2>1, <2>2, <2>3
<1> QED
  BY <1>1, Invariance, PTL
=============================================================================
