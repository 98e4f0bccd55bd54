---------------------- MODULE SensorClientApplication ----------------------
(***************************************************************************)
(* sensor-client/sensor_client.py, class SensorClientApplication, and      *)
(* ManagedWorker of shared_runtime.py: the Main thread starts the workers  *)
(* in the order of self.workers, waits for a failure or for Ctrl+C, tells  *)
(* everyone to stop, joins the workers with a timeout, drains the queues   *)
(* and turns the failures into the exit code of the process.               *)
(*                                                                         *)
(* `main' is the place Main is at; Ctrl+C raises KeyboardInterrupt at any  *)
(* place of InterruptAt, and may come again while Main is shutting down.   *)
(* Python delivers it to Main only.  What a worker does in its loop is     *)
(* abstracted to the queues it writes and reads, to raising an exception,  *)
(* and to returning once it notices the event; FusionPipeline has the      *)
(* loops themselves.                                                       *)
(***************************************************************************)
EXTENDS Integers, FiniteSets

CONSTANTS NumWorkers,     \* self.workers, numbered in the order of the list
          Queues,         \* the sensor queues and the fused queue
          Writer, Reader, \* the worker that puts into, and takes from, a queue
          MayOverrun,     \* workers that can need more time than a join allows
          InterruptAt,    \* places of Main at which Ctrl+C can arrive
          MaxInterrupts   \* bound: Ctrl+C pressed at most this often

Workers == 1..NumWorkers

MainPlaces == {"start", "monitor", "check", "got", "shutdown", "join", "drain", "collect"}

ASSUME ApplicationAssumption ==
    /\ NumWorkers \in Nat \ {0}
    /\ Writer \in [Queues -> Workers]
    /\ Reader \in [Queues -> Workers]
    /\ MayOverrun \subseteq Workers
    /\ InterruptAt \subseteq MainPlaces
    /\ MaxInterrupts \in Nat

VARIABLES
    main,        \* where Main is; "finished" after return, "aborted" by an exception
    next,        \* the worker that Main starts or joins next
    worker,      \* life of each worker thread
    stop_event,  \* the event Main and the workers share
    closed,      \* mailbox.close() has been called
    failures,    \* workers whose ThreadFailure is in failure_queue
    got,         \* the failure Main has taken out and not yet recorded, or 0
    exit_code,
    backlog,     \* the queues that are not empty
    overran,     \* history: workers whose join timed out
    dropped,     \* history: failures Main had taken out when Ctrl+C hit it
    interrupts   \* how often Ctrl+C was pressed

mainVars == <<main, next, got, exit_code, closed, overran, dropped, interrupts>>
vars == <<mainVars, worker, stop_event, failures, backlog>>

Init == /\ main = "start"
        /\ next = 1
        /\ worker = [w \in Workers |-> "new"]
        /\ stop_event = FALSE
        /\ closed = FALSE
        /\ failures = {}
        /\ got = 0
        /\ exit_code = 0
        /\ backlog = {}
        /\ overran = {}
        /\ dropped = {}
        /\ interrupts = 0

\* The thread has terminated: is_alive() is False.
Ended(w) == worker[w] \in {"returned", "failed"}

\* The thread left run_worker() with an exception.
Raised == {w \in Workers : worker[w] \in {"raised", "reported", "failed"}}
-----------------------------------------------------------------------------
(* The worker threads: ManagedWorker.run() around run_worker().            *)

\* A running worker puts into its output queue, or takes from its input queue.
Exchange(q) ==
    /\ \/ worker[Writer[q]] = "running" /\ backlog' = backlog \cup {q}
       \/ worker[Reader[q]] = "running" /\ backlog' = backlog \ {q}
    /\ UNCHANGED <<mainVars, worker, stop_event, failures>>

\* run_worker() returns only after the stop event.
Return(w) ==
    /\ worker[w] = "running"
    /\ stop_event
    /\ worker' = [worker EXCEPT ![w] = "returned"]
    /\ UNCHANGED <<mainVars, stop_event, failures, backlog>>

\* run_worker() raises: a sensor, model or communication error, also while stopping.
Raise(w) ==
    /\ worker[w] = "running"
    /\ worker' = [worker EXCEPT ![w] = "raised"]
    /\ UNCHANGED <<mainVars, stop_event, failures, backlog>>

ReportFailure(w) ==
    /\ worker[w] = "raised"
    /\ worker' = [worker EXCEPT ![w] = "reported"]
    /\ failures' = failures \cup {w}
    /\ UNCHANGED <<mainVars, stop_event, backlog>>

\* Variant of SetStop: the worker leaves it to Main to stop the others.
SetStopLeftToMain(w) ==
    /\ worker[w] = "reported"
    /\ worker' = [worker EXCEPT ![w] = "failed"]
    /\ UNCHANGED <<mainVars, stop_event, failures, backlog>>

SetStop(w) ==
    /\ worker[w] = "reported"
    /\ worker' = [worker EXCEPT ![w] = "failed"]
    /\ stop_event' = TRUE
    /\ UNCHANGED <<mainVars, failures, backlog>>
-----------------------------------------------------------------------------
(* Main: run().                                                            *)

StartWorker ==
    /\ main = "start"
    /\ worker' = [worker EXCEPT ![next] = "running"]
    /\ IF next < NumWorkers THEN next' = next + 1 /\ UNCHANGED main
                            ELSE next' = 1 /\ main' = "monitor"
    /\ UNCHANGED <<got, exit_code, closed, overran, dropped, interrupts,
                   stop_event, failures, backlog>>

\* failure_queue.get(timeout=0.25) returns a failure ...
GetFailure ==
    /\ main = "monitor"
    /\ \E w \in failures : got' = w /\ failures' = failures \ {w}
    /\ main' = "got"
    /\ UNCHANGED <<next, exit_code, closed, overran, dropped, interrupts,
                   worker, stop_event, backlog>>

\* ... or raises queue.Empty, and Main goes on to look at the event.
GetTimesOut ==
    /\ main = "monitor"
    /\ failures = {}
    /\ main' = "check"
    /\ UNCHANGED <<next, got, exit_code, closed, overran, dropped, interrupts,
                   worker, stop_event, failures, backlog>>

CheckStop ==
    /\ main = "check"
    /\ main' = IF stop_event THEN "shutdown" ELSE "monitor"
    /\ UNCHANGED <<next, got, exit_code, closed, overran, dropped, interrupts,
                   worker, stop_event, failures, backlog>>

RecordFailure ==
    /\ main = "got"
    /\ got' = 0
    /\ exit_code' = 1
    /\ stop_event' = TRUE
    /\ main' = "shutdown"
    /\ UNCHANGED <<next, closed, overran, dropped, interrupts, worker, failures, backlog>>
-----------------------------------------------------------------------------
(* Main: shutdown(), and the last part of run().                           *)

\* Variant of BeginShutdown: only the mailbox is closed.
BeginShutdownCloseOnly ==
    /\ main = "shutdown"
    /\ closed' = TRUE
    /\ main' = "join"
    /\ UNCHANGED <<next, got, exit_code, overran, dropped, interrupts,
                   worker, stop_event, failures, backlog>>

BeginShutdown ==
    /\ main = "shutdown"
    /\ stop_event' = TRUE
    /\ closed' = TRUE
    /\ main' = "join"
    /\ UNCHANGED <<next, got, exit_code, overran, dropped, interrupts,
                   worker, failures, backlog>>

\* Variant of JoinTimesOut: join() is called without a timeout.
JoinWithoutTimeout == FALSE

\* join(timeout=...) gives up on a worker that is still alive.
JoinTimesOut ==
    /\ ~Ended(next)
    /\ next \in MayOverrun
    /\ overran' = overran \cup {next}

\* Variant of JoinWorker: the loop over the workers stops one short.
JoinAllButLast ==
    /\ main = "join"
    /\ \/ Ended(next) /\ UNCHANGED overran
       \/ JoinTimesOut
    /\ IF next < NumWorkers - 1 THEN next' = next + 1 /\ UNCHANGED main
                                ELSE next' = 1 /\ main' = "drain"
    /\ UNCHANGED <<got, exit_code, closed, dropped, interrupts,
                   worker, stop_event, failures, backlog>>

\* Variant of JoinWorker: the loop goes one past the last worker.
JoinOneTooMany ==
    /\ main = "join"
    /\ \/ Ended(next) /\ UNCHANGED overran
       \/ JoinTimesOut
    /\ IF next <= NumWorkers THEN next' = next + 1 /\ UNCHANGED main
                             ELSE next' = 1 /\ main' = "drain"
    /\ UNCHANGED <<got, exit_code, closed, dropped, interrupts,
                   worker, stop_event, failures, backlog>>

JoinWorker ==
    /\ main = "join"
    /\ \/ Ended(next) /\ UNCHANGED overran
       \/ JoinTimesOut
    /\ IF next < NumWorkers THEN next' = next + 1 /\ UNCHANGED main
                            ELSE next' = 1 /\ main' = "drain"
    /\ UNCHANGED <<got, exit_code, closed, dropped, interrupts,
                   worker, stop_event, failures, backlog>>

DrainQueues ==
    /\ main = "drain"
    /\ backlog' = {}
    /\ main' = "collect"
    /\ UNCHANGED <<next, got, exit_code, closed, overran, dropped, interrupts,
                   worker, stop_event, failures>>

CollectFailure ==
    /\ main = "collect"
    /\ \E w \in failures : failures' = failures \ {w}
    /\ exit_code' = 1
    /\ UNCHANGED <<main, next, got, closed, overran, dropped, interrupts,
                   worker, stop_event, backlog>>

\* Variant of Finish: run() returns without a last look at failure_queue.
FinishAtOnce ==
    /\ main = "collect"
    /\ main' = "finished"
    /\ UNCHANGED <<next, got, exit_code, closed, overran, dropped, interrupts,
                   worker, stop_event, failures, backlog>>

Finish ==
    /\ main = "collect"
    /\ failures = {}
    /\ main' = "finished"
    /\ UNCHANGED <<next, got, exit_code, closed, overran, dropped, interrupts,
                   worker, stop_event, failures, backlog>>
-----------------------------------------------------------------------------
(* Ctrl+C.  Only the monitoring loop is inside the try statement: before it *)
(* and in the finally block KeyboardInterrupt leaves run().                *)

Interrupt ==
    /\ main \in InterruptAt
    /\ interrupts < MaxInterrupts
    /\ interrupts' = interrupts + 1
    /\ main' = IF main \in {"monitor", "check", "got"} THEN "shutdown" ELSE "aborted"
    /\ dropped' = IF main = "got" THEN dropped \cup {got} ELSE dropped
    /\ got' = 0
    /\ UNCHANGED <<next, exit_code, closed, overran, worker, stop_event, failures, backlog>>

Main == \/ StartWorker \/ GetFailure \/ GetTimesOut \/ CheckStop \/ RecordFailure
        \/ BeginShutdown \/ JoinWorker \/ DrainQueues \/ CollectFailure \/ Finish

Worker(w) == Return(w) \/ Raise(w) \/ ReportFailure(w) \/ SetStop(w)

\* The threads have ended; so has the process.
Terminated == /\ main \in {"finished", "aborted"}
              /\ \A w \in Workers : Ended(w) \/ worker[w] = "new"
              /\ UNCHANGED vars

Next == \/ Main
        \/ Interrupt
        \/ \E w \in Workers : Worker(w)
        \/ \E q \in Queues : Exchange(q)
        \/ Terminated

\* Main never waits without a timeout.  A worker looks at the event between any
\* two blocking calls, each of which has a timeout; only for those in MayOverrun
\* (a model's infer(), a slow server) nothing is promised.
Fairness == /\ WF_vars(Main)
            /\ \A w \in Workers : WF_vars(ReportFailure(w) \/ SetStop(w))
            /\ \A w \in Workers \ MayOverrun : WF_vars(Return(w))

Spec == Init /\ [][Next]_vars

FairSpec == Spec /\ Fairness
-----------------------------------------------------------------------------
(* Every variable has its type.                                            *)
TypeOK == /\ main \in MainPlaces \cup {"finished", "aborted"}
          /\ next \in Workers
          /\ worker \in [Workers -> {"new", "running", "raised", "reported",
                                     "returned", "failed"}]
          /\ stop_event \in BOOLEAN
          /\ closed \in BOOLEAN
          /\ failures \subseteq Workers
          /\ got \in Workers \cup {0}
          /\ exit_code \in {0, 1}
          /\ backlog \subseteq Queues
          /\ overran \subseteq Workers
          /\ dropped \subseteq Workers
          /\ interrupts \in 0..MaxInterrupts

(* When run() returns, the exit code tells whether a worker failed.  Exit  *)
(* code 0 hides a failure in two cases only: the worker outlived its join, *)
(* or Ctrl+C came between get() and the assignment of exit_code.           *)
ExitCodeTellsFailure ==
    main = "finished" => /\ exit_code = 0 => Raised \subseteq overran \cup dropped
                         /\ exit_code = 1 => Raised # {}

(* When run() returns and no join timed out, nothing is left behind: every *)
(* thread has ended, and none has put anything into a queue after the      *)
(* drain, or into failure_queue after the last look at it.                 *)
QuietAfterShutdown ==
    main = "finished" /\ overran = {} =>
        /\ \A w \in Workers : Ended(w)
        /\ backlog = {}
        /\ failures = {}

\* No worker runs, but for those that may ignore the event for any time.
AllStopped == \A w \in Workers \ MayOverrun : worker[w] = "new" \/ Ended(w)

(* The failure of one worker ends all of them, even when Ctrl+C takes Main *)
(* out of run() before it has seen the failure: the worker sets the event. *)
FailureStopsAll == Raised # {} ~> []AllStopped

(* Ctrl+C in the monitoring loop stops every worker, unless a second one   *)
(* takes Main out of run() before shutdown() has set the event: the first  *)
(* statement of the finally block (sensor_client.py:103-124).              *)
CaughtCtrlCStopsAll ==
    main = "shutdown" /\ interrupts = 1 ~> []AllStopped \/ (main = "aborted" /\ ~stop_event)

(* docs/development.md:37: no thread remains after Ctrl+C.                 *)
CtrlCStopsAll == interrupts > 0 ~> []AllStopped

Group == INSTANCE WorkerGroup WITH alive <- {w \in Workers : ~Ended(w)}

(* Main and the workers keep the promise of the group: a worker touches    *)
(* its queues only until it ends, the event is set when the first one has  *)
(* ended, and nobody drains a queue before.                                *)
ImplementsGroup == Group!Spec

(* Once the event is set, run() ends, although a worker may never end.     *)
MainEnds == stop_event ~> main \in {"finished", "aborted"}
=============================================================================
