--------------------------- MODULE RplidarBridge ---------------------------
(***************************************************************************)
(* The bridge process (sensor-client/rplidar_c1_bridge.cpp), its standard  *)
(* output, and the LidarSensor thread that reads it and ends it            *)
(* (lidar_sensor_thread.py, stop_process() in shared_runtime.py).          *)
(*                                                                         *)
(* A record is a line of two halves, as a write or a read may stop in the  *)
(* middle of it.  select() sees the pipe, readline() the buffer above it.  *)
(* Standard error, which carries messages only, is left out.               *)
(*                                                                         *)
(* SIGTERM, and the SIGINT of a terminal, only set g_stop_requested; a     *)
(* write that is blocked on the full pipe goes on after the handler        *)
(* (std::signal() of glibc restarts system calls).                         *)
(***************************************************************************)
EXTENDS Naturals

CONSTANTS PipeSize,      \* halves the pipe holds
          BufferSize,    \* halves readline() may have read ahead
          QueueSize,     \* lidar queue
          MaxTimeouts    \* --max-timeouts

ASSUME BridgeAssumption ==
    /\ PipeSize \in Nat \ {0}
    /\ BufferSize \in Nat /\ BufferSize >= 2
    /\ QueueSize \in Nat \ {0}
    /\ MaxTimeouts \in Nat \ {0}

VARIABLES
    worker,       \* place of the thread
    raised,       \* run_worker() is being left by an exception
    stop_event,
    greeted,      \* the ready record has been handled
    eof,          \* the end of the pipe has been seen: unregistered
    bridge,       \* place of the process
    stop_requested,
    doomed,       \* SIGKILL has been sent
    issued,       \* scan_command_issued_
    scanning,     \* the device scans, its motor turns
    warned,       \* stop() or setMotorSpeed() failed: only a message
    timeouts,     \* consecutive_timeouts
    pipe,         \* halves in the pipe
    buffer,       \* halves in the buffer of the text reader
    queued        \* scans in the lidar queue

reader == <<raised, greeted, eof, buffer>>
device == <<issued, scanning, warned, timeouts>>
vars == <<worker, raised, stop_event, greeted, eof, bridge, stop_requested, doomed,
          issued, scanning, warned, timeouts, pipe, buffer, queued>>

WorkerPlaces == {"start", "select", "readline", "put", "poll",
                 "stopping",    \* before poll() and terminate() of stop_process()
                 "waiting",     \* wait(2) after terminate()
                 "killing",     \* wait(2) after kill()
                 "ended",
                 "dead"}        \* with its whole process

BridgePlaces == {"absent",
                 "boot",        \* before the signal handlers are set
                 "setup",       \* connect() ... getAllSupportedScanModes()
                 "starting",    \* startScanExpress()
                 "loop", "grab",
                 "write",       \* before the first half of a record
                 "halfway",     \* before the second
                 "closing",     \* ~DriverSession()
                 "exited",
                 "killed"}

Gone == bridge \in {"absent", "exited", "killed"}

Init == /\ worker = "start"
        /\ raised = FALSE
        /\ stop_event \in BOOLEAN
        /\ greeted = FALSE
        /\ eof = FALSE
        /\ bridge = "absent"
        /\ stop_requested = FALSE
        /\ doomed = FALSE
        /\ issued = FALSE
        /\ scanning = FALSE
        /\ warned = FALSE
        /\ timeouts = 0
        /\ pipe = 0
        /\ buffer = 0
        /\ queued = 0

-----------------------------------------------------------------------------
(* The thread: _consume_bridge(), one readline() for each select().        *)

\* The thread goes on to place p and nothing else happens.
WorkerTo(p) ==
    /\ worker' = p
    /\ UNCHANGED <<stop_event, bridge, stop_requested, doomed, pipe, queued, reader, device>>

StartBridge ==
    /\ worker = "start"
    /\ worker' = "select"
    /\ bridge' = "boot"
    /\ UNCHANGED <<stop_event, stop_requested, doomed, pipe, queued, reader, device>>

\* No bridge program, no device, or Popen() fails: SensorError.
StartFails ==
    /\ worker = "start"
    /\ worker' = "ended"
    /\ raised' = TRUE
    /\ stop_event' = TRUE
    /\ UNCHANGED <<greeted, eof, bridge, stop_requested, doomed, pipe, buffer, queued, device>>

LeaveLoop == worker = "select" /\ stop_event /\ WorkerTo("stopping")

Readable == pipe > 0 \/ (Gone /\ ~eof)

SelectReadable == worker = "select" /\ ~stop_event /\ Readable /\ WorkerTo("readline")

SelectTimesOut == worker = "select" /\ ~stop_event /\ ~Readable /\ WorkerTo("poll")

\* readline() reads on while it has no whole line, whatever the pipe offers.
FillBuffer ==
    /\ worker = "readline"
    /\ buffer < 2
    /\ \E k \in 1..pipe :
          /\ buffer + k <= BufferSize
          /\ buffer' = buffer + k
          /\ pipe' = pipe - k
    /\ UNCHANGED <<worker, raised, stop_event, greeted, eof, bridge, stop_requested, doomed,
                   queued, device>>

ReadRecord ==
    /\ worker = "readline"
    /\ buffer >= 2
    /\ buffer' = buffer - 2
    /\ worker' = IF greeted THEN "put" ELSE "poll"
    /\ greeted' = TRUE
    /\ UNCHANGED <<raised, stop_event, eof, bridge, stop_requested, doomed, pipe, queued, device>>

AtEnd == worker = "readline" /\ pipe = 0 /\ Gone

ReadEnd ==
    /\ AtEnd
    /\ buffer = 0
    /\ eof' = TRUE
    /\ worker' = "poll"
    /\ UNCHANGED <<raised, stop_event, greeted, bridge, stop_requested, doomed, pipe, buffer,
                   queued, device>>

\* The first half of a line, and no more: invalid JSON.
ReadTruncated ==
    /\ AtEnd
    /\ buffer = 1
    /\ buffer' = 0
    /\ raised' = TRUE
    /\ worker' = "stopping"
    /\ UNCHANGED <<stop_event, greeted, eof, bridge, stop_requested, doomed, pipe, queued, device>>

PutScan ==
    /\ worker = "put"
    /\ ~stop_event
    /\ queued < QueueSize
    /\ queued' = queued + 1
    /\ worker' = "poll"
    /\ UNCHANGED <<stop_event, bridge, stop_requested, doomed, pipe, reader, device>>

\* Variant of PutScanGivesUp: put() waits for room without a timeout.
PutScanBlocks == worker = "put" /\ stop_event /\ queued < QueueSize /\ WorkerTo("poll")

PutScanGivesUp == worker = "put" /\ stop_event /\ WorkerTo("poll")

\* Variant of Poll: a bridge that ends with status 0 is no failure.
PollNonzero ==
    /\ worker = "poll"
    /\ IF Gone /\ ~(bridge = "exited" /\ stop_requested)
       THEN /\ worker' = "stopping"
            /\ raised' = ~stop_event
       ELSE /\ worker' = "select"
            /\ UNCHANGED raised
    /\ UNCHANGED <<stop_event, greeted, eof, bridge, stop_requested, doomed, pipe, buffer, queued,
                   device>>

\* Variant of Poll: a bridge that has ended is the end of the work, not a failure.
PollQuietly ==
    /\ worker = "poll"
    /\ worker' = IF Gone THEN "stopping" ELSE "select"
    /\ UNCHANGED <<raised, stop_event, greeted, eof, bridge, stop_requested, doomed, pipe, buffer,
                   queued, device>>

Poll ==
    /\ worker = "poll"
    /\ IF Gone
       THEN /\ worker' = "stopping"
            /\ raised' = ~stop_event
       ELSE /\ worker' = "select"
            /\ UNCHANGED raised
    /\ UNCHANGED <<stop_event, greeted, eof, bridge, stop_requested, doomed, pipe, buffer, queued,
                   device>>

-----------------------------------------------------------------------------
(* The thread: stop_process(), and the end of ManagedWorker.run().         *)

\* What the bridge does when a signal that asks it to stop arrives.
Signal ==
    IF bridge = "boot"
    THEN bridge' = "killed" /\ UNCHANGED stop_requested
    ELSE stop_requested' = TRUE /\ UNCHANGED bridge

Terminate ==
    /\ worker = "stopping"
    /\ ~Gone
    /\ Signal
    /\ worker' = "waiting"
    /\ UNCHANGED <<stop_event, doomed, pipe, queued, reader, device>>

\* Two seconds are over: only an SDK call or a blocked write takes so long.
WaitTimesOut ==
    /\ worker = "waiting"
    /\ bridge \in {"setup", "starting", "grab", "closing"}
          \/ (bridge \in {"write", "halfway"} /\ pipe = PipeSize)
    /\ doomed' = TRUE
    /\ worker' = "killing"
    /\ UNCHANGED <<stop_event, bridge, stop_requested, pipe, queued, reader, device>>

\* Variant of WorkerEnds: nobody waits after terminate().
WorkerEndsAfterTerminate ==
    /\ worker \in {"stopping", "waiting", "killing"}
    /\ worker = "stopping" => Gone
    /\ worker' = "ended"
    /\ stop_event' = (stop_event \/ raised)
    /\ UNCHANGED <<bridge, stop_requested, doomed, pipe, queued, reader, device>>

WorkerEnds ==
    /\ worker \in {"stopping", "waiting", "killing"}
    /\ Gone
    /\ worker' = "ended"
    /\ stop_event' = (stop_event \/ raised)
    /\ UNCHANGED <<bridge, stop_requested, doomed, pipe, queued, reader, device>>

\* The second wait(2) is over before the kernel has ended the process.
KillWaitTimesOut ==
    /\ worker = "killing"
    /\ ~Gone
    /\ worker' = "ended"
    /\ raised' = TRUE
    /\ stop_event' = TRUE
    /\ UNCHANGED <<greeted, eof, bridge, stop_requested, doomed, pipe, buffer, queued, device>>

-----------------------------------------------------------------------------
(* The bridge: main() and runBridge().                                     *)

\* The bridge is at place p, and SIGKILL has not been sent to it.
BridgeAt(p) == bridge = p /\ ~doomed

BridgeTo(p) ==
    /\ bridge' = p
    /\ UNCHANGED <<worker, stop_event, stop_requested, doomed, pipe, queued, reader, device>>

SetSignals == BridgeAt("boot") /\ BridgeTo("setup")

SetUpFails == BridgeAt("setup") /\ BridgeTo("closing")

\* Variant of BeginScan: the mark is forgotten.
BeginScanUnmarked == BridgeAt("setup") /\ BridgeTo("starting")

\* markScanCommandIssued(), then startScanExpress()
BeginScan ==
    /\ BridgeAt("setup")
    /\ bridge' = "starting"
    /\ issued' = TRUE
    /\ UNCHANGED <<worker, stop_event, stop_requested, doomed, scanning, warned, timeouts,
                   pipe, queued, reader>>

ScanStarts ==
    /\ BridgeAt("starting")
    /\ bridge' = "write"
    /\ scanning' = TRUE
    /\ UNCHANGED <<worker, stop_event, stop_requested, doomed, issued, warned, timeouts, pipe,
                   queued, reader>>

\* An error, or metadata that is refused: the device may scan all the same.
ScanStartFails ==
    /\ BridgeAt("starting")
    /\ bridge' = "closing"
    /\ scanning' \in BOOLEAN
    /\ UNCHANGED <<worker, stop_event, stop_requested, doomed, issued, warned, timeouts, pipe,
                   queued, reader>>

\* Nobody holds the other end of the pipe any more.
PipeClosed == worker = "dead"

WriteHalf ==
    /\ (BridgeAt("write") \/ BridgeAt("halfway"))
    /\ ~PipeClosed
    /\ pipe < PipeSize
    /\ pipe' = pipe + 1
    /\ bridge' = IF bridge = "write" THEN "halfway" ELSE "loop"
    /\ UNCHANGED <<worker, stop_event, stop_requested, doomed, queued, reader, device>>

WriteFails == (BridgeAt("write") \/ BridgeAt("halfway")) /\ PipeClosed /\ BridgeTo("closing")

StopSeen == (BridgeAt("loop") \/ BridgeAt("grab")) /\ stop_requested /\ BridgeTo("closing")

BeginGrab == BridgeAt("loop") /\ ~stop_requested /\ BridgeTo("grab")

Grabbed == BridgeAt("grab") /\ ~stop_requested

GrabScan ==
    /\ Grabbed
    /\ bridge' = "write"
    /\ timeouts' = 0
    /\ UNCHANGED <<worker, stop_event, stop_requested, doomed, issued, scanning, warned, pipe,
                   queued, reader>>

\* Variant of CountTimeout: the count starts again with each message.
CountTimeoutAnew == 1

CountTimeout == timeouts + 1

\* Variant of TooManyTimeouts: one more than asked for.
TooManyTimeoutsLate == CountTimeout > MaxTimeouts

TooManyTimeouts == CountTimeout >= MaxTimeouts

GrabTimesOut ==
    /\ Grabbed
    /\ timeouts' = CountTimeout
    /\ bridge' = IF TooManyTimeouts THEN "closing" ELSE "loop"
    /\ UNCHANGED <<worker, stop_event, stop_requested, doomed, issued, scanning, warned, pipe,
                   queued, reader>>

GrabFails == Grabbed /\ BridgeTo("closing")

\* ~DriverSession(), on every way out of runBridge(), exceptions included.
Close ==
    /\ BridgeAt("closing")
    /\ bridge' = "exited"
    /\ IF issued
       THEN \/ scanning' = FALSE /\ UNCHANGED warned
            \/ warned' = TRUE /\ UNCHANGED scanning
       ELSE UNCHANGED <<scanning, warned>>
    /\ UNCHANGED <<worker, stop_event, stop_requested, doomed, issued, timeouts, pipe, queued,
                   reader>>

-----------------------------------------------------------------------------
(* Fusion, Main, the terminal and the kernel.                              *)

FusionTakes ==
    /\ queued > 0
    /\ ~stop_event
    /\ queued' = queued - 1
    /\ UNCHANGED <<worker, stop_event, bridge, stop_requested, doomed, pipe, reader, device>>

SetStop ==
    /\ ~stop_event
    /\ stop_event' = TRUE
    /\ UNCHANGED <<worker, bridge, stop_requested, doomed, pipe, queued, reader, device>>

\* Ctrl+C: the bridge is in the process group of the terminal.
TerminalInterrupts ==
    /\ ~Gone
    /\ ~stop_requested
    /\ Signal
    /\ UNCHANGED <<worker, stop_event, doomed, pipe, queued, reader, device>>

\* SIGKILL takes effect, or the bridge crashes.
BridgeKilled ==
    /\ ~Gone
    /\ BridgeTo("killed")

\* The client itself is killed: no handler runs.
ClientKilled ==
    /\ worker \notin {"start", "ended", "dead"}
    /\ WorkerTo("dead")

Worker == \/ StartBridge \/ StartFails \/ LeaveLoop \/ SelectReadable \/ SelectTimesOut
          \/ FillBuffer \/ ReadRecord \/ ReadEnd \/ ReadTruncated
          \/ PutScan \/ PutScanGivesUp \/ Poll
          \/ Terminate \/ WaitTimesOut \/ WorkerEnds \/ KillWaitTimesOut

Bridge == \/ SetSignals \/ SetUpFails \/ BeginScan \/ ScanStarts \/ ScanStartFails
          \/ WriteHalf \/ WriteFails \/ StopSeen \/ BeginGrab
          \/ GrabScan \/ GrabTimesOut \/ GrabFails \/ Close

Next == Worker \/ Bridge \/ FusionTakes \/ SetStop \/ TerminalInterrupts
        \/ BridgeKilled \/ ClientKilled

Spec == Init /\ [][Next]_vars

\* SDK calls end by their timeouts; a killed process ends; Fusion checks again and
\* again until the event is set.
FairSpec == /\ Spec
            /\ WF_vars(Worker)
            /\ WF_vars(Bridge)
            /\ WF_vars(FusionTakes)
            /\ WF_vars(doomed /\ BridgeKilled)
-----------------------------------------------------------------------------
(* Types. *)
TypeOK == /\ worker \in WorkerPlaces
          /\ bridge \in BridgePlaces
          /\ {raised, stop_event, greeted, eof, stop_requested, doomed, issued, scanning, warned}
                \subseteq BOOLEAN
          /\ timeouts \in 0..MaxTimeouts
          /\ pipe \in 0..PipeSize
          /\ buffer \in 0..BufferSize
          /\ queued \in 0..QueueSize

(* docs/development.md:37: no sensor process is left when the thread has   *)
(* ended, whatever the bridge was doing; at worst it has SIGKILL pending   *)
(* (lidar_sensor_thread.py:80-83, stop_process()).                         *)
NoBridgeLeft == worker = "ended" => Gone \/ doomed

(* A bridge that ends by itself has stopped the scan and the motor on all  *)
(* of its ways out, also when startScanExpress() failed after the device   *)
(* had started, or the SDK has refused to (rplidar_c1_bridge.cpp:257-273,  *)
(* 473-485).                                                               *)
ExitStopsScan == bridge = "exited" => ~scanning \/ warned

(* While the client goes on, every line is handled that the bridge has     *)
(* written, also one that readline() has read ahead and select() does not  *)
(* see, from a device that stalls.  A bridge that exits may leave lines    *)
(* that nobody reads, in the pipe and in the buffer, but then the thread   *)
(* reports it and the whole client stops: no line is lost in silence       *)
(* (lidar_sensor_thread.py:93-116 with rplidar_c1_bridge.cpp:512-521).     *)
LineHandledOrClientStops ==
    pipe + buffer >= 2 ~> (worker = "readline" /\ buffer >= 2) \/ stop_event \/ worker = "dead"

(* The thread ends once the event is set or the bridge has ended, whatever *)
(* it is doing: no read, no put and no wait keeps it, and no end of the    *)
(* bridge goes unnoticed (lidar_sensor_thread.py:78-116).                  *)
ThreadEnds ==
    stop_event \/ (worker # "start" /\ Gone) ~> worker \in {"ended", "dead"}

(* The bridge does not outlive the client for long, neither its thread nor *)
(* the whole process, killed: a write fails or the device times out.       *)
BridgeEndsWithClient == worker \in {"ended", "dead"} ~> Gone
=============================================================================
