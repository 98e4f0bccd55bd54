------------------------ MODULE RplidarBridgeProofs ------------------------
(***************************************************************************)
(* RplidarBridge: no bridge outlives its thread, one that ends by itself   *)
(* has stopped the device, and a thread or a bridge that is leaving has a  *)
(* bounded number of steps left, for every size of the pipe, the buffer    *)
(* and the queue and every --max-timeouts.                                 *)
(*                                                                         *)
(* The first two are not inductive alone.  Marks: the mark that makes the  *)
(* destructor stop the device is set before the device can scan.  Control: *)
(* there is no process before StartBridge and no signal to it, the thread  *)
(* gives up its last wait only after SIGKILL, and the bridge leaves its    *)
(* loop at the limit of timeouts.  Told: the thread leaves its loop only   *)
(* with the event set or an exception, which sets it.                      *)
(***************************************************************************)
EXTENDS RplidarBridge, TLAPS

Marks == scanning \/ bridge = "starting" => issued

Control ==
    /\ worker = "start" => bridge = "absent" /\ ~stop_requested
    /\ worker = "killing" => doomed
    /\ bridge \notin {"closing", "exited", "killed"} => timeouts < MaxTimeouts

Told ==
    /\ worker \in {"stopping", "waiting", "killing"} => stop_event \/ raised
    /\ worker = "ended" => stop_event

IInv == TypeOK /\ Marks /\ Control /\ Told /\ NoBridgeLeft /\ ExitStopsScan

LEMMA InitIInv == Init => IInv
<1> SUFFICES ASSUME Init PROVE IInv
  OBVIOUS
<1> USE BridgeAssumption DEF BridgeAssumption, Init
<1>1. TypeOK
  <2>1. worker \in WorkerPlaces /\ bridge \in BridgePlaces
    BY DEF WorkerPlaces, BridgePlaces
  <2>2. timeouts \in 0..MaxTimeouts /\ pipe \in 0..PipeSize
    OBVIOUS
  <2>3. buffer \in 0..BufferSize /\ queued \in 0..QueueSize
    OBVIOUS
  <2>4. {raised, stop_event, greeted, eof, stop_requested, doomed, issued, scanning, warned}
           \subseteq BOOLEAN
    OBVIOUS
  <2> QED
    BY <2>1, <2>2, <2>3, <2>4 DEF TypeOK
<1>2. Marks /\ Control /\ Told /\ NoBridgeLeft /\ ExitStopsScan
  BY DEF Marks, Control, Told, NoBridgeLeft, ExitStopsScan
<1> QED
  BY <1>1, <1>2 DEF IInv

LEMMA StepIInv == IInv /\ [Next]_vars => IInv'
<1> SUFFICES ASSUME IInv, [Next]_vars
             PROVE  IInv'
  OBVIOUS
<1> USE BridgeAssumption DEF BridgeAssumption, IInv, Gone, BridgeAt, reader, device
<1>1. CASE StartBridge \/ StartFails
  <2> USE <1>1 DEF StartBridge, StartFails
  <2>1. TypeOK'
    BY DEF TypeOK, WorkerPlaces, BridgePlaces, Control
  <2>2. Marks' /\ Control' /\ Told' /\ NoBridgeLeft' /\ ExitStopsScan'
    BY DEF TypeOK, Marks, Control, Told, NoBridgeLeft, ExitStopsScan
  <2> QED
    BY <2>1, <2>2
<1>2. CASE LeaveLoop \/ SelectReadable \/ SelectTimesOut \/ PutScanGivesUp \/ ClientKilled
  <2> USE <1>2 DEF LeaveLoop, SelectReadable, SelectTimesOut, PutScanGivesUp, ClientKilled, WorkerTo
  <2>1. TypeOK'
    BY DEF TypeOK, WorkerPlaces, BridgePlaces, Control
  <2>2. Marks' /\ Control' /\ Told' /\ NoBridgeLeft' /\ ExitStopsScan'
    BY DEF TypeOK, Marks, Control, Told, NoBridgeLeft, ExitStopsScan
  <2> QED
    BY <2>1, <2>2
<1>3. CASE FillBuffer
  <2> USE <1>3 DEF FillBuffer
  <2>1. TypeOK'
    BY DEF TypeOK, WorkerPlaces, BridgePlaces, Control
  <2>2. Marks' /\ Control' /\ Told' /\ NoBridgeLeft' /\ ExitStopsScan'
    BY DEF TypeOK, Marks, Control, Told, NoBridgeLeft, ExitStopsScan
  <2> QED
    BY <2>1, <2>2
<1>4. CASE ReadEnd
  <2> USE <1>4 DEF ReadEnd
  <2>1. worker' = "poll" /\ buffer' \in 0..BufferSize /\ eof' = TRUE
    BY DEF TypeOK
  <2>2. TypeOK'
    BY <2>1 DEF TypeOK, WorkerPlaces
  <2>3. Marks' /\ Control' /\ Told' /\ NoBridgeLeft' /\ ExitStopsScan'
    BY <2>1 DEF TypeOK, Marks, Control, Told, NoBridgeLeft, ExitStopsScan
  <2> QED
    BY <2>2, <2>3
<1>5. CASE ReadTruncated
  <2> USE <1>5 DEF ReadTruncated
  <2>1. worker' = "stopping" /\ buffer' \in 0..BufferSize /\ raised' = TRUE
    BY DEF TypeOK
  <2>2. TypeOK'
    BY <2>1 DEF TypeOK, WorkerPlaces
  <2>3. Marks' /\ Control' /\ Told' /\ NoBridgeLeft' /\ ExitStopsScan'
    BY <2>1 DEF TypeOK, Marks, Control, Told, NoBridgeLeft, ExitStopsScan
  <2> QED
    BY <2>2, <2>3
<1>6. CASE ReadRecord
  <2> USE <1>6 DEF ReadRecord
  <2>1. worker' \in {"put", "poll"} /\ buffer' \in 0..BufferSize /\ greeted' = TRUE
    BY DEF TypeOK
  <2>2. TypeOK'
    BY <2>1 DEF TypeOK, WorkerPlaces
  <2>3. Marks' /\ Control' /\ Told' /\ NoBridgeLeft' /\ ExitStopsScan'
    BY <2>1 DEF TypeOK, Marks, Control, Told, NoBridgeLeft, ExitStopsScan
  <2> QED
    BY <2>2, <2>3
<1>7. CASE PutScan \/ FusionTakes
  <2> USE <1>7 DEF PutScan, FusionTakes
  <2>1. TypeOK'
    BY DEF TypeOK, WorkerPlaces, BridgePlaces, Control
  <2>2. Marks' /\ Control' /\ Told' /\ NoBridgeLeft' /\ ExitStopsScan'
    BY DEF TypeOK, Marks, Control, Told, NoBridgeLeft, ExitStopsScan
  <2> QED
    BY <2>1, <2>2
<1>8. CASE Poll
  <2> USE <1>8 DEF Poll
  <2>1. TypeOK'
    BY DEF TypeOK, WorkerPlaces, BridgePlaces, Control
  <2>2. Marks' /\ Control' /\ Told' /\ NoBridgeLeft' /\ ExitStopsScan'
    BY DEF TypeOK, Marks, Control, Told, NoBridgeLeft, ExitStopsScan
  <2> QED
    BY <2>1, <2>2
<1>9. CASE Terminate \/ TerminalInterrupts
  <2> USE <1>9 DEF Terminate, TerminalInterrupts, Signal
  <2>1. TypeOK'
    BY DEF TypeOK, WorkerPlaces, BridgePlaces, Control
  <2>2. Marks' /\ Control' /\ Told' /\ NoBridgeLeft' /\ ExitStopsScan'
    BY DEF TypeOK, Marks, Control, Told, NoBridgeLeft, ExitStopsScan
  <2> QED
    BY <2>1, <2>2
<1>10. CASE WaitTimesOut \/ WorkerEnds \/ KillWaitTimesOut
  <2> USE <1>10 DEF WaitTimesOut, WorkerEnds, KillWaitTimesOut
  <2>1. TypeOK'
    BY DEF TypeOK, WorkerPlaces, BridgePlaces, Control
  <2>2. Marks' /\ Control' /\ Told' /\ NoBridgeLeft' /\ ExitStopsScan'
    BY DEF TypeOK, Marks, Control, Told, NoBridgeLeft, ExitStopsScan
  <2> QED
    BY <2>1, <2>2
<1>11. CASE SetSignals \/ SetUpFails \/ StopSeen \/ BeginGrab \/ GrabFails
  <2> USE <1>11 DEF SetSignals, SetUpFails, StopSeen, BeginGrab, GrabFails, Grabbed, BridgeTo
  <2>1. TypeOK'
    BY DEF TypeOK, WorkerPlaces, BridgePlaces, Control
  <2>2. Marks' /\ Control' /\ Told' /\ NoBridgeLeft' /\ ExitStopsScan'
    BY DEF TypeOK, Marks, Control, Told, NoBridgeLeft, ExitStopsScan
  <2> QED
    BY <2>1, <2>2
<1>12. CASE BeginScan \/ ScanStarts \/ ScanStartFails
  <2> USE <1>12 DEF BeginScan, ScanStarts, ScanStartFails
  <2>1. TypeOK'
    BY DEF TypeOK, WorkerPlaces, BridgePlaces, Control
  <2>2. Marks' /\ Control' /\ Told' /\ NoBridgeLeft' /\ ExitStopsScan'
    BY DEF TypeOK, Marks, Control, Told, NoBridgeLeft, ExitStopsScan
  <2> QED
    BY <2>1, <2>2
<1>13. CASE WriteHalf \/ WriteFails \/ BridgeKilled
  <2> USE <1>13 DEF WriteHalf, WriteFails, BridgeKilled, BridgeTo
  <2>1. TypeOK'
    BY DEF TypeOK, WorkerPlaces, BridgePlaces, Control
  <2>2. Marks' /\ Control' /\ Told' /\ NoBridgeLeft' /\ ExitStopsScan'
    BY DEF TypeOK, Marks, Control, Told, NoBridgeLeft, ExitStopsScan
  <2> QED
    BY <2>1, <2>2
<1>14. CASE GrabScan \/ GrabTimesOut
  <2> USE <1>14 DEF GrabScan, GrabTimesOut, Grabbed, CountTimeout, TooManyTimeouts
  <2>1. TypeOK'
    BY DEF TypeOK, WorkerPlaces, BridgePlaces, Control
  <2>2. Marks' /\ Control' /\ Told' /\ NoBridgeLeft' /\ ExitStopsScan'
    BY DEF TypeOK, Marks, Control, Told, NoBridgeLeft, ExitStopsScan
  <2> QED
    BY <2>1, <2>2
<1>15. CASE Close
  <2> USE <1>15 DEF Close
  <2>1. TypeOK'
    BY DEF TypeOK, WorkerPlaces, BridgePlaces, Control
  <2>2. Marks' /\ Control' /\ Told' /\ NoBridgeLeft' /\ ExitStopsScan'
    BY DEF TypeOK, Marks, Control, Told, NoBridgeLeft, ExitStopsScan
  <2> QED
    BY <2>1, <2>2
<1>16. CASE SetStop \/ UNCHANGED vars
  <2> USE <1>16 DEF SetStop, vars
  <2>1. TypeOK'
    BY DEF TypeOK, WorkerPlaces, BridgePlaces, Control
  <2>2. Marks' /\ Control' /\ Told' /\ NoBridgeLeft' /\ ExitStopsScan'
    BY DEF TypeOK, Marks, Control, Told, NoBridgeLeft, ExitStopsScan
  <2> QED
    BY <2>1, <2>2
<1> QED
  BY <1>1, <1>2, <1>3, <1>4, <1>5, <1>6, <1>7, <1>8, <1>9, <1>10, <1>11, <1>12, <1>13, <1>14, <1>15, <1>16 DEF Next, Worker, Bridge

(* Types, Marks, Control, Told and the two properties are inductive        *)
(* together.                                                               *)
THEOREM Invariance == Spec => []IInv
  BY InitIInv, StepIInv, PTL DEF Spec

(* stop_process() leaves no bridge behind when the thread ends, whatever   *)
(* the bridge was doing.                                                   *)
THEOREM NoneLeft == Spec => []NoBridgeLeft
  BY Invariance, PTL DEF IInv

(* A bridge that ends by itself has stopped the device, on every way out   *)
(* of runBridge(), by the destructor of DriverSession.                     *)
THEOREM ExitStops == Spec => []ExitStopsScan
  BY Invariance, PTL DEF IInv

(* A thread that has ended has the whole client stop, so that the lines it *)
(* leaves in the pipe and in the buffer are not lost in silence            *)
(* (lidar_sensor_thread.py:110-116, shared_runtime.py:158-165).            *)
THEOREM NoSilentEnd == Spec => [](worker = "ended" => stop_event)
  BY Invariance, PTL DEF IInv, Told

(* Pipe, read buffer and queue stay within their sizes, and the counter of *)
(* timeouts within its limit.                                              *)
THEOREM Typing == Spec => []TypeOK
  BY Invariance, PTL DEF IInv
-----------------------------------------------------------------------------
(* How far the thread is from its end once it is leaving: because of the   *)
(* event, or because the bridge it has started is gone.                    *)
Leaving == stop_event \/ (worker # "start" /\ Gone)

\* With the event set the thread starts no more reads.
ThreadAhead == [start    |-> IF stop_event THEN 5 ELSE 11,
                select   |-> IF stop_event THEN 4 ELSE 10,
                readline |-> IF buffer = 0 THEN 9 ELSE IF buffer = 1 THEN 8 ELSE 7,
                put |-> 6, poll |-> 5, stopping |-> 3, waiting |-> 2, killing |-> 1,
                ended |-> 0, dead |-> 0]

ThreadSteps == ThreadAhead[worker]

LEMMA ThreadStep ==
  ASSUME TypeOK, Leaving, [Next]_vars
  PROVE  /\ Leaving'
         /\ ThreadSteps' <= ThreadSteps
         /\ Worker => ThreadSteps' < ThreadSteps
<1> USE DEF Leaving, Gone, ThreadSteps, ThreadAhead, reader, device
<1>1. CASE StartBridge \/ StartFails \/ LeaveLoop \/ SelectReadable \/ SelectTimesOut
  BY <1>1 DEF TypeOK, StartBridge, StartFails, LeaveLoop, SelectReadable, SelectTimesOut, Readable,
              WorkerTo
<1>2. CASE FillBuffer
  BY <1>2 DEF TypeOK, FillBuffer
<1>3. CASE ReadRecord \/ ReadEnd \/ ReadTruncated
  BY <1>3 DEF TypeOK, ReadRecord, AtEnd, ReadEnd, ReadTruncated
<1>4. CASE PutScan \/ PutScanGivesUp \/ Poll
  BY <1>4 DEF PutScan, PutScanGivesUp, Poll, WorkerTo
<1>5. CASE Terminate \/ WaitTimesOut
  BY <1>5 DEF Terminate, Signal, WaitTimesOut
<1>6. CASE WorkerEnds \/ KillWaitTimesOut
  BY <1>6 DEF TypeOK, WorkerEnds, KillWaitTimesOut
<1>7. CASE ~Worker
  <2>1. CASE ClientKilled
    BY <2>1, <1>7 DEF TypeOK, WorkerPlaces, ClientKilled, WorkerTo
  <2>2. CASE ~ClientKilled
    <3>1. worker' = worker /\ buffer' = buffer
      BY <1>7, <2>2 DEF Next, Bridge, SetSignals, SetUpFails, BeginScan, ScanStarts, ScanStartFails,
                        WriteHalf, WriteFails, StopSeen, BeginGrab, GrabScan, GrabTimesOut,
                        GrabFails, Close, FusionTakes, SetStop, TerminalInterrupts, BridgeKilled,
                        BridgeTo, vars
    <3>2. stop_event' = stop_event \/ (stop_event' = TRUE /\ ~stop_event)
      BY <1>7, <2>2 DEF Next, Bridge, SetSignals, SetUpFails, BeginScan, ScanStarts, ScanStartFails,
                        WriteHalf, WriteFails, StopSeen, BeginGrab, GrabScan, GrabTimesOut,
                        GrabFails, Close, FusionTakes, SetStop, TerminalInterrupts, BridgeKilled,
                        BridgeTo, vars
    <3>3. Gone => Gone'
      BY <1>7, <2>2 DEF Next, Bridge, BridgeAt, SetSignals, SetUpFails, BeginScan, ScanStarts,
                        ScanStartFails, WriteHalf, WriteFails, StopSeen, BeginGrab, Grabbed,
                        GrabScan, GrabTimesOut, GrabFails, Close, FusionTakes, SetStop,
                        TerminalInterrupts, BridgeKilled, BridgeTo, vars
    <3>4. Leaving'
      BY <3>1, <3>2, <3>3
    <3>5. ThreadSteps' <= ThreadSteps
      BY <3>1, <3>2 DEF TypeOK, WorkerPlaces
    <3> QED
      BY <1>7, <3>4, <3>5
  <2> QED
    BY <2>1, <2>2
<1> QED
  BY <1>1, <1>2, <1>3, <1>4, <1>5, <1>6, <1>7 DEF Worker

(* A leaving thread stays one, and every step it takes is one of at most   *)
(* eleven: it handles one more record at the most, whatever the bridge     *)
(* writes meanwhile and however much has been read ahead                   *)
(* (lidar_sensor_thread.py:85-118).                                        *)
THEOREM ThreadIsNear ==
  Spec => [][Leaving => /\ Leaving'
                        /\ ThreadSteps' <= ThreadSteps
                        /\ Worker => ThreadSteps' < ThreadSteps]_vars
<1> DEFINE Near == Leaving => /\ Leaving'
                              /\ ThreadSteps' <= ThreadSteps
                              /\ Worker => ThreadSteps' < ThreadSteps
<1>1. TypeOK /\ [Next]_vars => [Near]_vars
  BY ThreadStep
<1> QED
  BY <1>1, Typing, PTL DEF Spec

(* How far the bridge is from its end once it has been asked to stop, or   *)
(* once the client is dead, which it learns only by a write that fails, or *)
(* by the timeouts of a device that does not scan.                         *)
AskedAhead == [absent |-> 0, boot |-> 7, setup |-> 6, starting |-> 5, write |-> 4, halfway |-> 3,
               loop |-> 2, grab |-> 2, closing |-> 1, exited |-> 0, killed |-> 0]

OrphanAhead == [absent |-> 0, boot |-> 5, setup |-> 4, starting |-> 3, write |-> 2, halfway |-> 2,
                loop |-> 2 * (MaxTimeouts - timeouts) + 2,
                grab |-> 2 * (MaxTimeouts - timeouts) + 1,
                closing |-> 1, exited |-> 0, killed |-> 0]

\* A step that leaves the bridge where it is, or ends it.
LEMMA OthersStep ==
  ASSUME [Next]_vars, ~Bridge
  PROVE  \/ bridge' = bridge /\ timeouts' = timeouts
         \/ bridge' = "killed"
         \/ worker = "start"
BY DEF Next, Worker, StartBridge, StartFails, LeaveLoop, SelectReadable, SelectTimesOut, FillBuffer,
       ReadRecord, ReadEnd, ReadTruncated, PutScan, PutScanGivesUp, Poll, Terminate, Signal,
       WaitTimesOut, WorkerEnds, KillWaitTimesOut, FusionTakes, SetStop, TerminalInterrupts,
       BridgeKilled, BridgeTo, ClientKilled, WorkerTo, vars, reader, device

LEMMA AskedStep ==
  ASSUME IInv, IInv', stop_requested, [Next]_vars
  PROVE  /\ stop_requested'
         /\ AskedAhead[bridge'] <= AskedAhead[bridge]
         /\ Bridge => AskedAhead[bridge'] < AskedAhead[bridge]
<1> USE DEF BridgeAt, BridgeTo
<1> DEFINE a == AskedAhead
<1>1. /\ a["setup"] < a["boot"] /\ a["starting"] < a["setup"] /\ a["write"] < a["starting"]
      /\ a["halfway"] < a["write"] /\ a["loop"] < a["halfway"] /\ a["closing"] < a["setup"]
      /\ a["closing"] < a["starting"] /\ a["closing"] < a["write"] /\ a["closing"] < a["halfway"]
      /\ a["closing"] < a["loop"] /\ a["closing"] < a["grab"] /\ a["exited"] < a["closing"]
  BY DEF AskedAhead
<1>2. \A p \in BridgePlaces : a[p] \in Nat /\ a["killed"] <= a[p]
  BY DEF AskedAhead, BridgePlaces
<1> HIDE DEF a
<1>3. bridge \in BridgePlaces /\ bridge' \in BridgePlaces
  BY DEF IInv, TypeOK
<1>4. ASSUME Bridge PROVE a[bridge'] < a[bridge]
  <2>1. CASE SetSignals \/ SetUpFails \/ BeginScan
    BY <1>1, <2>1, Zenon DEF SetSignals, SetUpFails, BeginScan
  <2>2. CASE ScanStarts \/ ScanStartFails
    BY <1>1, <2>2, Zenon DEF ScanStarts, ScanStartFails
  <2>5. CASE WriteHalf
    <3>1. CASE bridge = "write"
      BY <1>1, <2>5, <3>1, Zenon DEF WriteHalf
    <3>2. CASE bridge = "halfway"
      BY <1>1, <2>5, <3>2, "halfway" # "write" DEF WriteHalf
    <3> QED
      BY <2>5, <3>1, <3>2, Zenon DEF WriteHalf
  <2>3. CASE WriteFails \/ StopSeen \/ Close
    BY <1>1, <2>3, Zenon DEF WriteFails, StopSeen, Close
  <2>4. CASE BeginGrab \/ Grabbed
    BY <2>4 DEF BeginGrab, Grabbed
  <2> QED
    BY <1>4, <2>1, <2>2, <2>3, <2>4, <2>5 DEF Bridge, GrabScan, GrabTimesOut, GrabFails
<1>5. ASSUME ~Bridge PROVE a[bridge'] <= a[bridge]
  <2>1. worker # "start"
    BY DEF IInv, Control
  <2>2. bridge' = bridge \/ bridge' = "killed"
    BY <1>5, <2>1, OthersStep
  <2> QED
    BY <1>2, <1>3, <2>2
<1>6. stop_requested'
  BY DEF Next, Worker, StartBridge, StartFails, LeaveLoop, SelectReadable, SelectTimesOut, FillBuffer,
         ReadRecord, ReadEnd, ReadTruncated, PutScan, PutScanGivesUp, Poll, Terminate, Signal,
         WaitTimesOut, WorkerEnds, KillWaitTimesOut, Bridge, SetSignals, SetUpFails, BeginScan,
         ScanStarts, ScanStartFails, WriteHalf, WriteFails, StopSeen, BeginGrab, GrabScan,
         GrabTimesOut, GrabFails, Close, FusionTakes, SetStop, TerminalInterrupts, BridgeKilled,
         ClientKilled, WorkerTo, vars
<1>7. a[bridge'] <= a[bridge]
  <2>1. a[bridge] \in Nat /\ a[bridge'] \in Nat
    BY <1>2, <1>3
  <2> QED
    BY <1>4, <1>5, <2>1
<1> QED
  BY <1>4, <1>6, <1>7 DEF a

LEMMA OrphanStep ==
  ASSUME IInv, worker = "dead", [Next]_vars
  PROVE  /\ worker' = "dead"
         /\ OrphanAhead'[bridge'] <= OrphanAhead[bridge]
         /\ Bridge => OrphanAhead'[bridge'] < OrphanAhead[bridge]
<1> USE BridgeAssumption DEF BridgeAssumption, OrphanAhead, BridgeAt, BridgeTo, device
<1>1. bridge \notin {"closing", "exited", "killed"} => MaxTimeouts - timeouts >= 1
  BY DEF IInv, TypeOK, Control
<1>2. timeouts \in Nat /\ timeouts <= MaxTimeouts
  BY DEF IInv, TypeOK
<1>3. CASE SetSignals \/ SetUpFails \/ BeginScan \/ ScanStarts \/ ScanStartFails
  BY <1>3 DEF SetSignals, SetUpFails, BeginScan, ScanStarts, ScanStartFails
<1>4. CASE WriteHalf \/ WriteFails \/ StopSeen \/ Close
  BY <1>1, <1>2, <1>4 DEF WriteHalf, WriteFails, StopSeen, Close, PipeClosed
<1>5. CASE BeginGrab \/ GrabFails
  BY <1>1, <1>2, <1>5 DEF BeginGrab, Grabbed, GrabFails
<1>6. CASE GrabScan
  BY <1>1, <1>2, <1>6 DEF Grabbed, GrabScan
<1>7. CASE GrabTimesOut
  BY <1>1, <1>2, <1>7 DEF Grabbed, GrabTimesOut, CountTimeout, TooManyTimeouts
<1>8. CASE ~Bridge
  <2>1. worker' = "dead"
    BY <1>8 DEF Next, Worker, StartBridge, StartFails, LeaveLoop, SelectReadable, SelectTimesOut,
                FillBuffer, ReadRecord, AtEnd, ReadEnd, ReadTruncated, PutScan, PutScanGivesUp, Poll,
                Terminate, WaitTimesOut, WorkerEnds, KillWaitTimesOut, FusionTakes, SetStop,
                TerminalInterrupts, BridgeKilled, ClientKilled, WorkerTo, vars
  <2>2. OrphanAhead[bridge] \in Nat
    BY <1>2 DEF IInv, TypeOK, BridgePlaces
  <2>3. (bridge' = bridge /\ timeouts' = timeouts) \/ bridge' = "killed"
    BY <1>8, OthersStep
  <2> QED
    BY <1>8, <2>1, <2>2, <2>3
<1> QED
  BY <1>3, <1>4, <1>5, <1>6, <1>7, <1>8 DEF Bridge

(* A bridge that was asked to stop, by the thread or by the terminal, has  *)
(* at most seven steps of its own left, and one whose client was killed    *)
(* two for each timeout that is left and two more, or five while it        *)
(* starts; nothing that anybody else does adds to them                     *)
(* (rplidar_c1_bridge.cpp:500-540).                                        *)
THEOREM BridgeIsNear ==
  Spec => /\ [][stop_requested => /\ stop_requested'
                                  /\ AskedAhead[bridge'] <= AskedAhead[bridge]
                                  /\ Bridge => AskedAhead[bridge'] < AskedAhead[bridge]]_vars
          /\ [][worker = "dead" => /\ worker' = "dead"
                                   /\ OrphanAhead'[bridge'] <= OrphanAhead[bridge]
                                   /\ Bridge => OrphanAhead'[bridge'] < OrphanAhead[bridge]]_vars
<1> DEFINE Asked == stop_requested => /\ stop_requested'
                                      /\ AskedAhead[bridge'] <= AskedAhead[bridge]
                                      /\ Bridge => AskedAhead[bridge'] < AskedAhead[bridge]
           Orphan == worker = "dead" => /\ worker' = "dead"
                                        /\ OrphanAhead'[bridge'] <= OrphanAhead[bridge]
                                        /\ Bridge => OrphanAhead'[bridge'] < OrphanAhead[bridge]
<1>1. IInv /\ IInv' /\ [Next]_vars => [Asked]_vars
  BY AskedStep
<1>2. IInv /\ [Next]_vars => [Orphan]_vars
  BY OrphanStep
<1> QED
  BY <1>1, <1>2, Invariance, PTL DEF Spec
=============================================================================
