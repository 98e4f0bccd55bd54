--------------------------- MODULE FusionPipeline ---------------------------
(***************************************************************************)
(* The data path of the sensor client: the LiDAR bridge process and its    *)
(* pipe, the two sensor workers, the sensor queues, FusionWorker, the      *)
(* fused queue, ModelAdapterWorker, the mailbox and CommunicationWorker.   *)
(*                                                                         *)
(* A frame or a scan is the number of its capture: the n-th frame of the   *)
(* run is n, and so is the n-th scan.  Captures of one sensor follow each  *)
(* other, so the numbers are in the order of captured_at.  A fused pair is *)
(* a record [thermal, lidar].                                              *)
(*                                                                         *)
(* at[w] is the place of worker w in its loop.  "loop" is the test of       *)
(* stop_event together with the wait that follows it.  The event is set by *)
(* Main, or by a worker that raises an exception, at any moment; a worker  *)
(* that is past the test does the step it has begun.  Blocking calls have  *)
(* a timeout (0.25 s to 0.5 s) and come back to a test of the event, so    *)
(* here a blocked worker may give up at any moment once the event is set.  *)
(* Time spent in v4l2-ctl, in the model or in a PNG file is time spent at  *)
(* the place before: nobody else can tell.                                 *)
(***************************************************************************)
EXTENDS Naturals, Sequences, FiniteSets

CONSTANTS SensorQueueSize,   \* fusion.sensor_queue_size
          FusedQueueSize,    \* fusion.fused_queue_size
          FlushEvery,        \* fusion.flush_every_checks
          PipeSize,          \* scans that fit into the bridge's stdout pipe and into
                             \* the text reader's buffer above it
          MaxFrames,         \* bound: thermal frames captured in one run
          MaxScans           \* bound: LiDAR scans captured in one run

ASSUME PipelineAssumption ==
    /\ SensorQueueSize \in Nat \ {0}
    /\ FusedQueueSize \in Nat \ {0}
    /\ FlushEvery \in Nat \ {0}
    /\ PipeSize \in Nat
    /\ MaxFrames \in Nat
    /\ MaxScans \in Nat

Sensors == {"thermal", "lidar"}
Workers == {"ThermalSensor", "LidarSensor", "Fusion", "ModelAdapter", "Communication"}
Frames == 1..MaxFrames
Scans == 1..MaxScans
Pairs == [thermal : Frames, lidar : Scans]

None == 0                     \* no frame, no scan
NoPair == [thermal |-> None, lidar |-> None]

VARIABLES
    at,            \* at[w]: place of worker w in its loop
    stop_event,
    captured,      \* captured[s]: number of captures of sensor s so far
    bridge,        \* scan the bridge is writing to the pipe, or None
    pipe,          \* scans in the pipe
    hand,          \* hand[s]: capture the sensor worker is putting, or None
    sensor_queue,  \* sensor_queue[s]: thermal_queue and lidar_queue
    check_count,   \* FusionWorker.check_count, modulo FlushEvery
    fusing,        \* pair FusionWorker is putting, or NoPair
    fused_queue,
    adapter,       \* whether a model is loaded; in debug mode there may be none
    inferring,     \* pair whose result ModelAdapterWorker computes or publishes
    published,     \* history: results accepted by the mailbox
    taken,         \* history: results taken out of it
    flushed        \* history: flushed[s]: captures made when s was last flushed

sensing == <<captured, bridge, pipe, hand>>
fusion == <<check_count, fusing, flushed>>
model == <<adapter, inferring, published>>
vars == <<at, stop_event, sensing, sensor_queue, fusion, fused_queue, model, taken>>

Init == /\ at = [w \in Workers |-> IF w = "ModelAdapter" THEN "loading" ELSE "loop"]
        /\ stop_event = FALSE
        /\ captured = [s \in Sensors |-> 0]
        /\ bridge = None
        /\ pipe = <<>>
        /\ hand = [s \in Sensors |-> None]
        /\ sensor_queue = [s \in Sensors |-> <<>>]
        /\ check_count = 0
        /\ fusing = NoPair
        /\ fused_queue = <<>>
        /\ adapter = FALSE
        /\ inferring = NoPair
        /\ published = <<>>
        /\ taken = <<>>
        /\ flushed = [s \in Sensors |-> 0]

Goto(w, place) == at' = [at EXCEPT ![w] = place]

\* `while not self.stop_event.is_set()' of worker w, and the way out of the loop.
Enter(w, place) == at[w] = "loop" /\ ~stop_event /\ Goto(w, place)

\* The next test of the event, when nothing blocks before it.
Repeat(w) == Goto(w, IF stop_event THEN "stopped" ELSE "loop")

\* LidarSensorWorker ends its bridge before it ends; what is not delivered is lost.
StopProcess == IF at'["LidarSensor"] = "stopped"
               THEN bridge' = None /\ pipe' = <<>>
               ELSE UNCHANGED <<bridge, pipe>>

Leave(w) == /\ at[w] = "loop"
            /\ stop_event
            /\ Goto(w, "stopped")
            /\ StopProcess
            /\ UNCHANGED <<stop_event, captured, hand, sensor_queue, fusion, fused_queue,
                           model, taken>>
-----------------------------------------------------------------------------
(* put_with_stop()                                                         *)

\* Variant of HasRoom: one element too many.
HasRoomForOneMore(q, size) == Len(q) <= size

HasRoom(q, size) == Len(q) < size

\* Variant of PutGivesUp: the event is tested once, before the first put.
PutGivesUpNever == FALSE

\* The event is tested before each attempt of 0.25 s; an attempt that has begun may
\* still succeed after the event.
PutGivesUp == stop_event
-----------------------------------------------------------------------------
(* ThermalSensorWorker, and LidarSensorWorker with its bridge.             *)

\* capture_once(): the frame is stamped before v4l2-ctl runs.
Capture ==
    /\ captured["thermal"] < MaxFrames
    /\ Enter("ThermalSensor", "putting")
    /\ captured' = [captured EXCEPT !["thermal"] = @ + 1]
    /\ hand' = [hand EXCEPT !["thermal"] = captured["thermal"] + 1]
    /\ UNCHANGED <<stop_event, bridge, pipe, sensor_queue, fusion, fused_queue, model, taken>>

\* The bridge stamps a scan when it has read it, and blocks while the pipe is full.
BridgeScans ==
    /\ at["LidarSensor"] # "stopped"
    /\ bridge = None
    /\ captured["lidar"] < MaxScans
    /\ captured' = [captured EXCEPT !["lidar"] = @ + 1]
    /\ bridge' = captured["lidar"] + 1
    /\ UNCHANGED <<at, stop_event, pipe, hand, sensor_queue, fusion, fused_queue,
                   model, taken>>

BridgeWrites ==
    /\ bridge # None
    /\ Len(pipe) < PipeSize
    /\ pipe' = Append(pipe, bridge)
    /\ bridge' = None
    /\ UNCHANGED <<at, stop_event, captured, hand, sensor_queue, fusion, fused_queue,
                   model, taken>>

\* A scan read after the event is lost with the rest of the pipe.
ReadScan ==
    /\ pipe # <<>>
    /\ Enter("LidarSensor", "putting")
    /\ hand' = [hand EXCEPT !["lidar"] = Head(pipe)]
    /\ pipe' = Tail(pipe)
    /\ UNCHANGED <<stop_event, captured, bridge, sensor_queue, fusion, fused_queue,
                   model, taken>>

SensorWorker(s) == IF s = "thermal" THEN "ThermalSensor" ELSE "LidarSensor"

PutSample(s) ==
    /\ at[SensorWorker(s)] = "putting"
    /\ HasRoom(sensor_queue[s], SensorQueueSize)
    /\ sensor_queue' = [sensor_queue EXCEPT ![s] = Append(@, hand[s])]
    /\ hand' = [hand EXCEPT ![s] = None]
    /\ Repeat(SensorWorker(s))
    /\ StopProcess
    /\ UNCHANGED <<stop_event, captured, fusion, fused_queue, model, taken>>

\* The thermal worker returns; the LiDAR worker finds the event set in its loop.
PutSampleGivesUp(s) ==
    /\ at[SensorWorker(s)] = "putting"
    /\ PutGivesUp
    /\ hand' = [hand EXCEPT ![s] = None]
    /\ Goto(SensorWorker(s), "stopped")
    /\ StopProcess
    /\ UNCHANGED <<stop_event, captured, sensor_queue, fusion, fused_queue, model, taken>>
-----------------------------------------------------------------------------
(* FusionWorker.check_once()                                               *)

NextCount == (check_count + 1) % FlushEvery

BeginFlush ==
    /\ NextCount = 0
    /\ Enter("Fusion", "flush_thermal")
    /\ check_count' = 0
    /\ UNCHANGED <<stop_event, sensing, sensor_queue, fusing, flushed, fused_queue,
                   model, taken>>

\* Variant of Drained: drain_queue() removes one element.
DrainedAfterOne(q) == Len(q) <= 1

\* drain_queue() goes on until get_nowait() raises Empty.
Drained(q) == q = <<>>

\* One get_nowait() of the flush: a producer may put between any two of them.
Flush(s, here, after) ==
    /\ at["Fusion"] = here
    /\ IF Drained(sensor_queue[s])
       THEN /\ Goto("Fusion", after)
            /\ flushed' = [flushed EXCEPT ![s] = captured[s]]
            /\ UNCHANGED sensor_queue
       ELSE /\ sensor_queue' = [sensor_queue EXCEPT ![s] = Tail(@)]
            /\ UNCHANGED <<at, flushed>>
    /\ UNCHANGED <<stop_event, sensing, check_count, fusing, fused_queue, model, taken>>

FlushQueues == \/ Flush("thermal", "flush_thermal", "flush_lidar")
               \/ Flush("lidar", "flush_lidar", "loop")

\* A check that finds a sensor queue empty takes nothing from the other.
CheckFindsNothing ==
    /\ NextCount # 0
    /\ \E s \in Sensors : sensor_queue[s] = <<>>
    /\ Enter("Fusion", "loop")
    /\ check_count' = NextCount
    /\ UNCHANGED <<stop_event, sensing, sensor_queue, fusing, flushed, fused_queue,
                   model, taken>>

\* Variant of TakePair: the scan stays in its queue, to be paired again.
TakePairKeepsScan ==
    sensor_queue' = [sensor_queue EXCEPT !["thermal"] = Tail(@)]

TakePair == sensor_queue' = [s \in Sensors |-> Tail(sensor_queue[s])]

CheckFuses ==
    /\ NextCount # 0
    /\ \A s \in Sensors : sensor_queue[s] # <<>>
    /\ Enter("Fusion", "putting")
    /\ check_count' = NextCount
    /\ TakePair
    /\ fusing' = [s \in Sensors |-> Head(sensor_queue[s])]
    /\ UNCHANGED <<stop_event, sensing, flushed, fused_queue, model, taken>>

PutPair ==
    /\ at["Fusion"] = "putting"
    /\ HasRoom(fused_queue, FusedQueueSize)
    /\ fused_queue' = Append(fused_queue, fusing)
    /\ fusing' = NoPair
    /\ Goto("Fusion", "loop")
    /\ UNCHANGED <<stop_event, sensing, sensor_queue, check_count, flushed, model, taken>>

PutPairGivesUp ==
    /\ at["Fusion"] = "putting"
    /\ PutGivesUp
    /\ fusing' = NoPair
    /\ Goto("Fusion", "loop")
    /\ UNCHANGED <<stop_event, sensing, sensor_queue, check_count, flushed, fused_queue,
                   model, taken>>
-----------------------------------------------------------------------------
(* ModelAdapterWorker and CommunicationWorker, around the mailbox.  The    *)
(* mailbox takes part with what SingleSlotHandoff says of it, which        *)
(* ResultMailbox is proved to implement.                                   *)

Mailbox == INSTANCE SingleSlotHandoff
           WITH Results <- Pairs, sent <- published, received <- taken

\* _load_adapter() returns an adapter, or None in debug mode.
LoadAdapter ==
    /\ at["ModelAdapter"] = "loading"
    /\ adapter' \in BOOLEAN
    /\ Goto("ModelAdapter", "loop")
    /\ UNCHANGED <<stop_event, sensing, sensor_queue, fusion, fused_queue, inferring,
                   published, taken>>

\* fused_queue.get(timeout=0.25), perhaps begun before the event; without an adapter
\* the pair is dropped.
GetPair ==
    /\ at["ModelAdapter"] = "loop"
    /\ fused_queue # <<>>
    /\ fused_queue' = Tail(fused_queue)
    /\ IF adapter
       THEN inferring' = Head(fused_queue) /\ Goto("ModelAdapter", "publishing")
       ELSE Repeat("ModelAdapter") /\ UNCHANGED inferring
    /\ UNCHANGED <<stop_event, sensing, sensor_queue, fusion, adapter, published, taken>>

Publish ==
    /\ at["ModelAdapter"] = "publishing"
    /\ ~stop_event
    /\ Mailbox!Send(inferring)
    /\ inferring' = NoPair
    /\ Goto("ModelAdapter", "loop")
    /\ UNCHANGED <<stop_event, sensing, sensor_queue, fusion, fused_queue, adapter>>

\* Variant of PublishGivesUp: publish() does not wait for a full slot.
PublishGivesUpWhenFull == stop_event \/ ~Mailbox!SlotEmpty

PublishGivesUp == stop_event

PublishReturnsFalse ==
    /\ at["ModelAdapter"] = "publishing"
    /\ PublishGivesUp
    /\ inferring' = NoPair
    /\ Goto("ModelAdapter", "stopped")
    /\ UNCHANGED <<stop_event, sensing, sensor_queue, fusion, fused_queue, adapter,
                   published, taken>>

\* take(), perhaps begun before the event.
TakeResult ==
    /\ at["Communication"] = "loop"
    /\ Mailbox!Receive
    /\ Goto("Communication", "sending")
    /\ UNCHANGED <<stop_event, sensing, sensor_queue, fusion, fused_queue, adapter, inferring>>

\* take() returned None, and a heartbeat is due.
StartHeartbeat ==
    /\ Mailbox!SlotEmpty
    /\ Enter("Communication", "sending")
    /\ UNCHANGED <<stop_event, sensing, sensor_queue, fusion, fused_queue, model, taken>>

\* The result is accepted by the server, or given up at stop; the heartbeat ends.
EndSending ==
    /\ at["Communication"] = "sending"
    /\ Repeat("Communication")
    /\ UNCHANGED <<stop_event, sensing, sensor_queue, fusion, fused_queue, model, taken>>
-----------------------------------------------------------------------------
(* Exceptions, and Main.                                                   *)

\* Where a worker can raise: v4l2-ctl fails, the bridge exits or writes garbage, a
\* PNG cannot be written, the model cannot be loaded or fails, the server fails too often.
RaisesAt == [ThermalSensor |-> {"putting"}, LidarSensor |-> {"loop"}, Fusion |-> {"putting"},
             ModelAdapter |-> {"loading", "publishing"}, Communication |-> {"sending"}]

\* run_worker() is left, and what the worker has in hand is lost; ManagedWorker.run()
\* reports the exception and sets the event.
Raise(w) ==
    /\ at[w] \in RaisesAt[w]
    /\ Goto(w, "stopped")
    /\ StopProcess
    /\ stop_event' = TRUE
    /\ hand' = IF w = "ThermalSensor" THEN [hand EXCEPT !["thermal"] = None] ELSE hand
    /\ fusing' = IF w = "Fusion" THEN NoPair ELSE fusing
    /\ inferring' = IF w = "ModelAdapter" THEN NoPair ELSE inferring
    /\ UNCHANGED <<captured, sensor_queue, check_count, flushed, fused_queue, adapter,
                   published, taken>>

\* Main sets the event after Ctrl+C.
SetStop ==
    /\ ~stop_event
    /\ stop_event' = TRUE
    /\ UNCHANGED <<at, sensing, sensor_queue, fusion, fused_queue, model, taken>>

Thermal == \/ Capture \/ PutSample("thermal") \/ PutSampleGivesUp("thermal")
           \/ Leave("ThermalSensor")

Lidar == \/ ReadScan \/ PutSample("lidar") \/ PutSampleGivesUp("lidar")
         \/ Leave("LidarSensor")

Fusion == \/ BeginFlush \/ FlushQueues \/ CheckFindsNothing \/ CheckFuses
          \/ PutPair \/ PutPairGivesUp \/ Leave("Fusion")

ModelAdapter == \/ LoadAdapter \/ GetPair \/ Publish \/ PublishReturnsFalse
                \/ Leave("ModelAdapter")

Communication == TakeResult \/ StartHeartbeat \/ EndSending \/ Leave("Communication")

Bridge == BridgeScans \/ BridgeWrites

Next == \/ Thermal \/ Lidar \/ Fusion \/ ModelAdapter \/ Communication
        \/ Bridge
        \/ \E w \in Workers : Raise(w)
        \/ SetStop

\* A worker that is not blocked goes on, and every blocking call returns: the
\* capture, the request and each wait have a timeout, and infer() is assumed to
\* return.  Sending ends because it is given up after max_consecutive_failures.
\* Nothing makes a sensor deliver, a worker raise, or Main stop.
Fairness == /\ WF_vars(Thermal) /\ WF_vars(Lidar) /\ WF_vars(Fusion)
            /\ WF_vars(ModelAdapter) /\ WF_vars(Communication)

Spec == Init /\ [][Next]_vars

FairSpec == Spec /\ Fairness
-----------------------------------------------------------------------------
Places == {"loading", "loop", "flush_thermal", "flush_lidar", "putting", "publishing",
           "sending", "stopped"}

(* Every variable has its type, and no queue outgrows its maxsize.         *)
TypeOK == /\ at \in [Workers -> Places]
          /\ stop_event \in BOOLEAN
          /\ captured \in [thermal : 0..MaxFrames, lidar : 0..MaxScans]
          /\ bridge \in Scans \cup {None}
          /\ pipe \in Seq(Scans) /\ Len(pipe) <= PipeSize
          /\ hand \in [thermal : Frames \cup {None}, lidar : Scans \cup {None}]
          /\ sensor_queue \in [thermal : Seq(Frames), lidar : Seq(Scans)]
          /\ \A s \in Sensors : Len(sensor_queue[s]) <= SensorQueueSize
          /\ check_count \in 0..(FlushEvery - 1)
          /\ fusing \in Pairs \cup {NoPair}
          /\ fused_queue \in Seq(Pairs) /\ Len(fused_queue) <= FusedQueueSize
          /\ adapter \in BOOLEAN
          /\ inferring \in Pairs \cup {NoPair}
          /\ published \in Seq(Pairs)
          /\ taken \in Seq(Pairs)
          /\ flushed \in [thermal : 0..MaxFrames, lidar : 0..MaxScans]

(* The results of one run are in the order of their frames and of their    *)
(* scans, so fused_at, the later of the two stamps, increases from result  *)
(* to result: no frame and no scan is used twice or overtaken, neither by  *)
(* a flush nor by a put that is given up.                                  *)
PublishedInOrder ==
    \A i, j \in 1..Len(published) :
        i < j => \A s \in Sensors : published[i][s] < published[j][s]

RangeOf(q) == {q[i] : i \in 1..Len(q)}

\* Captures of sensor s that can still be fused.
Held(s) ==
    RangeOf(sensor_queue[s]) \cup ({hand[s]} \ {None})
    \cup IF s = "lidar" THEN RangeOf(pipe) \cup ({bridge} \ {None}) ELSE {}

\* How many captures a flush cannot reach: the frame in hand; the scan
\* in hand, those in the pipe, and the one the bridge is writing.
OutOfReach(s) == IF s = "thermal" THEN 1 ELSE PipeSize + 2

(* "cleared stale sensor queues": what a flush leaves behind, and what is  *)
(* fused with fresh data later, is bounded by what was not in the queues.  *)
StaleAfterFlush ==
    \A s \in Sensors :
        Cardinality({n \in Held(s) : n <= flushed[s]}) <= OutOfReach(s)

QueueWriter == [thermal |-> "ThermalSensor", lidar |-> "LidarSensor", fused |-> "Fusion"]
QueueReader == [thermal |-> "Fusion", lidar |-> "Fusion", fused |-> "ModelAdapter"]

\* The queues that are not empty.
Backlog == {s \in Sensors : sensor_queue[s] # <<>>}
           \cup IF fused_queue # <<>> THEN {"fused"} ELSE {}

Group == INSTANCE WorkerGroup
         WITH Queues <- Sensors \cup {"fused"}, Writer <- QueueWriter, Reader <- QueueReader,
              alive <- {w \in Workers : at[w] # "stopped"}, backlog <- Backlog

(* The workers keep the promise of their group: none touches a queue of    *)
(* the others or ends without the event set.  SensorClientApplication,     *)
(* which knows nothing else of them, relies on it.                         *)
ImplementsGroup == Group!Spec

(* Once the event is set every worker ends, although some are blocked on   *)
(* queues and slots that nobody fills or empties any more.                 *)
StopReachesEveryone == stop_event ~> \A w \in Workers : at[w] = "stopped"

(* With a model, each fused pair becomes a result that the Communication   *)
(* worker takes, unless the client stops: full queues and a full slot hold *)
(* the workers up but lose nothing.                                        *)
FusedIsDelivered ==
    \A n \in Frames :
        adapter /\ fusing.thermal = n
            ~> stop_event \/ \E i \in 1..Len(taken) : taken[i].thermal = n
=============================================================================
