------------------------ MODULE FusionPipelineProofs ------------------------
(***************************************************************************)
(* Types and order of the data path, for all sizes of the queues and of    *)
(* the pipe.  The types need Hands (a worker that puts or publishes has    *)
(* something to put) and SlotHeld (the mailbox holds one result at most).  *)
(* The order of the published results is no invariant by itself: it says   *)
(* nothing of what may be published next.  Line orders every capture that  *)
(* is still on its way, from the bridge to the mailbox.  StaleAfterFlush   *)
(* needs only that no flush is of captures to come (FlushedPast).          *)
(*                                                                         *)
(* Three more theorems are about steps: the workers keep the promise of    *)
(* their group, no fused pair is lost before the stop event (with what     *)
(* each worker does not have in hand, EmptyHands), and after it every step *)
(* of a worker brings the end nearer.                                      *)
(***************************************************************************)
EXTENDS FusionPipeline, SequenceTheorems, FiniteSetTheorems, TLAPS

\* Types.  What a worker has in hand at the place where it hands it on.
Hands ==
    /\ at["ThermalSensor"] = "putting" => hand["thermal"] # None
    /\ at["LidarSensor"] = "putting" => hand["lidar"] # None
    /\ at["Fusion"] = "putting" => fusing # NoPair
    /\ at["ModelAdapter"] = "publishing" => inferring # NoPair

LEMMA NextCountBounded ==
  ASSUME TypeOK
  PROVE  NextCount \in 0..(FlushEvery - 1)
<1>1. FlushEvery \in Nat /\ FlushEvery > 0 /\ check_count + 1 \in Nat
  BY PipelineAssumption DEF PipelineAssumption, TypeOK
<1>2. (check_count + 1) % FlushEvery \in 0..(FlushEvery - 1)
  BY <1>1
<1> QED
  BY <1>2 DEF NextCount

\* The types of what hand[s] and sensor_queue[s] hold, one sensor at a time.
Captures(s) == IF s = "thermal" THEN Frames ELSE Scans

LEMMA SensorTypes ==
  /\ \A x : x \in [thermal : Frames \cup {None}, lidar : Scans \cup {None}]
               <=> x \in [Sensors -> Frames \cup Scans \cup {None}]
                   /\ \A s \in Sensors : x[s] \in Captures(s) \cup {None}
  /\ \A x : x \in [thermal : Seq(Frames), lidar : Seq(Scans)]
               <=> x \in [Sensors -> Seq(Frames) \cup Seq(Scans)]
                   /\ \A s \in Sensors : x[s] \in Seq(Captures(s))
  BY DEF Sensors, Captures

LEMMA InitTypes == Init => TypeOK /\ Hands
<1> SUFFICES ASSUME Init PROVE TypeOK /\ Hands
  OBVIOUS
<1> USE PipelineAssumption DEF PipelineAssumption, Init
<1>1. at \in [Workers -> Places] /\ stop_event \in BOOLEAN /\ adapter \in BOOLEAN
  BY DEF Places
<1>2. /\ captured \in [thermal : 0..MaxFrames, lidar : 0..MaxScans]
      /\ flushed \in [thermal : 0..MaxFrames, lidar : 0..MaxScans]
      /\ hand \in [thermal : Frames \cup {None}, lidar : Scans \cup {None}]
  BY DEF Sensors
<1>3. /\ sensor_queue \in [thermal : Seq(Frames), lidar : Seq(Scans)]
      /\ \A s \in Sensors : Len(sensor_queue[s]) <= SensorQueueSize
  <2>1. sensor_queue["thermal"] = <<>> /\ sensor_queue["lidar"] = <<>>
    BY DEF Sensors
  <2>2. <<>> \in Seq(Frames) /\ <<>> \in Seq(Scans) /\ Len(<<>>) <= SensorQueueSize
    OBVIOUS
  <2>3. sensor_queue = [thermal |-> <<>>, lidar |-> <<>>]
    BY DEF Sensors
  <2> QED
    BY <2>1, <2>2, <2>3 DEF Sensors
<1>4. /\ pipe \in Seq(Scans) /\ Len(pipe) <= PipeSize
      /\ fused_queue \in Seq(Pairs) /\ Len(fused_queue) <= FusedQueueSize
      /\ published \in Seq(Pairs) /\ taken \in Seq(Pairs)
      /\ check_count \in 0..(FlushEvery - 1)
  OBVIOUS
<1>5. bridge \in Scans \cup {None} /\ fusing \in Pairs \cup {NoPair} /\ inferring \in Pairs \cup {NoPair}
  OBVIOUS
<1>6. Hands
  BY DEF Hands, Workers
<1> QED
  BY <1>1, <1>2, <1>3, <1>4, <1>5, <1>6 DEF TypeOK

LEMMA StopProcessTypes ==
  ASSUME TypeOK, StopProcess
  PROVE  /\ bridge' \in Scans \cup {None}
         /\ pipe' \in Seq(Scans) /\ Len(pipe') <= PipeSize
<1>1. CASE at'["LidarSensor"] = "stopped"
  BY <1>1, PipelineAssumption DEF PipelineAssumption, StopProcess
<1>2. CASE at'["LidarSensor"] # "stopped"
  BY <1>2 DEF TypeOK, StopProcess
<1> QED
  BY <1>1, <1>2

\* The mailbox holds one result at most: taken is a prefix of published.
SlotHeld == Len(published) \in {Len(taken), Len(taken) + 1}

LEMMA ReceiveTypes ==
  ASSUME TypeOK, SlotHeld, Mailbox!Receive
  PROVE  published' = published /\ taken' \in Seq(Pairs)
<1>1. Len(taken) + 1 \in 1..Len(published)
  BY DEF TypeOK, SlotHeld, Mailbox!Receive, Mailbox!SlotEmpty
<1>2. published[Len(taken) + 1] \in Pairs
  BY <1>1 DEF TypeOK
<1> QED
  BY <1>2 DEF TypeOK, Mailbox!Receive

LEMMA SlotStep == TypeOK /\ SlotHeld /\ [Next]_vars => SlotHeld'
<1> SUFFICES ASSUME TypeOK, SlotHeld, [Next]_vars
             PROVE  SlotHeld'
  OBVIOUS
<1>1. CASE Publish
  <2>1. published' = Append(published, inferring) /\ taken' = taken /\ Len(published) = Len(taken)
    BY <1>1 DEF Publish, Mailbox!Send, Mailbox!SlotEmpty
  <2> QED
    BY <2>1 DEF TypeOK, SlotHeld
<1>2. CASE TakeResult
  <2>1. /\ taken' = Append(taken, published[Len(taken) + 1]) /\ published' = published
        /\ Len(published) # Len(taken)
    BY <1>2 DEF TakeResult, Mailbox!Receive, Mailbox!SlotEmpty
  <2> QED
    BY <2>1 DEF TypeOK, SlotHeld
<1>3. CASE UNCHANGED <<published, taken>>
  BY <1>3 DEF SlotHeld
<1>4. Publish \/ TakeResult \/ UNCHANGED <<published, taken>>
  <2>1. CASE Thermal
    BY <2>1 DEF Thermal, Capture, PutSample, PutSampleGivesUp, Leave, model
  <2>2. CASE Lidar
    BY <2>2 DEF Lidar, ReadScan, PutSample, PutSampleGivesUp, Leave, model
  <2>3. CASE Fusion
    BY <2>3 DEF Fusion, BeginFlush, FlushQueues, Flush, CheckFindsNothing, CheckFuses, PutPair,
                PutPairGivesUp, Leave, model
  <2>4. CASE ModelAdapter
    BY <2>4 DEF ModelAdapter, LoadAdapter, GetPair, PublishReturnsFalse, Leave, model
  <2>5. CASE Communication
    BY <2>5 DEF Communication, StartHeartbeat, EndSending, Leave, model
  <2>6. CASE Bridge
    BY <2>6 DEF Bridge, BridgeScans, BridgeWrites, model
  <2>7. CASE (\E w \in Workers : Raise(w)) \/ SetStop \/ UNCHANGED vars
    BY <2>7 DEF Raise, SetStop, vars, model
  <2> QED
    BY <2>1, <2>2, <2>3, <2>4, <2>5, <2>6, <2>7 DEF Next
<1> QED
  BY <1>1, <1>2, <1>3, <1>4

LEMMA StepTypes == TypeOK /\ Hands /\ SlotHeld /\ [Next]_vars => TypeOK' /\ Hands'
<1> SUFFICES ASSUME TypeOK, Hands, SlotHeld, [Next]_vars
             PROVE  TypeOK' /\ Hands'
  OBVIOUS
<1>1. CASE Capture
  <2>1. captured["thermal"] + 1 \in Frames /\ captured["thermal"] + 1 \in 0..MaxFrames
    <3>1. captured["thermal"] \in 0..MaxFrames
      BY DEF TypeOK
    <3> QED
      BY <3>1, PipelineAssumption, <1>1 DEF PipelineAssumption, Capture, Frames
  <2>2. captured' \in [thermal : 0..MaxFrames, lidar : 0..MaxScans]
    BY <1>1, <2>1 DEF TypeOK, Capture
  <2>3. /\ hand' \in [thermal : Frames \cup {None}, lidar : Scans \cup {None}]
        /\ hand'["thermal"] = captured["thermal"] + 1 /\ hand'["lidar"] = hand["lidar"]
    BY <1>1, <2>1 DEF TypeOK, Capture
  <2>4. hand'["thermal"] # None
    BY <2>1, <2>3 DEF Frames, None
  <2>5. at' \in [Workers -> Places] /\ \A w \in Workers \ {"ThermalSensor"} : at'[w] = at[w]
    BY <1>1 DEF TypeOK, Capture, Enter, Goto, Workers, Places
  <2> QED
    BY <1>1, <2>1, <2>2, <2>3, <2>4, <2>5 DEF TypeOK, Hands, Capture, Sensors, Workers, sensing, fusion, model
<1>2. CASE BridgeScans
  <2>1. captured["lidar"] + 1 \in Scans /\ captured["lidar"] + 1 \in 0..MaxScans
    <3>1. captured["lidar"] \in 0..MaxScans
      BY DEF TypeOK
    <3> QED
      BY <3>1, PipelineAssumption, <1>2 DEF PipelineAssumption, BridgeScans, Scans
  <2>2. captured' \in [thermal : 0..MaxFrames, lidar : 0..MaxScans]
    BY <1>2, <2>1 DEF TypeOK, BridgeScans
  <2> QED
    BY <1>2, <2>1, <2>2 DEF TypeOK, Hands, BridgeScans, Sensors, Workers, sensing, fusion, model
<1>3. CASE BridgeWrites
  <2>1. pipe' \in Seq(Scans) /\ Len(pipe') <= PipeSize /\ bridge' = None
    <3>1. pipe \in Seq(Scans) /\ bridge \in Scans
      BY <1>3 DEF TypeOK, BridgeWrites
    <3>2. pipe' = Append(pipe, bridge) /\ Len(pipe) < PipeSize /\ bridge' = None
      BY <1>3 DEF BridgeWrites
    <3>3. pipe' \in Seq(Scans) /\ Len(pipe') = Len(pipe) + 1
      BY <3>1, <3>2
    <3>4. Len(pipe) \in Nat /\ PipeSize \in Nat
      BY <3>1, PipelineAssumption DEF PipelineAssumption
    <3> QED
      BY <3>2, <3>3, <3>4
  <2> QED
    BY <1>3, <2>1 DEF TypeOK, Hands, BridgeWrites, Sensors, Workers, sensing, fusion, model
<1>4. CASE ReadScan
  <2>1. Head(pipe) \in Scans /\ Tail(pipe) \in Seq(Scans) /\ Len(Tail(pipe)) <= PipeSize
    <3>1. pipe \in Seq(Scans) /\ pipe # <<>> /\ Len(pipe) <= PipeSize
      BY <1>4 DEF TypeOK, ReadScan
    <3>2. Head(pipe) \in Scans /\ Tail(pipe) \in Seq(Scans) /\ Len(Tail(pipe)) = Len(pipe) - 1
      BY <3>1
    <3>3. Len(pipe) \in Nat /\ PipeSize \in Nat
      BY <3>1, PipelineAssumption DEF PipelineAssumption
    <3> QED
      BY <3>1, <3>2, <3>3
  <2>2. /\ hand' \in [thermal : Frames \cup {None}, lidar : Scans \cup {None}]
        /\ hand'["lidar"] = Head(pipe) /\ hand'["thermal"] = hand["thermal"]
    BY <1>4, <2>1 DEF TypeOK, ReadScan
  <2>3. hand'["lidar"] # None
    BY <2>1, <2>2 DEF Scans, None
  <2>4. at' \in [Workers -> Places] /\ \A w \in Workers \ {"LidarSensor"} : at'[w] = at[w]
    BY <1>4 DEF TypeOK, ReadScan, Enter, Goto, Workers, Places
  <2> QED
    BY <1>4, <2>1, <2>2, <2>3, <2>4 DEF TypeOK, Hands, ReadScan, Sensors, Workers, sensing, fusion, model
<1>5. CASE PutSample("thermal")
  <2>1. hand["thermal"] \in Captures("thermal") /\ sensor_queue["thermal"] \in Seq(Captures("thermal"))
    BY <1>5 DEF TypeOK, Hands, Captures, PutSample, SensorWorker
  <2>2. /\ sensor_queue'["thermal"] \in Seq(Captures("thermal"))
        /\ Len(sensor_queue'["thermal"]) <= SensorQueueSize
        /\ sensor_queue'["lidar"] = sensor_queue["lidar"]
    BY <1>5, <2>1, PipelineAssumption
    DEF PipelineAssumption, TypeOK, PutSample, HasRoom, Sensors
  <2>3. sensor_queue' \in [thermal : Seq(Frames), lidar : Seq(Scans)]
    BY <1>5, <2>2 DEF TypeOK, PutSample, Captures
  <2>4. /\ hand' \in [thermal : Frames \cup {None}, lidar : Scans \cup {None}]
        /\ hand'["lidar"] = hand["lidar"]
    BY <1>5 DEF TypeOK, PutSample
  <2>5. pipe' \in Seq(Scans) /\ Len(pipe') <= PipeSize /\ bridge' \in Scans \cup {None}
    BY <1>5, StopProcessTypes DEF PutSample
  <2>6. /\ at' \in [Workers -> Places] /\ at'["ThermalSensor"] # "putting"
        /\ \A w \in Workers \ {"ThermalSensor"} : at'[w] = at[w]
    BY <1>5 DEF TypeOK, PutSample, Repeat, Goto, Workers, Places, SensorWorker
  <2> QED
    BY <1>5, <2>1, <2>2, <2>3, <2>4, <2>5, <2>6 DEF TypeOK, Hands, PutSample, Sensors, Workers, sensing, fusion, model
<1>6. CASE PutSample("lidar")
  <2>1. hand["lidar"] \in Captures("lidar") /\ sensor_queue["lidar"] \in Seq(Captures("lidar"))
    BY <1>6 DEF TypeOK, Hands, Captures, PutSample, SensorWorker
  <2>2. /\ sensor_queue'["lidar"] \in Seq(Captures("lidar"))
        /\ Len(sensor_queue'["lidar"]) <= SensorQueueSize
        /\ sensor_queue'["thermal"] = sensor_queue["thermal"]
    BY <1>6, <2>1, PipelineAssumption
    DEF PipelineAssumption, TypeOK, PutSample, HasRoom, Sensors
  <2>3. sensor_queue' \in [thermal : Seq(Frames), lidar : Seq(Scans)]
    BY <1>6, <2>2 DEF TypeOK, PutSample, Captures
  <2>4. /\ hand' \in [thermal : Frames \cup {None}, lidar : Scans \cup {None}]
        /\ hand'["thermal"] = hand["thermal"]
    BY <1>6 DEF TypeOK, PutSample
  <2>5. pipe' \in Seq(Scans) /\ Len(pipe') <= PipeSize /\ bridge' \in Scans \cup {None}
    BY <1>6, StopProcessTypes DEF PutSample
  <2>6. /\ at' \in [Workers -> Places] /\ at'["LidarSensor"] # "putting"
        /\ \A w \in Workers \ {"LidarSensor"} : at'[w] = at[w]
    BY <1>6 DEF TypeOK, PutSample, Repeat, Goto, Workers, Places, SensorWorker
  <2> QED
    BY <1>6, <2>1, <2>2, <2>3, <2>4, <2>5, <2>6 DEF TypeOK, Hands, PutSample, Sensors, Workers, sensing, fusion, model
<1>7. CASE PutSampleGivesUp("thermal")
  <2>1. /\ hand' \in [thermal : Frames \cup {None}, lidar : Scans \cup {None}]
        /\ hand'["lidar"] = hand["lidar"]
    BY <1>7 DEF TypeOK, PutSampleGivesUp
  <2>2. pipe' \in Seq(Scans) /\ Len(pipe') <= PipeSize /\ bridge' \in Scans \cup {None}
    BY <1>7, StopProcessTypes DEF PutSampleGivesUp
  <2>3. /\ at' \in [Workers -> Places] /\ at'["ThermalSensor"] # "putting"
        /\ \A w \in Workers \ {"ThermalSensor"} : at'[w] = at[w]
    BY <1>7 DEF TypeOK, PutSampleGivesUp, Goto, Workers, Places, SensorWorker
  <2> QED
    BY <1>7, <2>1, <2>2, <2>3 DEF TypeOK, Hands, PutSampleGivesUp, Sensors, Workers, sensing, fusion, model
<1>8. CASE PutSampleGivesUp("lidar")
  <2>1. /\ hand' \in [thermal : Frames \cup {None}, lidar : Scans \cup {None}]
        /\ hand'["thermal"] = hand["thermal"]
    BY <1>8 DEF TypeOK, PutSampleGivesUp
  <2>2. pipe' \in Seq(Scans) /\ Len(pipe') <= PipeSize /\ bridge' \in Scans \cup {None}
    BY <1>8, StopProcessTypes DEF PutSampleGivesUp
  <2>3. /\ at' \in [Workers -> Places] /\ at'["LidarSensor"] # "putting"
        /\ \A w \in Workers \ {"LidarSensor"} : at'[w] = at[w]
    BY <1>8 DEF TypeOK, PutSampleGivesUp, Goto, Workers, Places, SensorWorker
  <2> QED
    BY <1>8, <2>1, <2>2, <2>3 DEF TypeOK, Hands, PutSampleGivesUp, Sensors, Workers, sensing, fusion, model
<1>9. CASE \E w \in Workers : Leave(w)
  <2>1. PICK w \in Workers : Leave(w)
    BY <1>9
  <2>2. pipe' \in Seq(Scans) /\ Len(pipe') <= PipeSize /\ bridge' \in Scans \cup {None}
    BY <2>1, StopProcessTypes DEF Leave
  <2>3. at' \in [Workers -> Places] /\ at'[w] = "stopped" /\ \A v \in Workers \ {w} : at'[v] = at[v]
    BY <2>1 DEF TypeOK, Leave, Goto, Places
  <2> QED
    BY <2>1, <2>2, <2>3 DEF TypeOK, Hands, Leave, Sensors, Workers, sensing, fusion, model
<1>10. CASE BeginFlush
  <2>1. check_count' \in 0..(FlushEvery - 1)
    BY <1>10, NextCountBounded DEF BeginFlush
  <2>2. at'["Fusion"] = "flush_thermal" /\ at' \in [Workers -> Places] /\ \A w \in Workers \ {"Fusion"} : at'[w] = at[w]
    BY <1>10 DEF TypeOK, BeginFlush, Goto, Workers, Places, Enter
  <2> QED
    BY <1>10, <2>1, <2>2 DEF TypeOK, Hands, BeginFlush, Sensors, Workers, sensing, fusion, model
<1>11. CASE Flush("thermal", "flush_thermal", "flush_lidar")
  <2>1. CASE Drained(sensor_queue["thermal"])
    <3>1. flushed' \in [thermal : 0..MaxFrames, lidar : 0..MaxScans]
      BY <1>11, <2>1 DEF TypeOK, Flush
    <3>2. /\ at' \in [Workers -> Places] /\ at'["Fusion"] = "flush_lidar"
          /\ \A w \in Workers \ {"Fusion"} : at'[w] = at[w]
      BY <1>11, <2>1 DEF TypeOK, Flush, Goto, Workers, Places
    <3> QED
      BY <1>11, <2>1, <3>1, <3>2 DEF TypeOK, Hands, Flush, Workers, sensing, model
  <2>2. CASE ~Drained(sensor_queue["thermal"])
    <3>1. sensor_queue["thermal"] \in Seq(Captures("thermal")) /\ sensor_queue["thermal"] # <<>>
      BY <2>2 DEF TypeOK, Captures, Drained
    <3>2. /\ sensor_queue'["thermal"] \in Seq(Captures("thermal"))
          /\ Len(sensor_queue'["thermal"]) <= SensorQueueSize
          /\ sensor_queue'["lidar"] = sensor_queue["lidar"]
      <4>1. sensor_queue' = [sensor_queue EXCEPT !["thermal"] = Tail(@)]
        BY <1>11, <2>2 DEF Flush
      <4>2. /\ Tail(sensor_queue["thermal"]) \in Seq(Captures("thermal"))
            /\ Len(Tail(sensor_queue["thermal"])) = Len(sensor_queue["thermal"]) - 1
        BY <3>1
      <4>3. sensor_queue["thermal"] \in Seq(Captures("thermal")) /\ Len(sensor_queue["thermal"]) <= SensorQueueSize
        BY <3>1 DEF TypeOK, Sensors
      <4>4. Len(Tail(sensor_queue["thermal"])) <= SensorQueueSize
        BY <4>2, <4>3, PipelineAssumption DEF PipelineAssumption
      <4> QED
        BY <4>1, <4>2, <4>4 DEF TypeOK
    <3>3. sensor_queue' \in [thermal : Seq(Frames), lidar : Seq(Scans)]
      BY <1>11, <2>2, <3>2 DEF TypeOK, Flush, Captures
    <3> QED
      BY <1>11, <2>2, <3>2, <3>3 DEF TypeOK, Hands, Flush, Sensors, sensing, model
  <2> QED
    BY <1>11, <2>1, <2>2 DEF TypeOK, Hands, Flush, Sensors, Workers, sensing, fusion, model
<1>12. CASE Flush("lidar", "flush_lidar", "loop")
  <2>1. CASE Drained(sensor_queue["lidar"])
    <3>1. flushed' \in [thermal : 0..MaxFrames, lidar : 0..MaxScans]
      BY <1>12, <2>1 DEF TypeOK, Flush
    <3>2. /\ at' \in [Workers -> Places] /\ at'["Fusion"] = "loop"
          /\ \A w \in Workers \ {"Fusion"} : at'[w] = at[w]
      BY <1>12, <2>1 DEF TypeOK, Flush, Goto, Workers, Places
    <3> QED
      BY <1>12, <2>1, <3>1, <3>2 DEF TypeOK, Hands, Flush, Workers, sensing, model
  <2>2. CASE ~Drained(sensor_queue["lidar"])
    <3>1. sensor_queue["lidar"] \in Seq(Captures("lidar")) /\ sensor_queue["lidar"] # <<>>
      BY <2>2 DEF TypeOK, Captures, Drained
    <3>2. /\ sensor_queue'["lidar"] \in Seq(Captures("lidar"))
          /\ Len(sensor_queue'["lidar"]) <= SensorQueueSize
          /\ sensor_queue'["thermal"] = sensor_queue["thermal"]
      <4>1. sensor_queue' = [sensor_queue EXCEPT !["lidar"] = Tail(@)]
        BY <1>12, <2>2 DEF Flush
      <4>2. /\ Tail(sensor_queue["lidar"]) \in Seq(Captures("lidar"))
            /\ Len(Tail(sensor_queue["lidar"])) = Len(sensor_queue["lidar"]) - 1
        BY <3>1
      <4>3. sensor_queue["lidar"] \in Seq(Captures("lidar")) /\ Len(sensor_queue["lidar"]) <= SensorQueueSize
        BY <3>1 DEF TypeOK, Sensors
      <4>4. Len(Tail(sensor_queue["lidar"])) <= SensorQueueSize
        BY <4>2, <4>3, PipelineAssumption DEF PipelineAssumption
      <4> QED
        BY <4>1, <4>2, <4>4 DEF TypeOK
    <3>3. sensor_queue' \in [thermal : Seq(Frames), lidar : Seq(Scans)]
      BY <1>12, <2>2, <3>2 DEF TypeOK, Flush, Captures
    <3> QED
      BY <1>12, <2>2, <3>2, <3>3 DEF TypeOK, Hands, Flush, Sensors, sensing, model
  <2> QED
    BY <1>12, <2>1, <2>2 DEF TypeOK, Hands, Flush, Sensors, Workers, sensing, fusion, model
<1>13. CASE CheckFindsNothing
  <2>1. check_count' \in 0..(FlushEvery - 1)
    BY <1>13, NextCountBounded DEF CheckFindsNothing
  <2>2. at'["Fusion"] = "loop" /\ at' \in [Workers -> Places] /\ \A w \in Workers \ {"Fusion"} : at'[w] = at[w]
    BY <1>13 DEF TypeOK, CheckFindsNothing, Goto, Workers, Places, Enter
  <2> QED
    BY <1>13, <2>1, <2>2 DEF TypeOK, Hands, CheckFindsNothing, Sensors, Workers, sensing, fusion, model
<1>14. CASE CheckFuses
  <2>1. /\ sensor_queue["thermal"] \in Seq(Frames) /\ sensor_queue["thermal"] # <<>>
        /\ sensor_queue["lidar"] \in Seq(Scans) /\ sensor_queue["lidar"] # <<>>
    BY <1>14 DEF TypeOK, CheckFuses, Sensors
  <2>2. /\ Head(sensor_queue["thermal"]) \in Frames /\ Head(sensor_queue["lidar"]) \in Scans
        /\ Tail(sensor_queue["thermal"]) \in Seq(Frames) /\ Tail(sensor_queue["lidar"]) \in Seq(Scans)
    BY <2>1
  <2>3. fusing' \in Pairs /\ fusing'["thermal"] \in Frames
    BY <1>14, <2>2 DEF CheckFuses, Pairs, Sensors
  <2>4. fusing' # NoPair
    BY <2>3 DEF NoPair, None, Frames
  <2>5. sensor_queue' \in [thermal : Seq(Frames), lidar : Seq(Scans)]
    BY <1>14, <2>2 DEF CheckFuses, TakePair, Sensors
  <2>6. \A s \in Sensors : Len(sensor_queue'[s]) <= SensorQueueSize
    <3>1. \A s \in Sensors : Len(sensor_queue[s]) \in Nat /\ Len(sensor_queue[s]) <= SensorQueueSize
      BY <2>1 DEF TypeOK, Sensors
    <3>2. \A s \in Sensors : Len(Tail(sensor_queue[s])) = Len(sensor_queue[s]) - 1
      BY <2>1 DEF Sensors
    <3>3. \A s \in Sensors : sensor_queue'[s] = Tail(sensor_queue[s])
      BY <1>14 DEF CheckFuses, TakePair
    <3> QED
      <4> SUFFICES ASSUME NEW s \in Sensors
                   PROVE  Len(sensor_queue'[s]) <= SensorQueueSize
        OBVIOUS
      <4>1. SensorQueueSize \in Nat
        BY PipelineAssumption DEF PipelineAssumption
      <4>2. Len(sensor_queue'[s]) = Len(sensor_queue[s]) - 1
        BY <3>2, <3>3
      <4> QED
        BY <3>1, <4>1, <4>2
  <2>7. check_count' \in 0..(FlushEvery - 1)
    BY <1>14, NextCountBounded DEF CheckFuses
  <2>8. at'["Fusion"] = "putting" /\ at' \in [Workers -> Places] /\ \A w \in Workers \ {"Fusion"} : at'[w] = at[w]
    BY <1>14 DEF TypeOK, CheckFuses, Goto, Workers, Places, Enter
  <2> QED
    BY <1>14, <2>1, <2>2, <2>3, <2>4, <2>5, <2>6, <2>7, <2>8 DEF TypeOK, Hands, CheckFuses, Sensors, Workers, sensing, fusion, model
<1>15. CASE PutPair
  <2>1. fusing \in Pairs
    BY <1>15 DEF TypeOK, Hands, PutPair
  <2>2. fused_queue' \in Seq(Pairs) /\ Len(fused_queue') <= FusedQueueSize
    BY <1>15, <2>1, PipelineAssumption DEF PipelineAssumption, TypeOK, PutPair, HasRoom
  <2>3. at'["Fusion"] = "loop" /\ at' \in [Workers -> Places] /\ \A w \in Workers \ {"Fusion"} : at'[w] = at[w]
    BY <1>15 DEF TypeOK, PutPair, Goto, Workers, Places
  <2> QED
    BY <1>15, <2>1, <2>2, <2>3 DEF TypeOK, Hands, PutPair, Sensors, Workers, sensing, fusion, model
<1>16. CASE PutPairGivesUp
  BY <1>16 DEF PutPairGivesUp, TypeOK, Hands, Enter, Goto, Workers, Places, Sensors,
        sensing, fusion, model
<1>17. CASE LoadAdapter
  BY <1>17 DEF LoadAdapter, TypeOK, Hands, Enter, Goto, Workers, Places, Sensors,
        sensing, fusion, model
<1>18. CASE GetPair
  <2>1. /\ Head(fused_queue) \in Pairs /\ Head(fused_queue) # NoPair
        /\ Tail(fused_queue) \in Seq(Pairs) /\ Len(Tail(fused_queue)) <= FusedQueueSize
    <3>1. Head(fused_queue) \in Pairs /\ Tail(fused_queue) \in Seq(Pairs)
      BY <1>18 DEF TypeOK, GetPair
    <3>2. Len(Tail(fused_queue)) <= FusedQueueSize
      BY <1>18, PipelineAssumption DEF PipelineAssumption, TypeOK, GetPair
    <3> QED
      BY <3>1, <3>2 DEF Pairs, NoPair, None, Frames
  <2>2. /\ at'["ModelAdapter"] = "publishing" => inferring' = Head(fused_queue)
        /\ inferring' \in Pairs \cup {NoPair}
    BY <1>18, <2>1 DEF TypeOK, GetPair, Repeat, Goto, Workers
  <2>3. at' \in [Workers -> Places] /\ \A w \in Workers \ {"ModelAdapter"} : at'[w] = at[w]
    BY <1>18 DEF TypeOK, GetPair, Goto, Workers, Places, Repeat
  <2> QED
    BY <1>18, <2>1, <2>2, <2>3 DEF TypeOK, Hands, GetPair, Sensors, Workers, sensing, fusion, model
<1>19. CASE Publish
  <2>1. inferring \in Pairs
    BY <1>19 DEF TypeOK, Hands, Publish
  <2>2. published' \in Seq(Pairs) /\ taken' = taken
    BY <1>19, <2>1 DEF TypeOK, Publish, Mailbox!Send
  <2>3. at'["ModelAdapter"] = "loop" /\ at' \in [Workers -> Places] /\ \A w \in Workers \ {"ModelAdapter"} : at'[w] = at[w]
    BY <1>19 DEF TypeOK, Publish, Goto, Workers, Places
  <2> QED
    BY <1>19, <2>1, <2>2, <2>3 DEF TypeOK, Hands, Publish, Sensors, Workers, sensing, fusion, model
<1>20. CASE PublishReturnsFalse
  BY <1>20 DEF PublishReturnsFalse, TypeOK, Hands, Enter, Goto, Workers, Places, Sensors,
        sensing, fusion, model
<1>21. CASE TakeResult
  <2>1. published' = published /\ taken' \in Seq(Pairs)
    BY <1>21, ReceiveTypes DEF TakeResult
  <2>2. at' \in [Workers -> Places] /\ \A w \in Workers \ {"Communication"} : at'[w] = at[w]
    BY <1>21 DEF TypeOK, TakeResult, Goto, Workers, Places
  <2> QED
    BY <1>21, <2>1, <2>2 DEF TypeOK, Hands, TakeResult, Sensors, Workers, sensing, fusion, model
<1>22. CASE StartHeartbeat \/ EndSending
  BY <1>22 DEF StartHeartbeat, EndSending, Repeat, TypeOK, Hands, Enter, Goto, Workers, Places, Sensors,
        sensing, fusion, model
<1>23. CASE \E w \in Workers : Raise(w)
  <2>1. PICK w \in Workers : Raise(w)
    BY <1>23
  <2>2. pipe' \in Seq(Scans) /\ Len(pipe') <= PipeSize /\ bridge' \in Scans \cup {None}
    BY <2>1, StopProcessTypes DEF Raise
  <2>3. at' \in [Workers -> Places] /\ at'[w] = "stopped" /\ \A v \in Workers \ {w} : at'[v] = at[v]
    BY <2>1 DEF TypeOK, Raise, Goto, Places
  <2>4. /\ hand' \in [thermal : Frames \cup {None}, lidar : Scans \cup {None}]
        /\ hand'["lidar"] = hand["lidar"]
        /\ w # "ThermalSensor" => hand'["thermal"] = hand["thermal"]
    BY <2>1 DEF TypeOK, Raise
  <2>5. /\ fusing' \in Pairs \cup {NoPair} /\ (w # "Fusion" => fusing' = fusing)
        /\ inferring' \in Pairs \cup {NoPair} /\ (w # "ModelAdapter" => inferring' = inferring)
    BY <2>1 DEF TypeOK, Raise
  <2> QED
    BY <2>1, <2>2, <2>3, <2>4, <2>5 DEF TypeOK, Hands, Raise, Sensors, Workers, sensing, fusion, model
<1>24. CASE SetStop \/ UNCHANGED vars
  BY <1>24 DEF SetStop, vars, TypeOK, Hands, Enter, Goto, Workers, Places, Sensors,
        sensing, fusion, model
<1> QED
  BY <1>1, <1>2, <1>3, <1>4, <1>5, <1>6, <1>7, <1>8, <1>9, <1>10, <1>11, <1>12, <1>13, <1>14, <1>15, <1>16, <1>17, <1>18, <1>19, <1>20, <1>21, <1>22, <1>23, <1>24
     DEF Next, Thermal, Lidar, Fusion, ModelAdapter, Communication, Bridge, Workers, FlushQueues

-----------------------------------------------------------------------------
(* Order.  The elements of q increase and lie in (lo, hi].                 *)
Increasing(q, lo, hi) ==
    \A i \in 1..Len(q) : /\ lo < q[i] /\ q[i] <= hi
                         /\ \A j \in 1..Len(q) : i < j => q[i] < q[j]

\* The same of the captures of sensor s in a sequence of pairs.
IncreasingPairs(q, s, lo, hi) ==
    \A i \in 1..Len(q) : /\ lo < q[i][s] /\ q[i][s] <= hi
                         /\ \A j \in 1..Len(q) : i < j => q[i][s] < q[j][s]

\* c1 to c7 separate the stages that the captures of sensor s go through, the
\* furthest first; an empty stage leaves room between its bounds.
InLine(s, c1, c2, c3, c4, c5, c6, c7) ==
    /\ IncreasingPairs(published, s, 0, c1)
    /\ inferring # NoPair => c1 < inferring[s] /\ inferring[s] <= c2
    /\ IncreasingPairs(fused_queue, s, c2, c3)
    /\ fusing # NoPair => c3 < fusing[s] /\ fusing[s] <= c4
    /\ Increasing(sensor_queue[s], c4, c5)
    /\ hand[s] # None => c5 < hand[s] /\ hand[s] <= c6
    /\ s = "lidar" => /\ Increasing(pipe, c6, c7)
                      /\ bridge # None => c7 < bridge /\ bridge <= captured[s]
    /\ c1 <= c2 /\ c2 <= c3 /\ c3 <= c4 /\ c4 <= c5 /\ c5 <= c6 /\ c6 <= c7
    /\ c7 <= captured[s]

Line == \A s \in Sensors :
            \E c1, c2, c3, c4, c5, c6, c7 \in Nat : InLine(s, c1, c2, c3, c4, c5, c6, c7)

LEMMA IncreasingAppend ==
  ASSUME NEW q \in Seq(Nat), NEW lo \in Nat, NEW hi \in Nat, NEW x \in Nat,
         Increasing(q, lo, hi), lo <= hi, hi < x
  PROVE  Increasing(Append(q, x), lo, x)
<1>1. /\ Len(Append(q, x)) = Len(q) + 1
      /\ \A i \in 1..Len(q) : Append(q, x)[i] = q[i]
      /\ Append(q, x)[Len(q) + 1] = x
  OBVIOUS
<1>2. \A i \in 1..Len(q) : q[i] \in Nat
  OBVIOUS
<1> QED
  BY <1>1, <1>2 DEF Increasing

LEMMA IncreasingTail ==
  ASSUME NEW q \in Seq(Nat), NEW lo \in Nat, NEW hi \in Nat,
         Increasing(q, lo, hi), q # <<>>
  PROVE  /\ lo < Head(q) /\ Head(q) <= hi
         /\ Increasing(Tail(q), Head(q), hi)
         /\ Increasing(Tail(q), lo, hi)
<1>1. /\ Len(q) \in Nat /\ Len(q) >= 1
      /\ Len(Tail(q)) = Len(q) - 1
      /\ \A i \in 1..Len(Tail(q)) : Tail(q)[i] = q[i + 1]
      /\ Head(q) = q[1]
  OBVIOUS
<1>2. \A i \in 1..Len(q) : q[i] \in Nat
  OBVIOUS
<1>3. \A i \in 1..Len(Tail(q)) : i + 1 \in 1..Len(q)
  BY <1>1
<1> QED
  BY <1>1, <1>2, <1>3 DEF Increasing

LEMMA PairsAppend ==
  ASSUME NEW q \in Seq(Pairs), NEW s \in Sensors, NEW lo \in Nat, NEW hi \in Nat,
         NEW x \in Pairs, IncreasingPairs(q, s, lo, hi), lo <= hi, hi < x[s]
  PROVE  IncreasingPairs(Append(q, x), s, lo, x[s])
<1>1. /\ Len(Append(q, x)) = Len(q) + 1
      /\ \A i \in 1..Len(q) : Append(q, x)[i] = q[i]
      /\ Append(q, x)[Len(q) + 1] = x
  OBVIOUS
<1>2. x[s] \in Nat /\ \A i \in 1..Len(q) : q[i][s] \in Nat
  <2>1. \A y \in Pairs : y[s] \in Nat
    BY PipelineAssumption DEF PipelineAssumption, Pairs, Sensors, Frames, Scans
  <2> QED
    BY <2>1
<1>3. Len(q) \in Nat
  OBVIOUS
<1> QED
  BY <1>1, <1>2, <1>3 DEF IncreasingPairs

LEMMA PairsTail ==
  ASSUME NEW q \in Seq(Pairs), NEW s \in Sensors, NEW lo \in Nat, NEW hi \in Nat,
         IncreasingPairs(q, s, lo, hi), q # <<>>
  PROVE  /\ lo < Head(q)[s] /\ Head(q)[s] <= hi
         /\ IncreasingPairs(Tail(q), s, Head(q)[s], hi)
         /\ IncreasingPairs(Tail(q), s, lo, hi)
<1>1. /\ Len(q) \in Nat /\ Len(q) >= 1
      /\ Len(Tail(q)) = Len(q) - 1
      /\ \A i \in 1..Len(Tail(q)) : Tail(q)[i] = q[i + 1]
      /\ Head(q) = q[1]
  OBVIOUS
<1>2. \A i \in 1..Len(q) : q[i][s] \in Nat
  <2>1. \A y \in Pairs : y[s] \in Nat
    BY PipelineAssumption DEF PipelineAssumption, Pairs, Sensors, Frames, Scans
  <2> QED
    BY <2>1
<1>3. \A i \in 1..Len(Tail(q)) : i + 1 \in 1..Len(q)
  BY <1>1
<1> QED
  BY <1>1, <1>2, <1>3 DEF IncreasingPairs

\* The types of what stands in the line of one sensor.
LEMMA LineTypes ==
  ASSUME TypeOK, NEW s \in Sensors
  PROVE  /\ sensor_queue[s] \in Seq(Nat) /\ pipe \in Seq(Nat)
         /\ hand[s] \in Nat /\ bridge \in Nat /\ captured[s] \in Nat
         /\ fusing # NoPair => fusing \in Pairs /\ fusing[s] \in Nat
         /\ inferring # NoPair => inferring \in Pairs /\ inferring[s] \in Nat
<1>1. Frames \subseteq Nat /\ Scans \subseteq Nat /\ None \in Nat
  BY PipelineAssumption DEF PipelineAssumption, Frames, Scans, None
<1>2. sensor_queue[s] \in Seq(Nat) /\ pipe \in Seq(Nat)
  <2>1. sensor_queue["thermal"] \in Seq(Frames) /\ sensor_queue["lidar"] \in Seq(Scans) /\ pipe \in Seq(Scans)
    BY DEF TypeOK
  <2> QED
    BY <1>1, <2>1, SeqMonotonic DEF Sensors
<1>3. hand[s] \in Nat /\ bridge \in Nat /\ captured[s] \in Nat
  <2>1. hand["thermal"] \in Nat /\ hand["lidar"] \in Nat /\ bridge \in Nat
    BY <1>1 DEF TypeOK
  <2>2. captured["thermal"] \in Nat /\ captured["lidar"] \in Nat
    BY PipelineAssumption DEF PipelineAssumption, TypeOK
  <2> QED
    BY <2>1, <2>2 DEF Sensors
<1>4. \A x \in Pairs : x[s] \in Nat
  BY <1>1 DEF Pairs, Sensors
<1> QED
  BY <1>2, <1>3, <1>4 DEF TypeOK

\* What is dropped, wherever it is, leaves the rest in line.
LEMMA Dropping ==
  ASSUME TypeOK, NEW s \in Sensors,
         NEW c1 \in Nat, NEW c2 \in Nat, NEW c3 \in Nat, NEW c4 \in Nat, NEW c5 \in Nat,
         NEW c6 \in Nat, NEW c7 \in Nat, InLine(s, c1, c2, c3, c4, c5, c6, c7),
         published' = published,
         inferring' \in {inferring, NoPair},
         fused_queue' = fused_queue,
         fusing' \in {fusing, NoPair},
         sensor_queue'[s] = sensor_queue[s]
             \/ (sensor_queue[s] # <<>> /\ sensor_queue'[s] = Tail(sensor_queue[s])),
         hand'[s] \in {hand[s], None},
         pipe' \in {pipe, <<>>},
         bridge' \in {bridge, None},
         captured'[s] = captured[s]
  PROVE  InLine(s, c1, c2, c3, c4, c5, c6, c7)'
<1>1. Increasing(sensor_queue[s], c4, c5)
  BY DEF InLine
<1>2. Increasing(sensor_queue'[s], c4, c5)
  BY <1>1, IncreasingTail, LineTypes
<1>3. s = "lidar" => Increasing(pipe', c6, c7)
  BY DEF InLine, Increasing
<1>4. IncreasingPairs(published', s, 0, c1) /\ IncreasingPairs(fused_queue', s, c2, c3)
  BY DEF InLine
<1>5. /\ inferring' # NoPair => c1 < inferring'[s] /\ inferring'[s] <= c2
      /\ fusing' # NoPair => c3 < fusing'[s] /\ fusing'[s] <= c4
      /\ hand'[s] # None => c5 < hand'[s] /\ hand'[s] <= c6
      /\ s = "lidar" /\ bridge' # None => c7 < bridge' /\ bridge' <= captured'[s]
  BY DEF InLine
<1> QED
  BY <1>2, <1>3, <1>4, <1>5 DEF InLine

LEMMA DroppingAll ==
  ASSUME TypeOK, Line,
         published' = published,
         inferring' \in {inferring, NoPair},
         fused_queue' = fused_queue,
         fusing' \in {fusing, NoPair},
         \A s \in Sensors : sensor_queue'[s] = sensor_queue[s]
             \/ (sensor_queue[s] # <<>> /\ sensor_queue'[s] = Tail(sensor_queue[s])),
         \A s \in Sensors : hand'[s] \in {hand[s], None},
         pipe' \in {pipe, <<>>},
         bridge' \in {bridge, None},
         captured' = captured
  PROVE  Line'
<1> SUFFICES ASSUME NEW s \in Sensors
             PROVE  \E c1, c2, c3, c4, c5, c6, c7 \in Nat : InLine(s, c1, c2, c3, c4, c5, c6, c7)'
  BY DEF Line
<1>1. PICK c1, c2, c3, c4, c5, c6, c7 \in Nat : InLine(s, c1, c2, c3, c4, c5, c6, c7)
  BY DEF Line
<1>2. InLine(s, c1, c2, c3, c4, c5, c6, c7)'
  BY <1>1, Dropping
<1> QED
  BY <1>2

\* The steps by which captures advance.
LEMMA CaptureInLine ==
  ASSUME TypeOK, Line, Capture
  PROVE  Line'
<1> SUFFICES ASSUME NEW s \in Sensors
             PROVE  \E c1, c2, c3, c4, c5, c6, c7 \in Nat : InLine(s, c1, c2, c3, c4, c5, c6, c7)'
  BY DEF Line
<1>1. PICK c1, c2, c3, c4, c5, c6, c7 \in Nat : InLine(s, c1, c2, c3, c4, c5, c6, c7)
  BY DEF Line
<1>2. CASE s = "thermal"
  <2>1. PICK x \in Nat : x = captured["thermal"] + 1
    BY LineTypes DEF Sensors
  <2>2. captured'[s] = x /\ hand'[s] = x /\ captured[s] \in Nat /\ x = captured[s] + 1
    BY <2>1, <1>2, LineTypes DEF Capture, TypeOK
  <2>3. InLine(s, c1, c2, c3, c4, c5, x, x)'
    BY <1>1, <1>2, <2>2 DEF InLine, Capture, fusion, model
  <2> QED
    BY <2>3
<1>3. CASE s = "lidar"
  <2>1. captured'[s] = captured[s] /\ hand'[s] = hand[s]
    BY <1>3 DEF Capture, TypeOK
  <2>2. InLine(s, c1, c2, c3, c4, c5, c6, c7)'
    BY <1>1, <2>1 DEF InLine, Capture, fusion, model
  <2> QED
    BY <2>2
<1> QED
  BY <1>2, <1>3 DEF Sensors

LEMMA BridgeScansInLine ==
  ASSUME TypeOK, Line, BridgeScans
  PROVE  Line'
<1> SUFFICES ASSUME NEW s \in Sensors
             PROVE  \E c1, c2, c3, c4, c5, c6, c7 \in Nat : InLine(s, c1, c2, c3, c4, c5, c6, c7)'
  BY DEF Line
<1>1. PICK c1, c2, c3, c4, c5, c6, c7 \in Nat : InLine(s, c1, c2, c3, c4, c5, c6, c7)
  BY DEF Line
<1>2. captured[s] \in Nat
  BY LineTypes
<1>3. CASE s = "thermal"
  <2>1. captured'[s] = captured[s]
    BY <1>3 DEF BridgeScans, TypeOK
  <2>2. InLine(s, c1, c2, c3, c4, c5, c6, c7)'
    BY <1>1, <1>3, <2>1 DEF InLine, BridgeScans, fusion, model
  <2> QED
    BY <2>2
<1>4. CASE s = "lidar"
  <2>1. captured'[s] = captured[s] + 1 /\ bridge' = captured[s] + 1
    BY <1>4 DEF BridgeScans, TypeOK
  <2>2. InLine(s, c1, c2, c3, c4, c5, c6, c7)'
    BY <1>1, <1>2, <1>4, <2>1 DEF InLine, BridgeScans, fusion, model
  <2> QED
    BY <2>2
<1> QED
  BY <1>3, <1>4 DEF Sensors

LEMMA BridgeWritesInLine ==
  ASSUME TypeOK, Line, BridgeWrites
  PROVE  Line'
<1> SUFFICES ASSUME NEW s \in Sensors
             PROVE  \E c1, c2, c3, c4, c5, c6, c7 \in Nat : InLine(s, c1, c2, c3, c4, c5, c6, c7)'
  BY DEF Line
<1>1. PICK c1, c2, c3, c4, c5, c6, c7 \in Nat : InLine(s, c1, c2, c3, c4, c5, c6, c7)
  BY DEF Line
<1>2. CASE s = "thermal"
  <2>1. InLine(s, c1, c2, c3, c4, c5, c6, c7)'
    BY <1>1, <1>2 DEF InLine, BridgeWrites, fusion, model
  <2> QED
    BY <2>1
<1>3. CASE s = "lidar"
  <2>1. PICK x \in Nat : x = bridge
    BY LineTypes DEF Sensors
  <2>2. Increasing(pipe, c6, c7) /\ c7 < x /\ x <= captured[s] /\ c6 <= c7 /\ pipe \in Seq(Nat)
    BY <1>1, <1>3, <2>1, LineTypes DEF InLine, BridgeWrites
  <2>3. Increasing(pipe', c6, x)
    BY <2>1, <2>2, IncreasingAppend DEF BridgeWrites
  <2>4. InLine(s, c1, c2, c3, c4, c5, c6, x)'
    BY <1>1, <2>2, <2>3, LineTypes DEF InLine, BridgeWrites, fusion, model
  <2> QED
    BY <2>4
<1> QED
  BY <1>2, <1>3 DEF Sensors

LEMMA ReadScanInLine ==
  ASSUME TypeOK, Line, ReadScan
  PROVE  Line'
<1> SUFFICES ASSUME NEW s \in Sensors
             PROVE  \E c1, c2, c3, c4, c5, c6, c7 \in Nat : InLine(s, c1, c2, c3, c4, c5, c6, c7)'
  BY DEF Line
<1>1. PICK c1, c2, c3, c4, c5, c6, c7 \in Nat : InLine(s, c1, c2, c3, c4, c5, c6, c7)
  BY DEF Line
<1>2. CASE s = "thermal"
  <2>1. hand'[s] = hand[s]
    BY <1>2 DEF ReadScan, TypeOK
  <2>2. InLine(s, c1, c2, c3, c4, c5, c6, c7)'
    BY <1>1, <1>2, <2>1 DEF InLine, ReadScan, fusion, model
  <2> QED
    BY <2>2
<1>3. CASE s = "lidar"
  <2>1. pipe \in Seq(Nat) /\ pipe # <<>> /\ Increasing(pipe, c6, c7)
    BY <1>1, <1>3, LineTypes DEF InLine, ReadScan
  <2>2. PICK x \in Nat : x = Head(pipe)
    BY <2>1
  <2>3. c6 < x /\ x <= c7 /\ Increasing(Tail(pipe), x, c7)
    BY <2>1, <2>2, IncreasingTail
  <2>4. hand'[s] = x /\ pipe' = Tail(pipe)
    BY <1>3, <2>2 DEF ReadScan, TypeOK
  <2>5. InLine(s, c1, c2, c3, c4, c5, x, c7)'
    BY <1>1, <1>3, <2>3, <2>4 DEF InLine, ReadScan, fusion, model
  <2> QED
    BY <2>5
<1> QED
  BY <1>2, <1>3 DEF Sensors

LEMMA PutSampleInLine ==
  ASSUME TypeOK, Hands, Line, NEW p \in Sensors, PutSample(p)
  PROVE  Line'
<1> SUFFICES ASSUME NEW s \in Sensors
             PROVE  \E c1, c2, c3, c4, c5, c6, c7 \in Nat : InLine(s, c1, c2, c3, c4, c5, c6, c7)'
  BY DEF Line
<1>1. PICK c1, c2, c3, c4, c5, c6, c7 \in Nat : InLine(s, c1, c2, c3, c4, c5, c6, c7)
  BY DEF Line
<1>2. pipe' \in {pipe, <<>>} /\ bridge' \in {bridge, None}
  BY DEF PutSample, StopProcess
<1>3. CASE s # p
  <2>1. hand'[s] = hand[s] /\ sensor_queue'[s] = sensor_queue[s]
    BY <1>3 DEF PutSample, TypeOK, Sensors
  <2>2. InLine(s, c1, c2, c3, c4, c5, c6, c7)'
    BY <1>1, <1>2, <2>1, Dropping DEF PutSample, fusion, model
  <2> QED
    BY <2>2
<1>4. CASE s = p
  <2>1. hand[s] # None
    BY <1>4 DEF PutSample, Hands, SensorWorker, Sensors
  <2>2. PICK x \in Nat : x = hand[s]
    BY LineTypes
  <2>3. Increasing(sensor_queue[s], c4, c5) /\ c4 <= c5 /\ c5 < x /\ x <= c6
    BY <1>1, <2>1, <2>2 DEF InLine
  <2>4. sensor_queue'[s] = Append(sensor_queue[s], x) /\ hand'[s] = None
    BY <1>4, <2>2 DEF PutSample, TypeOK, Sensors
  <2>5. Increasing(sensor_queue'[s], c4, x)
    BY <2>3, <2>4, IncreasingAppend, LineTypes
  <2>6. s = "lidar" => Increasing(pipe', c6, c7)
    BY <1>1, <1>2 DEF InLine, Increasing
  <2>7. s = "lidar" /\ bridge' # None => c7 < bridge' /\ bridge' <= captured[s]
    BY <1>1, <1>2 DEF InLine
  <2>8. InLine(s, c1, c2, c3, c4, x, c6, c7)'
    BY <1>1, <2>3, <2>4, <2>5, <2>6, <2>7 DEF InLine, PutSample, fusion, model
  <2> QED
    BY <2>8
<1> QED
  BY <1>3, <1>4

LEMMA CheckFusesInLine ==
  ASSUME TypeOK, Line, CheckFuses
  PROVE  Line'
<1> SUFFICES ASSUME NEW s \in Sensors
             PROVE  \E c1, c2, c3, c4, c5, c6, c7 \in Nat : InLine(s, c1, c2, c3, c4, c5, c6, c7)'
  BY DEF Line
<1>1. PICK c1, c2, c3, c4, c5, c6, c7 \in Nat : InLine(s, c1, c2, c3, c4, c5, c6, c7)
  BY DEF Line
<1>2. sensor_queue[s] \in Seq(Nat) /\ sensor_queue[s] # <<>> /\ Increasing(sensor_queue[s], c4, c5)
  BY <1>1, LineTypes DEF InLine, CheckFuses
<1>3. PICK x \in Nat : x = Head(sensor_queue[s])
  BY <1>2
<1>4. c4 < x /\ x <= c5 /\ Increasing(Tail(sensor_queue[s]), x, c5)
  BY <1>2, <1>3, IncreasingTail
<1>5. fusing'[s] = x /\ sensor_queue'[s] = Tail(sensor_queue[s])
  BY <1>3 DEF CheckFuses, TakePair
<1>6. InLine(s, c1, c2, c3, x, c5, c6, c7)'
  BY <1>1, <1>4, <1>5 DEF InLine, CheckFuses, sensing, model
<1> QED
  BY <1>6

LEMMA PutPairInLine ==
  ASSUME TypeOK, Hands, Line, PutPair
  PROVE  Line'
<1> SUFFICES ASSUME NEW s \in Sensors
             PROVE  \E c1, c2, c3, c4, c5, c6, c7 \in Nat : InLine(s, c1, c2, c3, c4, c5, c6, c7)'
  BY DEF Line
<1>1. PICK c1, c2, c3, c4, c5, c6, c7 \in Nat : InLine(s, c1, c2, c3, c4, c5, c6, c7)
  BY DEF Line
<1>2. fusing # NoPair /\ fusing \in Pairs
  BY LineTypes DEF PutPair, Hands
<1>3. PICK x \in Nat : x = fusing[s]
  BY <1>2, LineTypes
<1>4. IncreasingPairs(fused_queue, s, c2, c3) /\ c2 <= c3 /\ c3 < x /\ x <= c4
  BY <1>1, <1>2, <1>3 DEF InLine
<1>5. IncreasingPairs(fused_queue', s, c2, x)
  BY <1>2, <1>3, <1>4, PairsAppend DEF PutPair, TypeOK
<1>6. InLine(s, c1, c2, x, c4, c5, c6, c7)'
  BY <1>1, <1>4, <1>5 DEF InLine, PutPair, sensing, model
<1> QED
  BY <1>6

\* Without an adapter the pair that is taken is dropped.
LEMMA GetPairInLine ==
  ASSUME TypeOK, Line, GetPair
  PROVE  Line'
<1> SUFFICES ASSUME NEW s \in Sensors
             PROVE  \E c1, c2, c3, c4, c5, c6, c7 \in Nat : InLine(s, c1, c2, c3, c4, c5, c6, c7)'
  BY DEF Line
<1>1. PICK c1, c2, c3, c4, c5, c6, c7 \in Nat : InLine(s, c1, c2, c3, c4, c5, c6, c7)
  BY DEF Line
<1>2. /\ fused_queue \in Seq(Pairs) /\ fused_queue # <<>> /\ fused_queue' = Tail(fused_queue)
      /\ IncreasingPairs(fused_queue, s, c2, c3)
  BY <1>1 DEF InLine, GetPair, TypeOK
<1>3. PICK x \in Nat : x = Head(fused_queue)[s]
  <2>1. Head(fused_queue) \in Pairs
    BY <1>2
  <2> QED
    BY <2>1, PipelineAssumption DEF PipelineAssumption, Pairs, Sensors, Frames, Scans
<1>4. /\ c2 < x /\ x <= c3 /\ IncreasingPairs(fused_queue', s, x, c3)
      /\ IncreasingPairs(fused_queue', s, c2, c3)
  BY <1>2, <1>3, PairsTail
<1>5. CASE adapter
  <2>1. InLine(s, c1, x, c3, c4, c5, c6, c7)'
    BY <1>1, <1>3, <1>4, <1>5 DEF InLine, GetPair, sensing, fusion
  <2> QED
    BY <2>1
<1>6. CASE ~adapter
  <2>1. InLine(s, c1, c2, c3, c4, c5, c6, c7)'
    BY <1>1, <1>4, <1>6 DEF InLine, GetPair, sensing, fusion
  <2> QED
    BY <2>1
<1> QED
  BY <1>5, <1>6

LEMMA PublishInLine ==
  ASSUME TypeOK, Hands, Line, Publish
  PROVE  Line'
<1> SUFFICES ASSUME NEW s \in Sensors
             PROVE  \E c1, c2, c3, c4, c5, c6, c7 \in Nat : InLine(s, c1, c2, c3, c4, c5, c6, c7)'
  BY DEF Line
<1>1. PICK c1, c2, c3, c4, c5, c6, c7 \in Nat : InLine(s, c1, c2, c3, c4, c5, c6, c7)
  BY DEF Line
<1>2. inferring # NoPair /\ inferring \in Pairs
  BY LineTypes DEF Publish, Hands
<1>3. PICK x \in Nat : x = inferring[s]
  BY <1>2, LineTypes
<1>4. IncreasingPairs(published, s, 0, c1) /\ c1 < x /\ x <= c2
  BY <1>1, <1>2, <1>3 DEF InLine
<1>5. published' = Append(published, inferring)
  BY DEF Publish, Mailbox!Send
<1>6. IncreasingPairs(published', s, 0, x)
  BY <1>2, <1>3, <1>4, <1>5, PairsAppend DEF TypeOK
<1>7. InLine(s, x, c2, c3, c4, c5, c6, c7)'
  BY <1>1, <1>4, <1>6 DEF InLine, Publish, sensing, fusion
<1> QED
  BY <1>7

LEMMA LineStep == TypeOK /\ Hands /\ Line /\ [Next]_vars => Line'
<1> SUFFICES ASSUME TypeOK, Hands, Line, [Next]_vars
             PROVE  Line'
  OBVIOUS
<1>1. CASE Capture
  BY <1>1, CaptureInLine
<1>2. CASE BridgeScans
  BY <1>2, BridgeScansInLine
<1>3. CASE BridgeWrites
  BY <1>3, BridgeWritesInLine
<1>4. CASE ReadScan
  BY <1>4, ReadScanInLine
<1>5. CASE PutSample("thermal") \/ PutSample("lidar")
  BY <1>5, PutSampleInLine DEF Sensors
<1>6. CASE CheckFuses
  BY <1>6, CheckFusesInLine
<1>7. CASE PutPair
  BY <1>7, PutPairInLine
<1>8. CASE GetPair
  BY <1>8, GetPairInLine
<1>9. CASE Publish
  BY <1>9, PublishInLine
<1>10. CASE PutSampleGivesUp("thermal") \/ PutSampleGivesUp("lidar")
  <2>1. \A s \in Sensors : hand'[s] \in {hand[s], None}
    BY <1>10 DEF PutSampleGivesUp, TypeOK, Sensors
  <2> QED
    BY <1>10, <2>1, DroppingAll DEF PutSampleGivesUp, StopProcess, fusion, model
<1>11. CASE FlushQueues
  <2>1. PICK p \in Sensors, here \in Places, after \in Places : Flush(p, here, after)
    BY <1>11 DEF FlushQueues, Sensors, Places
  <2>2. \A s \in Sensors : sensor_queue'[s] = sensor_queue[s]
            \/ (sensor_queue[s] # <<>> /\ sensor_queue'[s] = Tail(sensor_queue[s]))
    BY <2>1 DEF Flush, Drained, TypeOK, Sensors
  <2> QED
    BY <2>1, <2>2, DroppingAll DEF Flush, sensing, model
<1>12. CASE \E w \in Workers : Leave(w)
  BY <1>12, DroppingAll DEF Leave, StopProcess, fusion, model
<1>13. CASE \E w \in Workers : Raise(w)
  <2>1. PICK w \in Workers : Raise(w)
    BY <1>13
  <2>2. \A s \in Sensors : hand'[s] \in {hand[s], None}
    BY <2>1 DEF Raise, TypeOK, Sensors
  <2> QED
    BY <2>1, <2>2, DroppingAll DEF Raise, StopProcess
<1>14. CASE BeginFlush \/ CheckFindsNothing
  BY <1>14, DroppingAll DEF BeginFlush, CheckFindsNothing, sensing, fusion, model
<1>15. CASE PutPairGivesUp \/ LoadAdapter \/ PublishReturnsFalse
  BY <1>15, DroppingAll DEF PutPairGivesUp, LoadAdapter, PublishReturnsFalse, sensing, fusion, model
<1>16. CASE TakeResult \/ StartHeartbeat \/ EndSending
  BY <1>16, DroppingAll DEF TakeResult, StartHeartbeat, EndSending, Mailbox!Receive, sensing, fusion, model
<1>17. CASE SetStop \/ UNCHANGED vars
  BY <1>17, DroppingAll DEF SetStop, vars, sensing, fusion, model
<1> QED
  BY <1>1, <1>2, <1>3, <1>4, <1>5, <1>6, <1>7, <1>8, <1>9, <1>10, <1>11, <1>12, <1>13, <1>14,
     <1>15, <1>16, <1>17
     DEF Next, Thermal, Lidar, Fusion, ModelAdapter, Communication, Bridge, Workers

LEMMA InitLine == Init => Line
<1> SUFFICES ASSUME Init, NEW s \in Sensors
             PROVE  InLine(s, 0, 0, 0, 0, 0, 0, 0)
  BY DEF Line
<1>1. captured[s] = 0 /\ hand[s] = None /\ sensor_queue[s] = <<>>
  BY DEF Init
<1>2. fusing = NoPair /\ inferring = NoPair /\ bridge = None
      /\ pipe = <<>> /\ fused_queue = <<>> /\ published = <<>>
  BY DEF Init
<1>3. \A lo, hi : Increasing(<<>>, lo, hi) /\ IncreasingPairs(<<>>, s, lo, hi)
  BY DEF Increasing, IncreasingPairs
<1> QED
  BY <1>1, <1>2, <1>3 DEF InLine
-----------------------------------------------------------------------------
(* Stale samples.  A step brings nothing into reach of Fusion but a new    *)
(* capture, so the stale ones only become fewer until the next flush; and  *)
(* when a flush ends, the queue is empty.                                  *)
Stale(s) == {n \in Held(s) : n <= flushed[s]}

FlushedPast == \A s \in Sensors : flushed[s] <= captured[s]

LEMMA RangeFacts ==
  ASSUME NEW q \in Seq(Nat)
  PROVE  /\ RangeOf(q) \subseteq Nat
         /\ \A x \in Nat : RangeOf(Append(q, x)) \subseteq RangeOf(q) \cup {x}
         /\ q # <<>> => Head(q) \in RangeOf(q) /\ RangeOf(Tail(q)) \subseteq RangeOf(q)
<1>1. RangeOf(q) \subseteq Nat
  BY DEF RangeOf
<1>2. ASSUME NEW x \in Nat
      PROVE  RangeOf(Append(q, x)) \subseteq RangeOf(q) \cup {x}
  <2>1. /\ Len(Append(q, x)) = Len(q) + 1 /\ Len(q) \in Nat
        /\ \A i \in 1..Len(q) : Append(q, x)[i] = q[i]
        /\ Append(q, x)[Len(q) + 1] = x
    OBVIOUS
  <2> QED
    BY <2>1 DEF RangeOf
<1>3. ASSUME q # <<>>
      PROVE  Head(q) \in RangeOf(q) /\ RangeOf(Tail(q)) \subseteq RangeOf(q)
  <2>1. /\ Len(q) \in Nat /\ Len(q) >= 1
        /\ Len(Tail(q)) = Len(q) - 1
        /\ \A i \in 1..Len(Tail(q)) : Tail(q)[i] = q[i + 1]
        /\ Head(q) = q[1]
    BY <1>3
  <2>2. \A i \in 1..Len(Tail(q)) : i + 1 \in 1..Len(q)
    BY <2>1
  <2> QED
    BY <2>1, <2>2 DEF RangeOf
<1> QED
  BY <1>1, <1>2, <1>3

LEMMA RangeIsFinite ==
  ASSUME NEW q \in Seq(Nat)
  PROVE  IsFiniteSet(RangeOf(q)) /\ Cardinality(RangeOf(q)) <= Len(q)
<1>1. q \in Surjection(1..Len(q), RangeOf(q)) /\ Len(q) \in Nat
  BY DEF Surjection, RangeOf
<1>2. ExistsSurjection(1..Len(q), RangeOf(q))
  BY <1>1 DEF ExistsSurjection
<1> QED
  BY <1>1, <1>2, FS_NatSurjection, FS_SurjCardinalityBound

LEMMA HeldTypes ==
  ASSUME TypeOK, NEW s \in Sensors
  PROVE  Held(s) \subseteq Nat /\ captured[s] \in Nat /\ flushed[s] \in Nat
<1>1. RangeOf(sensor_queue[s]) \subseteq Nat /\ RangeOf(pipe) \subseteq Nat
  BY LineTypes, RangeFacts
<1>2. flushed[s] \in Nat
  BY PipelineAssumption DEF PipelineAssumption, TypeOK, Sensors
<1> QED
  BY <1>1, <1>2, LineTypes DEF Held

LEMMA StaleIsFinite ==
  ASSUME TypeOK, NEW s \in Sensors
  PROVE  IsFiniteSet(Stale(s)) /\ Cardinality(Stale(s)) \in Nat
<1>1. Stale(s) \in SUBSET Nat /\ \A n \in Stale(s) : n <= flushed[s]
  BY HeldTypes DEF Stale
<1>2. IsFiniteSet(Stale(s))
  BY <1>1, HeldTypes, FS_BoundedSetOfNaturals
<1> QED
  BY <1>2, FS_CardinalityType

LEMMA OneMore ==
  ASSUME NEW S, IsFiniteSet(S), NEW x
  PROVE  /\ IsFiniteSet(S \cup {x})
         /\ Cardinality(S \cup {x}) \in Nat
         /\ Cardinality(S \cup {x}) <= Cardinality(S) + 1
<1>1. IsFiniteSet(S \cup {x})
  BY FS_AddElement
<1>2. Cardinality(S) \in Nat /\ Cardinality(S \cup {x}) \in Nat
  BY <1>1, FS_CardinalityType
<1>3. Cardinality(S \cup {x}) = IF x \in S THEN Cardinality(S) ELSE Cardinality(S) + 1
  BY FS_AddElement
<1> QED
  BY <1>1, <1>2, <1>3

\* What a flush that ends leaves behind: the pipe p, and at most two more.
LEMMA OutOfReachBounds ==
  ASSUME NEW p \in Seq(Nat), Len(p) <= PipeSize, NEW h, NEW b,
         NEW R, R \subseteq (RangeOf(p) \cup {h}) \cup {b}
  PROVE  Cardinality(R) <= PipeSize + 2
<1>1. /\ IsFiniteSet(RangeOf(p)) /\ Cardinality(RangeOf(p)) <= Len(p)
      /\ Len(p) \in Nat /\ PipeSize \in Nat
  BY RangeIsFinite, PipelineAssumption DEF PipelineAssumption
<1> DEFINE S == RangeOf(p) \cup {h}
           T == S \cup {b}
<1>2. Cardinality(RangeOf(p)) \in Nat
  BY <1>1, FS_CardinalityType
<1>3. /\ IsFiniteSet(S) /\ Cardinality(S) \in Nat
      /\ Cardinality(S) <= Cardinality(RangeOf(p)) + 1
  BY <1>1, OneMore
<1>4. R \in SUBSET T
  OBVIOUS
<1> HIDE DEF S
<1>5. /\ IsFiniteSet(T) /\ Cardinality(T) \in Nat
      /\ Cardinality(T) <= Cardinality(S) + 1
  BY <1>3, OneMore
<1> HIDE DEF T
<1>6. Cardinality(R) <= Cardinality(T) /\ Cardinality(R) \in Nat
  BY <1>4, <1>5, FS_Subset, FS_CardinalityType
<1> QED
  BY <1>1, <1>2, <1>3, <1>5, <1>6

\* Where what is held after a step comes from.
LEMMA HeldFrom ==
  ASSUME NEW s \in Sensors, NEW S,
         RangeOf(sensor_queue'[s]) \subseteq S,
         hand'[s] \in S \cup {None},
         s = "lidar" => RangeOf(pipe') \subseteq S /\ bridge' \in S \cup {None}
  PROVE  Held(s)' \subseteq S
<1>1. RangeOf(sensor_queue[s])' = RangeOf(sensor_queue'[s]) /\ RangeOf(pipe)' = RangeOf(pipe')
  BY DEF RangeOf
<1> QED
  BY <1>1 DEF Held

LEMMA HeldDropping ==
  ASSUME TypeOK, NEW s \in Sensors,
         sensor_queue'[s] = sensor_queue[s]
             \/ (sensor_queue[s] # <<>> /\ sensor_queue'[s] = Tail(sensor_queue[s])),
         hand'[s] \in {hand[s], None},
         pipe' \in {pipe, <<>>},
         bridge' \in {bridge, None}
  PROVE  Held(s)' \subseteq Held(s)
<1>1. RangeOf(sensor_queue'[s]) \subseteq Held(s)
  <2>1. RangeOf(sensor_queue'[s]) \subseteq RangeOf(sensor_queue[s])
    BY LineTypes, RangeFacts
  <2> QED
    BY <2>1 DEF Held
<1>2. hand'[s] \in Held(s) \cup {None}
  BY DEF Held
<1>3. s = "lidar" => RangeOf(pipe') \subseteq Held(s) /\ bridge' \in Held(s) \cup {None}
  <2>1. RangeOf(<<>>) = {}
    BY DEF RangeOf
  <2> QED
    BY <2>1 DEF Held
<1> QED
  BY <1>1, <1>2, <1>3, HeldFrom

\* A step brings at most one new capture, and it is a fresh one.
LEMMA HeldStep ==
  ASSUME TypeOK, Hands, [Next]_vars, NEW s \in Sensors
  PROVE  /\ Held(s)' \subseteq Held(s) \cup {captured[s] + 1}
         /\ captured'[s] \in {captured[s], captured[s] + 1}
<1>1. CASE Capture
  <2>1. hand'[s] \in {hand[s], captured[s] + 1} /\ captured'[s] \in {captured[s], captured[s] + 1}
    BY <1>1 DEF Capture, TypeOK, Sensors
  <2>2. sensor_queue' = sensor_queue /\ pipe' = pipe /\ bridge' = bridge
    BY <1>1 DEF Capture
  <2>3. Held(s)' \subseteq Held(s) \cup {captured[s] + 1}
    BY <2>1, <2>2, HeldFrom DEF Held
  <2> QED
    BY <2>1, <2>3
<1>2. CASE BridgeScans
  <2>1. /\ captured'[s] \in {captured[s], captured[s] + 1}
        /\ s = "lidar" => bridge' = captured[s] + 1
    BY <1>2 DEF BridgeScans, TypeOK, Sensors
  <2>2. sensor_queue' = sensor_queue /\ pipe' = pipe /\ hand' = hand
    BY <1>2 DEF BridgeScans
  <2>3. Held(s)' \subseteq Held(s) \cup {captured[s] + 1}
    BY <2>1, <2>2, HeldFrom DEF Held
  <2> QED
    BY <2>1, <2>3
<1>3. CASE BridgeWrites
  <2>1. /\ bridge # None /\ bridge' = None /\ pipe' = Append(pipe, bridge)
        /\ sensor_queue' = sensor_queue /\ hand' = hand /\ captured' = captured
    BY <1>3 DEF BridgeWrites
  <2>2. RangeOf(pipe') \subseteq RangeOf(pipe) \cup {bridge}
    BY <2>1, LineTypes, RangeFacts
  <2>3. Held(s)' \subseteq Held(s)
    BY <2>1, <2>2, HeldFrom DEF Held
  <2> QED
    BY <2>1, <2>3
<1>4. CASE ReadScan
  <2>1. /\ pipe # <<>> /\ pipe' = Tail(pipe) /\ bridge' = bridge
        /\ sensor_queue' = sensor_queue /\ captured' = captured
    BY <1>4 DEF ReadScan
  <2>2. hand'[s] = IF s = "lidar" THEN Head(pipe) ELSE hand[s]
    BY <1>4 DEF ReadScan, TypeOK, Sensors
  <2>3. Head(pipe) \in RangeOf(pipe) /\ RangeOf(pipe') \subseteq RangeOf(pipe)
    BY <2>1, LineTypes, RangeFacts
  <2>4. Held(s)' \subseteq Held(s)
    BY <2>1, <2>2, <2>3, HeldFrom DEF Held
  <2> QED
    BY <2>1, <2>4
<1>5. ASSUME NEW p \in Sensors, PutSample(p)
      PROVE  Held(s)' \subseteq Held(s) /\ captured' = captured
  <2>1. captured' = captured /\ pipe' \in {pipe, <<>>} /\ bridge' \in {bridge, None}
    BY <1>5 DEF PutSample, StopProcess
  <2>2. CASE s # p
    <3>1. hand'[s] = hand[s] /\ sensor_queue'[s] = sensor_queue[s]
      BY <1>5, <2>2 DEF PutSample, TypeOK, Sensors
    <3> QED
      BY <2>1, <3>1, HeldDropping
  <2>3. CASE s = p
    <3>1. hand'[s] = None /\ sensor_queue'[s] = Append(sensor_queue[s], hand[s])
      BY <1>5, <2>3 DEF PutSample, TypeOK, Sensors
    <3>2. hand[s] # None
      BY <1>5, <2>3 DEF Hands, PutSample, SensorWorker, Sensors
    <3>3. RangeOf(sensor_queue'[s]) \subseteq RangeOf(sensor_queue[s]) \cup {hand[s]}
      BY <3>1, LineTypes, RangeFacts
    <3>4. RangeOf(<<>>) = {}
      BY DEF RangeOf
    <3>5. Held(s)' \subseteq Held(s)
      BY <2>1, <3>1, <3>2, <3>3, <3>4, HeldFrom DEF Held
    <3> QED
      BY <2>1, <3>5
  <2> QED
    BY <2>2, <2>3
<1>6. CASE CheckFuses
  <2>1. /\ captured' = captured /\ pipe' = pipe /\ bridge' = bridge /\ hand' = hand
        /\ sensor_queue[s] # <<>> /\ sensor_queue'[s] = Tail(sensor_queue[s])
    BY <1>6 DEF CheckFuses, TakePair, sensing, TypeOK, Sensors
  <2> QED
    BY <2>1, HeldDropping
<1>7. ASSUME NEW p \in Sensors, PutSampleGivesUp(p)
      PROVE  Held(s)' \subseteq Held(s) /\ captured' = captured
  <2>1. /\ captured' = captured /\ pipe' \in {pipe, <<>>} /\ bridge' \in {bridge, None}
        /\ sensor_queue' = sensor_queue /\ hand'[s] \in {hand[s], None}
    BY <1>7 DEF PutSampleGivesUp, StopProcess, TypeOK, Sensors
  <2> QED
    BY <2>1, HeldDropping
<1>8. CASE FlushQueues
  <2>1. PICK p \in Sensors, here \in Places, after \in Places : Flush(p, here, after)
    BY <1>8 DEF FlushQueues, Sensors, Places
  <2>2. sensor_queue'[s] = sensor_queue[s]
            \/ (sensor_queue[s] # <<>> /\ sensor_queue'[s] = Tail(sensor_queue[s]))
    BY <2>1 DEF Flush, Drained, TypeOK, Sensors
  <2>3. captured' = captured /\ pipe' = pipe /\ bridge' = bridge /\ hand' = hand
    BY <2>1 DEF Flush, sensing
  <2> QED
    BY <2>2, <2>3, HeldDropping
<1>9. ASSUME NEW w \in Workers, Raise(w)
      PROVE  Held(s)' \subseteq Held(s) /\ captured' = captured
  <2>1. /\ captured' = captured /\ pipe' \in {pipe, <<>>} /\ bridge' \in {bridge, None}
        /\ sensor_queue' = sensor_queue /\ hand'[s] \in {hand[s], None}
    BY <1>9 DEF Raise, StopProcess, TypeOK, Sensors
  <2> QED
    BY <2>1, HeldDropping
<1>10. ASSUME NEW w \in Workers, Leave(w)
       PROVE  Held(s)' \subseteq Held(s) /\ captured' = captured
  BY <1>10, HeldDropping DEF Leave, StopProcess
<1>11. CASE UNCHANGED <<sensing, sensor_queue>>
  BY <1>11, HeldDropping DEF sensing
<1>12. \/ Capture \/ BridgeScans \/ BridgeWrites \/ ReadScan \/ CheckFuses \/ FlushQueues
       \/ \E p \in Sensors : PutSample(p) \/ PutSampleGivesUp(p)
       \/ \E w \in Workers : Raise(w) \/ Leave(w)
       \/ UNCHANGED <<sensing, sensor_queue>>
  <2>1. CASE Fusion
    BY <2>1 DEF Fusion, BeginFlush, CheckFindsNothing, PutPair, PutPairGivesUp, Workers
  <2>2. CASE ModelAdapter
    BY <2>2 DEF ModelAdapter, LoadAdapter, GetPair, Publish, PublishReturnsFalse, Workers
  <2>3. CASE Communication
    BY <2>3 DEF Communication, TakeResult, StartHeartbeat, EndSending, Workers
  <2>4. CASE Thermal \/ Lidar \/ Bridge
    BY <2>4 DEF Thermal, Lidar, Bridge, Sensors, Workers
  <2>5. CASE (\E w \in Workers : Raise(w)) \/ SetStop \/ UNCHANGED vars
    BY <2>5 DEF SetStop, vars
  <2> QED
    BY <2>1, <2>2, <2>3, <2>4, <2>5 DEF Next
<1> QED
  BY <1>1, <1>2, <1>3, <1>4, <1>5, <1>6, <1>7, <1>8, <1>9, <1>10, <1>11, <1>12

\* The end of a flush, and everything else.
LEMMA FlushedStep ==
  ASSUME TypeOK, [Next]_vars, NEW s \in Sensors
  PROVE  \/ flushed'[s] = flushed[s]
         \/ /\ sensor_queue'[s] = <<>> /\ pipe' = pipe
            /\ flushed'[s] = captured[s] /\ captured'[s] = captured[s]
<1>1. CASE FlushQueues
  <2>1. PICK p \in Sensors, here \in Places, after \in Places : Flush(p, here, after)
    BY <1>1 DEF FlushQueues, Sensors, Places
  <2> QED
    BY <2>1 DEF Flush, Drained, sensing, TypeOK, Sensors
<1>2. CASE ~FlushQueues
  <2>1. CASE Thermal \/ Lidar \/ Bridge
    BY <2>1 DEF Thermal, Lidar, Bridge, Capture, ReadScan, PutSample, PutSampleGivesUp, Leave,
                BridgeScans, BridgeWrites, fusion
  <2>2. CASE Fusion
    BY <1>2, <2>2 DEF Fusion, BeginFlush, CheckFindsNothing, CheckFuses, PutPair, PutPairGivesUp,
                Leave, fusion
  <2>3. CASE ModelAdapter
    BY <2>3 DEF ModelAdapter, LoadAdapter, GetPair, Publish, PublishReturnsFalse, Leave, fusion
  <2>4. CASE Communication
    BY <2>4 DEF Communication, TakeResult, StartHeartbeat, EndSending, Leave, fusion
  <2>5. CASE (\E w \in Workers : Raise(w)) \/ SetStop \/ UNCHANGED vars
    BY <2>5 DEF Raise, SetStop, vars, fusion
  <2> QED
    BY <2>1, <2>2, <2>3, <2>4, <2>5 DEF Next
<1> QED
  BY <1>1, <1>2

LEMMA StaleStep ==
  TypeOK /\ Hands /\ FlushedPast /\ StaleAfterFlush /\ [Next]_vars
     => FlushedPast' /\ StaleAfterFlush'
<1> SUFFICES ASSUME TypeOK, Hands, FlushedPast, StaleAfterFlush, [Next]_vars,
                    NEW s \in Sensors
             PROVE  flushed'[s] <= captured'[s] /\ Cardinality(Stale(s)') <= OutOfReach(s)
  BY DEF FlushedPast, StaleAfterFlush, Stale, OutOfReach
<1>1. /\ captured[s] \in Nat /\ flushed[s] \in Nat /\ flushed[s] <= captured[s]
      /\ captured'[s] \in {captured[s], captured[s] + 1}
      /\ OutOfReach(s) \in Nat
  BY HeldTypes, HeldStep, PipelineAssumption DEF FlushedPast, OutOfReach, PipelineAssumption
<1>2. CASE flushed'[s] = flushed[s]
  <2>1. Stale(s)' \in SUBSET Stale(s)
    BY <1>1, <1>2, HeldStep DEF Stale
  <2>2. /\ IsFiniteSet(Stale(s)) /\ Cardinality(Stale(s)) \in Nat
        /\ Cardinality(Stale(s)) <= OutOfReach(s)
    BY StaleIsFinite DEF StaleAfterFlush, Stale
  <2>3. Cardinality(Stale(s)') <= Cardinality(Stale(s)) /\ Cardinality(Stale(s)') \in Nat
    BY <2>1, <2>2, FS_Subset, FS_CardinalityType
  <2> QED
    BY <1>1, <1>2, <2>2, <2>3
<1>3. CASE /\ sensor_queue'[s] = <<>> /\ pipe' = pipe
           /\ flushed'[s] = captured[s] /\ captured'[s] = captured[s]
  <2>1. RangeOf(sensor_queue[s])' = {} /\ RangeOf(pipe)' = RangeOf(pipe)
    BY <1>3 DEF RangeOf
  <2>2. CASE s = "thermal"
    <3>1. Stale(s)' \in SUBSET {hand'[s]}
      BY <2>1, <2>2 DEF Stale, Held
    <3>2. IsFiniteSet({hand'[s]}) /\ Cardinality({hand'[s]}) = 1
      BY FS_Singleton
    <3> QED
      BY <1>1, <1>3, <2>2, <3>1, <3>2, FS_Subset DEF OutOfReach
  <2>3. CASE s = "lidar"
    <3>1. Stale(s)' \subseteq (RangeOf(pipe) \cup {hand'[s]}) \cup {bridge'}
      BY <2>1, <2>3 DEF Stale, Held
    <3>2. pipe \in Seq(Nat) /\ Len(pipe) <= PipeSize
      BY LineTypes DEF TypeOK
    <3>3. Cardinality(Stale(s)') <= PipeSize + 2
      BY <3>1, <3>2, OutOfReachBounds
    <3> QED
      BY <1>1, <1>3, <2>3, <3>3 DEF OutOfReach
  <2> QED
    BY <2>2, <2>3 DEF Sensors
<1> QED
  BY <1>2, <1>3, FlushedStep

LEMMA InitStale == Init => FlushedPast /\ StaleAfterFlush
<1> SUFFICES ASSUME Init, NEW s \in Sensors
             PROVE  flushed[s] <= captured[s] /\ Cardinality(Stale(s)) <= OutOfReach(s)
  BY DEF FlushedPast, StaleAfterFlush, Stale
<1>1. /\ captured[s] = 0 /\ flushed[s] = 0 /\ hand[s] = None /\ sensor_queue[s] = <<>>
      /\ pipe = <<>> /\ bridge = None
  BY DEF Init
<1>2. Stale(s) = {}
  BY <1>1 DEF Stale, Held, RangeOf
<1>3. OutOfReach(s) \in Nat
  BY PipelineAssumption DEF OutOfReach, PipelineAssumption
<1> QED
  BY <1>1, <1>2, <1>3, FS_EmptySet
-----------------------------------------------------------------------------
(* The promise of the group, and the way to the end.  A step of a worker   *)
(* moves it from one place to another; once the event is set, each place   *)
(* has a number of steps that can still be taken from it, a sample that is *)
(* put costs Fusion one step more to flush, and every step brings the sum  *)
(* down, whatever the order in which the workers run.                      *)
StepsFrom == [stopped |-> 0, publishing |-> 1, sending |-> 1, loop |-> 2,
              loading |-> 3, putting |-> 3, flush_lidar |-> 3, flush_thermal |-> 4]

Queued == Len(sensor_queue["thermal"]) + Len(sensor_queue["lidar"])

StepsLeft ==
    StepsFrom[at["ThermalSensor"]] + StepsFrom[at["LidarSensor"]] + StepsFrom[at["Fusion"]]
    + StepsFrom[at["ModelAdapter"]] + StepsFrom[at["Communication"]] + Queued

\* Worker w goes from its place to p; the event is set when it ends, and else unchanged.
Moves(w, p) == /\ at[w] # "stopped"
               /\ Goto(w, p)
               /\ stop_event' = IF p = "stopped" THEN TRUE ELSE stop_event

\* After the event, the step is one of those left.
Nearer(w, p) == stop_event => StepsFrom[p] + Queued' < StepsFrom[at[w]] + Queued

Step(w, p) == Moves(w, p) /\ Group!Exchange(w) /\ Nearer(w, p)

LEMMA StepsFromTypes == \A p \in Places : StepsFrom[p] \in 0..4
BY DEF Places, StepsFrom

LEMMA QueuedType == TypeOK => Queued \in Nat /\ Queued <= 2 * SensorQueueSize
<1> SUFFICES ASSUME TypeOK PROVE Queued \in Nat /\ Queued <= 2 * SensorQueueSize
  OBVIOUS
<1>1. Len(sensor_queue["thermal"]) \in Nat /\ Len(sensor_queue["lidar"]) \in Nat
  BY DEF TypeOK
<1>2. /\ Len(sensor_queue["thermal"]) <= SensorQueueSize
      /\ Len(sensor_queue["lidar"]) <= SensorQueueSize
  BY DEF TypeOK, Sensors
<1>3. SensorQueueSize \in Nat
  BY PipelineAssumption DEF PipelineAssumption
<1>4. \A a, b, n \in Nat : a <= n /\ b <= n => a + b \in Nat /\ a + b <= 2 * n
  OBVIOUS
<1> QED
  BY <1>1, <1>2, <1>3, <1>4 DEF Queued

LEMMA ExchangeNothing ==
  ASSUME UNCHANGED <<sensor_queue, fused_queue>>
  PROVE  Queued' = Queued /\ \A w \in Workers : Group!Exchange(w)
BY DEF Queued, Backlog, Group!Exchange, Sensors

\* One sensor queue changes, and the other does not.
LEMMA QueuedBy ==
  ASSUME TypeOK, NEW s \in Sensors, NEW n \in Int,
         Len(sensor_queue'[s]) = Len(sensor_queue[s]) + n,
         \A r \in Sensors \ {s} : sensor_queue'[r] = sensor_queue[r]
  PROVE  Queued' = Queued + n
<1>1. Len(sensor_queue["thermal"]) \in Nat /\ Len(sensor_queue["lidar"]) \in Nat
  BY DEF TypeOK
<1>2. \A a, b \in Nat : (a + n) + b = (a + b) + n /\ a + (b + n) = (a + b) + n
  OBVIOUS
<1>3. CASE s = "thermal"
  <2>1. sensor_queue'["lidar"] = sensor_queue["lidar"]
    BY <1>3 DEF Sensors
  <2>2. Len(sensor_queue'["thermal"]) = Len(sensor_queue["thermal"]) + n
    BY <1>3
  <2> QED
    BY <1>1, <1>2, <2>1, <2>2 DEF Queued
<1>4. CASE s = "lidar"
  <2>1. sensor_queue'["thermal"] = sensor_queue["thermal"]
    BY <1>4 DEF Sensors
  <2>2. Len(sensor_queue'["lidar"]) = Len(sensor_queue["lidar"]) + n
    BY <1>4
  <2> QED
    BY <1>1, <1>2, <2>1, <2>2 DEF Queued
<1> QED
  BY <1>3, <1>4 DEF Sensors

\* A step that leaves the queues alone.
LEMMA StepApart ==
  ASSUME TypeOK, UNCHANGED <<sensor_queue, fused_queue>>, NEW w \in Workers, NEW p \in Places,
         Moves(w, p), stop_event => StepsFrom[p] < StepsFrom[at[w]]
  PROVE  Step(w, p)
<1>1. StepsFrom[p] \in Nat /\ StepsFrom[at[w]] \in Nat /\ Queued \in Nat
  <2>1. at[w] \in Places
    BY DEF TypeOK
  <2> QED
    BY <2>1, StepsFromTypes, QueuedType
<1>2. Queued' = Queued
  BY ExchangeNothing
<1>3. Nearer(w, p)
  BY <1>1, <1>2 DEF Nearer
<1> QED
  BY <1>3, ExchangeNothing DEF Step

LEMMA PutSampleSteps ==
  ASSUME TypeOK, NEW s \in Sensors, PutSample(s)
  PROVE  \E w \in Workers, p \in Places : Step(w, p)
<1> DEFINE w == SensorWorker(s)
           p == IF stop_event THEN "stopped" ELSE "loop"
<1>1. w \in Workers /\ p \in Places /\ w = QueueWriter[s]
  BY DEF SensorWorker, Workers, Places, Sensors, QueueWriter
<1>2. Moves(w, p) /\ at[w] = "putting"
  BY DEF PutSample, Moves, Repeat, TypeOK
<1>3. /\ sensor_queue'[s] = Append(sensor_queue[s], hand[s])
      /\ \A r \in Sensors \ {s} : sensor_queue'[r] = sensor_queue[r]
      /\ fused_queue' = fused_queue
  BY DEF PutSample, TypeOK, Sensors
<1>4. Backlog' = Backlog \cup {s}
  BY <1>3 DEF Backlog, Sensors
<1>5. Group!Exchange(w)
  BY <1>1, <1>4 DEF Group!Exchange, Backlog, Sensors
<1>6. Queued' = Queued + 1
  <2>1. /\ sensor_queue["thermal"] \in Seq(Frames) /\ sensor_queue["lidar"] \in Seq(Scans)
    BY DEF TypeOK
  <2>2. Len(sensor_queue'[s]) = Len(sensor_queue[s]) + 1
    BY <1>3, <2>1 DEF Sensors
  <2> QED
    BY <1>3, <2>2, QueuedBy
<1>7. Nearer(w, p)
  <2>1. Queued \in Nat
    BY QueuedType
  <2> QED
    BY <1>2, <1>6, <2>1 DEF Nearer, StepsFrom
<1> QED
  BY <1>1, <1>2, <1>5, <1>7 DEF Step

\* A step of Fusion that only takes from the sensor queues.
LEMMA FusionTakes ==
  ASSUME NEW p \in Places, Moves("Fusion", p), Nearer("Fusion", p), UNCHANGED fused_queue,
         \A s \in Sensors : sensor_queue[s] = <<>> => sensor_queue'[s] = <<>>
  PROVE  \E w \in Workers, q \in Places : Step(w, q)
<1>1. Backlog' \subseteq Backlog /\ Backlog \ Backlog' \subseteq Sensors
  BY DEF Backlog, Sensors
<1>2. Group!Exchange("Fusion")
  BY <1>1 DEF Group!Exchange, Backlog, Sensors, QueueReader
<1> QED
  BY <1>2 DEF Step, Workers

LEMMA FlushSteps ==
  ASSUME TypeOK, FlushQueues
  PROVE  \E w \in Workers, p \in Places : Step(w, p)
<1>1. PICK s \in Sensors, here \in {"flush_thermal", "flush_lidar"}, after \in {"flush_lidar", "loop"} :
          Flush(s, here, after) /\ StepsFrom[after] < StepsFrom[here]
  BY DEF FlushQueues, Sensors, StepsFrom
<1>2. CASE sensor_queue[s] = <<>>
  <2>1. Moves("Fusion", after) /\ UNCHANGED <<sensor_queue, fused_queue>>
    BY <1>1, <1>2 DEF Flush, Drained, Moves
  <2>2. at["Fusion"] = here
    BY <1>1 DEF Flush
  <2> QED
    BY <1>1, <2>1, <2>2, StepApart DEF Workers, Places
<1>3. CASE sensor_queue[s] # <<>>
  <2>1. /\ at' = at /\ at["Fusion"] = here /\ stop_event' = stop_event
        /\ sensor_queue' = [sensor_queue EXCEPT ![s] = Tail(@)] /\ fused_queue' = fused_queue
    BY <1>1, <1>3 DEF Flush, Drained
  <2>2. Moves("Fusion", here)
    BY <2>1 DEF Moves, Goto, TypeOK, Workers
  <2>3. /\ sensor_queue'[s] = Tail(sensor_queue[s])
        /\ \A r \in Sensors \ {s} : sensor_queue'[r] = sensor_queue[r]
    BY <2>1 DEF TypeOK, Sensors
  <2>4. Queued' = Queued - 1
    <3>1. sensor_queue["thermal"] \in Seq(Frames) /\ sensor_queue["lidar"] \in Seq(Scans)
      BY DEF TypeOK
    <3>2. Len(sensor_queue[s]) \in Nat /\ Len(sensor_queue'[s]) = Len(sensor_queue[s]) + (-1)
      BY <1>3, <2>3, <3>1 DEF Sensors
    <3>3. PICK n \in Int : n = -1
      OBVIOUS
    <3>4. Len(sensor_queue'[s]) = Len(sensor_queue[s]) + n
      BY <3>2, <3>3
    <3>5. Queued' = Queued + n
      BY <2>3, <3>4, QueuedBy
    <3> QED
      BY <3>3, <3>5, QueuedType
  <2>5. Queued \in Nat /\ StepsFrom[here] \in Nat
    BY QueuedType DEF StepsFrom
  <2>6. Nearer("Fusion", here)
    BY <2>1, <2>4, <2>5 DEF Nearer
  <2>7. \A r \in Sensors : sensor_queue[r] = <<>> => sensor_queue'[r] = <<>>
    BY <1>3, <2>3
  <2> QED
    BY <2>1, <2>2, <2>6, <2>7, FusionTakes DEF Places
<1> QED
  BY <1>2, <1>3

\* The steps that move samples or pairs between queues and hands.
LEMMA CheckFusesSteps ==
  ASSUME TypeOK, CheckFuses
  PROVE  \E w \in Workers, p \in Places : Step(w, p)
<1>1. Moves("Fusion", "putting") /\ ~stop_event
  BY DEF CheckFuses, Enter, Moves
<1>2. \A s \in Sensors : sensor_queue[s] # <<>>
  BY DEF CheckFuses
<1>3. Nearer("Fusion", "putting")
  BY <1>1 DEF Nearer
<1>4. UNCHANGED fused_queue
  BY DEF CheckFuses
<1> QED
  BY <1>1, <1>2, <1>3, <1>4, FusionTakes DEF Places

LEMMA PutPairSteps ==
  ASSUME TypeOK, PutPair
  PROVE  \E w \in Workers, p \in Places : Step(w, p)
<1>1. Moves("Fusion", "loop") /\ at["Fusion"] = "putting"
  BY DEF PutPair, Moves
<1>2. fused_queue' = Append(fused_queue, fusing) /\ sensor_queue' = sensor_queue
  BY DEF PutPair
<1>3. Backlog' = Backlog \cup {"fused"}
  <2>1. fused_queue \in Seq(Pairs) /\ Len(fused_queue') = Len(fused_queue) + 1
    BY <1>2 DEF TypeOK
  <2>2. Len(fused_queue) \in Nat /\ Len(<<>>) = 0
    BY <2>1
  <2>3. fused_queue' # <<>>
    BY <2>1, <2>2
  <2> QED
    BY <1>2, <2>3 DEF Backlog
<1>4. Group!Exchange("Fusion")
  BY <1>3 DEF Group!Exchange, Backlog, Sensors, QueueWriter
<1>5. Queued' = Queued /\ Queued \in Nat
  BY <1>2, QueuedType DEF Queued
<1>6. Nearer("Fusion", "loop")
  BY <1>1, <1>5 DEF Nearer, StepsFrom
<1> QED
  BY <1>1, <1>4, <1>6 DEF Step, Workers, Places

LEMMA GetPairSteps ==
  ASSUME TypeOK, GetPair
  PROVE  \E w \in Workers, p \in Places : Step(w, p)
<1>1. PICK p \in {"publishing", "loop", "stopped"} :
          /\ Moves("ModelAdapter", p)
          /\ stop_event => p # "loop"
  <2>1. CASE adapter
    BY <2>1 DEF GetPair, Moves
  <2>2. CASE ~adapter
    <3>1. CASE stop_event
      BY <2>2, <3>1 DEF GetPair, Repeat, Moves
    <3>2. CASE ~stop_event
      BY <2>2, <3>2 DEF GetPair, Repeat, Moves
    <3> QED
      BY <3>1, <3>2
  <2> QED
    BY <2>1, <2>2
<1>2. /\ fused_queue # <<>> /\ sensor_queue' = sensor_queue
      /\ at["ModelAdapter"] = "loop"
  BY DEF GetPair
<1>3. Backlog' \subseteq Backlog /\ Backlog \ Backlog' \subseteq {"fused"}
  BY <1>2 DEF Backlog
<1>4. Group!Exchange("ModelAdapter")
  BY <1>3 DEF Group!Exchange, Backlog, Sensors, QueueReader
<1>5. Queued' = Queued /\ Queued \in Nat
  BY <1>2, QueuedType DEF Queued
<1>6. Nearer("ModelAdapter", p)
  BY <1>1, <1>2, <1>5 DEF Nearer, StepsFrom
<1> QED
  BY <1>1, <1>4, <1>6 DEF Step, Workers, Places

\* Every other step of a worker leaves the queues alone.
LEMMA ApartSteps ==
  ASSUME TypeOK,
         \/ Capture \/ ReadScan \/ BeginFlush \/ CheckFindsNothing
         \/ (\E s \in Sensors : PutSampleGivesUp(s)) \/ PutPairGivesUp
         \/ LoadAdapter \/ Publish \/ PublishReturnsFalse
         \/ TakeResult \/ StartHeartbeat \/ EndSending
         \/ \E w \in Workers : Leave(w) \/ Raise(w)
  PROVE  \E w \in Workers, p \in Places : Step(w, p)
<1>0. SUFFICES \E w \in Workers, p \in Places :
                   /\ UNCHANGED <<sensor_queue, fused_queue>>
                   /\ Moves(w, p)
                   /\ stop_event => StepsFrom[p] < StepsFrom[at[w]]
  BY StepApart
<1>1. CASE Capture
  BY <1>1 DEF Capture, Enter, Moves, Workers, Places
<1>2. CASE ReadScan
  BY <1>2 DEF ReadScan, Enter, Moves, Workers, Places
<1>3. CASE BeginFlush \/ CheckFindsNothing
  BY <1>3 DEF BeginFlush, CheckFindsNothing, Enter, Moves, Workers, Places
<1>4. CASE \E s \in Sensors : PutSampleGivesUp(s)
  <2>1. PICK s \in Sensors : PutSampleGivesUp(s)
    BY <1>4
  <2>2. SensorWorker(s) \in Workers
    BY DEF SensorWorker, Workers
  <2>3. Moves(SensorWorker(s), "stopped") /\ at[SensorWorker(s)] = "putting"
    BY <2>1 DEF PutSampleGivesUp, PutGivesUp, Moves, TypeOK
  <2> QED
    BY <2>1, <2>2, <2>3 DEF PutSampleGivesUp, StepsFrom, Places
<1>5. CASE PutPairGivesUp
  <2>1. Moves("Fusion", "loop") /\ at["Fusion"] = "putting"
    BY <1>5 DEF PutPairGivesUp, Moves
  <2> QED
    BY <1>5, <2>1 DEF PutPairGivesUp, StepsFrom, Workers, Places
<1>6. CASE LoadAdapter
  <2>1. Moves("ModelAdapter", "loop") /\ at["ModelAdapter"] = "loading"
    BY <1>6 DEF LoadAdapter, Moves
  <2> QED
    BY <1>6, <2>1 DEF LoadAdapter, StepsFrom, Workers, Places
<1>7. CASE Publish \/ PublishReturnsFalse
  <2>1. CASE Publish
    <3>1. Moves("ModelAdapter", "loop") /\ ~stop_event
      BY <2>1 DEF Publish, Moves
    <3> QED
      BY <2>1, <3>1 DEF Publish, Workers, Places
  <2>2. CASE PublishReturnsFalse
    <3>1. Moves("ModelAdapter", "stopped") /\ at["ModelAdapter"] = "publishing"
      BY <2>2 DEF PublishReturnsFalse, PublishGivesUp, Moves, TypeOK
    <3> QED
      BY <2>2, <3>1 DEF PublishReturnsFalse, StepsFrom, Workers, Places
  <2> QED
    BY <1>7, <2>1, <2>2
<1>8. CASE TakeResult \/ StartHeartbeat
  <2>1. Moves("Communication", "sending") /\ at["Communication"] = "loop"
    BY <1>8 DEF TakeResult, StartHeartbeat, Enter, Moves
  <2> QED
    BY <1>8, <2>1 DEF TakeResult, StartHeartbeat, StepsFrom, Workers, Places
<1>9. CASE EndSending
  <2>1. CASE stop_event
    BY <1>9, <2>1 DEF EndSending, Repeat, Moves, StepsFrom, Workers, Places, TypeOK
  <2>2. CASE ~stop_event
    BY <1>9, <2>2 DEF EndSending, Repeat, Moves, Workers, Places
  <2> QED
    BY <2>1, <2>2
<1>10. CASE \E w \in Workers : Leave(w)
  <2>1. PICK w \in Workers : Leave(w)
    BY <1>10
  <2>2. Moves(w, "stopped") /\ at[w] = "loop"
    BY <2>1 DEF Leave, Moves, TypeOK
  <2> QED
    BY <2>1, <2>2 DEF Leave, StepsFrom, Places
<1>11. CASE \E w \in Workers : Raise(w)
  <2>1. PICK w \in Workers : Raise(w)
    BY <1>11
  <2>2. at[w] \in {"putting", "loop", "loading", "publishing", "sending"}
    BY <2>1 DEF Raise, RaisesAt, Workers
  <2>3. Moves(w, "stopped") /\ UNCHANGED <<sensor_queue, fused_queue>>
    BY <2>1, <2>2 DEF Raise, Moves
  <2>4. StepsFrom["stopped"] < StepsFrom[at[w]]
    BY <2>2 DEF StepsFrom
  <2> QED
    BY <2>3, <2>4 DEF Places
<1> QED
  BY <1>1, <1>2, <1>3, <1>4, <1>5, <1>6, <1>7, <1>8, <1>9, <1>10, <1>11

LEMMA WorkerSteps ==
  ASSUME TypeOK, [Next]_vars
  PROVE  \/ \E w \in Workers, p \in Places : Step(w, p)
         \/ Bridge /\ UNCHANGED <<at, stop_event, sensor_queue, fused_queue>>
         \/ SetStop
         \/ UNCHANGED vars
<1>1. CASE Thermal \/ Lidar
  BY <1>1, PutSampleSteps, ApartSteps DEF Thermal, Lidar, Sensors, Workers
<1>2. CASE Fusion
  BY <1>2, FlushSteps, CheckFusesSteps, PutPairSteps, ApartSteps DEF Fusion, Workers
<1>3. CASE ModelAdapter \/ Communication
  BY <1>3, GetPairSteps, ApartSteps DEF ModelAdapter, Communication, Workers
<1>4. CASE Bridge
  BY <1>4 DEF Bridge, BridgeScans, BridgeWrites
<1>5. CASE \E w \in Workers : Raise(w)
  BY <1>5, ApartSteps
<1> QED
  BY <1>1, <1>2, <1>3, <1>4, <1>5 DEF Next

\* One worker has moved, and the others have not.
LEMMA Nearing ==
  ASSUME TypeOK, TypeOK', stop_event, NEW w \in Workers, NEW p \in Places, Step(w, p)
  PROVE  StepsLeft' < StepsLeft
<1>1. \A v \in Workers : StepsFrom[at[v]] \in Nat /\ StepsFrom[at'[v]] \in Nat
  <2>1. \A v \in Workers : at[v] \in Places /\ at'[v] \in Places
    BY DEF TypeOK
  <2> QED
    BY <2>1, StepsFromTypes
<1>2. Queued \in Nat /\ Queued' \in Nat
  <2>1. Len(sensor_queue'["thermal"]) \in Nat /\ Len(sensor_queue'["lidar"]) \in Nat
    <3>1. sensor_queue' \in [thermal : Seq(Frames), lidar : Seq(Scans)]
      BY DEF TypeOK
    <3> QED
      BY <3>1
  <2>2. \A a, b \in Nat : a + b \in Nat
    OBVIOUS
  <2>3. Queued' \in Nat
    BY <2>1, <2>2 DEF Queued
  <2> QED
    BY <2>3, QueuedType
<1>3. StepsFrom[at'[w]] + Queued' < StepsFrom[at[w]] + Queued
  BY DEF Step, Moves, Goto, Nearer, TypeOK
<1>4. \A v \in Workers \ {w} : at'[v] = at[v]
  BY DEF Step, Moves, Goto, TypeOK
<1> DEFINE from == [v \in Workers |-> StepsFrom[at[v]]]
           to == [v \in Workers |-> StepsFrom[at'[v]]]
<1>5. /\ from \in [Workers -> Nat] /\ to \in [Workers -> Nat]
      /\ to[w] + Queued' < from[w] + Queued
      /\ \A v \in Workers \ {w} : to[v] = from[v]
  BY <1>1, <1>3, <1>4
<1>6. /\ StepsLeft = from["ThermalSensor"] + from["LidarSensor"] + from["Fusion"]
                     + from["ModelAdapter"] + from["Communication"] + Queued
      /\ StepsLeft' = to["ThermalSensor"] + to["LidarSensor"] + to["Fusion"]
                      + to["ModelAdapter"] + to["Communication"] + Queued'
  BY DEF StepsLeft, Workers
<1> HIDE DEF from, to
<1> QED
  BY <1>2, <1>5, <1>6 DEF Workers
LEMMA InitGroup == Init => Group!Init
<1> SUFFICES ASSUME Init PROVE Group!Init
  OBVIOUS
<1>1. \A w \in Workers : at[w] # "stopped"
  BY DEF Init
<1>2. Backlog = {}
  BY DEF Init, Backlog
<1> QED
  BY <1>1, <1>2 DEF Group!Init, Init

LEMMA StepGroup ==
  ASSUME TypeOK, NEW w \in Workers, NEW p \in Places, Step(w, p)
  PROVE  Group!Next
<1>1. at[w] # "stopped" /\ at' = [at EXCEPT ![w] = p] /\ at \in [Workers -> Places]
  BY DEF Step, Moves, Goto, TypeOK
<1>2. CASE p = "stopped"
  <2>1. {v \in Workers : at'[v] # "stopped"} = {v \in Workers : at[v] # "stopped"} \ {w}
    BY <1>1, <1>2
  <2>2. stop_event' = TRUE
    BY <1>2 DEF Step, Moves
  <2>3. Group!End(w)
    BY <1>1, <2>1, <2>2 DEF Group!End, Step
  <2> QED
    BY <2>3 DEF Group!Next
<1>3. CASE p # "stopped"
  <2>1. {v \in Workers : at'[v] # "stopped"} = {v \in Workers : at[v] # "stopped"}
    BY <1>1, <1>3
  <2>2. stop_event' = stop_event
    BY <1>3 DEF Step, Moves
  <2>3. Group!Work(w)
    BY <1>1, <2>1, <2>2 DEF Group!Work, Step
  <2> QED
    BY <2>3 DEF Group!Next
<1> QED
  BY <1>2, <1>3

LEMMA StepImplements ==
  ASSUME TypeOK, [Next]_vars
  PROVE  [Group!Next]_(Group!groupVars)
<1>1. CASE \E w \in Workers, p \in Places : Step(w, p)
  BY <1>1, StepGroup
<1>2. CASE UNCHANGED <<at, stop_event, sensor_queue, fused_queue>>
  BY <1>2 DEF Group!groupVars, Backlog
<1>3. CASE SetStop
  <2>1. stop_event' = TRUE /\ UNCHANGED <<at, sensor_queue, fused_queue>>
    BY <1>3 DEF SetStop
  <2>2. Group!SetStop
    BY <2>1 DEF Group!SetStop, Backlog
  <2> QED
    BY <2>2 DEF Group!Next
<1>4. UNCHANGED vars => UNCHANGED <<at, stop_event, sensor_queue, fused_queue>>
  BY DEF vars
<1> QED
  BY <1>1, <1>2, <1>3, <1>4, WorkerSteps
-----------------------------------------------------------------------------
(* What happens to a fused pair.  The results published, the pair in the   *)
(* model, the fused queue and the pair Fusion is putting make one line,    *)
(* the oldest pair first; a pair leaves no place but for the next.         *)
InHand(pair) == IF pair = NoPair THEN <<>> ELSE <<pair>>

Underway == published \o InHand(inferring) \o fused_queue \o InHand(fusing)

\* A worker has a pair in hand only where it hands it on.
EmptyHands == /\ at["Fusion"] # "putting" => fusing = NoPair
              /\ at["ModelAdapter"] # "publishing" => inferring = NoPair

\* In this step, nothing is lost; a pair may be fused.
Keeps == Underway' = Underway \/ \E pair \in Pairs : Underway' = Append(Underway, pair)

LEMMA EmptyHandsStep ==
  ASSUME TypeOK, EmptyHands, [Next]_vars
  PROVE  EmptyHands'
<1> USE DEF EmptyHands
<1>1. CASE Thermal
  BY <1>1 DEF Thermal, Capture, PutSample, PutSampleGivesUp, Leave, Enter, Goto, Repeat, SensorWorker,
              TypeOK, Workers, fusion, model
<1>2. CASE Lidar
  BY <1>2 DEF Lidar, ReadScan, PutSample, PutSampleGivesUp, Leave, Enter, Goto, Repeat, SensorWorker,
              TypeOK, Workers, fusion, model
<1>3. CASE Fusion
  <2>1. CASE BeginFlush \/ CheckFindsNothing \/ PutPair \/ PutPairGivesUp \/ Leave("Fusion")
    BY <2>1 DEF BeginFlush, CheckFindsNothing, PutPair, PutPairGivesUp, Leave, Enter, Goto,
                TypeOK, Workers, fusion, model
  <2>2. CASE CheckFuses
    BY <2>2 DEF CheckFuses, Enter, Goto, TypeOK, Workers, model
  <2>3. CASE FlushQueues
    BY <2>3 DEF FlushQueues, Flush, Goto, TypeOK, Workers, model
  <2> QED
    BY <1>3, <2>1, <2>2, <2>3 DEF Fusion
<1>4. CASE ModelAdapter
  BY <1>4 DEF ModelAdapter, LoadAdapter, GetPair, Publish, PublishReturnsFalse, Leave, Goto, Repeat,
              TypeOK, Workers, fusion, model
<1>5. CASE Communication
  BY <1>5 DEF Communication, TakeResult, StartHeartbeat, EndSending, Leave, Enter, Goto, Repeat,
              TypeOK, Workers, fusion, model
<1>6. CASE Bridge \/ SetStop \/ UNCHANGED vars
  BY <1>6 DEF Bridge, BridgeScans, BridgeWrites, SetStop, vars, fusion, model
<1>7. CASE \E w \in Workers : Raise(w)
  BY <1>7 DEF Raise, Goto, TypeOK, Workers
<1> QED
  BY <1>1, <1>2, <1>3, <1>4, <1>5, <1>6, <1>7 DEF Next

\* Sequences of pairs, put together.
LEMMA Joining ==
  ASSUME NEW p \in Seq(Pairs), NEW q \in Seq(Pairs), NEW x \in Pairs
  PROVE  /\ Append(p, x) \o <<>> \o q = p \o <<x>> \o q
         /\ q # <<>> => p \o <<>> \o q = p \o <<Head(q)>> \o Tail(q)
         /\ p \o Append(q, x) = Append(p \o q, x)
         /\ <<x>> \in Seq(Pairs) /\ <<>> \in Seq(Pairs)
         /\ p \o q \in Seq(Pairs)
         /\ p \o <<x>> = Append(p, x) /\ p \o <<>> = p
<1>1. /\ Append(p, x) \o <<>> \o q = p \o <<x>> \o q
      /\ p \o Append(q, x) = Append(p \o q, x)
      /\ <<x>> \in Seq(Pairs) /\ <<>> \in Seq(Pairs)
      /\ p \o q \in Seq(Pairs)
      /\ p \o <<x>> = Append(p, x) /\ p \o <<>> = p
  OBVIOUS
<1>2. ASSUME q # <<>>
      PROVE  p \o <<>> \o q = p \o <<Head(q)>> \o Tail(q)
  BY <1>2
<1> QED
  BY <1>1, <1>2

LEMMA InHandType ==
  ASSUME NEW pair \in Pairs \cup {NoPair}
  PROVE  InHand(pair) \in Seq(Pairs)
BY DEF InHand

\* The four steps that hand a pair on.
LEMMA CheckFusesKeeps ==
  ASSUME TypeOK, TypeOK', EmptyHands, CheckFuses
  PROVE  Keeps
<1>1. fusing = NoPair /\ UNCHANGED <<published, inferring, fused_queue>>
  BY DEF CheckFuses, EmptyHands, Enter, model
<1>2. fusing' \in Pairs
  <2>1. \A s \in Sensors : Head(sensor_queue[s]) \in Captures(s)
    <3>1. sensor_queue["thermal"] \in Seq(Frames) /\ sensor_queue["lidar"] \in Seq(Scans)
      BY DEF TypeOK
    <3>2. \A s \in Sensors : sensor_queue[s] # <<>>
      BY DEF CheckFuses
    <3> QED
      BY <3>1, <3>2 DEF Captures, Sensors
  <2>2. fusing' = [s \in Sensors |-> Head(sensor_queue[s])]
    BY DEF CheckFuses
  <2> QED
    BY <2>1, <2>2 DEF Captures, Sensors, Pairs
<1>3. fusing' # NoPair
  BY <1>2 DEF Pairs, NoPair, None, Frames
<1> DEFINE q == published \o InHand(inferring) \o fused_queue
<1>4. q \in Seq(Pairs) /\ q' = q
  <2>1. published \in Seq(Pairs) /\ InHand(inferring) \in Seq(Pairs) /\ fused_queue \in Seq(Pairs)
    BY InHandType DEF TypeOK
  <2> QED
    BY <1>1, <2>1
<1>5. Underway = q \o <<>> /\ Underway' = q \o <<fusing'>>
  BY <1>1, <1>3, <1>4 DEF Underway, InHand
<1> HIDE DEF q
<1>6. Underway' = Append(Underway, fusing')
  BY <1>2, <1>4, <1>5, Joining
<1> QED
  BY <1>2, <1>6 DEF Keeps

LEMMA PutPairKeeps ==
  ASSUME TypeOK, Hands, PutPair
  PROVE  Keeps
<1>1. /\ fusing # NoPair /\ fusing' = NoPair /\ UNCHANGED <<published, inferring>>
      /\ fused_queue' = Append(fused_queue, fusing)
  BY DEF PutPair, Hands, model
<1>2. fusing \in Pairs /\ fused_queue \in Seq(Pairs)
  BY <1>1 DEF TypeOK
<1> DEFINE q == published \o InHand(inferring)
<1>3. q \in Seq(Pairs) /\ q' = q
  <2>1. published \in Seq(Pairs) /\ InHand(inferring) \in Seq(Pairs)
    BY InHandType DEF TypeOK
  <2> QED
    BY <1>1, <2>1
<1>4. Underway = q \o fused_queue \o <<fusing>> /\ Underway' = q \o Append(fused_queue, fusing) \o <<>>
  BY <1>1, <1>3 DEF Underway, InHand
<1> HIDE DEF q
<1>5. q \o Append(fused_queue, fusing) = Append(q \o fused_queue, fusing) /\ q \o fused_queue \in Seq(Pairs)
  BY <1>2, <1>3, Joining
<1>6. Append(q \o fused_queue, fusing) = (q \o fused_queue) \o <<fusing>>
  BY <1>2, <1>5
<1>7. Append(q \o fused_queue, fusing) \o <<>> = Append(q \o fused_queue, fusing)
  BY <1>2, <1>5
<1> QED
  BY <1>4, <1>5, <1>6, <1>7 DEF Keeps

LEMMA GetPairKeeps ==
  ASSUME TypeOK, EmptyHands, GetPair, adapter
  PROVE  Keeps
<1>1. /\ inferring = NoPair /\ inferring' = Head(fused_queue) /\ UNCHANGED <<published, fusing>>
      /\ fused_queue # <<>> /\ fused_queue' = Tail(fused_queue)
  BY DEF GetPair, EmptyHands, fusion
<1>2. /\ published \in Seq(Pairs) /\ fused_queue \in Seq(Pairs)
      /\ Head(fused_queue) \in Pairs /\ Tail(fused_queue) \in Seq(Pairs)
  BY <1>1 DEF TypeOK
<1>3. Head(fused_queue) # NoPair
  BY <1>2 DEF Pairs, NoPair, None, Frames
<1>4. InHand(fusing)' = InHand(fusing)
  BY <1>1 DEF InHand
<1>5. /\ Underway = published \o <<>> \o fused_queue \o InHand(fusing)
      /\ Underway' = published \o <<Head(fused_queue)>> \o Tail(fused_queue) \o InHand(fusing)
  BY <1>1, <1>3, <1>4 DEF Underway, InHand
<1>6. published \o <<>> \o fused_queue = published \o <<Head(fused_queue)>> \o Tail(fused_queue)
  BY <1>1, <1>2, Joining
<1> QED
  BY <1>5, <1>6 DEF Keeps

LEMMA PublishKeeps ==
  ASSUME TypeOK, Hands, Publish
  PROVE  Keeps
<1>1. /\ inferring # NoPair /\ inferring' = NoPair /\ UNCHANGED <<fused_queue, fusing>>
      /\ published' = Append(published, inferring)
  BY DEF Publish, Hands, fusion, Mailbox!Send
<1>2. published \in Seq(Pairs) /\ fused_queue \in Seq(Pairs) /\ inferring \in Pairs
  BY <1>1 DEF TypeOK
<1>3. /\ Underway = published \o <<inferring>> \o fused_queue \o InHand(fusing)
      /\ Underway' = Append(published, inferring) \o <<>> \o fused_queue \o InHand(fusing)
  BY <1>1 DEF Underway, InHand
<1>4. Append(published, inferring) \o <<>> \o fused_queue = published \o <<inferring>> \o fused_queue
  BY <1>2, Joining
<1> QED
  BY <1>3, <1>4 DEF Keeps

\* All other steps leave the pairs where they are, unless the client stops.
LEMMA KeepsStep ==
  ASSUME TypeOK, TypeOK', Hands, EmptyHands, [Next]_vars, adapter, ~stop_event'
  PROVE  Keeps
<1>1. UNCHANGED <<published, inferring, fused_queue, fusing>> => Keeps
  BY DEF Keeps, Underway, InHand
<1>2. CASE Thermal \/ Lidar
  BY <1>1, <1>2 DEF Thermal, Lidar, Capture, ReadScan, PutSample, PutSampleGivesUp, Leave, fusion, model
<1>3. CASE Fusion
  <2>1. CASE PutPairGivesUp
    BY <2>1 DEF PutPairGivesUp, PutGivesUp
  <2>2. CASE BeginFlush \/ FlushQueues \/ CheckFindsNothing \/ Leave("Fusion")
    BY <1>1, <2>2 DEF BeginFlush, FlushQueues, Flush, CheckFindsNothing, Leave, fusion, model
  <2> QED
    BY <1>3, <2>1, <2>2, CheckFusesKeeps, PutPairKeeps DEF Fusion
<1>4. CASE ModelAdapter
  <2>1. CASE PublishReturnsFalse
    BY <2>1 DEF PublishReturnsFalse, PublishGivesUp
  <2>2. CASE LoadAdapter \/ Leave("ModelAdapter")
    BY <1>1, <2>2 DEF LoadAdapter, Leave, fusion, model
  <2> QED
    BY <1>4, <2>1, <2>2, GetPairKeeps, PublishKeeps DEF ModelAdapter
<1>5. CASE Communication
  BY <1>1, <1>5 DEF Communication, TakeResult, StartHeartbeat, EndSending, Leave, Mailbox!Receive,
                    fusion, model
<1>6. CASE Bridge \/ UNCHANGED vars
  BY <1>1, <1>6 DEF Bridge, BridgeScans, BridgeWrites, vars, fusion, model
<1>7. ~SetStop /\ \A w \in Workers : ~Raise(w)
  BY DEF SetStop, Raise
<1> QED
  BY <1>2, <1>3, <1>4, <1>5, <1>6, <1>7 DEF Next
-----------------------------------------------------------------------------
(* The inductive invariant: the types, what each worker holds at each      *)
(* place, the one result in the mailbox, the line, and what is stale.      *)
IInv == TypeOK /\ Hands /\ SlotHeld /\ Line /\ FlushedPast /\ StaleAfterFlush

(* The invariant holds throughout every run, whatever the sizes of the     *)
(* queues and of the pipe, the number of checks between flushes, and the   *)
(* place of exceptions and of the stop event in the run.                   *)
THEOREM Invariance == Spec => []IInv
<1>1. Init => IInv
  BY InitTypes, InitLine, InitStale DEF IInv, Init, SlotHeld
<1>2. IInv /\ [Next]_vars => IInv'
  BY StepTypes, SlotStep, LineStep, StaleStep DEF IInv
<1> QED
  BY <1>1, <1>2, PTL DEF Spec

(* No queue of the client outgrows its maxsize, nothing but a capture is   *)
(* put, fused or published, and check_count stays below the flush.         *)
THEOREM Typing == Spec => []TypeOK
<1>1. IInv => TypeOK
  BY DEF IInv
<1> QED
  BY <1>1, Invariance, PTL

(* The results of one run are in the order of their frames and of their    *)
(* scans: flushes that run between two puts, puts that are given up, a     *)
(* bridge that is behind, and failures drop captures, and never reorder    *)
(* or reuse them.                                                          *)
THEOREM Order == Spec => []PublishedInOrder
<1>1. IInv => PublishedInOrder
  <2> SUFFICES ASSUME IInv, NEW i \in 1..Len(published), NEW j \in 1..Len(published), i < j,
                      NEW s \in Sensors
               PROVE  published[i][s] < published[j][s]
    BY DEF PublishedInOrder
  <2>1. PICK c1, c2, c3, c4, c5, c6, c7 \in Nat : InLine(s, c1, c2, c3, c4, c5, c6, c7)
    BY DEF IInv, Line
  <2>2. IncreasingPairs(published, s, 0, c1)
    BY <2>1 DEF InLine
  <2> QED
    BY <2>2 DEF IncreasingPairs
<1> QED
  BY <1>1, Invariance, PTL

(* "cleared stale sensor queues": what is left of the samples captured     *)
(* before a flush, and may be fused with fresh ones later, is bounded by   *)
(* the frame in the thermal worker's hand, and by the scan in the LiDAR    *)
(* worker's hand, those in the pipe and the one the bridge is writing: for *)
(* every size of the queues and the pipe, although producers put while the *)
(* queues are drained, one after the other (fusion_thread.py:49-56).       *)
THEOREM Staleness == Spec => []StaleAfterFlush
<1>1. IInv => StaleAfterFlush
  BY DEF IInv
<1> QED
  BY <1>1, Invariance, PTL

(* The workers keep the promise of their group, for every size of the      *)
(* queues: each touches its own queues only, none before it has started or *)
(* after it has ended, and the last step of each, also when it is an       *)
(* exception or a put that is given up, leaves the stop event set          *)
(* (shared_runtime.py:158-165, 175-186).                                   *)
THEOREM Refinement == Spec => ImplementsGroup
<1>1. IInv /\ [Next]_vars => [Group!Next]_(Group!groupVars)
  BY StepImplements DEF IInv
<1> QED
  BY <1>1, InitGroup, Invariance, PTL DEF Spec, ImplementsGroup, Group!Spec

(* With a model, no fused pair is lost or overtaken before the client is   *)
(* told to stop: a step leaves the pairs that are on their way, published  *)
(* ones included, as they are, or Fusion adds one behind the others; a     *)
(* full queue and a full slot only hold the workers up.                    *)
THEOREM NothingLost == Spec => [][adapter /\ ~stop_event' => Keeps]_vars
<1>1. Init => EmptyHands
  BY DEF Init, EmptyHands
<1>2. TypeOK /\ EmptyHands /\ [Next]_vars => EmptyHands'
  BY EmptyHandsStep
<1>3. /\ TypeOK /\ Hands /\ EmptyHands /\ TypeOK' /\ [Next]_vars
      => [adapter /\ ~stop_event' => Keeps]_vars
  BY KeepsStep
<1>4. IInv => TypeOK /\ Hands
  BY DEF IInv
<1> QED
  BY <1>1, <1>2, <1>3, <1>4, Invariance, PTL DEF Spec

(* Once the event is set, every step of a worker is one of a number of     *)
(* steps that are left: no order of the workers, and no sample, pair or    *)
(* result on its way, makes the shutdown longer.                           *)
THEOREM StopIsNear ==
  Spec => [][stop_event => \/ StepsLeft' < StepsLeft
                           \/ Bridge /\ UNCHANGED StepsLeft]_vars
<1> DEFINE Near == stop_event => \/ StepsLeft' < StepsLeft
                                 \/ Bridge /\ UNCHANGED StepsLeft
<1>1. TypeOK /\ TypeOK' /\ [Next]_vars => [Near]_vars
  <2> SUFFICES ASSUME TypeOK, TypeOK', [Next]_vars, stop_event, vars' # vars
               PROVE  Near
    BY DEF Near
  <2>1. CASE \E w \in Workers, p \in Places : Step(w, p)
    BY <2>1, Nearing
  <2>2. CASE Bridge /\ UNCHANGED <<at, stop_event, sensor_queue, fused_queue>>
    <3>1. UNCHANGED StepsLeft
      BY <2>2 DEF StepsLeft, Queued
    <3> QED
      BY <2>2, <3>1
  <2>3. ~SetStop
    BY DEF SetStop
  <2> QED
    BY <2>1, <2>2, <2>3, WorkerSteps
<1> QED
  BY <1>1, Typing, PTL DEF Spec

(* There are never more of them than four for each worker and one for each *)
(* sample that the sensor queues can hold, and none only when every worker *)
(* has ended.                                                              *)
THEOREM StopIsBounded ==
  Spec => [](/\ StepsLeft \in 0..(20 + 2 * SensorQueueSize)
             /\ StepsLeft = 0 => \A w \in Workers : at[w] = "stopped")
<1> DEFINE Bounded == /\ StepsLeft \in 0..(20 + 2 * SensorQueueSize)
                      /\ StepsLeft = 0 => \A w \in Workers : at[w] = "stopped"
<1>1. TypeOK => Bounded
  <2> SUFFICES ASSUME TypeOK PROVE Bounded
    OBVIOUS
  <2> DEFINE from == [w \in Workers |-> StepsFrom[at[w]]]
  <2>1. \A w \in Workers : at[w] \in Places
    BY DEF TypeOK
  <2>2. \A w \in Workers : from[w] \in 0..4 /\ (from[w] = 0 => at[w] = "stopped")
    <3>1. \A p \in Places : StepsFrom[p] = 0 => p = "stopped"
      BY DEF StepsFrom, Places
    <3> QED
      BY <2>1, <3>1, StepsFromTypes
  <2>3. StepsLeft = from["ThermalSensor"] + from["LidarSensor"] + from["Fusion"]
                    + from["ModelAdapter"] + from["Communication"] + Queued
    BY DEF StepsLeft, Workers
  <2>4. Queued \in Nat /\ Queued <= 2 * SensorQueueSize /\ SensorQueueSize \in Nat
    BY QueuedType, PipelineAssumption DEF PipelineAssumption
  <2> HIDE DEF from
  <2>5. /\ from["ThermalSensor"] \in 0..4 /\ from["LidarSensor"] \in 0..4 /\ from["Fusion"] \in 0..4
        /\ from["ModelAdapter"] \in 0..4 /\ from["Communication"] \in 0..4
    BY <2>2 DEF Workers
  <2>6. StepsLeft \in 0..(20 + 2 * SensorQueueSize)
    BY <2>3, <2>4, <2>5
  <2>7. ASSUME StepsLeft = 0
        PROVE  /\ from["ThermalSensor"] = 0 /\ from["LidarSensor"] = 0 /\ from["Fusion"] = 0
               /\ from["ModelAdapter"] = 0 /\ from["Communication"] = 0
    BY <2>3, <2>4, <2>5, <2>7
  <2> QED
    BY <2>2, <2>6, <2>7 DEF Workers
<1> QED
  BY <1>1, Typing, PTL
=============================================================================
