--------------------- MODULE MCSensorClientApplication ---------------------
(* Three of the five workers, in the order of self.workers, and two queues: *)
(* 1 ModelAdapter, whose model may compute for any time, 2 Fusion, 3 a     *)
(* sensor worker.  Every worker can fail, at any moment.                   *)
EXTENDS SensorClientApplication

MCWriter == [q \in Queues |-> IF q = "fused" THEN 2 ELSE 3]
MCReader == [q \in Queues |-> IF q = "fused" THEN 1 ELSE 2]
=============================================================================
