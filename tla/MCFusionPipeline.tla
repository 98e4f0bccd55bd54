-------------------------- MODULE MCFusionPipeline --------------------------
(* Queues of two samples and one pair, a pipe of one scan, and enough       *)
(* captures to fill each of them and to flush once.                         *)
EXTENDS FusionPipeline
=============================================================================
