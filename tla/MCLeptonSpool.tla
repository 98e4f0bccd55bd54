--------------------------- MODULE MCLeptonSpool ---------------------------
(* Three frames, so that two can be pending while a third is captured, and *)
(* one or two troubles with each of them.                                  *)
EXTENDS LeptonSpool
=============================================================================
