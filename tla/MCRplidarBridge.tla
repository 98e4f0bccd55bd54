-------------------------- MODULE MCRplidarBridge --------------------------
(* A pipe of a line and a half, so that the bridge can be blocked before a  *)
(* record and in the middle of it, and a buffer that can hold a whole line  *)
(* beyond the one that is handed out.                                      *)
EXTENDS RplidarBridge
=============================================================================
