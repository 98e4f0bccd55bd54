---------------------------- MODULE MCDelivery ----------------------------
(* Three results and a limit of three failures: a result can be stored by   *)
(* its last attempt after two that were given up, and late copies of one    *)
(* result can meet two newer ones.                                         *)
EXTENDS Delivery
=============================================================================
