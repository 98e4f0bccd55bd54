-------------------------- MODULE MCResultMailbox --------------------------
(* The mailbox of sensor_client.py has one publisher and one taker; the    *)
(* class promises the same to several, so two of each are checked.         *)
EXTENDS ResultMailbox
=============================================================================
