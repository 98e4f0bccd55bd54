------------------------- MODULE SingleSlotHandoff -------------------------
(***************************************************************************)
(* What the docstring of ResultMailbox promises the two threads that share *)
(* it: "a lossless, single-slot handoff between adapter and communication" *)
(* (sensor-client/shared_runtime.py:95).  The history of the handoff is    *)
(* kept as two sequences: the results whose publish() call returned True,  *)
(* and the results that take() returned.  A result can be sent only when   *)
(* every earlier one has been received, so nothing is overwritten, lost,   *)
(* duplicated or reordered.                                                *)
(***************************************************************************)
EXTENDS Naturals, Sequences

CONSTANT Results          \* what is handed over

VARIABLES sent,           \* results accepted by the slot, oldest first
          received        \* results taken out of the slot, oldest first

handoffVars == <<sent, received>>

SlotEmpty == Len(sent) = Len(received)

Init == sent = <<>> /\ received = <<>>

Send(r) == /\ SlotEmpty
           /\ sent' = Append(sent, r)
           /\ UNCHANGED received

Receive == /\ ~SlotEmpty
           /\ received' = Append(received, sent[Len(received) + 1])
           /\ UNCHANGED sent

Next == Receive \/ \E r \in Results : Send(r)

Spec == Init /\ [][Next]_handoffVars
=============================================================================
