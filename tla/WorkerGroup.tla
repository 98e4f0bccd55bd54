---------------------------- MODULE WorkerGroup ----------------------------
(***************************************************************************)
(* What the threads of the sensor client promise each other, whatever each *)
(* of them does: a worker touches only its own queues, and only while it   *)
(* is alive; and the last step of every worker, be it a return or an       *)
(* exception, leaves the shared stop event set.  Queues are emptied from   *)
(* outside only after the event.  The two views of the client, that of     *)
(* Main (SensorClientApplication) and that of the data (FusionPipeline),   *)
(* both keep this promise.                                                 *)
(***************************************************************************)
CONSTANTS Workers,
          Queues,
          Writer, Reader   \* the worker that puts into, and takes from, a queue

VARIABLES alive,           \* the workers whose threads have not ended
          stop_event,
          backlog          \* the queues that are not empty

groupVars == <<alive, stop_event, backlog>>

Init == /\ alive = Workers
        /\ stop_event = FALSE
        /\ backlog = {}

\* What a step of w may do to the queues.
Exchange(w) == /\ backlog' \in SUBSET Queues
               /\ \A q \in backlog' \ backlog : Writer[q] = w
               /\ \A q \in backlog \ backlog' : Reader[q] = w

Work(w) == /\ w \in alive
           /\ Exchange(w)
           /\ UNCHANGED <<alive, stop_event>>

\* A worker returns because it has seen the event, or fails and sets it.
End(w) == /\ w \in alive
          /\ alive' = alive \ {w}
          /\ stop_event' = TRUE
          /\ Exchange(w)

SetStop == /\ stop_event' = TRUE
           /\ UNCHANGED <<alive, backlog>>

Drain == /\ stop_event
         /\ backlog' = {}
         /\ UNCHANGED <<alive, stop_event>>

Next == \/ \E w \in Workers : Work(w) \/ End(w)
        \/ SetStop
        \/ Drain

Spec == Init /\ [][Next]_groupVars
=============================================================================
