--------------------------- MODULE ResultMailbox ---------------------------
(***************************************************************************)
(* sensor-client/shared_runtime.py, class ResultMailbox: the condition     *)
(* variable between the ModelAdapter thread (publish) and the              *)
(* Communication thread (take), and Main, which sets stop_event and then   *)
(* closes the mailbox.                                                     *)
(*                                                                         *)
(* A thread inside publish() or take() holds the condition's lock except   *)
(* while it waits, and each wait lasts 0.25 s at most.  One action is one  *)
(* pass through the method under the lock: from the entry, or from the     *)
(* return of wait(), to the next wait() or to the return.  A pass that     *)
(* ends in wait() changes nothing.  Because every wait times out, a thread *)
(* inside a call may make a pass at any moment; notify_all() only makes it *)
(* sooner.  stop_event is set outside the lock and is read at most once in *)
(* a pass.                                                                 *)
(***************************************************************************)
EXTENDS Naturals, Sequences

CONSTANTS Publishers,      \* threads that call publish()
          Takers,          \* threads that call take()
          Results,         \* inference results
          NoResult,        \* None
          MaxPublished     \* bound on the history: results accepted in one run

ASSUME MailboxAssumption ==
    /\ NoResult \notin Results
    /\ MaxPublished \in Nat

VARIABLES
    value,       \* self._value
    closed,      \* self._closed
    stop_event,  \* the event shared by Main and all workers
    publishing,  \* publishing[p]: the argument of p's publish() call, or NoResult
    taking,      \* taking[t]: "idle", "waiting", or "expired" past its deadline
    published,   \* history: results whose publish() returned True
    taken        \* history: results returned by take()

vars == <<value, closed, stop_event, publishing, taking, published, taken>>

Init == /\ value = NoResult
        /\ closed = FALSE
        /\ stop_event = FALSE
        /\ publishing = [p \in Publishers |-> NoResult]
        /\ taking = [t \in Takers |-> "idle"]
        /\ published = <<>>
        /\ taken = <<>>
-----------------------------------------------------------------------------
(* publish() *)

\* Variant of SlotFree: the wait loop tests nothing, a result overwrites the slot.
SlotFreeAlways == TRUE

SlotFree == value = NoResult

\* Variant of PublishGivesUp: only close() is noticed, and not stop_event.
PublishGivesUpOnClose == closed

\* A pass gives up when it finds the mailbox closed, or the event set.
PublishGivesUp == closed \/ stop_event

\* The ModelAdapter calls publish(r) once the model has answered; the event may
\* have been set meanwhile.
BeginPublish(p, r) ==
    /\ publishing[p] = NoResult
    /\ Len(published) < MaxPublished
    /\ publishing' = [publishing EXCEPT ![p] = r]
    /\ UNCHANGED <<value, closed, stop_event, taking, published, taken>>

PublishStores(p) ==
    /\ publishing[p] # NoResult
    /\ SlotFree
    /\ ~closed
    /\ ~stop_event
    /\ value' = publishing[p]
    /\ published' = Append(published, publishing[p])
    /\ publishing' = [publishing EXCEPT ![p] = NoResult]
    /\ UNCHANGED <<closed, stop_event, taking, taken>>

PublishReturnsFalse(p) ==
    /\ publishing[p] # NoResult
    /\ PublishGivesUp
    /\ publishing' = [publishing EXCEPT ![p] = NoResult]
    /\ UNCHANGED <<value, closed, stop_event, taking, published, taken>>

Publish(p) == PublishStores(p) \/ PublishReturnsFalse(p)
-----------------------------------------------------------------------------
(* take() *)

\* The Communication loop tests stop_event and then calls take(timeout); a timeout
\* of 0 is past its deadline from the start.
BeginTake(t) ==
    /\ taking[t] = "idle"
    /\ \E s \in {"waiting", "expired"} : taking' = [taking EXCEPT ![t] = s]
    /\ UNCHANGED <<value, closed, stop_event, publishing, published, taken>>

DeadlinePasses(t) ==
    /\ taking[t] = "waiting"
    /\ taking' = [taking EXCEPT ![t] = "expired"]
    /\ UNCHANGED <<value, closed, stop_event, publishing, published, taken>>

\* Variant of TakeReturnsResult: the slot is not reset after the read.
TakeReturnsResultKeepsSlot(t) ==
    /\ taking[t] # "idle"
    /\ value # NoResult
    /\ taken' = Append(taken, value)
    /\ taking' = [taking EXCEPT ![t] = "idle"]
    /\ UNCHANGED <<value, closed, stop_event, publishing, published>>

\* Variant of TakeReturnsResult: the deadline is tested before the slot.
TakeReturnsResultInTime(t) ==
    /\ taking[t] # "idle"
    /\ value # NoResult
    /\ IF taking[t] = "expired"
       THEN UNCHANGED <<value, taken>>
       ELSE value' = NoResult /\ taken' = Append(taken, value)
    /\ taking' = [taking EXCEPT ![t] = "idle"]
    /\ UNCHANGED <<closed, stop_event, publishing, published>>

\* The slot is tested before the deadline, the event and the closed flag: a
\* result that is there is returned whatever else is true.
TakeReturnsResult(t) ==
    /\ taking[t] # "idle"
    /\ value # NoResult
    /\ taken' = Append(taken, value)
    /\ value' = NoResult
    /\ taking' = [taking EXCEPT ![t] = "idle"]
    /\ UNCHANGED <<closed, stop_event, publishing, published>>

\* Variant of TakeGivesUp: only the event ends the wait, the deadline never does.
TakeGivesUpOnStop(t) == closed \/ stop_event

TakeGivesUp(t) == closed \/ stop_event \/ taking[t] = "expired"

TakeReturnsNone(t) ==
    /\ taking[t] # "idle"
    /\ value = NoResult
    /\ TakeGivesUp(t)
    /\ taking' = [taking EXCEPT ![t] = "idle"]
    /\ UNCHANGED <<value, closed, stop_event, publishing, published, taken>>

Take(t) == TakeReturnsResult(t) \/ TakeReturnsNone(t)
-----------------------------------------------------------------------------
(* Main, or a worker that failed, sets the event; shutdown() then closes. *)

SetStop == /\ ~stop_event
           /\ stop_event' = TRUE
           /\ UNCHANGED <<value, closed, publishing, taking, published, taken>>

Close == /\ stop_event
         /\ ~closed
         /\ closed' = TRUE
         /\ UNCHANGED <<value, stop_event, publishing, taking, published, taken>>

Next == \/ \E p \in Publishers : Publish(p) \/ \E r \in Results : BeginPublish(p, r)
        \/ \E t \in Takers : BeginTake(t) \/ DeadlinePasses(t) \/ Take(t)
        \/ SetStop
        \/ Close

\* A blocked thread wakes every 0.25 s, the clock advances, and the
\* Communication loop returns to take() as long as stop_event is clear.
\* Nothing makes Main stop, or the model produce another result.
Fairness == /\ \A p \in Publishers : WF_vars(Publish(p))
            /\ \A t \in Takers : /\ WF_vars(Take(t))
                                 /\ WF_vars(~stop_event /\ BeginTake(t))
                                 /\ WF_vars(DeadlinePasses(t))

Spec == Init /\ [][Next]_vars

FairSpec == Spec /\ Fairness
-----------------------------------------------------------------------------
(* Every variable has its type: the slot holds one result or None, and a   *)
(* call in progress holds the argument it was given.                       *)
TypeOK == /\ value \in Results \cup {NoResult}
          /\ closed \in BOOLEAN
          /\ stop_event \in BOOLEAN
          /\ publishing \in [Publishers -> Results \cup {NoResult}]
          /\ taking \in [Takers -> {"idle", "waiting", "expired"}]
          /\ published \in Seq(Results)
          /\ taken \in Seq(Results)

(* What take() has returned is what publish() has accepted, in that order, *)
(* but for the one result still in the slot: no result is overwritten,     *)
(* lost, duplicated or reordered, whatever the interleaving of the calls   *)
(* with their deadlines, the stop event and close().                       *)
HandoffInOrder ==
    published = IF value = NoResult THEN taken ELSE Append(taken, value)

(* The mailbox implements the abstract single-slot handoff.                *)
Handoff == INSTANCE SingleSlotHandoff WITH sent <- published, received <- taken

ImplementsHandoff == Handoff!Spec

(* No call blocks for ever.  publish() returns when the slot is emptied or *)
(* it notices the stop event, also when the Communication thread has left; *)
(* take() at a result, its deadline, the stop event or close().            *)
CallsReturn ==
    /\ \A p \in Publishers : (publishing[p] # NoResult) ~> (publishing[p] = NoResult)
    /\ \A t \in Takers : (taking[t] # "idle") ~> (taking[t] = "idle")

(* A result whose publish() returned True is taken, unless the client is   *)
(* told to stop while it is in the slot.                                   *)
TakenUnlessStopped == value # NoResult ~> (value = NoResult \/ stop_event)
=============================================================================
