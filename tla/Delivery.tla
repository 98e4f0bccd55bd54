------------------------------ MODULE Delivery ------------------------------
(***************************************************************************)
(* sensor-client/communication_thread.py: the Communication thread, its    *)
(* POST requests and heartbeats, a network that loses, delays and reorders *)
(* them, and the backend's request threads as far as the client can tell.  *)
(*                                                                         *)
(* A result is its place in the order take() returned it; a request is     *)
(* [result, attempt].  The client gives a request up when it times out or  *)
(* fails, but the request may still reach the backend and be stored, at    *)
(* any later time: the backend has one thread per request.  An answer that *)
(* reports an error, a refused connection and a timeout are one case,      *)
(* RequestFails: all of them go to _record_failure().                      *)
(*                                                                         *)
(* urlopen() and read() raise http.client.IncompleteRead or BadStatusLine  *)
(* when the backend ends in the middle of an answer.  Neither is one of    *)
(* the exceptions of lines 93-96, so they leave run_worker() uncounted:    *)
(* RequestRaises.                                                          *)
(*                                                                         *)
(* Results the backend loses by a restart are outside of this module:      *)
(* `stored' is all it has ever stored.                                     *)
(***************************************************************************)
EXTENDS Naturals

CONSTANTS MaxFailures,   \* server.max_consecutive_failures
          NoEntry,       \* the backend has stored nothing yet
          MaxResults     \* bound: results taken in one run

ASSUME DeliveryAssumption ==
    /\ MaxFailures \in Nat \ {0}
    /\ MaxResults \in Nat

VARIABLES
    at,                    \* place of the thread in run_worker()
    stop_event,
    consecutive_failures,
    taken,                 \* number of results take() has returned
    attempts,              \* requests made for the last of them
    in_flight,             \* POST requests that may yet reach the backend
    stored,                \* requests the backend has stored
    latest                 \* the one it stored last: the status shows its result

vars == <<at, stop_event, consecutive_failures, taken, attempts, in_flight, stored, latest>>

Places == {"loop",       \* the test of stop_event, and take()
           "sending",    \* the test of stop_event in _send_result_until_complete()
           "posting",    \* inside _perform_request() with a result
           "due",        \* the test for a heartbeat
           "beating",    \* inside _perform_request() with a heartbeat
           "stopped",    \* run_worker() has returned
           "failed"}     \* run_worker() has raised

Current == [result |-> taken, attempt |-> attempts]

Init == /\ at = "loop"
        /\ stop_event = FALSE
        /\ consecutive_failures = 0
        /\ taken = 0
        /\ attempts = 0
        /\ in_flight = {}
        /\ stored = {}
        /\ latest = NoEntry

\* The thread goes on to place p and nothing else happens.
GoTo(p) ==
    /\ at' = p
    /\ UNCHANGED <<stop_event, consecutive_failures, taken, attempts, in_flight, stored, latest>>

-----------------------------------------------------------------------------
(* The loop.  A wait between two attempts is time spent at "sending".      *)

TakeResult ==
    /\ at = "loop"
    /\ ~stop_event
    /\ taken < MaxResults
    /\ taken' = taken + 1
    /\ attempts' = 0
    /\ at' = "sending"
    /\ UNCHANGED <<stop_event, consecutive_failures, in_flight, stored, latest>>

TakeNothing == at = "loop" /\ ~stop_event /\ GoTo("due")

LeaveLoop == at = "loop" /\ stop_event /\ GoTo("stopped")

Attempt ==
    /\ at = "sending"
    /\ ~stop_event
    /\ attempts' = attempts + 1
    /\ in_flight' = in_flight \cup {[result |-> taken, attempt |-> attempts + 1]}
    /\ at' = "posting"
    /\ UNCHANGED <<stop_event, consecutive_failures, taken, stored, latest>>

\* The result is dropped; the test at "due" fails too.
GiveUpResult == at = "sending" /\ stop_event /\ GoTo("due")

\* Variant of BeginHeartbeat: every heartbeat counts its own failures.
BeginHeartbeatCountingAnew ==
    /\ at = "due"
    /\ ~stop_event
    /\ at' = "beating"
    /\ consecutive_failures' = 0
    /\ UNCHANGED <<stop_event, taken, attempts, in_flight, stored, latest>>

\* next_heartbeat has passed, or has not.
BeginHeartbeat == at = "due" /\ ~stop_event /\ GoTo("beating")

NoHeartbeat == at = "due" /\ GoTo("loop")

-----------------------------------------------------------------------------
(* _perform_request() *)

\* Variant of Accepted: the status of the answer is not looked at.
AcceptedWhateverTheStatus == TRUE

\* A 2xx answer to the request in hand: the backend has stored it.
Accepted == Current \in stored

Succeed == consecutive_failures' = 0

PostSucceeds ==
    /\ at = "posting"
    /\ Accepted
    /\ at' = "due"
    /\ Succeed
    /\ UNCHANGED <<stop_event, taken, attempts, in_flight, stored, latest>>

HeartbeatSucceeds ==
    /\ at = "beating"
    /\ at' = "loop"
    /\ Succeed
    /\ UNCHANGED <<stop_event, taken, attempts, in_flight, stored, latest>>

\* Variant of LimitReached: one failure too many.
LimitReachedLate(failures) == failures > MaxFailures

LimitReached(failures) == failures >= MaxFailures

\* Variant of AfterFailure: a result that was not accepted is not sent again.
AfterFailureNoRetry == "due"

\* Where the thread is after a request that has failed, if it may go on.
AfterFailure == IF at = "posting" THEN "sending" ELSE "loop"

\* _record_failure(): the counter is shared by results and heartbeats.
RequestFails ==
    /\ at \in {"posting", "beating"}
    /\ consecutive_failures' = consecutive_failures + 1
    /\ at' = IF LimitReached(consecutive_failures + 1) THEN "failed" ELSE AfterFailure
    /\ UNCHANGED <<stop_event, taken, attempts, in_flight, stored, latest>>

\* The answer breaks off: an exception that nothing here catches.
RequestRaises ==
    /\ at = "beating" \/ (at = "posting" /\ Accepted)
    /\ GoTo("failed")

-----------------------------------------------------------------------------
(* The network, the backend, and the other threads.                        *)

\* InferenceStore.add() in the request's own thread.
BackendStores ==
    \E m \in in_flight :
        /\ in_flight' = in_flight \ {m}
        /\ stored' = stored \cup {m}
        /\ latest' = m
        /\ UNCHANGED <<at, stop_event, consecutive_failures, taken, attempts>>

\* The request does not arrive, or is answered with an error.
RequestLost ==
    \E m \in in_flight :
        /\ in_flight' = in_flight \ {m}
        /\ UNCHANGED <<at, stop_event, consecutive_failures, taken, attempts, stored, latest>>

SetStop ==
    /\ ~stop_event
    /\ stop_event' = TRUE
    /\ UNCHANGED <<at, consecutive_failures, taken, attempts, in_flight, stored, latest>>

Worker == \/ TakeResult \/ TakeNothing \/ LeaveLoop \/ Attempt \/ GiveUpResult
          \/ BeginHeartbeat \/ NoHeartbeat
          \/ PostSucceeds \/ HeartbeatSucceeds \/ RequestFails \/ RequestRaises

Next == Worker \/ BackendStores \/ RequestLost \/ SetStop

Spec == Init /\ [][Next]_vars

\* Waits and requests end, by their timeouts, and the clock reaches next_heartbeat
\* again and again.  Nothing is assumed of the network or the backend.
FairSpec == Spec /\ WF_vars(Worker) /\ SF_vars(BeginHeartbeat)
-----------------------------------------------------------------------------
Entries == [result : 1..MaxResults, attempt : 1..MaxFailures]

(* Types; the counter never passes the limit, and a result is not sent     *)
(* more often than the limit allows.                                       *)
TypeOK == /\ at \in Places
          /\ stop_event \in BOOLEAN
          /\ consecutive_failures \in 0..MaxFailures
          /\ taken \in 0..MaxResults
          /\ attempts \in 0..MaxFailures
          /\ in_flight \subseteq Entries
          /\ stored \subseteq Entries
          /\ latest \in stored \cup {NoEntry}

(* The client and the backend implement the abstract delivery: no result   *)
(* is skipped, first copies are stored in order, and a result is stored    *)
(* max_consecutive_failures times at most, although a request that was     *)
(* given up may be stored at any later time (communication_thread.py:62-77).*)
Abstract == INSTANCE ResultDelivery WITH MaxCopies <- MaxFailures

ImplementsDelivery == Abstract!Spec

(* The backend's newest entry can be one of an older result, and the       *)
(* status go back to it, only if that result had been stored before, by    *)
(* another attempt: a late copy brings back an old count, never a new one  *)
(* (communication_thread.py:66-77).                                        *)
StaleOnlyFromRetry ==
    \A e \in stored :
        latest.result < e.result =>
            \E f \in stored : f.result = latest.result /\ f.attempt # latest.attempt

(* A result that take() has returned is stored, or the client is stopping  *)
(* or fails: it is not retried for ever (communication_thread.py:62-77).   *)
TakenIsStoredOrClientEnds ==
    \A n \in 1..MaxResults :
        taken = n ~> (Abstract!StoredOnce(n) \/ stop_event \/ at = "failed")

(* The client does not go on for ever out of touch with the backend, also  *)
(* when there is nothing to send: again and again a request succeeds, or   *)
(* the thread ends (communication_thread.py:56-59, 79-117).                *)
InTouchOrEnded ==
    []<><<PostSucceeds \/ HeartbeatSucceeds>>_vars \/ <>(at \in {"stopped", "failed"})

(* sensor-client/README.md:124: failures are warnings, and the whole       *)
(* client is ended when the limit of consecutive failures is reached.      *)
EndsOnlyAtLimit == at = "failed" => consecutive_failures = MaxFailures
=============================================================================
