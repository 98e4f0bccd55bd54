---------------------------- MODULE LegacySender ----------------------------
(***************************************************************************)
(* sensor-client/raspberry_pi_sensor_client.py: the legacy client that     *)
(* sends the JSON lines of its standard input to the server, one after     *)
(* another, each in a limited number of attempts, and gives up at the      *)
(* first line it cannot deliver.                                           *)
(*                                                                         *)
(* As in the module Delivery, a reading is its place in the input, and a   *)
(* request may be stored long after the client has given it up.            *)
(***************************************************************************)
EXTENDS Naturals

CONSTANTS MaxAttempts,   \* --max-attempts
          MaxReadings    \* bound: lines of the input

ASSUME SenderAssumption == MaxAttempts \in Nat \ {0} /\ MaxReadings \in Nat

VARIABLES
    at,          \* place of the process
    taken,       \* lines read
    attempt,     \* of send(), for the last of them
    in_flight,   \* requests that may yet reach the server
    stored,      \* requests the server has stored
    status       \* exit status, once at = "exited"

vars == <<at, taken, attempt, in_flight, stored, status>>

Places == {"reading",   \* main(): before the next line
           "sending",   \* send(): before an attempt, or its sleep
           "posting",   \* send(): inside urlopen() and read()
           "exited"}

Current == [result |-> taken, attempt |-> attempt]

Init == /\ at = "reading"
        /\ taken = 0
        /\ attempt = 0
        /\ in_flight = {}
        /\ stored = {}
        /\ status = 0

GoTo(p) == at' = p /\ UNCHANGED <<taken, attempt, in_flight, stored, status>>

Exit(s) == at' = "exited" /\ status' = s

ReadLine ==
    /\ at = "reading"
    /\ taken < MaxReadings
    /\ taken' = taken + 1
    /\ attempt' = 1
    /\ at' = "sending"
    /\ UNCHANGED <<in_flight, stored, status>>

\* The line is no JSON object: ValueError.
ReadInvalid ==
    /\ at = "reading"
    /\ Exit(1)
    /\ UNCHANGED <<taken, attempt, in_flight, stored>>

ReadEnd ==
    /\ at = "reading"
    /\ Exit(0)
    /\ UNCHANGED <<taken, attempt, in_flight, stored>>

Post ==
    /\ at = "sending"
    /\ in_flight' = in_flight \cup {Current}
    /\ at' = "posting"
    /\ UNCHANGED <<taken, attempt, stored, status>>

\* Variant of Accepted: an attempt after which nothing was heard counts.
AcceptedWhenSilent == Current \in in_flight \cup stored

Accepted == Current \in stored

SendReturns == at = "posting" /\ Accepted /\ GoTo("reading")

\* The reading is stored, but its answer is no JSON object or breaks off: not retried.
AnswerUnusable ==
    /\ at = "posting"
    /\ Accepted
    /\ Exit(1)
    /\ UNCHANGED <<taken, attempt, in_flight, stored>>

\* A 4xx answer other than 408 and 429: SendError at once.
Rejected ==
    /\ at = "posting"
    /\ Current \in in_flight
    /\ in_flight' = in_flight \ {Current}
    /\ Exit(1)
    /\ UNCHANGED <<taken, attempt, stored>>

\* Variant of LastAttempt: one attempt more than asked for.
LastAttemptLate == attempt > MaxAttempts

LastAttempt == attempt >= MaxAttempts

\* 5xx, 408, 429, no connection, timeout.
AttemptFails ==
    /\ at = "posting"
    /\ IF LastAttempt
       THEN Exit(1) /\ UNCHANGED attempt
       ELSE at' = "sending" /\ attempt' = attempt + 1 /\ UNCHANGED status
    /\ UNCHANGED <<taken, in_flight, stored>>

Interrupt ==
    /\ at # "exited"
    /\ Exit(130)
    /\ UNCHANGED <<taken, attempt, in_flight, stored>>

ServerStores ==
    \E m \in in_flight :
        /\ in_flight' = in_flight \ {m}
        /\ stored' = stored \cup {m}
        /\ UNCHANGED <<at, taken, attempt, status>>

RequestLost ==
    \E m \in in_flight :
        /\ in_flight' = in_flight \ {m}
        /\ UNCHANGED <<at, taken, attempt, stored, status>>

Send == Post \/ SendReturns \/ AnswerUnusable \/ Rejected \/ AttemptFails

Next == Send \/ ReadLine \/ ReadInvalid \/ ReadEnd \/ Interrupt \/ ServerStores \/ RequestLost

Spec == Init /\ [][Next]_vars
-----------------------------------------------------------------------------
(* The readings are delivered in order, none is skipped, and each is       *)
(* stored max_attempts times at most, also when attempts that timed out    *)
(* are stored late (raspberry_pi_sensor_client.py:86-107, 191-195).        *)
Abstract == INSTANCE ResultDelivery WITH MaxCopies <- MaxAttempts

ImplementsDelivery == Abstract!Spec

(* Exit status 0 means that every line read has been stored                *)
(* (raspberry_pi_sensor_client.py:191-202).                                *)
ExitTellsDelivery == at = "exited" /\ status = 0 => \A n \in 1..taken : Abstract!StoredOnce(n)
=============================================================================
