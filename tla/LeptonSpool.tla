---------------------------- MODULE LeptonSpool ----------------------------
(***************************************************************************)
(* sensor-client/lepton_sensor_client.py: the legacy client that stores    *)
(* every frame in a directory, uploads it, and removes it.  The process    *)
(* may end at any step, by Ctrl+C or a crash, and be started again; what   *)
(* is in the directory is all that it knows then.                          *)
(*                                                                         *)
(* A frame is the number of its capture: file names sort in that order.    *)
(* A power failure can leave a renamed file with a wrong size (nothing     *)
(* calls fsync): read_y16_frame() raises CaptureError for it, which is not *)
(* one of the exceptions retry_pending() catches.                          *)
(*                                                                         *)
(* The server is an adversary that accepts or does not accept; a request   *)
(* it stores only after the client has given up is left out (the module    *)
(* Delivery has those).                                                    *)
(***************************************************************************)
EXTENDS Naturals, FiniteSetsExt

CONSTANTS MaxFrames,    \* bound: frames captured
          MaxTroubles   \* bound: troubles with one frame

ASSUME SpoolAssumption == MaxFrames \in Nat /\ MaxTroubles \in Nat

VARIABLES
    at,          \* place of the process
    frame,       \* the frame in hand
    fresh,       \* it is the one this cycle has captured
    todo,        \* frames of sorted(glob("*.y16")) not yet tried
    captured,    \* number of captures that made a file
    file,        \* what the directory has of each frame
    stamped,     \* frames whose mtime is captured_at
    accepting,   \* the server answers 2xx
    copies,      \* how often the server has stored each frame
    troubles     \* history: what went wrong with each frame

vars == <<at, frame, fresh, todo, captured, file, stamped, accepting, copies, troubles>>

Frames == 1..MaxFrames

Places == {"down",      \* no process
           "wait",      \* run_forever(): between two cycles
           "retry",     \* retry_pending(): before a frame of the list
           "post",      \* upload(): the request is on its way
           "posted",    \* upload(): the server has stored it
           "unlink",    \* deliver(): after upload()
           "capture",   \* capture_once(): v4l2-ctl runs
           "commit",    \* capture_once(): before replace()
           "stamp"}     \* capture_once(): between replace() and utime()

Init == /\ at = "down"
        /\ frame = 0
        /\ fresh = FALSE
        /\ todo = {}
        /\ captured = 0
        /\ file = [n \in Frames |-> "none"]
        /\ stamped = {}
        /\ accepting \in BOOLEAN
        /\ copies = [n \in Frames |-> 0]
        /\ troubles = [n \in Frames |-> 0]

\* The process goes on at place p and nothing else happens.
GoTo(p) ==
    /\ at' = p
    /\ UNCHANGED <<frame, fresh, todo, captured, file, stamped, accepting, copies, troubles>>

TroubleWith(n) ==
    /\ troubles[n] < MaxTroubles
    /\ troubles' = [troubles EXCEPT ![n] = @ + 1]

-----------------------------------------------------------------------------
(* run_forever() and retry_pending() *)

Start == at = "down" /\ GoTo("wait")

\* Variant of BeginCycle: only the newest frame is tried again.
BeginCycleNewestOnly ==
    /\ at = "wait"
    /\ at' = "retry"
    /\ todo' = {n \in Frames : n = captured /\ file[n] \in {"y16", "damaged"}}
    /\ fresh' = FALSE
    /\ UNCHANGED <<frame, captured, file, stamped, accepting, copies, troubles>>

BeginCycle ==
    /\ at = "wait"
    /\ at' = "retry"
    /\ todo' = {n \in Frames : file[n] \in {"y16", "damaged"}}
    /\ fresh' = FALSE
    /\ UNCHANGED <<frame, captured, file, stamped, accepting, copies, troubles>>

RetryNext ==
    /\ at = "retry"
    /\ todo # {}
    /\ file[Min(todo)] = "y16"
    /\ frame' = Min(todo)
    /\ todo' = todo \ {Min(todo)}
    /\ at' = "post"
    /\ UNCHANGED <<fresh, captured, file, stamped, accepting, copies, troubles>>

\* CaptureError leaves retry_pending() and run_cycle(): the cycle is over.
RetryReadsDamaged ==
    /\ at = "retry"
    /\ todo # {}
    /\ file[Min(todo)] = "damaged"
    /\ GoTo("wait")

RetryDone == at = "retry" /\ todo = {} /\ GoTo("capture")

-----------------------------------------------------------------------------
(* upload() and deliver() *)

\* Variant of AfterFailure: retry_pending() goes on with the next frame.
AfterFailureContinue == IF fresh THEN "wait" ELSE "retry"

\* Variant of AfterFailure: retry_pending() does not catch UploadError.
AfterFailureUncaught == "wait"

\* run_cycle() lets the error of its own frame through; retry_pending() stops.
AfterFailure == IF fresh THEN "wait" ELSE "capture"

ServerStores ==
    /\ at = "post"
    /\ accepting
    /\ copies' = [copies EXCEPT ![frame] = @ + 1]
    /\ at' = "posted"
    /\ UNCHANGED <<frame, fresh, todo, captured, file, stamped, accepting, troubles>>

\* Not reached, timed out, or answered with an error.
UploadFails == at = "post" /\ ~accepting /\ GoTo(AfterFailure)

\* Variant of UploadSucceeds: the status is not looked at.
UploadSucceedsAnyStatus == at \in {"post", "posted"} /\ GoTo("unlink")

UploadSucceeds == at = "posted" /\ GoTo("unlink")

\* The answer is lost, late or no JSON object.
AnswerFails ==
    /\ at = "posted"
    /\ TroubleWith(frame)
    /\ at' = AfterFailure
    /\ UNCHANGED <<frame, fresh, todo, captured, file, stamped, accepting, copies>>

\* Variant of Unlink: a frame that was pending is left to the next cycle.
UnlinkFreshOnly ==
    /\ at = "unlink"
    /\ file' = IF fresh THEN [file EXCEPT ![frame] = "gone"] ELSE file
    /\ at' = IF fresh THEN "wait" ELSE "retry"
    /\ UNCHANGED <<frame, fresh, todo, captured, stamped, accepting, copies, troubles>>

Unlink ==
    /\ at = "unlink"
    /\ file' = [file EXCEPT ![frame] = "gone"]
    /\ at' = IF fresh THEN "wait" ELSE "retry"
    /\ UNCHANGED <<frame, fresh, todo, captured, stamped, accepting, copies, troubles>>

UnlinkFails ==
    /\ at = "unlink"
    /\ TroubleWith(frame)
    /\ at' = AfterFailure
    /\ UNCHANGED <<frame, fresh, todo, captured, file, stamped, accepting, copies>>

-----------------------------------------------------------------------------
(* capture_once() *)

\* v4l2-ctl cannot run, fails, or writes a file that has a wrong size or cannot
\* be renamed: it is removed.
CaptureFails == at = "capture" /\ GoTo("wait")

NewFile(n, p) ==
    /\ captured < MaxFrames
    /\ captured' = captured + 1
    /\ file' = [file EXCEPT ![captured + 1] = "part"]
    /\ frame' = n
    /\ at' = p
    /\ UNCHANGED <<todo, stamped, accepting, copies>>

\* TimeoutExpired leaves before the try statement that removes the file.
CaptureTimesOut ==
    /\ at = "capture"
    /\ NewFile(captured + 1, "wait")
    /\ TroubleWith(captured + 1)
    /\ UNCHANGED fresh

CaptureYields ==
    /\ at = "capture"
    /\ NewFile(captured + 1, "commit")
    /\ fresh' = TRUE
    /\ UNCHANGED troubles

Replace ==
    /\ at = "commit"
    /\ file' = [file EXCEPT ![frame] = "y16"]
    /\ at' = "stamp"
    /\ UNCHANGED <<frame, fresh, todo, captured, stamped, accepting, copies, troubles>>

SetTime ==
    /\ at = "stamp"
    /\ stamped' = stamped \cup {frame}
    /\ at' = "post"
    /\ UNCHANGED <<frame, fresh, todo, captured, file, accepting, copies, troubles>>

\* utime() raises: the frame stays, with the time of its last write.
SetTimeFails ==
    /\ at = "stamp"
    /\ TroubleWith(frame)
    /\ at' = "wait"
    /\ UNCHANGED <<frame, fresh, todo, captured, file, stamped, accepting, copies>>

-----------------------------------------------------------------------------
(* Ends of the process, and the server. *)

\* The frame for which an end of the process makes a difference: to the
\* directory, or to what the next process thinks the server has.
Disturbed == IF at \in {"posted", "unlink", "commit", "stamp"} THEN {frame} ELSE {}

\* The process ends and leaves the directory as it is but for the damaged files.
Ends(damaged) ==
    /\ at # "down"
    /\ at' = "down"
    /\ todo' = {}
    /\ \A n \in Disturbed : troubles[n] < MaxTroubles
    /\ troubles' = [n \in Frames |-> troubles[n] + (IF n \in Disturbed THEN 1 ELSE 0)]
    /\ file' = [n \in Frames |-> IF n \in damaged THEN "damaged" ELSE file[n]]
    /\ UNCHANGED <<frame, fresh, captured, stamped, accepting, copies>>

\* Ctrl+C, a kill, an exception nobody catches: no handler touches a file.
Crash == Ends({})

\* A file that was renamed has no content after a power failure.
PowerFails == \E n \in Frames : file[n] = "y16" /\ Ends({n})

ServerChanges ==
    /\ accepting' = ~accepting
    /\ UNCHANGED <<at, frame, fresh, todo, captured, file, stamped, copies, troubles>>

Client == \/ BeginCycle \/ RetryNext \/ RetryReadsDamaged \/ RetryDone
          \/ ServerStores \/ UploadFails \/ UploadSucceeds \/ AnswerFails
          \/ Unlink \/ UnlinkFails
          \/ CaptureFails \/ CaptureTimesOut \/ CaptureYields
          \/ Replace \/ SetTime \/ SetTimeFails

Next == Start \/ Client \/ Crash \/ PowerFails \/ ServerChanges

Spec == Init /\ [][Next]_vars

\* Captures and requests end by their timeouts, and the sleep between cycles ends.
\* Nobody promises to start the process again.
FairSpec == Spec /\ WF_vars(Client)
-----------------------------------------------------------------------------
(* Types; at most one request per frame beyond the troubles it has had.    *)
TypeOK == /\ at \in Places
          /\ frame \in Frames \cup {0}
          /\ fresh \in BOOLEAN
          /\ todo \subseteq Frames
          /\ captured \in 0..MaxFrames
          /\ file \in [Frames -> {"none", "part", "y16", "damaged", "gone"}]
          /\ stamped \subseteq Frames
          /\ accepting \in BOOLEAN
          /\ copies \in [Frames -> 0..(MaxTroubles + 1)]
          /\ troubles \in [Frames -> 0..MaxTroubles]

(* A frame is removed from the directory only after the server has stored  *)
(* it, wherever the process ends and however often it is started again     *)
(* (lepton_sensor_client.py:247-250).                                      *)
KeptUntilStored == \A n \in Frames : file[n] = "gone" => copies[n] >= 1

\* capture_once() is at work on the file of n.
InHand(n) == at \in {"commit", "stamp"} /\ frame = n

(* What is stored twice, left over as .part, or has the time of the file   *)
(* system instead of that of the capture is explained by an error or an    *)
(* end of the process while just that frame was in hand, one for each      *)
(* extra copy (lepton_sensor_client.py:129-168, 247-261).                  *)
TroubleExplains ==
    \A n \in Frames :
        /\ copies[n] <= 1 + troubles[n]
        /\ file[n] = "part" /\ ~InHand(n) => troubles[n] >= 1
        /\ copies[n] >= 1 /\ n \notin stamped => troubles[n] >= 1

(* Pending frames reach the server in the order of their capture; only a   *)
(* frame just captured may overtake older ones (retry_pending(), run_cycle(), *)
(* lepton_sensor_client.py:252-271).                                       *)
PendingInOrder ==
    [][\A n \in Frames :
          file[n] # "gone" /\ file'[n] = "gone" =>
              fresh \/ \A k \in 1..(n - 1) : file[k] \notin {"y16", "damaged"}]_vars

(* Whatever the server does, a client that keeps running captures again    *)
(* and again, unless a damaged file is in its directory: no failed upload  *)
(* of an old frame keeps it from new ones (lepton_sensor_client.py:258-265).*)
CapturesGoOn ==
    []<>(at = "capture") \/ []<>(at = "down") \/ <>(\E n \in Frames : file[n] = "damaged")

(* When the server accepts at last and the process stays up, every frame   *)
(* left by earlier cycles and earlier processes is delivered and removed:  *)
(* a finite number of lost answers and failed unlink() calls only delays   *)
(* it (lepton_sensor_client.py:252-271).                                   *)
SpoolDrains ==
    <>[](accepting /\ at # "down" /\ \A n \in Frames : file[n] # "damaged") =>
        \A n \in Frames : file[n] = "y16" ~> file[n] = "gone"
=============================================================================
