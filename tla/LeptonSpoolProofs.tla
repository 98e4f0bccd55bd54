------------------------- MODULE LeptonSpoolProofs -------------------------
(***************************************************************************)
(* LeptonSpool: nothing is removed before it is stored, what is stored     *)
(* twice or left over is explained, and pending frames go in order, for    *)
(* any number of frames and of troubles with each; and how far the client  *)
(* is from its next capture.                                               *)
(*                                                                         *)
(* None of this is inductive alone.  Files: which file the frame in hand   *)
(* has, and that captures to come have none.  Counts: where a copy at the  *)
(* server is not yet paid for by a trouble, the file is gone or the        *)
(* process knows.  Stamps: the same for a missing time and for a .part     *)
(* file.  Order: todo is what the directory holds, in the way the loop of  *)
(* retry_pending() relies on.                                              *)
(***************************************************************************)
EXTENDS LeptonSpool, FiniteSetTheorems, WellFoundedInduction, TLAPS

Pending == {n \in Frames : file[n] \in {"y16", "damaged"}}

Files ==
    /\ at \in {"post", "posted", "unlink", "commit", "stamp"} => frame \in Frames
    /\ at \in {"post", "posted", "unlink", "stamp"} => file[frame] = "y16"
    /\ at = "commit" => file[frame] = "part"
    /\ \A n \in Frames : n > captured => file[n] = "none"

\* The client knows, or may know, that the server has stored n.
Delivering(n) == at \in {"posted", "unlink"} /\ frame = n

CopiesOf(n) ==
    /\ copies[n] <= troubles[n] \/ file[n] = "gone" \/ Delivering(n)
    /\ copies[n] <= troubles[n] + 1
    /\ file[n] = "gone" \/ Delivering(n) => copies[n] >= 1
    /\ file[n] \in {"none", "part"} \/ InHand(n) => copies[n] = 0

Counts == \A n \in Frames : CopiesOf(n)

StampOf(n) ==
    /\ file[n] = "part" /\ ~InHand(n) => troubles[n] >= 1
    /\ file[n] \in {"y16", "damaged", "gone"} /\ n \notin stamped =>
          troubles[n] >= 1 \/ (at = "stamp" /\ frame = n)

Stamps == \A n \in Frames : StampOf(n)

Order ==
    /\ at = "retry" => ~fresh /\ todo = Pending
    /\ at \in {"post", "posted", "unlink"} /\ ~fresh =>
          /\ todo = Pending \ {frame}
          /\ \A k \in Pending : frame <= k
    /\ at \in {"commit", "stamp"} => fresh

IInv == TypeOK /\ Files /\ Counts /\ Stamps /\ Order

LEMMA MinIsLeast ==
  ASSUME NEW S \in SUBSET Nat, S # {}
  PROVE  Min(S) \in S /\ \A y \in S : Min(S) <= y
<1> DEFINE R == OpToRel(<, Nat)
<1>1. IsWellFoundedOn(R, Nat)
  BY NatLessThanWellFounded
<1>2. \A x, y \in Nat : x < y => <<x, y>> \in R
  BY DEF OpToRel
<1> HIDE DEF R
<1>3. PICK x \in S : \A y \in S : <<y, x>> \notin R
  BY <1>1, WFMin
<1>4. \A y \in S : x <= y
  <2> SUFFICES ASSUME NEW y \in S PROVE x <= y
    OBVIOUS
  <2>1. x \in Nat /\ y \in Nat
    OBVIOUS
  <2>2. ~(y < x)
    BY <1>2, <1>3, <2>1, Zenon
  <2> QED
    BY <2>1, <2>2
<1> QED
  BY <1>4 DEF Min

LEMMA TroubleCounted ==
  ASSUME TypeOK, NEW n \in Frames, TroubleWith(n)
  PROVE  /\ troubles' \in [Frames -> 0..MaxTroubles]
         /\ troubles'[n] = troubles[n] + 1
         /\ \A k \in Frames : troubles[k] <= troubles'[k] /\ troubles'[k] \in Nat
<1>1. troubles[n] + 1 \in 0..MaxTroubles
  BY SpoolAssumption DEF SpoolAssumption, TypeOK, TroubleWith
<1> QED
  BY <1>1 DEF TypeOK, TroubleWith

\* What a step may do to a frame that does not get another copy.
LEMMA CopiesStay ==
  ASSUME NEW n \in Frames, CopiesOf(n),
         copies[n] \in Nat, troubles[n] \in Nat, troubles'[n] \in Nat,
         troubles[n] <= troubles'[n],
         copies'[n] = copies[n],
         file'[n] = "gone" <=> file[n] = "gone",
         file'[n] \in {"none", "part"} => file[n] \in {"none", "part"},
         InHand(n)' => InHand(n) \/ file[n] \in {"none", "part"},
         Delivering(n)' => Delivering(n),
         Delivering(n) => Delivering(n)' \/ troubles[n] < troubles'[n]
  PROVE  CopiesOf(n)'
<1>1. copies'[n] <= troubles'[n] \/ file'[n] = "gone" \/ Delivering(n)'
  BY DEF CopiesOf
<1>2. copies'[n] <= troubles'[n] + 1
  BY DEF CopiesOf
<1>3. file'[n] = "gone" \/ Delivering(n)' => copies'[n] >= 1
  BY DEF CopiesOf
<1>4. file'[n] \in {"none", "part"} \/ InHand(n)' => copies'[n] = 0
  BY DEF CopiesOf
<1> QED
  BY <1>1, <1>2, <1>3, <1>4 DEF CopiesOf

LEMMA InitIInv == Init => IInv
<1> SUFFICES ASSUME Init PROVE IInv
  OBVIOUS
<1> USE SpoolAssumption DEF SpoolAssumption, Init
<1>1. TypeOK
  <2>1. /\ at \in Places
        /\ frame \in Frames \cup {0}
        /\ todo \subseteq Frames /\ stamped \subseteq Frames
    BY DEF Places
  <2>2. /\ captured \in 0..MaxFrames
        /\ copies \in [Frames -> 0..(MaxTroubles + 1)]
        /\ troubles \in [Frames -> 0..MaxTroubles]
    OBVIOUS
  <2> QED
    BY <2>1, <2>2 DEF TypeOK
<1>2. Files /\ Counts /\ Stamps /\ Order
  BY DEF Files, Counts, CopiesOf, Stamps, StampOf, Order, Delivering, InHand, Frames
<1> QED
  BY <1>1, <1>2 DEF IInv

LEMMA EndsIInv ==
  ASSUME IInv, NEW D, \A n \in D : file[n] = "y16", Ends(D)
  PROVE  IInv'
<1> USE SpoolAssumption DEF SpoolAssumption, IInv, Frames, Delivering, InHand, Pending
<1>1. Disturbed \subseteq Frames
  BY DEF Files, Disturbed
<1>2. \A k \in Frames :
         /\ troubles'[k] = troubles[k] + (IF k \in Disturbed THEN 1 ELSE 0)
         /\ troubles[k] <= troubles'[k]
         /\ troubles'[k] \in 0..MaxTroubles
  <2> SUFFICES ASSUME NEW k \in Frames
               PROVE  /\ troubles'[k] = troubles[k] + (IF k \in Disturbed THEN 1 ELSE 0)
                      /\ troubles[k] <= troubles'[k]
                      /\ troubles'[k] \in 0..MaxTroubles
    OBVIOUS
  <2>1. troubles[k] \in 0..MaxTroubles
    BY DEF TypeOK
  <2>2. troubles'[k] = troubles[k] + (IF k \in Disturbed THEN 1 ELSE 0)
    BY DEF Ends
  <2>3. k \in Disturbed => troubles[k] < MaxTroubles
    BY DEF Ends
  <2> QED
    BY <2>1, <2>2, <2>3
<1>3. troubles' \in [Frames -> 0..MaxTroubles]
  BY <1>2 DEF Ends
<1>4. TypeOK' /\ Files' /\ Order'
  BY <1>3 DEF TypeOK, Files, Order, Places, Ends
<1>5. Counts'
  <2> SUFFICES ASSUME NEW n \in Frames PROVE CopiesOf(n)'
    BY DEF Counts
  <2>1. CopiesOf(n) /\ copies[n] \in Nat /\ troubles[n] \in Nat /\ troubles'[n] \in Nat
    BY <1>2 DEF Counts, TypeOK
  <2>2. CASE n \in Disturbed
    BY <1>2, <2>1, <2>2 DEF CopiesOf, Ends
  <2>3. CASE n \notin Disturbed
    BY <1>2, <2>1, <2>3 DEF CopiesOf, Ends, Disturbed
  <2> QED
    BY <2>2, <2>3
<1>6. Stamps'
  <2> SUFFICES ASSUME NEW n \in Frames PROVE StampOf(n)'
    BY DEF Stamps
  <2>1. StampOf(n) /\ troubles[n] \in Nat /\ troubles'[n] \in Nat
    BY <1>2 DEF Stamps, TypeOK
  <2>2. CASE n \in Disturbed
    BY <1>2, <2>1, <2>2 DEF StampOf
  <2>3. CASE n \notin Disturbed
    <3>1. /\ file[n] = "part" => troubles[n] >= 1
          /\ file[n] \in {"y16", "damaged", "gone"} /\ n \notin stamped => troubles[n] >= 1
      BY <2>1, <2>3 DEF StampOf, Disturbed
    <3>2. file'[n] = file[n] \/ (file[n] = "y16" /\ file'[n] = "damaged")
      BY DEF Ends, TypeOK
    <3> QED
      BY <1>2, <2>1, <3>1, <3>2 DEF StampOf, Ends
  <2> QED
    BY <2>2, <2>3
<1> QED
  BY <1>4, <1>5, <1>6

LEMMA StepIInv == IInv /\ [Next]_vars => IInv'
<1> SUFFICES ASSUME IInv, [Next]_vars
             PROVE  IInv'
  OBVIOUS
<1> USE SpoolAssumption DEF SpoolAssumption, IInv, Frames, Delivering, InHand, Pending
<1>1. CASE Start \/ RetryDone \/ RetryReadsDamaged \/ CaptureFails
  <2> USE <1>1 DEF Start, RetryDone, RetryReadsDamaged, CaptureFails, GoTo
  <2>1. TypeOK'
    BY DEF TypeOK, Places, Files, Counts, CopiesOf
  <2>2. Files'
    BY DEF TypeOK, Files
  <2>3. Counts'
    BY DEF TypeOK, Files, Counts, CopiesOf
  <2>4. Stamps'
    BY DEF TypeOK, Files, Stamps, StampOf
  <2>5. Order'
    BY DEF TypeOK, Files, Order
  <2> QED
    BY <2>1, <2>2, <2>3, <2>4, <2>5
<1>2. CASE BeginCycle
  <2> USE <1>2 DEF BeginCycle
  <2>1. TypeOK'
    BY DEF TypeOK, Places, Files, Counts, CopiesOf
  <2>2. Files'
    BY DEF TypeOK, Files
  <2>3. Counts'
    BY DEF TypeOK, Files, Counts, CopiesOf
  <2>4. Stamps'
    BY DEF TypeOK, Files, Stamps, StampOf
  <2>5. Order'
    BY DEF TypeOK, Files, Order
  <2> QED
    BY <2>1, <2>2, <2>3, <2>4, <2>5
<1>3. CASE RetryNext
  <2> USE <1>3 DEF RetryNext
  <2>0. Min(todo) \in Pending /\ \A k \in Pending : Min(todo) <= k
    <3>1. todo \in SUBSET Nat /\ todo # {} /\ todo = Pending
      BY DEF Order, TypeOK
    <3> QED
      BY <3>1, MinIsLeast
  <2>1. TypeOK'
    BY <2>0 DEF TypeOK, Places, Files, Counts, CopiesOf
  <2>2. Files'
    BY <2>0 DEF TypeOK, Files
  <2>3. Counts'
    BY <2>0 DEF TypeOK, Files, Counts, CopiesOf
  <2>4. Stamps'
    BY <2>0 DEF TypeOK, Files, Stamps, StampOf
  <2>5. Order'
    BY <2>0 DEF TypeOK, Files, Order
  <2> QED
    BY <2>1, <2>2, <2>3, <2>4, <2>5
<1>4. CASE ServerStores
  <2> USE <1>4 DEF ServerStores
  <2>0. /\ copies' \in [Frames -> 0..(MaxTroubles + 1)]
        /\ copies'[frame] = copies[frame] + 1 /\ copies[frame] <= troubles[frame]
        /\ \A k \in Frames \ {frame} : copies'[k] = copies[k]
    <3>1. frame \in Frames /\ copies[frame] <= troubles[frame]
      BY DEF Files, Counts, CopiesOf
    <3>2. copies[frame] + 1 \in 0..(MaxTroubles + 1)
      BY <3>1 DEF TypeOK
    <3> QED
      BY <3>1, <3>2 DEF TypeOK
  <2>1. TypeOK'
    BY <2>0 DEF TypeOK, Places, Files, Counts, CopiesOf
  <2>2. Files'
    BY <2>0 DEF TypeOK, Files
  <2>3. Counts'
    <3> SUFFICES ASSUME NEW n \in Frames PROVE CopiesOf(n)'
      BY DEF Counts
    <3>1. CopiesOf(n) /\ copies[n] \in Nat /\ troubles[n] \in Nat
      BY DEF Counts, TypeOK
    <3>2. CASE n = frame
      <4>1. copies'[n] = copies[n] + 1 /\ copies[n] <= troubles[n] /\ file[n] = "y16"
        BY <2>0, <3>2 DEF Files
      <4> QED
        BY <3>1, <3>2, <4>1 DEF CopiesOf
    <3>3. CASE n # frame
      <4>1. copies'[n] = copies[n]
        BY <2>0, <3>3
      <4> QED
        BY <3>1, <3>3, <4>1, CopiesStay
    <3> QED
      BY <3>2, <3>3
  <2>4. Stamps'
    BY <2>0 DEF TypeOK, Files, Stamps, StampOf
  <2>5. Order'
    BY <2>0 DEF TypeOK, Files, Order
  <2> QED
    BY <2>1, <2>2, <2>3, <2>4, <2>5
<1>5. CASE UploadFails \/ UploadSucceeds
  <2> USE <1>5 DEF UploadFails, UploadSucceeds, AfterFailure, GoTo
  <2>1. TypeOK'
    BY DEF TypeOK, Places, Files, Counts, CopiesOf
  <2>2. Files'
    BY DEF TypeOK, Files
  <2>3. Counts'
    <3> SUFFICES ASSUME NEW n \in Frames PROVE CopiesOf(n)'
      BY DEF Counts
    <3>1. CopiesOf(n) /\ copies[n] \in Nat /\ troubles[n] \in Nat
      BY DEF Counts, TypeOK
    <3>2. /\ troubles'[n] \in Nat /\ troubles[n] <= troubles'[n]
          /\ copies'[n] = copies[n]
      BY <3>1
    <3>3. /\ file'[n] = "gone" <=> file[n] = "gone"
          /\ file'[n] \in {"none", "part"} => file[n] \in {"none", "part"}
      BY DEF TypeOK, Files
    <3>4. InHand(n)' => InHand(n) \/ file[n] \in {"none", "part"}
      BY DEF TypeOK, Files
    <3>5. /\ Delivering(n)' => Delivering(n)
          /\ Delivering(n) => Delivering(n)' \/ troubles[n] < troubles'[n]
      BY DEF TypeOK
    <3> QED
      BY <3>1, <3>2, <3>3, <3>4, <3>5, CopiesStay
  <2>4. Stamps'
    BY DEF TypeOK, Files, Stamps, StampOf
  <2>5. Order'
    BY DEF TypeOK, Files, Order
  <2> QED
    BY <2>1, <2>2, <2>3, <2>4, <2>5
<1>6. CASE AnswerFails
  <2> USE <1>6 DEF AnswerFails, AfterFailure
  <2>0. /\ frame \in Frames /\ file[frame] = "y16"
        /\ at' \in {"wait", "capture"} /\ UNCHANGED <<frame, copies, file>>
        /\ troubles' \in [Frames -> 0..MaxTroubles]
        /\ troubles'[frame] = troubles[frame] + 1
        /\ \A k \in Frames : troubles[k] <= troubles'[k] /\ troubles'[k] \in Nat
    BY TroubleCounted DEF Files
  <2>1. TypeOK'
    BY <2>0 DEF TypeOK, Places, Files, Counts, CopiesOf
  <2>2. Files'
    BY <2>0 DEF TypeOK, Files
  <2>3. Counts'
    <3> SUFFICES ASSUME NEW n \in Frames PROVE CopiesOf(n)'
      BY DEF Counts
    <3>1. CopiesOf(n) /\ copies[n] \in Nat /\ troubles[n] \in Nat
      BY DEF Counts, TypeOK
    <3>2. /\ troubles'[n] \in Nat /\ troubles[n] <= troubles'[n]
          /\ copies'[n] = copies[n]
      BY <3>1, <2>0
    <3>3. /\ file'[n] = "gone" <=> file[n] = "gone"
          /\ file'[n] \in {"none", "part"} => file[n] \in {"none", "part"}
      BY <2>0 DEF TypeOK, Files
    <3>4. InHand(n)' => InHand(n) \/ file[n] \in {"none", "part"}
      BY <2>0 DEF TypeOK, Files
    <3>5. /\ Delivering(n)' => Delivering(n)
          /\ Delivering(n) => Delivering(n)' \/ troubles[n] < troubles'[n]
      BY <2>0, <3>1 DEF TypeOK
    <3> QED
      BY <3>1, <3>2, <3>3, <3>4, <3>5, CopiesStay
  <2>4. Stamps'
    <3> SUFFICES ASSUME NEW n \in Frames PROVE StampOf(n)'
      BY DEF Stamps
    <3>1. /\ StampOf(n) /\ troubles[n] \in Nat /\ troubles'[n] \in Nat
          /\ troubles[n] <= troubles'[n]
      BY <2>0 DEF Stamps, TypeOK
    <3>2. ~InHand(n) /\ ~InHand(n)'
      BY <2>0
    <3> QED
      BY <2>0, <3>1, <3>2 DEF StampOf
  <2>5. Order'
    BY <2>0 DEF TypeOK, Files, Order
  <2> QED
    BY <2>1, <2>2, <2>3, <2>4, <2>5
<1>7. CASE UnlinkFails
  <2> USE <1>7 DEF UnlinkFails, AfterFailure
  <2>0. /\ frame \in Frames /\ file[frame] = "y16"
        /\ at' \in {"wait", "capture"} /\ UNCHANGED <<frame, copies, file>>
        /\ troubles' \in [Frames -> 0..MaxTroubles]
        /\ troubles'[frame] = troubles[frame] + 1
        /\ \A k \in Frames : troubles[k] <= troubles'[k] /\ troubles'[k] \in Nat
    BY TroubleCounted DEF Files
  <2>1. TypeOK'
    BY <2>0 DEF TypeOK, Places, Files, Counts, CopiesOf
  <2>2. Files'
    BY <2>0 DEF TypeOK, Files
  <2>3. Counts'
    <3> SUFFICES ASSUME NEW n \in Frames PROVE CopiesOf(n)'
      BY DEF Counts
    <3>1. CopiesOf(n) /\ copies[n] \in Nat /\ troubles[n] \in Nat
      BY DEF Counts, TypeOK
    <3>2. /\ troubles'[n] \in Nat /\ troubles[n] <= troubles'[n]
          /\ copies'[n] = copies[n]
      BY <3>1, <2>0
    <3>3. /\ file'[n] = "gone" <=> file[n] = "gone"
          /\ file'[n] \in {"none", "part"} => file[n] \in {"none", "part"}
      BY <2>0 DEF TypeOK, Files
    <3>4. InHand(n)' => InHand(n) \/ file[n] \in {"none", "part"}
      BY <2>0 DEF TypeOK, Files
    <3>5. /\ Delivering(n)' => Delivering(n)
          /\ Delivering(n) => Delivering(n)' \/ troubles[n] < troubles'[n]
      BY <2>0, <3>1 DEF TypeOK
    <3> QED
      BY <3>1, <3>2, <3>3, <3>4, <3>5, CopiesStay
  <2>4. Stamps'
    <3> SUFFICES ASSUME NEW n \in Frames PROVE StampOf(n)'
      BY DEF Stamps
    <3>1. /\ StampOf(n) /\ troubles[n] \in Nat /\ troubles'[n] \in Nat
          /\ troubles[n] <= troubles'[n]
      BY <2>0 DEF Stamps, TypeOK
    <3>2. ~InHand(n) /\ ~InHand(n)'
      BY <2>0
    <3> QED
      BY <2>0, <3>1, <3>2 DEF StampOf
  <2>5. Order'
    BY <2>0 DEF TypeOK, Files, Order
  <2> QED
    BY <2>1, <2>2, <2>3, <2>4, <2>5
<1>8. CASE Unlink
  <2> USE <1>8 DEF Unlink
  <2>1. TypeOK'
    BY DEF TypeOK, Places, Files, Counts, CopiesOf
  <2>2. Files'
    BY DEF TypeOK, Files
  <2>3. Counts'
    BY DEF TypeOK, Files, Counts, CopiesOf
  <2>4. Stamps'
    BY DEF TypeOK, Files, Stamps, StampOf
  <2>5. Order'
    BY DEF TypeOK, Files, Order
  <2> QED
    BY <2>1, <2>2, <2>3, <2>4, <2>5
<1>9. CASE CaptureTimesOut
  <2> USE <1>9 DEF CaptureTimesOut, NewFile
  <2>0. /\ captured + 1 \in Frames
        /\ troubles' \in [Frames -> 0..MaxTroubles]
        /\ troubles'[captured + 1] = troubles[captured + 1] + 1
        /\ \A k \in Frames : troubles[k] <= troubles'[k] /\ troubles'[k] \in Nat
    <3>1. captured + 1 \in Frames
      BY DEF TypeOK
    <3> QED
      BY <3>1, TroubleCounted
  <2>1. TypeOK'
    <3>1. captured' \in 0..MaxFrames /\ frame' \in Frames /\ at' \in Places
      BY <2>0 DEF TypeOK, Places
    <3>2. file' \in [Frames -> {"none", "part", "y16", "damaged", "gone"}]
      BY <2>0 DEF TypeOK
    <3> QED
      BY <2>0, <3>1, <3>2 DEF TypeOK
  <2>2. Files'
    BY <2>0 DEF TypeOK, Files
  <2>3. Counts'
    <3> SUFFICES ASSUME NEW n \in Frames PROVE CopiesOf(n)'
      BY DEF Counts
    <3>1. CopiesOf(n) /\ copies[n] \in Nat /\ troubles[n] \in Nat
      BY DEF Counts, TypeOK
    <3>2. /\ troubles'[n] \in Nat /\ troubles[n] <= troubles'[n]
          /\ copies'[n] = copies[n]
      BY <3>1, <2>0
    <3>3. /\ file'[n] = "gone" <=> file[n] = "gone"
          /\ file'[n] \in {"none", "part"} => file[n] \in {"none", "part"}
      BY <2>0 DEF TypeOK, Files
    <3>4. InHand(n)' => InHand(n) \/ file[n] \in {"none", "part"}
      BY <2>0 DEF TypeOK, Files
    <3>5. /\ Delivering(n)' => Delivering(n)
          /\ Delivering(n) => Delivering(n)' \/ troubles[n] < troubles'[n]
      BY <2>0, <3>1 DEF TypeOK
    <3> QED
      BY <3>1, <3>2, <3>3, <3>4, <3>5, CopiesStay
  <2>4. Stamps'
    <3> SUFFICES ASSUME NEW n \in Frames PROVE StampOf(n)'
      BY DEF Stamps
    <3>1. /\ StampOf(n) /\ troubles[n] \in Nat /\ troubles'[n] \in Nat
          /\ troubles[n] <= troubles'[n]
      BY <2>0 DEF Stamps, TypeOK
    <3>2. CASE n = captured + 1
      <4>1. troubles'[n] >= 1
        BY <2>0, <3>1, <3>2
      <4> QED
        BY <4>1 DEF StampOf
    <3>3. CASE n # captured + 1
      <4>1. file'[n] = file[n] /\ stamped' = stamped
        BY <3>3 DEF TypeOK
      <4> QED
        BY <3>1, <4>1 DEF StampOf
    <3> QED
      BY <3>2, <3>3
  <2>5. Order'
    BY <2>0 DEF TypeOK, Files, Order
  <2> QED
    BY <2>1, <2>2, <2>3, <2>4, <2>5
<1>10. CASE CaptureYields
  <2> USE <1>10 DEF CaptureYields, NewFile
  <2>0. captured + 1 \in Frames /\ captured + 1 \in 0..MaxFrames
    BY DEF TypeOK
  <2>1. TypeOK'
    BY <2>0 DEF TypeOK, Places, Files, Counts, CopiesOf
  <2>2. Files'
    BY <2>0 DEF TypeOK, Files
  <2>3. Counts'
    <3> SUFFICES ASSUME NEW n \in Frames PROVE CopiesOf(n)'
      BY DEF Counts
    <3>1. CopiesOf(n) /\ copies[n] \in Nat /\ troubles[n] \in Nat
      BY DEF Counts, TypeOK
    <3>2. /\ troubles'[n] \in Nat /\ troubles[n] <= troubles'[n]
          /\ copies'[n] = copies[n]
      BY <3>1
    <3>3. /\ file'[n] = "gone" <=> file[n] = "gone"
          /\ file'[n] \in {"none", "part"} => file[n] \in {"none", "part"}
      BY <2>0 DEF TypeOK, Files
    <3>4. InHand(n)' => InHand(n) \/ file[n] \in {"none", "part"}
      BY <2>0 DEF TypeOK, Files
    <3>5. /\ Delivering(n)' => Delivering(n)
          /\ Delivering(n) => Delivering(n)' \/ troubles[n] < troubles'[n]
      BY DEF TypeOK
    <3> QED
      BY <3>1, <3>2, <3>3, <3>4, <3>5, CopiesStay
  <2>4. Stamps'
    BY <2>0 DEF TypeOK, Files, Stamps, StampOf
  <2>5. Order'
    BY <2>0 DEF TypeOK, Files, Order
  <2> QED
    BY <2>1, <2>2, <2>3, <2>4, <2>5
<1>11. CASE Replace
  <2> USE <1>11 DEF Replace
  <2>1. TypeOK'
    BY DEF TypeOK, Places, Files, Counts, CopiesOf
  <2>2. Files'
    BY DEF TypeOK, Files
  <2>3. Counts'
    <3> SUFFICES ASSUME NEW n \in Frames PROVE CopiesOf(n)'
      BY DEF Counts
    <3>1. CopiesOf(n) /\ copies[n] \in Nat /\ troubles[n] \in Nat
      BY DEF Counts, TypeOK
    <3>2. /\ troubles'[n] \in Nat /\ troubles[n] <= troubles'[n]
          /\ copies'[n] = copies[n]
      BY <3>1
    <3>3. /\ file'[n] = "gone" <=> file[n] = "gone"
          /\ file'[n] \in {"none", "part"} => file[n] \in {"none", "part"}
      BY DEF TypeOK, Files
    <3>4. InHand(n)' => InHand(n) \/ file[n] \in {"none", "part"}
      BY DEF TypeOK, Files
    <3>5. /\ Delivering(n)' => Delivering(n)
          /\ Delivering(n) => Delivering(n)' \/ troubles[n] < troubles'[n]
      BY DEF TypeOK
    <3> QED
      BY <3>1, <3>2, <3>3, <3>4, <3>5, CopiesStay
  <2>4. Stamps'
    BY DEF TypeOK, Files, Stamps, StampOf
  <2>5. Order'
    BY DEF TypeOK, Files, Order
  <2> QED
    BY <2>1, <2>2, <2>3, <2>4, <2>5
<1>12. CASE SetTime
  <2> USE <1>12 DEF SetTime
  <2>1. TypeOK'
    BY DEF TypeOK, Places, Files, Counts, CopiesOf
  <2>2. Files'
    BY DEF TypeOK, Files
  <2>3. Counts'
    <3> SUFFICES ASSUME NEW n \in Frames PROVE CopiesOf(n)'
      BY DEF Counts
    <3>1. CopiesOf(n) /\ copies[n] \in Nat /\ troubles[n] \in Nat
      BY DEF Counts, TypeOK
    <3>2. /\ troubles'[n] \in Nat /\ troubles[n] <= troubles'[n]
          /\ copies'[n] = copies[n]
      BY <3>1
    <3>3. /\ file'[n] = "gone" <=> file[n] = "gone"
          /\ file'[n] \in {"none", "part"} => file[n] \in {"none", "part"}
      BY DEF TypeOK, Files
    <3>4. InHand(n)' => InHand(n) \/ file[n] \in {"none", "part"}
      BY DEF TypeOK, Files
    <3>5. /\ Delivering(n)' => Delivering(n)
          /\ Delivering(n) => Delivering(n)' \/ troubles[n] < troubles'[n]
      BY DEF TypeOK
    <3> QED
      BY <3>1, <3>2, <3>3, <3>4, <3>5, CopiesStay
  <2>4. Stamps'
    BY DEF TypeOK, Files, Stamps, StampOf
  <2>5. Order'
    BY DEF TypeOK, Files, Order
  <2> QED
    BY <2>1, <2>2, <2>3, <2>4, <2>5
<1>13. CASE SetTimeFails
  <2> USE <1>13 DEF SetTimeFails
  <2>0. /\ frame \in Frames
        /\ troubles' \in [Frames -> 0..MaxTroubles]
        /\ troubles'[frame] = troubles[frame] + 1
        /\ \A k \in Frames : troubles[k] <= troubles'[k] /\ troubles'[k] \in Nat
    BY TroubleCounted DEF Files
  <2>1. TypeOK'
    BY <2>0 DEF TypeOK, Places, Files, Counts, CopiesOf
  <2>2. Files'
    BY <2>0 DEF TypeOK, Files
  <2>3. Counts'
    <3> SUFFICES ASSUME NEW n \in Frames PROVE CopiesOf(n)'
      BY DEF Counts
    <3>1. CopiesOf(n) /\ copies[n] \in Nat /\ troubles[n] \in Nat
      BY DEF Counts, TypeOK
    <3>2. /\ troubles'[n] \in Nat /\ troubles[n] <= troubles'[n]
          /\ copies'[n] = copies[n]
      BY <3>1, <2>0
    <3>3. /\ file'[n] = "gone" <=> file[n] = "gone"
          /\ file'[n] \in {"none", "part"} => file[n] \in {"none", "part"}
      BY <2>0 DEF TypeOK, Files
    <3>4. InHand(n)' => InHand(n) \/ file[n] \in {"none", "part"}
      BY <2>0 DEF TypeOK, Files
    <3>5. /\ Delivering(n)' => Delivering(n)
          /\ Delivering(n) => Delivering(n)' \/ troubles[n] < troubles'[n]
      BY <2>0, <3>1 DEF TypeOK
    <3> QED
      BY <3>1, <3>2, <3>3, <3>4, <3>5, CopiesStay
  <2>4. Stamps'
    <3> SUFFICES ASSUME NEW n \in Frames PROVE StampOf(n)'
      BY DEF Stamps
    <3>1. StampOf(n) /\ troubles[n] \in Nat /\ troubles'[n] \in Nat
      BY <2>0 DEF Stamps, TypeOK
    <3>2. CASE n = frame
      BY <2>0, <3>1, <3>2 DEF StampOf
    <3>3. CASE n # frame
      BY <2>0, <3>1, <3>3 DEF StampOf
    <3> QED
      BY <3>2, <3>3
  <2>5. Order'
    BY <2>0 DEF TypeOK, Files, Order
  <2> QED
    BY <2>1, <2>2, <2>3, <2>4, <2>5
<1>14. CASE Crash \/ PowerFails
  <2> USE <1>14 DEF Crash, PowerFails
  <2>1. CASE Crash
    BY <2>1, EndsIInv
  <2>2. CASE PowerFails
    BY <2>2, EndsIInv
  <2> QED
    BY <2>1, <2>2
<1>15. CASE ServerChanges \/ UNCHANGED vars
  <2> USE <1>15 DEF ServerChanges, vars
  <2>1. TypeOK'
    BY DEF TypeOK, Places, Files, Counts, CopiesOf
  <2>2. Files'
    BY DEF TypeOK, Files
  <2>3. Counts'
    BY DEF TypeOK, Files, Counts, CopiesOf
  <2>4. Stamps'
    BY DEF TypeOK, Files, Stamps, StampOf
  <2>5. Order'
    BY DEF TypeOK, Files, Order
  <2> QED
    BY <2>1, <2>2, <2>3, <2>4, <2>5
<1> QED
  BY <1>1, <1>2, <1>3, <1>4, <1>5, <1>6, <1>7, <1>8, <1>9, <1>10, <1>11, <1>12, <1>13, <1>14, <1>15 DEF Next, Client

(* The invariant holds through crashes, power failures and restarts.       *)
THEOREM Invariance == Spec => []IInv
  BY InitIInv, StepIInv, PTL DEF Spec

(* No frame is removed before the server has stored it, wherever the       *)
(* process ends between the upload and unlink().                           *)
THEOREM Kept == Spec => []KeptUntilStored
<1>1. IInv => KeptUntilStored
  BY DEF IInv, Counts, CopiesOf, KeptUntilStored
<1> QED
  BY <1>1, Invariance, PTL

(* A frame is stored twice, left over or dated wrongly only after a trouble*)
(* with that frame, and no more often than there were troubles.            *)
THEOREM Explained == Spec => []TroubleExplains
<1>1. IInv => TroubleExplains
  BY DEF IInv, TypeOK, Counts, CopiesOf, Stamps, StampOf, Files, InHand, TroubleExplains
<1> QED
  BY <1>1, Invariance, PTL

(* retry_pending() removes no frame before every older one that is pending.*)
THEOREM InOrder == Spec => PendingInOrder
<1> DEFINE A == \A n \in Frames :
          file[n] # "gone" /\ file'[n] = "gone" =>
              fresh \/ \A k \in 1..(n - 1) : file[k] \notin {"y16", "damaged"}
<1>1. IInv /\ [Next]_vars => [A]_vars
  <2> SUFFICES ASSUME IInv, Next, NEW n \in Frames, file[n] # "gone", file'[n] = "gone", ~fresh,
                      NEW k \in 1..(n - 1)
               PROVE  file[k] \notin {"y16", "damaged"}
    OBVIOUS
  <2>1. CASE Unlink
    BY <2>1, SpoolAssumption
    DEF SpoolAssumption, IInv, TypeOK, Files, Order, Unlink, Pending, Frames
  <2>2. CASE ~Unlink
    BY <2>2 DEF IInv, TypeOK, Next, Client, Start, BeginCycle, RetryNext, RetryReadsDamaged,
                RetryDone, ServerStores, UploadFails, UploadSucceeds, AnswerFails, UnlinkFails,
                CaptureFails, CaptureTimesOut, CaptureYields, NewFile, Replace, SetTime,
                SetTimeFails, Crash, PowerFails, Ends, ServerChanges, GoTo
  <2> QED
    BY <2>1, <2>2
<1> QED
  BY <1>1, Invariance, PTL DEF Spec, PendingInOrder

(* Every file has one of its forms, for any number of frames.              *)
THEOREM Typing == Spec => []TypeOK
  BY Invariance, PTL DEF IInv
-----------------------------------------------------------------------------
(* How many steps a client that keeps running makes before its next        *)
(* capture: up to four for each frame that retry_pending() has not tried,  *)
(* and those to the end of the cycle if it is already past its own.        *)
Cycle == 4 * MaxFrames + 2

\* From the frame in hand on.
Rest == IF fresh THEN Cycle ELSE 4 * Cardinality(todo) + 1

Ahead == [capture |-> 0, retry |-> 4 * Cardinality(todo) + 1,
          unlink |-> Rest + 1, posted |-> Rest + 2, post |-> Rest + 3,
          stamp |-> Cycle + 4, commit |-> Cycle + 5, wait |-> Cycle, down |-> Cycle + 1]

CaptureSteps == Ahead[at]

\* What a step does to the way to the next capture.
Nears == /\ (Start \/ Client) /\ ~RetryReadsDamaged => CaptureSteps' < CaptureSteps
         /\ CaptureSteps' > CaptureSteps => RetryReadsDamaged \/ Crash \/ PowerFails

LEMMA SizeOfTodo ==
  ASSUME NEW S \in SUBSET Frames
  PROVE  IsFiniteSet(S) /\ Cardinality(S) \in Nat /\ Cardinality(S) <= MaxFrames
<1>1. MaxFrames \in Int /\ MaxFrames >= 0 /\ 1 \in Int
  BY SpoolAssumption DEF SpoolAssumption
<1>2. IsFiniteSet(1..MaxFrames) /\ Cardinality(1..MaxFrames) <= MaxFrames
  <2>1. /\ IsFiniteSet(1..MaxFrames)
        /\ Cardinality(1..MaxFrames) = IF 1 > MaxFrames THEN 0 ELSE MaxFrames - 1 + 1
    BY <1>1, FS_Interval
  <2> QED
    BY <1>1, <2>1
<1>3. IsFiniteSet(S) /\ Cardinality(S) <= Cardinality(1..MaxFrames)
  BY <1>2, FS_Subset DEF Frames
<1>4. Cardinality(S) \in Nat /\ Cardinality(1..MaxFrames) \in Nat
  BY <1>2, <1>3, FS_CardinalityType
<1> QED
  BY <1>1, <1>2, <1>3, <1>4

LEMMA NearsStep ==
  ASSUME IInv, IInv', [Next]_vars, at # "capture"
  PROVE  Nears
<1> DEFINE n == Cardinality(todo)
           k == Cardinality(todo')
           Nearer == CaptureSteps' < CaptureSteps
<1>1. todo \in SUBSET Frames /\ todo' \in SUBSET Frames
  BY DEF IInv, TypeOK
<1>2. n \in Nat /\ n <= MaxFrames /\ k \in Nat /\ k <= MaxFrames
  BY <1>1, SizeOfTodo
<1>3. Cycle \in Nat /\ 4 * n + 2 <= Cycle /\ 4 * k + 2 <= Cycle
  BY <1>2, SpoolAssumption DEF SpoolAssumption, Cycle
<1>4. /\ Ahead["capture"] = 0 /\ Ahead["retry"] = 4 * n + 1
      /\ Ahead["unlink"] = Rest + 1 /\ Ahead["posted"] = Rest + 2 /\ Ahead["post"] = Rest + 3
      /\ Ahead["stamp"] = Cycle + 4 /\ Ahead["commit"] = Cycle + 5
      /\ Ahead["wait"] = Cycle /\ Ahead["down"] = Cycle + 1
  BY DEF Ahead
<1>5. /\ Ahead'["capture"] = 0 /\ Ahead'["retry"] = 4 * k + 1
      /\ Ahead'["unlink"] = Rest' + 1 /\ Ahead'["posted"] = Rest' + 2 /\ Ahead'["post"] = Rest' + 3
      /\ Ahead'["stamp"] = Cycle + 4 /\ Ahead'["commit"] = Cycle + 5
      /\ Ahead'["wait"] = Cycle /\ Ahead'["down"] = Cycle + 1
  BY DEF Ahead, Cycle
<1>6. /\ Rest = IF fresh THEN Cycle ELSE 4 * n + 1
      /\ Rest' = IF fresh' THEN Cycle ELSE 4 * k + 1
  BY DEF Rest, Cycle
<1>7. CaptureSteps = Ahead[at] /\ CaptureSteps' = Ahead'[at']
  BY DEF CaptureSteps
<1>8. CaptureSteps \in Nat /\ CaptureSteps' \in Nat
  <2>1. Rest \in Nat /\ Rest' \in Nat
    BY <1>2, <1>3, <1>6
  <2>2. at \in Places /\ at' \in Places
    BY DEF IInv, TypeOK
  <2> HIDE DEF n, k
  <2> QED
    BY <1>2, <1>3, <1>4, <1>5, <1>7, <2>1, <2>2 DEF Places
<1> HIDE DEF n, k
<1>9. CASE Start \/ BeginCycle \/ RetryDone
  <2>1. Nearer
    BY <1>2, <1>3, <1>4, <1>5, <1>7, <1>9 DEF Start, BeginCycle, RetryDone, GoTo
  <2> QED
    BY <1>8, <2>1 DEF Nears
<1>10. CASE RetryNext
  <2>1. PICK m \in todo : todo' = todo \ {m}
    <3>1. todo \in SUBSET Nat /\ todo # {}
      BY <1>1, <1>10 DEF Frames, RetryNext
    <3> QED
      BY <1>10, <3>1, MinIsLeast DEF RetryNext
  <2>2. k = n - 1
    BY <1>1, <2>1, SizeOfTodo, FS_RemoveElement DEF n, k
  <2>3. at = "retry" /\ at' = "post" /\ ~fresh /\ ~fresh'
    BY <1>10 DEF RetryNext, IInv, Order
  <2>4. Nearer
    BY <1>2, <1>4, <1>5, <1>6, <1>7, <2>2, <2>3
  <2> QED
    BY <1>8, <2>4 DEF Nears
<1>11. CASE ServerStores \/ UploadSucceeds \/ Unlink
  <2>1. todo' = todo /\ fresh' = fresh
    BY <1>11 DEF ServerStores, UploadSucceeds, Unlink, GoTo
  <2>2. k = n
    BY <2>1 DEF n, k
  <2>3. \/ at = "post" /\ at' = "posted"
        \/ at = "posted" /\ at' = "unlink"
        \/ at = "unlink" /\ at' = (IF fresh THEN "wait" ELSE "retry")
    BY <1>11 DEF ServerStores, UploadSucceeds, Unlink, GoTo
  <2>4. Nearer
    BY <1>2, <1>3, <1>4, <1>5, <1>6, <1>7, <2>1, <2>2, <2>3
  <2> QED
    BY <1>8, <2>4 DEF Nears
<1>12. CASE UploadFails \/ AnswerFails \/ UnlinkFails
  <2>1. at \in {"post", "posted", "unlink"} /\ at' = (IF fresh THEN "wait" ELSE "capture")
    BY <1>12 DEF UploadFails, AnswerFails, UnlinkFails, AfterFailure, GoTo
  <2>2. Nearer
    BY <1>2, <1>3, <1>4, <1>5, <1>6, <1>7, <2>1
  <2> QED
    BY <1>8, <2>2 DEF Nears
<1>13. CASE Replace \/ SetTime \/ SetTimeFails
  <2>1. /\ fresh /\ fresh'
        /\ \/ at = "commit" /\ at' = "stamp"
           \/ at = "stamp" /\ at' \in {"post", "wait"}
    BY <1>13 DEF Replace, SetTime, SetTimeFails, IInv, Order
  <2>2. Nearer
    BY <1>3, <1>4, <1>5, <1>6, <1>7, <2>1
  <2> QED
    BY <1>8, <2>2 DEF Nears
<1>14. CASE CaptureFails \/ CaptureTimesOut \/ CaptureYields
  BY <1>14 DEF CaptureFails, CaptureTimesOut, CaptureYields
<1>15. CASE RetryReadsDamaged
  BY <1>15 DEF Nears
<1>16. CASE ~(Start \/ Client)
  <2>1. CASE ServerChanges \/ UNCHANGED vars
    <3>1. at' = at /\ todo' = todo /\ fresh' = fresh
      BY <2>1 DEF ServerChanges, vars
    <3>2. CaptureSteps' = CaptureSteps
      BY <3>1 DEF CaptureSteps, Ahead, Rest, Cycle
    <3> QED
      BY <1>8, <1>16, <3>2 DEF Nears
  <2> QED
    BY <1>16, <2>1 DEF Nears, Next
<1> QED
  BY <1>9, <1>10, <1>11, <1>12, <1>13, <1>14, <1>15, <1>16 DEF Client

(* Wherever a running client is, each of its steps brings the next capture *)
(* nearer, whether uploads succeed or fail and however many frames are     *)
(* pending; only a damaged file, or an end of the process, can put it off  *)
(* (lepton_sensor_client.py:252-271).                                      *)
THEOREM CaptureIsNear == Spec => [][at # "capture" => Nears]_vars
<1>1. IInv /\ IInv' /\ [Next]_vars => [at # "capture" => Nears]_vars
  BY NearsStep
<1> QED
  BY <1>1, Invariance, PTL DEF Spec

(* It is never further away than four steps for each frame and seven.      *)
THEOREM CaptureIsBounded == Spec => [](CaptureSteps \in 0..(4 * MaxFrames + 7))
<1>1. IInv => CaptureSteps \in 0..(4 * MaxFrames + 7)
  <2> SUFFICES ASSUME IInv PROVE CaptureSteps \in 0..(4 * MaxFrames + 7)
    OBVIOUS
  <2> DEFINE n == Cardinality(todo)
  <2>1. n \in Nat /\ n <= MaxFrames /\ MaxFrames \in Nat
    BY SizeOfTodo, SpoolAssumption DEF SpoolAssumption, IInv, TypeOK
  <2>2. at \in Places
    BY DEF IInv, TypeOK
  <2>3. Rest \in Nat /\ Rest <= 4 * MaxFrames + 2
    BY <2>1 DEF Rest, Cycle
  <2> HIDE DEF n
  <2> QED
    BY <2>1, <2>2, <2>3 DEF Places, CaptureSteps, Ahead, Cycle, n
<1> QED
  BY <1>1, Invariance, PTL
=============================================================================
