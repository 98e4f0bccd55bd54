--------------------------- MODULE ResultDelivery ---------------------------
(***************************************************************************)
(* What the Communication thread and the backend achieve together, without *)
(* requests, timeouts and counters: results are offered to the store one   *)
(* after another, the next one only when the one before has been stored.   *)
(* A result may be stored several times, at most MaxCopies times, also     *)
(* late, while or after newer results are stored.  Nothing is skipped.     *)
(***************************************************************************)
EXTENDS Naturals

CONSTANT MaxCopies

VARIABLES taken,    \* number of results offered so far: results are 1, 2, ...
          stored    \* copies stored, as records [result, attempt]

deliveryVars == <<taken, stored>>

StoredOnce(n) == \E e \in stored : e.result = n

Init == taken = 0 /\ stored = {}

Offer == /\ \A n \in 1..taken : StoredOnce(n)
         /\ taken' = taken + 1
         /\ UNCHANGED stored

Store == \E n \in 1..taken, k \in 1..MaxCopies :
            /\ [result |-> n, attempt |-> k] \notin stored
            /\ stored' = stored \cup {[result |-> n, attempt |-> k]}
            /\ UNCHANGED taken

Next == Offer \/ Store

Spec == Init /\ [][Next]_deliveryVars
=============================================================================
