--------------------------- MODULE LocationStatus ---------------------------
(***************************************************************************)
(* backend/app/scoring.py: the congestion score and level of a location    *)
(* and the result they are computed from.                                  *)
(*                                                                         *)
(* A score is a number of tenths of a percent: 350 stands for 35.0.        *)
(* Densities, confidence and the text of the answer are left out.          *)
(***************************************************************************)
EXTENDS Integers, Sequences

MaxScore == 1000

\* Variant of RoundedScores: round() without its second argument, to whole percents.
RoundedScoresToPercent(count, capacity) ==
    LET below == 10 * ((100 * count) \div capacity)
    IN  IF count >= capacity
          THEN {MaxScore}
          ELSE {s \in {below, below + 10} :
                    /\ 2 * (1000 * count - s * capacity) <= 10 * capacity
                    /\ 2 * (s * capacity - 1000 * count) <= 10 * capacity}

\* The values of round(min(count / capacity * 100, 100.0), 1): the nearest tenths.
\* Half-way between two tenths the outcome depends on the binary form of the
\* quotient, so both are possible.
RoundedScores(count, capacity) ==
    LET below == (1000 * count) \div capacity
    IN  IF count >= capacity
          THEN {MaxScore}
          ELSE {s \in {below, below + 1} :
                    /\ 2 * (1000 * count - s * capacity) <= capacity
                    /\ 2 * (s * capacity - 1000 * count) <= capacity}

Level(score) == CASE score < 350 -> "LOW"
                  [] score >= 350 /\ score < 700 -> "MEDIUM"
                  [] score >= 700 -> "HIGH"

\* The level that docs/data-contract.md gives to the ratio itself, moved by shift
\* half-tenths of a percent.
DocumentedLevel(count, capacity, shift) ==
    LET score == 2000 * count + shift * capacity
    IN  CASE score < 700 * capacity -> "LOW"
          [] score >= 700 * capacity /\ score < 1400 * capacity -> "MEDIUM"
          [] score >= 1400 * capacity -> "HIGH"

\* Variant of InWindow: a result as old as the window is skipped.
InWindowStrictly(r, location, start) ==
    /\ r.location_id = location
    /\ r.received_at > start

InWindow(r, location, start) ==
    /\ r.location_id = location
    /\ r.received_at >= start

Candidates(results, location, start) ==
    {i \in DOMAIN results : InWindow(results[i], location, start)}

\* Variant of Latest: the result added last.
LatestAdded(results, location, start) ==
    results[CHOOSE i \in Candidates(results, location, start) :
                \A j \in Candidates(results, location, start) : j <= i]

\* Of the results in the window the first one with the greatest received_at.
\* For a location without candidates it is not evaluated.
Latest(results, location, start) ==
    results[CHOOSE i \in Candidates(results, location, start) :
                \A j \in Candidates(results, location, start) :
                    /\ results[j].received_at <= results[i].received_at
                    /\ results[j].received_at = results[i].received_at => i <= j]
=============================================================================
