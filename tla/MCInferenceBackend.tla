------------------------ MODULE MCInferenceBackend ------------------------
(* Two locations with data and one that is not configured.  36 of 103      *)
(* people are 34.951 percent and 9 of 26 are 34.615 percent, both below     *)
(* the limit of LOW by less than a percent.                                *)
EXTENDS InferenceBackend

MCLocations == {"gate", "hall", "yard"}

MCCapacity == ("gate" :> 103) @@ ("hall" :> 26)

MCPayloads ==
    {[node_id |-> "pi1", location_id |-> "gate", people_count |-> 36],
     [node_id |-> "pi2", location_id |-> "hall", people_count |-> 9],
     [node_id |-> "pi2", location_id |-> "hall", people_count |-> -1]}

MCStatusQueries ==
    {[location |-> "gate", window |-> -1], [location |-> "hall", window |-> 2],
     [location |-> "yard", window |-> 2]}

MCRecentQueries ==
    {[location |-> AnyValue, node |-> AnyValue, limit |-> 5],
     [location |-> "hall", node |-> AnyValue, limit |-> 0],
     [location |-> AnyValue, node |-> "pi1", limit |-> 2]}

Symmetry == Permutations(Threads)
=============================================================================
