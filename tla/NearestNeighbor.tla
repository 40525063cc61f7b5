-------------------------- MODULE NearestNeighbor --------------------------
(***************************************************************************)
(* The greedy baseline: the nearest unvisited stop is next.  It is written *)
(* three times: solve_nearest_neighbor_greedy (/vrp/greedy) fails as soon  *)
(* as one candidate has no road; the two _nearest_neighbor_order functions *)
(* (/vrp/compare, /vrp/compare/advanced) skip such candidates and fail     *)
(* when none is left.                                                      *)
(***************************************************************************)
EXTENDS StopOrders

VARIABLE greedy_order   \* optimized_order

greedyVars == <<greedy_order>>

GreedyInit == greedy_order = <<>>

Current == IF greedy_order = <<>> THEN 0 ELSE Last(greedy_order) + 1

Unvisited == Stops \ Range(greedy_order)

\* _read_distance raises on None; the other two skip the negative entries.
Candidates == {s \in Unvisited : Reachable(Current, s + 1)}

\* Mutant: a missing road back to a stop already visited counts, too.
StuckAnywhere == \E s \in Stops : ~ Reachable(Current, s + 1)

Stuck ==
    IF request.endpoint = "greedy" THEN Candidates # Unvisited
                                   ELSE Candidates = {}

Leg(s) == distance_matrix[<<Current, s + 1>>]

\* The nearest candidate, of equally near ones the first.
Nearest(s) ==
    \A t \in Candidates :
        \/ Leg(s) < Leg(t)
        \/ Leg(s) = Leg(t) /\ s <= t

GreedyPick ==
    /\ Unvisited # {}
    /\ ~ Stuck
    /\ \E s \in Candidates : Nearest(s) /\ greedy_order' = Append(greedy_order, s)

============================================================================
