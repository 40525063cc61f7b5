------------------------- MODULE LargeNeighborhood -------------------------
(***************************************************************************)
(* large_neighborhood_search (app/core/lns.py): one action per destroyed   *)
(* route, per reinserted stop and per verdict.  The random choices are     *)
(* nondeterministic; orders hold matrix indices.                           *)
(***************************************************************************)
EXTENDS StopOrders

VARIABLES
    best_order, lns_distance,          \* best_order and best_distance of lns.py
    repaired, removed_stops,           \* the route under repair
    iterations_run, no_improvement_count,
    lns                                \* "destroy", "repair" or "returned"

lnsVars == <<best_order, lns_distance, repaired, removed_stops,
             iterations_run, no_improvement_count, lns>>

LnsIdle ==
    /\ best_order = <<>> /\ repaired = <<>> /\ removed_stops = <<>>
    /\ lns_distance = 0
    /\ iterations_run = 0 /\ no_improvement_count = 0
    /\ lns = "destroy"

LnsStart(order) ==
    /\ best_order' = order
    /\ lns_distance' = RouteDistance(order)
    /\ repaired' = <<>> /\ removed_stops' = <<>>
    /\ iterations_run' = 0 /\ no_improvement_count' = 0
    /\ lns' = "destroy"

\* max(1, int(len(best_order) * destroy_fraction))
RemoveCount ==
    LET share == (stop_count * request.destroy_percent) \div 100
    IN  IF share = 0 THEN 1 ELSE share

\* rng.sample, pop and rng.shuffle: the positions that stay, in their order, and
\* the removed ones in any order.
Destroy ==
    /\ lns = "destroy"
    /\ \E keep \in [1 .. stop_count - RemoveCount -> 1 .. stop_count],
          drop \in [1 .. RemoveCount -> 1 .. stop_count] :
          /\ \A k, l \in DOMAIN keep : k < l => keep[k] < keep[l]
          /\ Range(keep) \cup Range(drop) = 1 .. stop_count
          /\ repaired' = [k \in DOMAIN keep |-> best_order[keep[k]]]
          /\ removed_stops' = [k \in DOMAIN drop |-> best_order[drop[k]]]
    /\ iterations_run' = iterations_run + 1
    /\ lns' = "repair"
    /\ UNCHANGED <<best_order, lns_distance, no_improvement_count>>

DistanceAt(position) == RouteDistance(InsertAt(repaired, position, Head(removed_stops)))

OpenPositions ==
    {position \in 1 .. Len(repaired) + 1 : DistanceAt(position) # UNREACHABLE_DISTANCE}

\* best_position: the first of the cheapest, and the front if none can be driven.
BestPosition(position) ==
    IF OpenPositions = {}
    THEN position = 1
    ELSE /\ position \in OpenPositions
         /\ \A other \in OpenPositions :
               \/ DistanceAt(position) < DistanceAt(other)
               \/ DistanceAt(position) = DistanceAt(other) /\ position <= other

InsertStop ==
    /\ lns = "repair"
    /\ removed_stops # <<>>
    /\ \E position \in 1 .. Len(repaired) + 1 :
          /\ BestPosition(position)
          /\ repaired' = InsertAt(repaired, position, Head(removed_stops))
    /\ removed_stops' = Tail(removed_stops)
    /\ UNCHANGED <<best_order, lns_distance, iterations_run, no_improvement_count, lns>>

\* Mutant: any route that can be driven is accepted.
AnyRoute == RouteDistance(repaired) # UNREACHABLE_DISTANCE

Improved ==
    /\ RouteDistance(repaired) # UNREACHABLE_DISTANCE
    /\ RouteDistance(repaired) < lns_distance

Judge ==
    /\ lns = "repair"
    /\ removed_stops = <<>>
    /\ best_order' = IF Improved THEN repaired ELSE best_order
    /\ lns_distance' = IF Improved THEN RouteDistance(repaired) ELSE lns_distance
    /\ no_improvement_count' = IF Improved THEN 0 ELSE no_improvement_count + 1
    /\ lns' = IF \/ no_improvement_count' >= request.no_improvement_limit
                 \/ iterations_run = request.lns_max_iterations
              THEN "returned" ELSE "destroy"
    /\ UNCHANGED <<repaired, removed_stops, iterations_run>>

LnsNext == Destroy \/ InsertStop \/ Judge

============================================================================
