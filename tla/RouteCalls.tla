----------------------------- MODULE RouteCalls -----------------------------
(***************************************************************************)
(* Who calls the searches: GET /route runs A*, GET /route/compare A* and,  *)
(* if it found a path, bidirectional A* on the same nodes                  *)
(* (routing_service.py); a pair of a distance matrix runs one of the two,  *)
(* a source of a matrix the multi-target search (distance_matrix.py).      *)
(***************************************************************************)
EXTENDS AStar, BidirectionalAStar, MultiTargetDijkstra, FiniteSetsExt

VARIABLE calls   \* the searches still to run, the current one first

vars == <<query, aStarVars, bidirectionalVars, dijkstraVars, calls>>

---------------------------------------------------------------------------
Callers == {<<"astar", "bidirectional_astar">>,   \* compare_routes
            <<"astar">>,                          \* compute_route, _compute_one_pair
            <<"bidirectional_astar">>,            \* _compute_one_pair
            <<"source_dijkstra">>}                \* _build_source_dijkstra_matrix

Init ==
    /\ QueryInit
    /\ AStarInit
    /\ BidirectionalInit
    /\ DijkstraInit
    /\ calls \in Callers
    /\ calls # <<"source_dijkstra">> => remaining_targets = {}
    /\ calls = <<"source_dijkstra">> => goal = start

Running(algorithm) == calls # <<>> /\ Head(calls) = algorithm

RunAStar ==
    /\ Running("astar")
    /\ AStarNext
    /\ UNCHANGED <<query, bidirectionalVars, dijkstraVars, calls>>

\* Without a path the comparison answers 404 at once (routing_service.py:83).
AfterAStar ==
    /\ Running("astar")
    /\ astar.status # "searching"
    /\ calls' = IF astar.status = "found" THEN Tail(calls) ELSE <<>>
    /\ UNCHANGED <<query, aStarVars, bidirectionalVars, dijkstraVars>>

RunBidirectional ==
    /\ Running("bidirectional_astar")
    /\ BidirectionalNext
    /\ UNCHANGED <<query, aStarVars, dijkstraVars, calls>>

RunDijkstra ==
    /\ Running("source_dijkstra")
    /\ DijkstraNext
    /\ UNCHANGED <<query, aStarVars, bidirectionalVars, calls>>

\* The last search has given its answer.
Answered ==
    \/ calls = <<>>
    \/ Running("bidirectional_astar") /\ bidirectional.status # "searching"
    \/ Running("source_dijkstra") /\ dijkstra = "returned"

Rest == Answered /\ UNCHANGED vars

Next == RunAStar \/ AfterAStar \/ RunBidirectional \/ RunDijkstra \/ Rest

Spec == Init /\ [][Next]_vars

---------------------------------------------------------------------------
\* The distances from start to the nodes it reaches, by lengthening paths one
\* edge at a time.
Distances ==
    LET Within[n \in 0 .. Cardinality(Nodes)] ==
          IF n = 0 THEN [v \in {start} |-> 0]
          ELSE LET near == Within[n - 1]
                   In(v) == Predecessors(v) \cap DOMAIN near
               IN  [v \in DOMAIN near \cup UNION {Successors(u) : u \in DOMAIN near} |->
                      Min({near[u] + Length(u, v) : u \in In(v)}
                            \cup {near[w] : w \in {v} \cap DOMAIN near})]
    IN  Within[Cardinality(Nodes)]

\* A search's result is a road of the graph from start to goal and the distance
\* is its length, and no road is shorter; "no path" means that there is none.
IsShortestRoute(result) ==
    IF goal \in DOMAIN Distances
    THEN /\ result.status = "found"
         /\ Head(result.path) = start
         /\ result.path[Len(result.path)] = goal
         /\ \A i \in 1 .. Len(result.path) - 1 :
               result.path[i + 1] \in Successors(result.path[i])
         /\ result.distance = PathLength(result.path)
         /\ result.distance = Distances[goal]
    ELSE result.status = "no_path"

TypeOK ==
    /\ AStarTypeOK
    /\ BidirectionalTypeOK
    /\ remaining_targets \subseteq DOMAIN target_distances
    /\ calls \in Callers \cup {<<>>}

\* A*'s route is a shortest one (a_star.py:125): tests compare a few routes with
\* Dijkstra's.
AStarOptimal == astar.status # "searching" => IsShortestRoute(astar)

\* Bidirectional A* returns a shortest route (bidirectional_a_star.py:282) no
\* matter where the frontiers meet first, hence the same distance as A*.
BidirectionalOptimal ==
    bidirectional.status # "searching" => IsShortestRoute(bidirectional)

\* A matrix source gets every target's exact distance, and None only for the
\* targets no road leads to, although the search stops at the last target
\* (multi_target_dijkstra.py:92).
TargetsExact ==
    \A v \in DOMAIN target_distances :
        /\ v \notin remaining_targets =>
              v \in DOMAIN Distances /\ target_distances[v] = Distances[v]
        /\ dijkstra = "returned" /\ v \in remaining_targets =>
              target_distances[v] = Unreached /\ v \notin DOMAIN Distances

===========================================================================
