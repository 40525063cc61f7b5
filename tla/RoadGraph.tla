----------------------------- MODULE RoadGraph -----------------------------
(***************************************************************************)
(* The road graph and what the three searches share: the query, the heaps  *)
(* of (priority, counter, node) entries, paths.  Coordinates are reduced   *)
(* to the distances between them.  A heap is a set of entries and entries  *)
(* of equal priority leave it in any order, so the counter is left out.    *)
(***************************************************************************)
EXTENDS Integers, Sequences, FiniteSets

CONSTANTS
    Nodes,
    Crow,         \* haversine_m between two nodes
    Roads,        \* the pairs of nodes that edges may join
    RoadGraphs,   \* the length of the shortest edge for every such pair,
    NoRoad,       \* NoRoad where there is none
    Queries       \* the nodes asked for, once snapped to the graph

ASSUME RoadGraphsAssumption ==
    /\ IsFiniteSet(Nodes)
    /\ Crow \in [Nodes \X Nodes -> Nat]
    /\ Roads \subseteq Nodes \X Nodes
    /\ RoadGraphs \subseteq [Roads -> Nat \cup {NoRoad}]
    /\ NoRoad \notin Nat
    /\ Queries \subseteq Nodes \X Nodes

\* No road is shorter than the straight line (tests/test_heuristic_admissibility.py).
ASSUME CrowAssumption ==
    /\ \A g \in RoadGraphs : \A e \in Roads : g[e] # NoRoad => Crow[e] <= g[e]
    /\ \A u, v, w \in Nodes : Crow[<<u, w>>] <= Crow[<<u, v>>] + Crow[<<v, w>>]
    /\ \A u, v \in Nodes : Crow[<<u, v>>] = Crow[<<v, u>>]
    /\ \A u \in Nodes : Crow[<<u, u>>] = 0

VARIABLES graph, start, goal

query == <<graph, start, goal>>

QueryInit ==
    /\ graph \in RoadGraphs
    /\ \E nodes \in Queries : start = nodes[1] /\ goal = nodes[2]

---------------------------------------------------------------------------
\* The least length among the edges between two nodes (_edge_length_m).
Length(u, v) == graph[<<u, v>>]

\* graph.successors, GraphAdjacency.neighbors
Successors(u) == {v \in Nodes : <<u, v>> \in Roads /\ Length(u, v) # NoRoad}

\* graph.predecessors
Predecessors(u) == {v \in Nodes : <<v, u>> \in Roads /\ Length(v, u) # NoRoad}

Entry(priority, node) == [priority |-> priority, node |-> node]

\* The entries heappop may return.
Least(heap) == {e \in heap : \A other \in heap : e.priority <= other.priority}

\* Mutant: the dict is replaced instead of updated.
OverwriteAll(dict, new) == new

\* dict.update
Overwrite(dict, new) ==
    [k \in DOMAIN dict \cup DOMAIN new |->
        IF k \in DOMAIN new THEN new[k] ELSE dict[k]]

\* new_cost < cost.get(v, inf)
Improves(new_cost, cost, v) == v \in DOMAIN cost => new_cost < cost[v]

\* The nodes met by following came_from from a node, the last one first.
ReconstructPath(came_from, node) ==
    LET Back[n \in 0 .. Cardinality(Nodes)] ==
          IF n = 0 THEN <<node>>
          ELSE LET path == Back[n - 1]
               IN  IF Head(path) \in DOMAIN came_from
                   THEN <<came_from[Head(path)]>> \o path
                   ELSE path
    IN  Back[Cardinality(Nodes)]

\* The lengths of a path's edges, added up.
PathLength(path) ==
    LET Sum[n \in 0 .. Len(path)] ==
          IF n < 2 THEN 0 ELSE Sum[n - 1] + Length(path[n - 1], path[n])
    IN  Sum[Len(path)]

Searching == [status |-> "searching", path |-> <<>>, distance |-> 0]

NoPath == [Searching EXCEPT !.status = "no_path"]

Found(path, distance) == [status |-> "found", path |-> path, distance |-> distance]

===========================================================================
