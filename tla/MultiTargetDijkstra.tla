------------------------ MODULE MultiTargetDijkstra ------------------------
(***************************************************************************)
(* multi_target_dijkstra (app/core/multi_target_dijkstra.py) from start to *)
(* a set of targets; it stops when the last target is settled.  Edge       *)
(* lengths are never negative here, so the ValueError is left out.         *)
(***************************************************************************)
EXTENDS RoadGraph

CONSTANT Unreached   \* None in target_distances

ASSUME UnreachedAssumption == Unreached \notin Nat

VARIABLES
    dijkstra_heap, distances, finalized,
    remaining_targets, target_distances,
    dijkstra             \* "searching" or "returned"

dijkstraVars == <<dijkstra_heap, distances, finalized, remaining_targets,
                  target_distances, dijkstra>>

DijkstraInit ==
    /\ dijkstra_heap = {Entry(0, start)}
    /\ distances = [v \in {start} |-> 0]
    /\ finalized = {}
    /\ \E targets \in SUBSET Nodes :
          /\ remaining_targets = targets
          /\ target_distances = [v \in targets |-> Unreached]
    /\ dijkstra = "searching"

\* while heap and remaining_targets
DijkstraHead(entry) ==
    /\ dijkstra = "searching"
    /\ remaining_targets # {}
    /\ entry \in Least(dijkstra_heap)

DijkstraSkip ==
    \E entry \in dijkstra_heap :
        /\ DijkstraHead(entry)
        /\ entry.node \in finalized
        /\ dijkstra_heap' = dijkstra_heap \ {entry}
        /\ UNCHANGED <<distances, finalized, remaining_targets, target_distances, dijkstra>>

\* Mutant: the first distance found is kept.
NearerOnce(u, d) == Successors(u) \ DOMAIN distances

\* The neighbours of the settled node u, at distance d, whose distance improves.
Nearer(u, d) ==
    {v \in Successors(u) \ (finalized \cup {u}) :
        Improves(d + Length(u, v), distances, v)}

DijkstraSettle ==
    \E entry \in dijkstra_heap :
        LET u == entry.node
            d == entry.priority
            left == remaining_targets \ {u}
            near == IF left = {} THEN {} ELSE Nearer(u, d)   \* break
        IN  /\ DijkstraHead(entry)
            /\ u \notin finalized
            /\ finalized' = finalized \cup {u}
            /\ target_distances' = [v \in DOMAIN target_distances |->
                   IF v = u /\ u \in remaining_targets THEN d ELSE target_distances[v]]
            /\ remaining_targets' = left
            /\ distances' = Overwrite(distances, [v \in near |-> d + Length(u, v)])
            /\ dijkstra_heap' = (dijkstra_heap \ {entry})
                   \cup {Entry(d + Length(u, v), v) : v \in near}
            /\ UNCHANGED dijkstra

DijkstraReturn ==
    /\ dijkstra = "searching"
    /\ remaining_targets = {} \/ dijkstra_heap = {}
    /\ dijkstra' = "returned"
    /\ UNCHANGED <<dijkstra_heap, distances, finalized, remaining_targets, target_distances>>

DijkstraNext ==
    \/ DijkstraSkip
    \/ DijkstraSettle
    \/ DijkstraReturn

DijkstraSpec ==
    /\ QueryInit /\ DijkstraInit
    /\ [][DijkstraNext /\ UNCHANGED query]_<<query, dijkstraVars>>

===========================================================================
