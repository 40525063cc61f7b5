------------------------------- MODULE AStar -------------------------------
(***************************************************************************)
(* astar_shortest_path (app/core/a_star.py): one action per iteration of   *)
(* its loop.  A node that is closed is never opened again, which is only   *)
(* right because the straight-line heuristic is consistent.                *)
(***************************************************************************)
EXTENDS RoadGraph

VARIABLES
    open_heap,
    g_score, came_from,   \* dicts: functions on the nodes they hold
    closed,
    astar                 \* what the search has returned

search == <<open_heap, g_score, came_from, closed>>

aStarVars == <<search, astar>>

---------------------------------------------------------------------------
H(v) == Crow[<<v, goal>>]

AStarInit ==
    /\ open_heap = {Entry(H(start), start)}
    /\ g_score = [v \in {start} |-> 0]
    /\ came_from = [v \in {} |-> start]
    /\ closed = {}
    /\ astar = Searching

AStarAlreadyThere ==
    /\ astar.status = "searching"
    /\ start = goal
    /\ astar' = Found(<<start>>, 0)
    /\ UNCHANGED search

\* The entry heappop returns.
AStarHead(entry) ==
    /\ astar.status = "searching"
    /\ start # goal
    /\ entry \in Least(open_heap)

\* A node is pushed again whenever its score improves; the old entry stays.
AStarSkip ==
    \E entry \in open_heap :
        /\ AStarHead(entry)
        /\ entry.node \in closed
        /\ open_heap' = open_heap \ {entry}
        /\ UNCHANGED <<g_score, came_from, closed, astar>>

\* Mutant: the goal is taken when first seen, not when popped.
AStarReachEarly ==
    /\ \E entry \in open_heap : entry.node = goal
    /\ astar.status = "searching"
    /\ astar' = Found(ReconstructPath(came_from, goal), g_score[goal])
    /\ UNCHANGED search

AStarReach ==
    \E entry \in open_heap :
        /\ AStarHead(entry)
        /\ entry.node = goal
        /\ goal \notin closed
        /\ open_heap' = open_heap \ {entry}
        /\ astar' = Found(ReconstructPath(came_from, goal), g_score[goal])
        /\ UNCHANGED <<g_score, came_from, closed>>

TentativeG(u, v) == g_score[u] + Length(u, v)

\* Mutant: a node that is already in the heap is skipped.
RelaxedUnseen(u) == Successors(u) \ DOMAIN g_score

\* The neighbours of u the loop does not skip.
Relaxed(u) == {v \in Successors(u) \ (closed \cup {u}) :
                  Improves(TentativeG(u, v), g_score, v)}

\* Mutant: a node keeps the first parent it gets.
FirstParents(u) == [v \in Relaxed(u) \ DOMAIN came_from |-> u]

NewParents(u) == [v \in Relaxed(u) |-> u]

AStarExpand ==
    \E entry \in open_heap :
        LET u == entry.node
        IN  /\ AStarHead(entry)
            /\ u \notin closed
            /\ u # goal
            /\ closed' = closed \cup {u}
            /\ came_from' = Overwrite(came_from, NewParents(u))
            /\ g_score' = Overwrite(g_score, [v \in Relaxed(u) |-> TentativeG(u, v)])
            /\ open_heap' = (open_heap \ {entry})
                   \cup {Entry(TentativeG(u, v) + H(v), v) : v \in Relaxed(u)}
            /\ UNCHANGED astar

AStarNoPath ==
    /\ astar.status = "searching"
    /\ start # goal
    /\ open_heap = {}
    /\ astar' = NoPath
    /\ UNCHANGED search

AStarNext ==
    \/ AStarAlreadyThere
    \/ AStarSkip
    \/ AStarReach
    \/ AStarExpand
    \/ AStarNoPath

AStarSpec ==
    /\ QueryInit /\ AStarInit
    /\ [][AStarNext /\ UNCHANGED query]_<<query, aStarVars>>

---------------------------------------------------------------------------
AStarTypeOK ==
    /\ graph \in RoadGraphs /\ <<start, goal>> \in Queries
    /\ DOMAIN g_score \subseteq Nodes
    /\ g_score \in [DOMAIN g_score -> Nat]
    /\ DOMAIN came_from \subseteq DOMAIN g_score
    /\ came_from \in [DOMAIN came_from -> closed]
    /\ closed \subseteq DOMAIN g_score
    /\ open_heap \subseteq [priority : Nat, node : DOMAIN g_score]
    /\ astar.status \in {"searching", "found", "no_path"}

\* Skipping closed neighbours (a_star.py:138) never loses a shorter way: a
\* closed node has given every neighbour, closed or not, a score at least as
\* good as the one through itself.
ClosedRelaxed ==
    \A u \in closed : \A v \in Successors(u) :
        v \in DOMAIN g_score /\ g_score[v] <= TentativeG(u, v)

\* came_from and g_score tell the same story (a_star.py:146-147): a node's
\* score is its parent's plus the edge between them, although either may have
\* changed since the node was first reached.
ParentsTight ==
    \A v \in DOMAIN came_from :
        /\ v \in Successors(came_from[v])
        /\ g_score[v] = TentativeG(came_from[v], v)

===========================================================================
