------------------------- MODULE BidirectionalAStar -------------------------
(***************************************************************************)
(* bidirectional_astar_shortest_path (app/core/bidirectional_a_star.py).   *)
(* The forward_x and backward_x of the code are x[side].  Its potentials   *)
(* are averages; priorities are doubled here to stay integers.             *)
(***************************************************************************)
EXTENDS RoadGraph, SequencesExt

CONSTANT NoNode

ASSUME NoNodeAssumption == NoNode \notin Nodes

VARIABLES
    heap, g, parents, done,     \* x_heap, x_g, came_from_x, x_closed
    best_distance, meeting_node,
    bidirectional               \* what the search has returned

sides == <<heap, g, parents, done>>

bidirectionalVars == <<sides, best_distance, meeting_node, bidirectional>>

Sides == {"forward", "backward"}

Other(side) == IF side = "forward" THEN "backward" ELSE "forward"

Root(side) == IF side = "forward" THEN start ELSE goal

Neighbours(side, u) == IF side = "forward" THEN Successors(u) ELSE Predecessors(u)

EdgeLength(side, u, v) ==
    IF side = "forward" THEN Length(u, v) ELSE Length(v, u)

---------------------------------------------------------------------------
\* Twice (h(v, root of the other side) - h(v, root of this side)) / 2.
TwicePotential(side, v) ==
    Crow[<<v, Root(Other(side))>>] - Crow[<<v, Root(side)>>]

Push(side, v, cost) == Entry(2 * cost + TwicePotential(side, v), v)

BidirectionalInit ==
    /\ heap = [side \in Sides |-> {Push(side, Root(side), 0)}]
    /\ g = [side \in Sides |-> [v \in {Root(side)} |-> 0]]
    /\ parents = [side \in Sides |-> [v \in {} |-> start]]
    /\ done = [side \in Sides |-> {}]
    /\ best_distance = 0     \* inf: read only once a meeting node is known
    /\ meeting_node = NoNode
    /\ bidirectional = Searching

BidirectionalAlreadyThere ==
    /\ bidirectional.status = "searching"
    /\ start = goal
    /\ bidirectional' = Found(<<start>>, 0)
    /\ UNCHANGED <<sides, best_distance, meeting_node>>

Looping ==
    /\ bidirectional.status = "searching"
    /\ start # goal
    /\ \A side \in Sides : heap[side] # {}

\* peek_valid_priority drops the entries of closed nodes it finds on top.
PeekDrop(side) ==
    /\ Looping
    /\ \E entry \in Least(heap[side]) :
          /\ entry.node \in done[side]
          /\ heap' = [heap EXCEPT ![side] = @ \ {entry}]
    /\ UNCHANGED <<g, parents, done, best_distance, meeting_node, bidirectional>>

\* The entries on top of both heaps once peek_valid_priority has been called.
Tops == {tops \in [Sides -> heap["forward"] \cup heap["backward"]] :
            \A side \in Sides : /\ tops[side] \in Least(heap[side])
                                /\ tops[side].node \notin done[side]}

\* Mutant: the first meeting ends the search.
MayStopAtOnce(tops) == meeting_node # NoNode

\* No path through a node not yet closed can be shorter than the best one.
MayStop(tops) ==
    /\ meeting_node # NoNode
    /\ tops["forward"].priority + tops["backward"].priority >= 2 * best_distance

ExpandSide(tops) ==
    IF tops["forward"].priority <= tops["backward"].priority
    THEN "forward" ELSE "backward"

\* The neighbours of u on one side whose cost improves, closed ones included.
Shortened(side, u) ==
    {v \in Neighbours(side, u) : Improves(g[side][u] + EdgeLength(side, u, v), g[side], v)}

\* Mutant: meetings are looked for at the popped node only.
MetAtPop(side, u) == {u} \cap DOMAIN g[Other(side)]

\* The nodes u's expansion gives a cost to that the other side has reached.
Met(side, u) == (Shortened(side, u) \cup {u}) \cap DOMAIN g[Other(side)]

\* best_distance and meeting_node after u's expansion, cost being the new costs.
\* Of equals the code keeps the first in the graph's order, which is any here.
Meet(side, u, cost) ==
    LET through(v) == cost[v] + g[Other(side)][v]
        closer == {v \in Met(side, u) :
                      meeting_node = NoNode \/ through(v) < best_distance}
    IN  IF closer = {} THEN UNCHANGED <<best_distance, meeting_node>>
        ELSE \E v \in closer :
                /\ \A w \in closer : through(v) <= through(w)
                /\ best_distance' = through(v)
                /\ meeting_node' = v

Expand(side) ==
    /\ Looping
    /\ \E tops \in Tops :
          LET u == tops[side].node
              cost == [v \in Shortened(side, u) |-> g[side][u] + EdgeLength(side, u, v)]
              g_new == Overwrite(g[side], cost)
          IN  /\ ~MayStop(tops)
              /\ ExpandSide(tops) = side
              /\ done' = [done EXCEPT ![side] = @ \cup {u}]
              /\ g' = [g EXCEPT ![side] = g_new]
              /\ parents' = [parents EXCEPT ![side] =
                                Overwrite(@, [v \in DOMAIN cost |-> u])]
              /\ heap' = [heap EXCEPT ![side] = (@ \ {tops[side]})
                                \cup {Push(side, v, cost[v]) : v \in DOMAIN cost}]
              /\ Meet(side, u, g_new)
    /\ UNCHANGED bidirectional

\* reconstruct_path: from the start to the meeting node and on to the goal.
MeetingPath ==
    ReconstructPath(parents["forward"], meeting_node)
        \o Tail(Reverse(ReconstructPath(parents["backward"], meeting_node)))

\* The loop ends, and the path, not best_distance, gives the answer's distance.
Return ==
    /\ bidirectional.status = "searching"
    /\ start # goal
    /\ \/ \E side \in Sides : heap[side] = {}
       \/ Looping /\ \E tops \in Tops : MayStop(tops)
    /\ bidirectional' = IF meeting_node = NoNode THEN NoPath
                        ELSE Found(MeetingPath, PathLength(MeetingPath))
    /\ UNCHANGED <<sides, best_distance, meeting_node>>

BidirectionalNext ==
    \/ BidirectionalAlreadyThere
    \/ \E side \in Sides : PeekDrop(side)
    \/ \E side \in Sides : Expand(side)
    \/ Return

BidirectionalSpec ==
    /\ QueryInit /\ BidirectionalInit
    /\ [][BidirectionalNext /\ UNCHANGED query]_<<query, bidirectionalVars>>

---------------------------------------------------------------------------
BidirectionalTypeOK ==
    /\ graph \in RoadGraphs /\ <<start, goal>> \in Queries
    /\ \A side \in Sides :
          /\ DOMAIN g[side] \subseteq Nodes
          /\ g[side] \in [DOMAIN g[side] -> Nat]
          /\ done[side] \subseteq DOMAIN g[side]
          /\ heap[side] \subseteq [priority : Int, node : DOMAIN g[side]]
    /\ best_distance \in Nat
    /\ meeting_node \in Nodes \cup {NoNode}

\* No node with a cost on both sides has a lesser sum of them than node has.
IsLeastMeeting(node, distance, cost, other) ==
    LET met == DOMAIN cost \cap DOMAIN other
    IN  /\ node = NoNode <=> met = {}
        /\ \A v \in met : distance <= cost[v] + other[v]
        /\ met # {} => node \in met /\ distance = cost[node] + other[node]

\* At every moment meeting_node attains best_distance, and no meeting of the two
\* sides is shorter (bidirectional_a_star.py:298-319 and 337-358 compare whenever
\* either side improves): the stop criterion and the path rest on it.
MeetingIsLeast ==
    start # goal =>
        IsLeastMeeting(meeting_node, best_distance, g["forward"], g["backward"])

===========================================================================
