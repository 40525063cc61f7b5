--------------------------- MODULE DistanceTable ---------------------------
(***************************************************************************)
(* What build_distance_matrix (app/core/distance_matrix.py) promises,      *)
(* whichever algorithm computes it and in whatever order: every cell holds *)
(* the distance between the nodes its two locations snap to, and the       *)
(* failures are the pairs no road joins, each of them once.                *)
(***************************************************************************)
EXTENDS Integers, Sequences, FiniteSets

CONSTANTS
    Problems, Points, InArea, Nodes, Nearest, RoadTables, NoPath, Raising
                   \* as in MatrixComputation

VARIABLES problem, roads, outcome

Indices == DOMAIN problem.points
Pairs == Indices \X Indices

NodeOf(i) == Nearest[problem.points[i]]

Table == [pair \in Pairs |-> roads[<<NodeOf(pair[1]), NodeOf(pair[2])>>]]

Gaps == {pair \in Pairs : Table[pair] = NoPath}

NoOutcome == [status |-> "none"]
Refused(why) == [status |-> why]
Computed(matrix, failures, computed) ==
    [status |-> "computed", matrix |-> matrix, failures |-> failures,
     computed_pairs |-> computed]

Acceptable == \A i \in Indices : problem.points[i] \in InArea

MeetsNegative ==
    problem.algorithm = "source_dijkstra" /\ \E i \in Indices : NodeOf(i) \in Raising

Init ==
    /\ problem \in Problems
    /\ roads \in RoadTables
    /\ outcome = NoOutcome

Answer ==
    /\ outcome = NoOutcome
    /\ outcome' = IF ~Acceptable THEN Refused("rejected")
                  ELSE IF MeetsNegative THEN Refused("raised")
                  ELSE Computed(Table, Gaps, Cardinality(Pairs \ Gaps))
    /\ UNCHANGED <<problem, roads>>

Next == Answer

Spec == Init /\ [][Next]_<<problem, roads, outcome>>

\* The call returns.
FairSpec == Spec /\ WF_<<problem, roads, outcome>>(Next)

============================================================================
