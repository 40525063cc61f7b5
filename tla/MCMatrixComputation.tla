------------------------ MODULE MCMatrixComputation ------------------------
(* An instance of MatrixComputation for TLC. *)
EXTENDS MatrixComputation

\* "p" and "q" snap to the same node, "s" lies outside the area, a search from
\* the node of "t" raises.
NearestNode == [point \in {"p", "q", "r", "s", "t"} |->
    CASE point \in {"p", "q"} -> 1 [] point \in {"r", "s"} -> 2 [] point = "t" -> 3]

SomeProblems ==
    [points : {<<"p", "r">>}, workers : {0, 1, 2, 8}, algorithm : {"bidirectional_astar"}]
    \cup [points : {<<"p", "q", "r">>}, workers : {2}, algorithm : {"bidirectional_astar"}]
    \cup [points : {<<"p", "q", "r">>, <<"r", "p", "t">>, <<"p", "s">>},
          workers : {2}, algorithm : {"source_dijkstra"}]

\* One-way streets: 5 to a node of a greater number, 7 back, where there is a way.
SomeRoads ==
    {[e \in (1 .. 3) \X (1 .. 3) |->
        IF e[1] = e[2] THEN 0
        ELSE IF e \in gaps THEN NoPath
        ELSE IF e[1] < e[2] THEN 5 ELSE 7] :
     gaps \in {{}, {<<1, 2>>}}}
============================================================================
