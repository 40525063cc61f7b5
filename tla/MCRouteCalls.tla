---------------------------- MODULE MCRouteCalls ----------------------------
(***************************************************************************)
(* Graphs on four points of a line: west and east are its ends, north and  *)
(* south both in the middle.  Any of their roads may be missing, straight  *)
(* or winding.                                                             *)
(***************************************************************************)
EXTENDS RouteCalls

CONSTANTS west, north, south, east

Points == {west, north, south, east}

Milestone == [v \in Points |-> CASE v = west -> 0
                                 [] v \in {north, south} -> 1
                                 [] v = east -> 2]

Straight == [e \in Points \X Points |->
            LET x == Milestone[e[1]]
                y == Milestone[e[2]]
            IN  IF x < y THEN y - x ELSE x - y]

AllRoads == {<<west, north>>, <<west, south>>, <<north, south>>, <<south, north>>,
             <<north, east>>, <<south, east>>, <<west, east>>}

Detours == {0, 2}

SomeGraphs ==
    {lengths \in [AllRoads -> (0 .. 4) \cup {NoRoad}] :
        \A e \in AllRoads : lengths[e] # NoRoad => lengths[e] - Straight[e] \in Detours}

SomeQueries == {<<west, east>>, <<west, west>>, <<north, south>>}

===========================================================================
