--------------------------- MODULE MCRouteSearch ---------------------------
(***************************************************************************)
(* Matrices of one to three stops: the shortest distances on the road      *)
(* networks whose streets, each of a given length, may be one-way or       *)
(* missing.                                                                *)
(***************************************************************************)
EXTENDS RouteSearch

\* Index 2 and 3 are at one place; streets out of it are longer than into it.
StreetLength ==
    [e \in Points(3) \X Points(3) |->
        CASE e[1] = e[2] -> 0
          [] e \in {<<2, 3>>, <<3, 2>>} -> 1
          [] e \in {<<0, 1>>, <<1, 2>>, <<2, 0>>} -> 2
          [] e \in {<<1, 0>>, <<0, 2>>, <<1, 3>>} -> 3
          [] e \in {<<0, 3>>, <<3, 1>>} -> 4
          [] OTHER -> 6]

\* At most two points lie between the ends of a shortest road.
Shortest(n, streets) ==
    LET Street(u, v) == u = v \/ <<u, v>> \in streets
        Lengths(u, v) ==
            {StreetLength[<<u, mid[1]>>] + StreetLength[mid] + StreetLength[<<mid[2], v>>] :
                mid \in {m \in Points(n) \X Points(n) :
                            Street(u, m[1]) /\ Street(m[1], m[2]) /\ Street(m[2], v)}}
    IN  [e \in Points(n) \X Points(n) |->
            IF Lengths(e[1], e[2]) = {} THEN None ELSE Min(Lengths(e[1], e[2]))]

Streets(n) == {e \in Points(n) \X Points(n) : e[1] # e[2]}

\* Between these any subset of the streets is tried, with and without the rest.
Doubtful == {<<0, 1>>, <<1, 2>>, <<2, 3>>, <<3, 2>>, <<3, 0>>, <<2, 1>>, <<0, 2>>}

Networks(n) ==
    LET Some == SUBSET (Streets(n) \cap Doubtful)
    IN  Some \cup {streets \cup (Streets(n) \ Doubtful) : streets \in Some}

SomeMatrices ==
    UNION {{[stops |-> n, distances |-> Shortest(n, streets)] : streets \in Networks(n)} :
              n \in 1 .. 3}

GreedyRequest(return_to_start) ==
    [endpoint |-> "greedy", return_to_start |-> return_to_start,
     two_opt_max_iterations |-> 1, tolerance |-> 0,
     lns_max_iterations |-> 1, destroy_percent |-> 30, no_improvement_limit |-> 1]

CompareRequest(return_to_start, max_iterations, tolerance) ==
    [GreedyRequest(return_to_start) EXCEPT
        !.endpoint = "compare", !.two_opt_max_iterations = max_iterations,
        !.tolerance = tolerance]

AdvancedRequest(return_to_start, max_iterations, destroy_percent) ==
    [CompareRequest(return_to_start, max_iterations, 0) EXCEPT
        !.endpoint = "compare/advanced", !.lns_max_iterations = 3,
        !.destroy_percent = destroy_percent, !.no_improvement_limit = 2]

SomeRequests ==
    {GreedyRequest(back) : back \in BOOLEAN}
      \cup {CompareRequest(back, 3, tolerance) : back \in BOOLEAN, tolerance \in {0, 2}}
      \cup {AdvancedRequest(back, max, percent) :
               back \in BOOLEAN, max \in {1, 3}, percent \in {30, 100}}
============================================================================
