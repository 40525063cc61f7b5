---------------------------- MODULE RouteSearch ----------------------------
(***************************************************************************)
(* A VRP request after the matrix service has answered: /vrp/greedy runs   *)
(* the greedy baseline, /vrp/compare also 2-opt, /vrp/compare/advanced     *)
(* also the large neighbourhood search.  Each treats a missing road in a   *)
(* way of its own.                                                         *)
(***************************************************************************)
EXTENDS NearestNeighbor, TwoOpt, LargeNeighborhood

CONSTANT Requests   \* the requests the schemas let through

ASSUME RequestsAssumption ==
    Requests \subseteq
        [endpoint : {"greedy", "compare", "compare/advanced"},
         return_to_start : BOOLEAN,
         two_opt_max_iterations : Nat \ {0},
         tolerance : Nat,
         lns_max_iterations : Nat \ {0},
         destroy_percent : 1 .. 100,
         no_improvement_limit : Nat \ {0}]

VARIABLES
    stage,           \* "matrix", "greedy", "two_opt", "lns", "answered"
    status           \* of the response, 0 before

given == <<request, stop_count>>

vars == <<given, distance_matrix, greedyVars, twoOptVars, lnsVars, stage, status>>

Init ==
    /\ request \in Requests
    /\ \E m \in Matrices : stop_count = m.stops /\ distance_matrix = m.distances
    /\ GreedyInit
    /\ TwoOptIdle
    /\ LnsIdle
    /\ stage = "matrix"
    /\ status = 0

Answer(code) ==
    /\ stage' = "answered"
    /\ status' = code

---------------------------------------------------------------------------
AllPairs == Points(stop_count) \X Points(stop_count)

\* _normalize_distance_matrix (vrp_advanced_compare_service.py).
Normalized ==
    [e \in AllPairs |-> IF distance_matrix[e] = None THEN UNREACHABLE_DISTANCE
                                                     ELSE distance_matrix[e]]

\* float(None) is a TypeError for /vrp/compare wherever the None stands.
RejectMatrix ==
    /\ stage = "matrix"
    /\ request.endpoint = "compare"
    /\ \E e \in AllPairs : distance_matrix[e] = None
    /\ Answer(422)
    /\ UNCHANGED <<given, distance_matrix, greedyVars, twoOptVars, lnsVars>>

TakeMatrix ==
    /\ stage = "matrix"
    /\ request.endpoint = "compare" => \A e \in AllPairs : distance_matrix[e] # None
    /\ distance_matrix' = IF request.endpoint = "compare/advanced" THEN Normalized
                                                                  ELSE distance_matrix
    /\ stage' = "greedy"
    /\ UNCHANGED <<given, greedyVars, twoOptVars, lnsVars, status>>

RunGreedy ==
    /\ stage = "greedy"
    /\ GreedyPick
    /\ UNCHANGED <<given, distance_matrix, twoOptVars, lnsVars, stage, status>>

\* GreedyMatrixError becomes 404, AdvancedCompareServiceError 503.
GreedyFails ==
    /\ stage = "greedy"
    /\ Unvisited # {}
    /\ Stuck
    /\ Answer(IF request.endpoint = "greedy" THEN 404 ELSE 503)
    /\ UNCHANGED <<given, distance_matrix, greedyVars, twoOptVars, lnsVars>>

GreedyDone == stage = "greedy" /\ Unvisited = {}

GreedyDistance == CalculateRouteDistance(greedy_order)

\* Only the return leg can be missing: 404 from _read_distance, 422 from
\* calculate_route_distance_m.
NoWayBack ==
    /\ GreedyDone
    /\ GreedyDistance = UNREACHABLE_DISTANCE
    /\ Answer(IF request.endpoint = "greedy" THEN 404 ELSE 422)
    /\ UNCHANGED <<given, distance_matrix, greedyVars, twoOptVars, lnsVars>>

AnswerGreedy ==
    /\ GreedyDone
    /\ GreedyDistance # UNREACHABLE_DISTANCE
    /\ request.endpoint = "greedy"
    /\ Answer(200)
    /\ UNCHANGED <<given, distance_matrix, greedyVars, twoOptVars, lnsVars>>

StartTwoOpt ==
    /\ GreedyDone
    /\ GreedyDistance # UNREACHABLE_DISTANCE
    /\ request.endpoint # "greedy"
    /\ TwoOptStart(greedy_order)
    /\ stage' = "two_opt"
    /\ UNCHANGED <<given, distance_matrix, greedyVars, lnsVars, status>>

RunTwoOpt ==
    /\ stage = "two_opt"
    /\ TwoOptNext
    /\ UNCHANGED <<given, distance_matrix, greedyVars, lnsVars, stage, status>>

TwoOptFails ==
    /\ stage = "two_opt"
    /\ SwapRaises
    /\ Answer(422)
    /\ UNCHANGED <<given, distance_matrix, greedyVars, twoOptVars, lnsVars>>

\* assert_two_opt_non_regression and _validate_stop_order
TwoOptRejected ==
    \/ best_distance > initial_distance
    \/ Range(current_order) # Stops

AnswerCompare ==
    /\ stage = "two_opt"
    /\ two_opt_done
    /\ request.endpoint = "compare"
    /\ Answer(IF TwoOptRejected THEN 422 ELSE 200)
    /\ UNCHANGED <<given, distance_matrix, greedyVars, twoOptVars, lnsVars>>

\* The search raises ValueError when its initial order cannot be driven.
StartLns ==
    /\ stage = "two_opt"
    /\ two_opt_done
    /\ request.endpoint = "compare/advanced"
    /\ LnsStart(PublicToMatrix(current_order))
    /\ IF best_distance > initial_distance THEN Answer(503)
       ELSE IF lns_distance' = UNREACHABLE_DISTANCE THEN Answer(422)
       ELSE stage' = "lns" /\ UNCHANGED status
    /\ UNCHANGED <<given, distance_matrix, greedyVars, twoOptVars>>

RunLns ==
    /\ stage = "lns"
    /\ LnsNext
    /\ UNCHANGED <<given, distance_matrix, greedyVars, twoOptVars, stage, status>>

AnswerAdvanced ==
    /\ stage = "lns"
    /\ lns = "returned"
    /\ Answer(200)
    /\ UNCHANGED <<given, distance_matrix, greedyVars, twoOptVars, lnsVars>>

Answered == stage = "answered" /\ UNCHANGED vars

Next ==
    \/ RejectMatrix \/ TakeMatrix
    \/ RunGreedy \/ GreedyFails \/ NoWayBack \/ AnswerGreedy
    \/ StartTwoOpt \/ RunTwoOpt \/ TwoOptFails \/ AnswerCompare
    \/ StartLns \/ RunLns \/ AnswerAdvanced
    \/ Answered

Spec == Init /\ [][Next]_vars

---------------------------------------------------------------------------
Orders == [1 .. stop_count -> Stops]

VisitsAll(order) == order \in Orders /\ Range(order) = Stops

TypeOK ==
    /\ request \in Requests /\ stop_count \in Nat \ {0}
    /\ distance_matrix \in [AllPairs -> Int \cup {None}]
    /\ greedy_order \in Seq(Stops)
    /\ current_order \in Orders \cup {<<>>} /\ candidate_order \in Orders \cup {<<>>}
    /\ best_distance \in Nat /\ candidate_distance \in Nat /\ initial_distance \in Nat
    /\ swap[1] \in 1 .. stop_count /\ swap[2] \in 2 .. stop_count + 1
    /\ iteration \in 0 .. request.two_opt_max_iterations
    /\ swaps_applied \in 0 .. request.two_opt_max_iterations
    /\ {converged, two_opt_done} \subseteq BOOLEAN
    /\ {best_order, repaired, removed_stops} \subseteq Seq(1 .. stop_count)
    /\ lns_distance \in Nat
    /\ iterations_run \in 0 .. request.lns_max_iterations
    /\ no_improvement_count \in 0 .. iterations_run
    /\ lns \in {"destroy", "repair", "returned"}
    /\ stage \in {"matrix", "greedy", "two_opt", "lns", "answered"}
    /\ status \in {0, 200, 404, 422, 503}

TwoOptRan == current_order # <<>>

LnsRan == best_order # <<>>

\* No stage loses or repeats a stop: not the reversals of 2-opt, not the routes
\* the large neighbourhood search takes apart and repairs (two_opt.py:156,
\* lns.py:167-175).
EveryStopOnce ==
    /\ TwoOptRan => VisitsAll(current_order) /\ VisitsAll(candidate_order)
    /\ LnsRan =>
          /\ VisitsAll(MatrixToPublic(best_order))
          /\ lns = "repair" => VisitsAll(MatrixToPublic(repaired \o removed_stops))
    /\ status = 200 => VisitsAll(greedy_order)

\* Order and distance are kept in separate variables and never part: the
\* distances answered are those of the orders answered, on roads that exist
\* (two_opt.py:246-247, lns.py:194-196).
DistancesOfOrders ==
    /\ TwoOptRan =>
          /\ initial_distance = CalculateRouteDistance(greedy_order)
          /\ best_distance = CalculateRouteDistance(current_order)
          /\ candidate_distance = CalculateRouteDistance(candidate_order)
    /\ LnsRan => lns_distance = RouteDistance(best_order)
    /\ status = 200 => Drivable(Tour(PublicToMatrix(greedy_order)))

\* Every stage is at least as good as the one before (README.md:527), so the
\* regression errors cannot occur.
NeverWorse ==
    /\ TwoOptRan => best_distance <= initial_distance
    /\ LnsRan => lns_distance <= best_distance

\* "converged" (schemas/vrp_compare.py:135) means that no reversal shortens the
\* route by more than the tolerance, although a scan compares each candidate
\* with the best before it only.
ConvergedIsLocalOptimum ==
    converged =>
        \A i, j \in 1 .. stop_count : i < j =>
            CalculateRouteDistance(current_order)
                - CalculateRouteDistance(TwoOptSwap(current_order, i, j)) <= request.tolerance

\* The pairs some tour of all stops may use.
UsedPairs ==
    {e \in AllPairs : /\ e[1] # e[2]
                      /\ e[2] = 0 => request.return_to_start}

\* One missing leg fails 2-opt's whole first scan (two_opt.py:106), and the
\* scan, although it does not try every pair, misses none: a route it lets
\* through has a road for every pair, so the large neighbourhood search never
\* meets a missing one (lns.py:90, lns.py:192).
NoGapAfterScan ==
    two_opt_done => \A e \in UsedPairs : Reachable(e[1], e[2])

\* The greedy baseline gives up only where no order of the remaining stops
\* could go on, however early it looks (greedy_nearest_neighbor.py:119), so
\* the eager and the lazy loop fail on the same requests.
StuckAtDeadEnd ==
    stage = "greedy" /\ Stuck /\ Unvisited # {} =>
        \A rest \in SetToSeqs(Unvisited) :
            ~ Drivable(<<Current>> \o PublicToMatrix(rest))

============================================================================
