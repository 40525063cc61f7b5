------------------------------- MODULE TwoOpt -------------------------------
(***************************************************************************)
(* two_optimize (app/core/two_opt.py): one action per candidate swap and   *)
(* one per end of a scan.                                                  *)
(***************************************************************************)
EXTENDS StopOrders

VARIABLES
    current_order, best_distance, initial_distance,
    candidate_order, candidate_distance,   \* the best of this scan
    swap,               \* the next pair of positions to try
    iteration, swaps_applied, converged,
    two_opt_done

twoOptVars == <<current_order, best_distance, initial_distance, candidate_order,
                candidate_distance, swap, iteration, swaps_applied, converged, two_opt_done>>

\* Mutant: the slice after j starts one too early.
SwapOverlapping(order, i, j) ==
    SubSeq(order, 1, i - 1) \o Reverse(SubSeq(order, i, j)) \o SubSeq(order, j, Len(order) - 1)

\* _two_opt_swap: the stops from position i to position j in reverse.
TwoOptSwap(order, i, j) ==
    [k \in 1 .. Len(order) |-> IF k \in i .. j THEN order[i + j - k] ELSE order[k]]

FirstSwap == <<1, 2>>

\* Mutant: the second position stops one short of the last stop.
ScanDoneEarly == swap[2] >= stop_count

\* The two nested loops over i < j.
NextSwap == IF swap[2] < stop_count THEN <<swap[1], swap[2] + 1>>
                                    ELSE <<swap[1] + 1, swap[1] + 2>>

ScanDone == swap[2] > stop_count

TwoOptIdle ==
    /\ current_order = <<>> /\ candidate_order = <<>>
    /\ best_distance = 0 /\ initial_distance = 0 /\ candidate_distance = 0
    /\ swap = FirstSwap
    /\ iteration = 0 /\ swaps_applied = 0
    /\ converged = FALSE /\ two_opt_done = FALSE

TwoOptStart(order) ==
    /\ current_order' = order
    /\ candidate_order' = order
    /\ best_distance' = CalculateRouteDistance(order)
    /\ initial_distance' = best_distance'
    /\ candidate_distance' = best_distance'
    /\ swap' = FirstSwap
    /\ iteration' = 1
    /\ swaps_applied' = 0
    /\ converged' = FALSE /\ two_opt_done' = FALSE

Candidate == TwoOptSwap(current_order, swap[1], swap[2])

\* Mutant: swaps that need a missing leg are skipped.
NeverRaises == FALSE

\* Any candidate with a missing leg raises ValueError.
SwapRaises ==
    /\ ~ two_opt_done
    /\ ~ ScanDone
    /\ CalculateRouteDistance(Candidate) = UNREACHABLE_DISTANCE

\* The comparison is with the best candidate so far, not with the current order.
Better == candidate_distance - CalculateRouteDistance(Candidate) > request.tolerance

TrySwap ==
    /\ ~ ScanDone
    /\ ~ SwapRaises
    /\ candidate_order' = IF Better THEN Candidate ELSE candidate_order
    /\ candidate_distance' = IF Better THEN CalculateRouteDistance(Candidate)
                                       ELSE candidate_distance
    /\ swap' = NextSwap
    /\ UNCHANGED <<current_order, best_distance, initial_distance, iteration,
                   swaps_applied, converged, two_opt_done>>

\* No swap was better: best_swap_i is None.
Converge ==
    /\ ScanDone
    /\ candidate_distance = best_distance
    /\ converged' = TRUE
    /\ two_opt_done' = TRUE
    /\ UNCHANGED <<current_order, best_distance, initial_distance, candidate_order,
                   candidate_distance, swap, iteration, swaps_applied>>

\* Mutant: one scan too many.
AfterLastScan == iteration > request.two_opt_max_iterations

LastScan == iteration = request.two_opt_max_iterations

\* Mutant: the distance of the best swap is kept, the order is not.
ApplyDistanceOnly ==
    /\ ScanDone
    /\ candidate_distance # best_distance
    /\ best_distance' = candidate_distance
    /\ swaps_applied' = swaps_applied + 1
    /\ two_opt_done' = LastScan
    /\ iteration' = IF two_opt_done' THEN iteration ELSE iteration + 1
    /\ swap' = FirstSwap
    /\ UNCHANGED <<current_order, initial_distance, candidate_order,
                   candidate_distance, converged>>

ApplySwap ==
    /\ ScanDone
    /\ candidate_distance # best_distance
    /\ current_order' = candidate_order
    /\ best_distance' = candidate_distance
    /\ swaps_applied' = swaps_applied + 1
    /\ two_opt_done' = LastScan
    /\ iteration' = IF two_opt_done' THEN iteration ELSE iteration + 1
    /\ swap' = FirstSwap
    /\ UNCHANGED <<initial_distance, candidate_order, candidate_distance, converged>>

TwoOptNext ==
    /\ ~ two_opt_done
    /\ TrySwap \/ Converge \/ ApplySwap

============================================================================
