---------------------------- MODULE MCHungarian ----------------------------
(* An instance of Hungarian for TLC: one row more than columns, so that the *)
(* matrix is transposed and a row stays over; the other rows take every    *)
(* combination of costs 0 .. MaxCost.                                      *)
EXTENDS HungarianResult

CONSTANTS MaxRows, MaxCols, MaxCost

SurplusRow == [j \in 1 .. MaxCols |-> j % (MaxCost + 1)]

TallMatrices ==
    {m \in [1 .. MaxRows -> [1 .. MaxCols -> 0 .. MaxCost]] : m[MaxRows] = SurplusRow}

MCInit == cost \in TallMatrices /\ HungarianInit

MCSpec == MCInit /\ [][HungarianNext]_hungarianVars /\ WF_hungarianVars(HungarianNext)
============================================================================
