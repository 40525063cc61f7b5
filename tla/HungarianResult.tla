-------------------------- MODULE HungarianResult --------------------------
(***************************************************************************)
(* The HungarianResult that solve_hungarian makes of a finished search, in *)
(* the rows and columns of the matrix it was called with, and what it is   *)
(* for: an assignment of least total cost.                                 *)
(***************************************************************************)
EXTENDS Hungarian, Functions

working_assignments ==
    {pair \in Rows \X Cols : matching_row_for_col[pair[2]] = pair[1]}

\* Pairs found on the transposed matrix are mapped back.
assignments ==
    IF transposed THEN {<<pair[2], pair[1]>> : pair \in working_assignments}
                  ELSE working_assignments

total_cost(pairs) == SumFunction([pair \in pairs |-> cost[pair[1]][pair[2]]])

unassigned_rows(pairs) == {i \in 1 .. RowCount : \A pair \in pairs : pair[1] # i}
unassigned_cols(pairs) == {j \in 1 .. ColCount : \A pair \in pairs : pair[2] # j}

\* The ways to pair the smaller side off completely.
PerfectPairings ==
    LET Pairings == {pairs \in SUBSET ((1 .. RowCount) \X (1 .. ColCount)) :
                        \A p, q \in pairs : p # q => p[1] # q[1] /\ p[2] # q[2]}
    IN  {pairs \in Pairings :
            \/ \A i \in 1 .. RowCount : \E p \in pairs : p[1] = i
            \/ \A j \in 1 .. ColCount : \E p \in pairs : p[2] = j}

\* When the solver returns, its result pairs off the smaller side completely,
\* no pairing of that kind is cheaper, and exactly the surplus is unassigned.
OptimalAssignment ==
    pc = "done" =>
        /\ assignments \in PerfectPairings
        /\ \A pairs \in PerfectPairings : total_cost(assignments) <= total_cost(pairs)
        /\ RowCount <= ColCount => unassigned_rows(assignments) = {}
        /\ RowCount >= ColCount => unassigned_cols(assignments) = {}

============================================================================
