----------------------------- MODULE Hungarian -----------------------------
(***************************************************************************)
(* The assignment solver of app/core/hungarian.py: drivers to orders at    *)
(* the least total cost, by shortest augmenting paths with potentials.     *)
(*                                                                         *)
(* The rows are entered one at a time (StartRow).  Each GrowTree is one    *)
(* iteration of the search for a column that is still free: it relaxes the *)
(* slack of the columns outside the tree from the row reached last, moves  *)
(* the potentials by the least slack and enters that column.  Each Augment *)
(* moves one row along the path found.                                     *)
(*                                                                         *)
(* Costs are natural numbers: the code compares floats up to _EPSILON,     *)
(* here two costs or slacks are equal or differ by at least 1.             *)
(***************************************************************************)
EXTENDS Integers, Sequences

CONSTANT Infinity          \* float("inf")

ASSUME InfinityAssumption == Infinity \notin Int

VARIABLES
    cost,                  \* cost_matrix
    row_potential, col_potential,
    matching_row_for_col,  \* the row matched with each column, 0 if none
    previous_col,          \* the column from which each column was reached
    min_slack,             \* least reduced cost from the tree to each column
    used_col,              \* the columns in the tree
    current_row, current_col,
    pc

hungarianVars ==
    <<cost, row_potential, col_potential, matching_row_for_col, previous_col,
      min_slack, used_col, current_row, current_col, pc>>

\* The size of the matrix passed to solve_hungarian.
RowCount == Len(cost)
ColCount == Len(cost[1])

\* What _validate_and_copy_cost_matrix lets through.
ValidMatrix ==
    /\ cost \in Seq(Seq(Nat) \ {<<>>}) \ {<<>>}
    /\ \A i \in DOMAIN cost : Len(cost[i]) = ColCount

transposed == RowCount > ColCount

row_count == IF transposed THEN ColCount ELSE RowCount
col_count == IF transposed THEN RowCount ELSE ColCount

Rows == 1 .. row_count
Cols == 1 .. col_count
ColsAndRoot == 0 .. col_count  \* column 0 holds the row being entered

\* The matrix the search works on: _transpose when there are too many rows.
working_matrix(i, j) == IF transposed THEN cost[j][i] ELSE cost[i][j]

reduced_cost(i, j) == working_matrix(i, j) - row_potential[i] - col_potential[j]

---------------------------------------------------------------------------
HungarianInit ==
    /\ ValidMatrix
    /\ row_potential = [i \in Rows |-> 0]
    /\ col_potential = [j \in ColsAndRoot |-> 0]
    /\ matching_row_for_col = [j \in ColsAndRoot |-> 0]
    /\ previous_col = [j \in Cols |-> 0]
    /\ min_slack = [j \in Cols |-> Infinity]
    /\ used_col = {}
    /\ current_row = 0
    /\ current_col = 0
    /\ pc = "row"

\* Mutant: one row too many.
StartRowTooMany ==
    /\ pc = "row"
    /\ current_row <= row_count
    /\ current_row' = current_row + 1
    /\ matching_row_for_col' = [matching_row_for_col EXCEPT ![0] = current_row + 1]
    /\ min_slack' = [j \in Cols |-> Infinity]
    /\ used_col' = {}
    /\ current_col' = 0
    /\ pc' = "grow"
    /\ UNCHANGED <<cost, row_potential, col_potential, previous_col>>

StartRow ==
    /\ pc = "row"
    /\ current_row < row_count
    /\ current_row' = current_row + 1
    /\ matching_row_for_col' = [matching_row_for_col EXCEPT ![0] = current_row + 1]
    /\ min_slack' = [j \in Cols |-> Infinity]
    /\ used_col' = {}
    /\ current_col' = 0
    /\ pc' = "grow"
    /\ UNCHANGED <<cost, row_potential, col_potential, previous_col>>

---------------------------------------------------------------------------
(* One iteration of the search.                                            *)

Less(x, y) == y = Infinity \/ x < y

Tree == used_col \cup {current_col}
Outside == Cols \ Tree

\* Mutant: a column keeps the slack it was first reached with.
ImprovesOnce(j) == j \in Outside /\ min_slack[j] = Infinity

\* Column j is reached more cheaply from the row of current_col.
Improves(j) ==
    j \in Outside /\ Less(reduced_cost(matching_row_for_col[current_col], j), min_slack[j])

RelaxedSlack(j) ==
    IF Improves(j) THEN reduced_cost(matching_row_for_col[current_col], j)
                   ELSE min_slack[j]

\* The earliest column outside the tree with the least slack.
IsNextCol(j) ==
    /\ j \in Outside
    /\ \A k \in Outside : RelaxedSlack(j) <= RelaxedSlack(k)
    /\ \A k \in Outside : k < j => RelaxedSlack(j) < RelaxedSlack(k)

\* Mutant: only the row reached last is raised.
LastTreeRow == {matching_row_for_col[current_col]}

TreeRows == {matching_row_for_col[j] : j \in Tree}

\* Mutant: the slack of the columns outside the tree is not lowered.
MoveWithoutSlack(next_col, delta) ==
    /\ row_potential' = [i \in Rows |->
          IF i \in TreeRows THEN row_potential[i] + delta ELSE row_potential[i]]
    /\ col_potential' = [j \in ColsAndRoot |->
          IF j \in Tree THEN col_potential[j] - delta ELSE col_potential[j]]
    /\ min_slack' = [j \in Cols |-> RelaxedSlack(j)]
    /\ current_col' = next_col
    /\ pc' = IF matching_row_for_col[next_col] = 0 THEN "augment" ELSE "grow"

\* Mutant: the columns of the tree are raised like the rows.
MoveColsUp(next_col, delta) ==
    /\ row_potential' = [i \in Rows |->
          IF i \in TreeRows THEN row_potential[i] + delta ELSE row_potential[i]]
    /\ col_potential' = [j \in ColsAndRoot |->
          IF j \in Tree THEN col_potential[j] + delta ELSE col_potential[j]]
    /\ min_slack' = [j \in Cols |->
          IF j \in Tree THEN min_slack[j] ELSE RelaxedSlack(j) - delta]
    /\ current_col' = next_col
    /\ pc' = IF matching_row_for_col[next_col] = 0 THEN "augment" ELSE "grow"

Move(next_col, delta) ==
    /\ row_potential' = [i \in Rows |->
          IF i \in TreeRows THEN row_potential[i] + delta ELSE row_potential[i]]
    /\ col_potential' = [j \in ColsAndRoot |->
          IF j \in Tree THEN col_potential[j] - delta ELSE col_potential[j]]
    /\ min_slack' = [j \in Cols |->
          IF j \in Tree THEN min_slack[j] ELSE RelaxedSlack(j) - delta]
    /\ current_col' = next_col
    /\ pc' = IF matching_row_for_col[next_col] = 0 THEN "augment" ELSE "grow"

\* Mutant: the tree forgets the columns it has passed.
GrowTreeForgetful ==
    /\ pc = "grow"
    /\ \E next_col \in Cols : IsNextCol(next_col) /\ Move(next_col, RelaxedSlack(next_col))
    /\ previous_col' = [j \in Cols |-> IF Improves(j) THEN current_col ELSE previous_col[j]]
    /\ UNCHANGED <<cost, matching_row_for_col, current_row, used_col>>

GrowTree ==
    /\ pc = "grow"
    /\ \E next_col \in Cols : IsNextCol(next_col) /\ Move(next_col, RelaxedSlack(next_col))
    /\ used_col' = Tree
    /\ previous_col' = [j \in Cols |-> IF Improves(j) THEN current_col ELSE previous_col[j]]
    /\ UNCHANGED <<cost, matching_row_for_col, current_row>>

---------------------------------------------------------------------------
\* Mutant: every column of the path gets the row being entered.
AugmentWithNewRow ==
    /\ pc = "augment"
    /\ LET previous == previous_col[current_col] IN
          /\ matching_row_for_col' =
                [matching_row_for_col EXCEPT ![current_col] = current_row]
          /\ current_col' = previous
          /\ pc' = IF previous = 0 THEN "row" ELSE "augment"
    /\ UNCHANGED <<cost, row_potential, col_potential, previous_col, min_slack,
                   used_col, current_row>>

Augment ==
    /\ pc = "augment"
    /\ LET previous == previous_col[current_col] IN
          /\ matching_row_for_col' =
                [matching_row_for_col EXCEPT ![current_col] = matching_row_for_col[previous]]
          /\ current_col' = previous
          /\ pc' = IF previous = 0 THEN "row" ELSE "augment"
    /\ UNCHANGED <<cost, row_potential, col_potential, previous_col, min_slack,
                   used_col, current_row>>

Finish ==
    /\ pc = "row"
    /\ current_row = row_count
    /\ pc' = "done"
    /\ UNCHANGED <<cost, row_potential, col_potential, matching_row_for_col,
                   previous_col, min_slack, used_col, current_row, current_col>>

Done == pc = "done" /\ UNCHANGED hungarianVars

HungarianNext == StartRow \/ GrowTree \/ Augment \/ Finish \/ Done

HungarianSpec == HungarianInit /\ [][HungarianNext]_hungarianVars

\* The solver is a sequential loop that is never suspended.
HungarianFairSpec == HungarianSpec /\ WF_hungarianVars(HungarianNext)

---------------------------------------------------------------------------
(* Properties.                                                             *)

HungarianTypeOK ==
    /\ ValidMatrix
    /\ row_potential \in [Rows -> Int]
    /\ col_potential \in [ColsAndRoot -> Int]
    /\ matching_row_for_col \in [ColsAndRoot -> 0 .. row_count]
    /\ previous_col \in [Cols -> ColsAndRoot]
    /\ min_slack \in [Cols -> Int \cup {Infinity}]
    /\ used_col \subseteq ColsAndRoot
    /\ current_row \in 0 .. row_count
    /\ current_col \in ColsAndRoot
    /\ pc \in {"row", "grow", "augment", "done"}

\* No step of the search, whichever rows it has raised, makes a pair cheaper
\* than its potentials allow: the potentials stay a lower bound on every cost.
DualFeasible == \A i \in Rows, j \in Cols : reduced_cost(i, j) >= 0

\* Every matched pair costs exactly its potentials, also halfway through an
\* augmentation, where the current column's old pair is being given away.
MatchedTight ==
    \A j \in Cols :
        /\ matching_row_for_col[j] # 0
        /\ pc = "augment" => j # current_col
        => reduced_cost(matching_row_for_col[j], j) = 0

\* A column pays (its potential drops) only once it is matched.
FreeColumnsUnpriced ==
    \A j \in Cols :
        /\ col_potential[j] <= 0
        /\ matching_row_for_col[j] = 0 => col_potential[j] = 0

\* Between rows, each row entered so far is matched with exactly one column and
\* no other row is matched: an augmentation loses and duplicates nobody.
RowsMatchedOnce ==
    pc \in {"row", "done"} =>
        /\ \A i \in 1 .. current_row : \E j \in Cols : matching_row_for_col[j] = i
        /\ \A j, k \in Cols :
              matching_row_for_col[j] = matching_row_for_col[k] /\ j # k =>
                  matching_row_for_col[j] = 0
        /\ \A j \in Cols : matching_row_for_col[j] <= current_row

\* The search always finds a free column: the solver returns.
Terminates == <>(pc = "done")

============================================================================
