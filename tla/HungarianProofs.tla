-------------------------- MODULE HungarianProofs --------------------------
(***************************************************************************)
(* Proofs about Hungarian, for every size and every matrix.                *)
(*                                                                         *)
(* A finished assignment is optimal because the potentials certify it:     *)
(* they bound every cost from below (DualFeasible), matched pairs cost     *)
(* exactly their potentials (MatchedTight), columns left free are unpriced *)
(* (FreeColumnsUnpriced) and every row has one column (RowsMatchedOnce).   *)
(* SolverInv makes these inductive.  It adds what the slacks mean while    *)
(* the tree grows, and that the path an augmentation follows is made of    *)
(* tight edges and cannot meet itself: a rank decreases along previous_col.*)
(***************************************************************************)
EXTENDS HungarianResult, Foundations, TLAPS

\* The columns that hold a row for good in this phase.
Holders ==
    CASE pc = "grow" -> ColsAndRoot
      [] pc = "augment" -> ColsAndRoot \ {current_col}
      [] OTHER -> Cols

MatchingInv ==
    /\ \A j, k \in Holders :
          matching_row_for_col[j] = matching_row_for_col[k] /\ j # k =>
              matching_row_for_col[j] = 0
    /\ \A i \in 1 .. current_row : \E j \in Holders : matching_row_for_col[j] = i
    /\ \A j \in ColsAndRoot : matching_row_for_col[j] <= current_row

TreeInv ==
    /\ pc \in {"grow", "augment"} => \A j \in used_col : matching_row_for_col[j] # 0
    /\ pc = "grow" =>
          /\ current_col \notin used_col
          /\ matching_row_for_col[current_col] # 0
          /\ used_col = {} => current_col = 0
          /\ used_col # {} => 0 \in used_col
    /\ pc = "augment" => current_col \in Cols

\* While the tree grows, the slack of a column outside it is the least reduced
\* cost from the rows of the tree, attained by the row of its previous_col.
SlackInv ==
    pc = "grow" => \A j \in Cols \ used_col :
        IF used_col = {} THEN min_slack[j] = Infinity
        ELSE /\ previous_col[j] \in used_col
             /\ min_slack[j] = reduced_cost(matching_row_for_col[previous_col[j]], j)
             /\ \A k \in used_col : min_slack[j] <= reduced_cost(matching_row_for_col[k], j)

\* The edge into column j is tight and leaves a column of lower rank.
Reached(rank, j) ==
    /\ previous_col[j] \in used_col
    /\ rank[previous_col[j]] < rank[j]
    /\ reduced_cost(matching_row_for_col[previous_col[j]], j) = 0

PathInv ==
    pc \in {"grow", "augment"} => \E rank \in [ColsAndRoot -> Nat] :
        /\ pc = "grow" => \A j \in Tree : rank[j] <= rank[current_col]
        /\ \A j \in Tree \ {0} : rank[j] <= rank[current_col] => Reached(rank, j)

SolverInv ==
    /\ HungarianTypeOK
    /\ DualFeasible /\ MatchedTight /\ FreeColumnsUnpriced
    /\ MatchingInv /\ TreeInv /\ SlackInv /\ PathInv

---------------------------------------------------------------------------
LEMMA MatrixShape ==
    ASSUME ValidMatrix
    PROVE  /\ RowCount \in Nat \ {0} /\ ColCount \in Nat \ {0}
           /\ cost \in [1 .. RowCount -> [1 .. ColCount -> Nat]]
<1>1. /\ cost \in Seq(Seq(Nat)) /\ cost # <<>> /\ cost \in Seq(Seq(Nat) \ {<<>>})
      /\ \A i \in DOMAIN cost : cost[i] \in Seq(Nat) /\ cost[i] # <<>>
  BY DEF ValidMatrix
<1>2. DOMAIN cost = 1 .. RowCount /\ RowCount \in Nat \ {0}
  BY <1>1 DEF RowCount
<1>3. ColCount \in Nat \ {0}
  BY <1>1, <1>2 DEF ColCount
<1>4. ASSUME NEW i \in 1 .. RowCount PROVE cost[i] \in [1 .. ColCount -> Nat]
  <2>1. cost[i] \in Seq(Nat) /\ Len(cost[i]) = ColCount
    BY <1>1, <1>2 DEF ValidMatrix
  <2>. QED BY <2>1
<1>. QED BY <1>1, <1>2, <1>3, <1>4

LEMMA SizesOfMatrix ==
    ASSUME ValidMatrix
    PROVE  /\ row_count \in Nat /\ col_count \in Nat
           /\ Rows \subseteq Int /\ Cols \subseteq ColsAndRoot /\ 0 \in ColsAndRoot
           /\ 0 \notin Cols /\ \A j \in ColsAndRoot : j = 0 \/ j \in Cols
           /\ \A i \in 0 .. row_count : i = 0 \/ i \in Rows
           /\ 0 \notin Rows
BY MatrixShape DEF row_count, col_count, Rows, Cols, ColsAndRoot

LEMMA SizesTyped ==
    HungarianTypeOK =>
        /\ row_count \in Nat /\ col_count \in Nat
        /\ Rows \subseteq Int /\ Cols \subseteq ColsAndRoot /\ 0 \in ColsAndRoot
        /\ 0 \notin Cols /\ \A j \in ColsAndRoot : j = 0 \/ j \in Cols
        /\ \A i \in 0 .. row_count : i = 0 \/ i \in Rows
        /\ 0 \notin Rows
BY SizesOfMatrix DEF HungarianTypeOK

\* No step changes the matrix.
LEMMA SameSizes ==
    ASSUME cost' = cost
    PROVE  /\ Rows' = Rows /\ Cols' = Cols /\ ColsAndRoot' = ColsAndRoot
           /\ row_count' = row_count /\ col_count' = col_count
           /\ ValidMatrix' <=> ValidMatrix
BY DEF Rows, Cols, ColsAndRoot, row_count, col_count, transposed, RowCount, ColCount,
       ValidMatrix

LEMMA CostsTyped ==
    ASSUME HungarianTypeOK, NEW i \in Rows, NEW j \in Cols
    PROVE  working_matrix(i, j) \in Nat
<1>. QED BY MatrixShape
     DEF HungarianTypeOK, working_matrix, Rows, Cols, row_count, col_count, transposed

LEMMA ReducedTyped ==
    ASSUME HungarianTypeOK, NEW i \in Rows, NEW j \in Cols
    PROVE  reduced_cost(i, j) \in Int
BY CostsTyped, SizesTyped DEF HungarianTypeOK, reduced_cost

---------------------------------------------------------------------------
LEMMA InitSolver == HungarianInit => SolverInv
<1> SUFFICES ASSUME HungarianInit PROVE SolverInv
  OBVIOUS
<1> USE SizesTyped
<1>1. HungarianTypeOK
  BY SizesOfMatrix DEF HungarianInit, HungarianTypeOK
<1>2. DualFeasible
  <2>1. \A i \in Rows, j \in Cols : reduced_cost(i, j) = working_matrix(i, j)
    BY <1>1, CostsTyped DEF HungarianInit, reduced_cost
  <2>. QED BY <1>1, <2>1, CostsTyped DEF DualFeasible
<1>3. MatchedTight /\ FreeColumnsUnpriced
  BY <1>1 DEF HungarianInit, MatchedTight, FreeColumnsUnpriced
<1>4. MatchingInv /\ TreeInv /\ SlackInv /\ PathInv
  BY <1>1 DEF HungarianInit, MatchingInv, TreeInv, SlackInv, PathInv, Holders
<1>. QED BY <1>1, <1>2, <1>3, <1>4 DEF SolverInv

LEMMA SameReduced ==
    ASSUME UNCHANGED <<cost, row_potential, col_potential>>
    PROVE  \A i, j : reduced_cost(i, j)' = reduced_cost(i, j)
BY DEF reduced_cost, working_matrix, transposed, RowCount, ColCount

LEMMA StartRowSolver ==
    ASSUME SolverInv, StartRow
    PROVE  SolverInv'
<1> USE SizesTyped DEF SolverInv
<1>0. cost' = cost
  BY DEF StartRow
<1> USE <1>0, SameSizes
<1>1. HungarianTypeOK'
  BY DEF StartRow, HungarianTypeOK, ColsAndRoot
<1>2. \A i \in Rows, j \in Cols : reduced_cost(i, j)' = reduced_cost(i, j)
  BY SameReduced DEF StartRow
<1>3. \A j \in Cols : matching_row_for_col'[j] = matching_row_for_col[j]
  BY DEF StartRow, HungarianTypeOK
<1>4. matching_row_for_col'[0] = current_row + 1 /\ pc = "row" /\ pc' = "grow"
  BY DEF StartRow, HungarianTypeOK
<1>5. DualFeasible'
  BY <1>2 DEF DualFeasible
<1>6. MatchedTight'
  BY <1>2, <1>3, <1>4 DEF MatchedTight, HungarianTypeOK
<1>7. FreeColumnsUnpriced'
  BY <1>3 DEF StartRow, FreeColumnsUnpriced
<1>8. MatchingInv'
  <2>1. Holders = Cols /\ Holders' = ColsAndRoot
    BY <1>4 DEF Holders
  <2>2. current_row \in Nat /\ current_row' = current_row + 1
    BY DEF StartRow, HungarianTypeOK
  <2>3. \A j \in ColsAndRoot :
           matching_row_for_col[j] \in Nat /\ matching_row_for_col[j] <= current_row
    BY DEF MatchingInv, HungarianTypeOK
  <2>4. \A j, k \in ColsAndRoot :
           matching_row_for_col'[j] = matching_row_for_col'[k] /\ j # k =>
               matching_row_for_col'[j] = 0
    BY <1>3, <1>4, <2>1, <2>2, <2>3 DEF MatchingInv
  <2>5. \A i \in 1 .. current_row' : \E j \in ColsAndRoot : matching_row_for_col'[j] = i
    <3>1. ASSUME NEW i \in 1 .. current_row, i # current_row + 1
          PROVE  \E j \in ColsAndRoot : matching_row_for_col'[j] = i
      BY <1>3, <2>1 DEF MatchingInv
    <3>. QED BY <1>4, <2>2, <3>1
  <2>6. \A j \in ColsAndRoot : matching_row_for_col'[j] <= current_row'
    BY <1>3, <1>4, <2>2, <2>3
  <2>. QED BY <2>1, <2>4, <2>5, <2>6 DEF MatchingInv
<1>9. TreeInv'
  BY <1>4 DEF StartRow, TreeInv, HungarianTypeOK
<1>10. SlackInv'
  BY DEF StartRow, SlackInv
<1>11. PathInv'
  <2>1. Tree' = {0} /\ current_col' = 0
    BY DEF StartRow, Tree
  <2> DEFINE rank == [j \in ColsAndRoot |-> 0]
  <2>2. rank \in [ColsAndRoot -> Nat] /\ rank[0] <= rank[0]
    OBVIOUS
  <2>3. Tree' \ {0} = {} /\ \A j \in Tree' : rank[j] <= rank[current_col']
    BY <2>1, <2>2
  <2> HIDE DEF rank
  <2>. QED BY <2>2, <2>3 DEF PathInv
<1>. QED BY <1>1, <1>5, <1>6, <1>7, <1>8, <1>9, <1>10, <1>11

---------------------------------------------------------------------------
(* One iteration of the search.                                            *)

\* The relaxed slack of a column outside the tree, and where it comes from.
LEMMA RelaxedSlacks ==
    ASSUME SolverInv, pc = "grow", NEW j \in Outside
    PROVE  /\ RelaxedSlack(j) \in Int /\ RelaxedSlack(j) >= 0
           /\ \A k \in Tree :
                 RelaxedSlack(j) <= reduced_cost(matching_row_for_col[k], j)
           /\ LET source == IF Improves(j) THEN current_col ELSE previous_col[j] IN
                 /\ source \in Tree
                 /\ RelaxedSlack(j) = reduced_cost(matching_row_for_col[source], j)
<1> USE SizesTyped DEF SolverInv
<1>1. j \in Cols /\ j \notin used_col /\ Tree \subseteq ColsAndRoot
  BY DEF Outside, Tree, HungarianTypeOK
<1>2. ASSUME NEW k \in Tree
      PROVE  /\ matching_row_for_col[k] \in Rows
             /\ reduced_cost(matching_row_for_col[k], j) \in Int
             /\ reduced_cost(matching_row_for_col[k], j) >= 0
  <2>1. matching_row_for_col[k] # 0
    BY DEF TreeInv, Tree
  <2>2. matching_row_for_col[k] \in Rows
    BY <1>1, <2>1 DEF HungarianTypeOK
  <2>. QED BY <1>1, <2>2, ReducedTyped DEF DualFeasible
<1>3. CASE used_col = {}
  <2>1. Tree = {current_col} /\ min_slack[j] = Infinity
    BY <1>1, <1>3 DEF Tree, SlackInv
  <2>2. Improves(j)
    BY <2>1 DEF Improves, Less
  <2>3. RelaxedSlack(j) = reduced_cost(matching_row_for_col[current_col], j)
    BY <2>2 DEF RelaxedSlack
  <2>. QED BY <1>2, <2>1, <2>2, <2>3
<1>4. CASE used_col # {}
  <2>1. /\ previous_col[j] \in used_col
        /\ min_slack[j] = reduced_cost(matching_row_for_col[previous_col[j]], j)
        /\ \A k \in used_col : min_slack[j] <= reduced_cost(matching_row_for_col[k], j)
    BY <1>1, <1>4 DEF SlackInv
  <2>2. min_slack[j] \in Int /\ min_slack[j] # Infinity
    BY <1>2, <2>1, InfinityAssumption DEF Tree
  <2>3. Improves(j) <=> reduced_cost(matching_row_for_col[current_col], j) < min_slack[j]
    BY <2>2 DEF Improves, Less
  <2>4. current_col \in Tree /\ used_col \subseteq Tree /\ previous_col[j] \in Tree
    BY <2>1 DEF Tree
  <2>5. CASE Improves(j)
    <3>1. RelaxedSlack(j) = reduced_cost(matching_row_for_col[current_col], j)
      BY <2>5 DEF RelaxedSlack
    <3>2. \A k \in used_col : RelaxedSlack(j) <= reduced_cost(matching_row_for_col[k], j)
      BY <1>2, <2>1, <2>2, <2>3, <2>4, <2>5, <3>1
    <3>. QED BY <1>2, <2>4, <2>5, <3>1, <3>2 DEF Tree
  <2>6. CASE ~Improves(j)
    <3>1. RelaxedSlack(j) = min_slack[j]
      BY <2>6 DEF RelaxedSlack
    <3>2. RelaxedSlack(j) <= reduced_cost(matching_row_for_col[current_col], j)
      BY <1>2, <2>2, <2>3, <2>4, <2>6, <3>1
    <3>. QED BY <1>2, <2>1, <2>2, <2>4, <2>6, <3>1, <3>2 DEF Tree
  <2>. QED BY <2>5, <2>6
<1>. QED BY <1>3, <1>4

\* How moving the potentials by delta changes the reduced costs.
LEMMA MovedReduced ==
    ASSUME HungarianTypeOK, NEW next_col, NEW delta \in Int, Move(next_col, delta),
           UNCHANGED cost, NEW i \in Rows, NEW j \in Cols
    PROVE  /\ i \in TreeRows /\ j \in Tree => reduced_cost(i, j)' = reduced_cost(i, j)
           /\ i \notin TreeRows /\ j \notin Tree => reduced_cost(i, j)' = reduced_cost(i, j)
           /\ i \in TreeRows /\ j \notin Tree => reduced_cost(i, j)' = reduced_cost(i, j) - delta
           /\ i \notin TreeRows /\ j \in Tree => reduced_cost(i, j)' = reduced_cost(i, j) + delta
<1>1. working_matrix(i, j)' = working_matrix(i, j) /\ working_matrix(i, j) \in Int
  BY CostsTyped DEF working_matrix, transposed, RowCount, ColCount
<1>2. /\ row_potential[i] \in Int /\ col_potential[j] \in Int
      /\ row_potential'[i] = IF i \in TreeRows THEN row_potential[i] + delta ELSE row_potential[i]
      /\ col_potential'[j] = IF j \in Tree THEN col_potential[j] - delta ELSE col_potential[j]
  BY SizesTyped DEF Move, HungarianTypeOK
<1>. QED BY <1>1, <1>2 DEF reduced_cost

LEMMA GrowTreeSolver ==
    ASSUME SolverInv, GrowTree
    PROVE  SolverInv'
<1> USE SizesTyped DEF SolverInv
<1>0. cost' = cost
  BY DEF GrowTree
<1> USE <1>0, SameSizes
<1>1. PICK next_col \in Cols : IsNextCol(next_col) /\ Move(next_col, RelaxedSlack(next_col))
  BY DEF GrowTree
<1> DEFINE delta == RelaxedSlack(next_col)
<1>2. /\ pc = "grow" /\ used_col' = Tree /\ UNCHANGED <<cost, matching_row_for_col, current_row>>
      /\ current_col' = next_col
      /\ pc' = IF matching_row_for_col[next_col] = 0 THEN "augment" ELSE "grow"
      /\ Tree \subseteq ColsAndRoot /\ next_col \in Outside /\ next_col \notin Tree
      /\ 0 \in Tree /\ current_col \in Tree /\ used_col \subseteq Tree
  BY <1>1 DEF GrowTree, Move, IsNextCol, Outside, Tree, HungarianTypeOK, TreeInv
<1>3. delta \in Int /\ delta >= 0 /\ \A k \in Outside : delta <= RelaxedSlack(k)
  BY <1>1, <1>2, RelaxedSlacks DEF IsNextCol
<1>4. \A j \in Cols : previous_col'[j] = IF Improves(j) THEN current_col ELSE previous_col[j]
  BY DEF GrowTree
<1>5. \A k \in Tree : matching_row_for_col[k] \in Rows /\ matching_row_for_col[k] \in TreeRows
  BY <1>2 DEF HungarianTypeOK, TreeInv, Tree, TreeRows
<1>6. \A j \in ColsAndRoot \ Tree :
         matching_row_for_col[j] # 0 =>
             matching_row_for_col[j] \in Rows /\ matching_row_for_col[j] \notin TreeRows
  BY <1>2 DEF HungarianTypeOK, TreeRows, MatchingInv, Holders
<1>7. \A i \in Rows, j \in Cols :
         /\ reduced_cost(i, j) \in Int
         /\ i \in TreeRows /\ j \in Tree => reduced_cost(i, j)' = reduced_cost(i, j)
         /\ i \notin TreeRows /\ j \notin Tree => reduced_cost(i, j)' = reduced_cost(i, j)
         /\ i \in TreeRows /\ j \notin Tree => reduced_cost(i, j)' = reduced_cost(i, j) - delta
         /\ i \notin TreeRows /\ j \in Tree => reduced_cost(i, j)' = reduced_cost(i, j) + delta
  BY <1>1, <1>2, <1>3, MovedReduced, ReducedTyped
<1> HIDE DEF delta
<1>8. HungarianTypeOK'
  <2>1. row_potential' \in [Rows -> Int] /\ col_potential' \in [ColsAndRoot -> Int]
    BY <1>1, <1>3 DEF Move, HungarianTypeOK, delta
  <2>2. \A j \in Cols \ Tree : RelaxedSlack(j) - delta \in Int
    BY <1>2, <1>3, RelaxedSlacks DEF Outside
  <2>3. min_slack' = [j \in Cols |-> IF j \in Tree THEN min_slack[j] ELSE RelaxedSlack(j) - delta]
    BY <1>1 DEF Move, delta
  <2>4. min_slack' \in [Cols -> Int \cup {Infinity}]
    BY <2>2, <2>3 DEF HungarianTypeOK
  <2>5. previous_col' \in [Cols -> ColsAndRoot]
    BY <1>2 DEF GrowTree, HungarianTypeOK
  <2>6. current_col' \in ColsAndRoot /\ pc' \in {"row", "grow", "augment", "done"}
    BY <1>2
  <2>7. used_col' \subseteq ColsAndRoot
    BY <1>2
  <2>8. /\ ValidMatrix' /\ matching_row_for_col' \in [ColsAndRoot -> 0 .. row_count]
        /\ current_row' \in 0 .. row_count
    BY <1>2 DEF HungarianTypeOK
  <2>. QED BY <2>1, <2>4, <2>5, <2>6, <2>7, <2>8 DEF HungarianTypeOK
<1>9. DualFeasible'
  <2>1. ASSUME NEW i \in Rows, NEW j \in Cols PROVE reduced_cost(i, j)' >= 0
    <3>1. reduced_cost(i, j) \in Int /\ reduced_cost(i, j) >= 0
      BY ReducedTyped DEF DualFeasible
    <3>2. CASE i \in TreeRows /\ j \notin Tree
      <4>1. PICK k \in Tree : i = matching_row_for_col[k]
        BY <3>2 DEF TreeRows
      <4>2. j \in Outside /\ RelaxedSlack(j) \in Int /\ RelaxedSlack(j) <= reduced_cost(i, j)
        BY <1>2, <3>2, <4>1, RelaxedSlacks DEF Outside
      <4>. QED BY <1>3, <1>7, <3>1, <3>2, <4>2
    <3>. QED BY <1>3, <1>7, <3>1, <3>2
  <2>. QED BY <2>1 DEF DualFeasible
<1>10. MatchedTight'
  <2>1. ASSUME NEW j \in Cols, matching_row_for_col[j] # 0
        PROVE  reduced_cost(matching_row_for_col[j], j)' = 0
    <3>1. matching_row_for_col[j] \in Rows /\ reduced_cost(matching_row_for_col[j], j) = 0
      BY <1>2, <2>1 DEF HungarianTypeOK, MatchedTight
    <3>2. matching_row_for_col[j] \in TreeRows <=> j \in Tree
      BY <1>5, <1>6, <2>1
    <3>3. matching_row_for_col'[j] = matching_row_for_col[j]
      BY <1>2
    <3>. QED BY <1>7, <3>1, <3>2, <3>3
  <2>. QED BY <1>2, <2>1 DEF MatchedTight
<1>11. FreeColumnsUnpriced'
  <2>1. \A j \in Cols : col_potential'[j] =
           IF j \in Tree THEN col_potential[j] - delta ELSE col_potential[j]
    BY <1>1 DEF Move, delta
  <2>2. \A j \in Cols : col_potential[j] \in Int
    BY DEF HungarianTypeOK
  <2>3. \A j \in Tree : matching_row_for_col[j] # 0
    BY <1>5
  <2>. QED BY <1>2, <1>3, <2>1, <2>2, <2>3 DEF FreeColumnsUnpriced
<1>12. MatchingInv'
  <2>1. CASE matching_row_for_col[next_col] # 0
    <3>1. Holders' = ColsAndRoot /\ Holders = ColsAndRoot
      BY <1>2, <2>1 DEF Holders
    <3>. QED BY <1>2, <3>1 DEF MatchingInv
  <2>2. CASE matching_row_for_col[next_col] = 0
    <3>1. Holders' = ColsAndRoot \ {next_col} /\ Holders = ColsAndRoot
      BY <1>2, <2>2 DEF Holders
    <3>2. \A i \in 1 .. current_row : \E j \in ColsAndRoot \ {next_col} : matching_row_for_col[j] = i
      BY <2>2, <3>1 DEF MatchingInv, HungarianTypeOK
    <3>. QED BY <1>2, <3>1, <3>2 DEF MatchingInv
  <2>. QED BY <2>1, <2>2
<1>13. TreeInv'
  BY <1>2, <1>5 DEF TreeInv
<1>14. SlackInv'
  <2> SUFFICES ASSUME NEW j \in Cols, j \notin Tree
               PROVE  /\ previous_col'[j] \in Tree
                      /\ min_slack'[j] = reduced_cost(matching_row_for_col[previous_col[j]], j)'
                      /\ \A k \in Tree : min_slack'[j] <= reduced_cost(matching_row_for_col[k], j)'
    BY <1>2 DEF SlackInv
  <2>1. j \in Outside
    BY DEF Outside
  <2>2. /\ RelaxedSlack(j) \in Int /\ previous_col'[j] \in Tree
        /\ RelaxedSlack(j) = reduced_cost(matching_row_for_col[previous_col'[j]], j)
        /\ \A k \in Tree : RelaxedSlack(j) <= reduced_cost(matching_row_for_col[k], j)
    BY <1>2, <1>4, <2>1, RelaxedSlacks
  <2>3. min_slack'[j] = RelaxedSlack(j) - delta
    BY <1>1 DEF Move, delta
  <2>4. \A k \in Tree : /\ matching_row_for_col'[k] = matching_row_for_col[k]
                        /\ reduced_cost(matching_row_for_col[k], j) \in Int
                        /\ reduced_cost(matching_row_for_col[k], j)' =
                              reduced_cost(matching_row_for_col[k], j) - delta
    BY <1>2, <1>5, <1>7
  <2>. QED BY <1>3, <2>2, <2>3, <2>4
<1>15. PathInv'
  <2>1. PICK rank \in [ColsAndRoot -> Nat] :
           /\ \A j \in Tree : rank[j] <= rank[current_col]
           /\ \A j \in Tree \ {0} : rank[j] <= rank[current_col] => Reached(rank, j)
    BY <1>2 DEF PathInv
  <2>2. PICK later \in [ColsAndRoot -> Nat] :
           /\ later[next_col] = rank[current_col] + 1 /\ rank[current_col] \in Nat
           /\ \A j \in Tree : later[j] = rank[j] /\ rank[j] \in Nat
    <3> DEFINE extended == [rank EXCEPT ![next_col] = rank[current_col] + 1]
    <3>1. extended \in [ColsAndRoot -> Nat]
      BY <1>2 DEF HungarianTypeOK
    <3>. QED BY <1>2, <3>1 DEF HungarianTypeOK
  <2>3. Tree' = Tree \cup {next_col}
    BY <1>2 DEF Tree
  <2>4. \A j \in Tree' : later[j] <= later[current_col']
    BY <1>2, <2>1, <2>2, <2>3
  <2>5. ASSUME NEW j \in Tree \ {0} PROVE Reached(later, j)'
    <3>1. /\ previous_col[j] \in used_col /\ rank[previous_col[j]] < rank[j]
          /\ reduced_cost(matching_row_for_col[previous_col[j]], j) = 0
      BY <2>1 DEF Reached
    <3>2. j \in Cols /\ previous_col'[j] = previous_col[j] /\ previous_col[j] \in Tree
      BY <1>2, <1>4, <3>1 DEF Improves, Outside
    <3>3. reduced_cost(matching_row_for_col[previous_col[j]], j)' = 0
      <4>1. matching_row_for_col'[previous_col'[j]] = matching_row_for_col[previous_col[j]]
        BY <1>2, <3>2
      <4>. QED BY <1>5, <1>7, <3>1, <3>2, <4>1
    <3>. QED BY <1>2, <2>2, <3>1, <3>2, <3>3 DEF Reached
  <2>6. Reached(later, next_col)'
    <3>1. /\ previous_col'[next_col] \in Tree
          /\ delta = reduced_cost(matching_row_for_col[previous_col'[next_col]], next_col)
      BY <1>2, <1>4, RelaxedSlacks DEF delta
    <3>2. reduced_cost(matching_row_for_col[previous_col[next_col]], next_col)' = 0
      <4>1. matching_row_for_col'[previous_col'[next_col]] = matching_row_for_col[previous_col'[next_col]]
        BY <1>2
      <4>2. /\ matching_row_for_col[previous_col'[next_col]] \in Rows
            /\ matching_row_for_col[previous_col'[next_col]] \in TreeRows
        BY <1>5, <3>1
      <4>3. reduced_cost(matching_row_for_col[previous_col'[next_col]], next_col) \in Int
        BY <1>7, <4>2
      <4>4. reduced_cost(matching_row_for_col[previous_col[next_col]], next_col)' =
              reduced_cost(matching_row_for_col[previous_col'[next_col]], next_col) - delta
        BY <1>2, <1>7, <4>1, <4>2
      <4>. QED BY <1>3, <3>1, <4>3, <4>4
    <3>3. later[previous_col'[next_col]] < later[next_col]
      BY <2>1, <2>2, <3>1
    <3>. QED BY <1>2, <3>1, <3>2, <3>3 DEF Reached
  <2>. QED BY <2>2, <2>3, <2>4, <2>5, <2>6 DEF PathInv
<1>. QED BY <1>8, <1>9, <1>10, <1>11, <1>12, <1>13, <1>14, <1>15

---------------------------------------------------------------------------
(* One step along the path.                                                *)

LEMMA AugmentSolver ==
    ASSUME SolverInv, Augment
    PROVE  SolverInv'
<1> USE SizesTyped DEF SolverInv
<1>0. cost' = cost
  BY DEF Augment
<1> USE <1>0, SameSizes
<1> DEFINE previous == previous_col[current_col]
<1>1. PICK rank \in [ColsAndRoot -> Nat] :
         \A j \in Tree \ {0} : rank[j] <= rank[current_col] => Reached(rank, j)
  BY DEF PathInv, Augment
<1>2. /\ pc = "augment" /\ current_col \in Cols /\ current_col \in Tree
      /\ previous \in used_col /\ previous \in ColsAndRoot
      /\ rank[previous] < rank[current_col] /\ previous # current_col
      /\ reduced_cost(matching_row_for_col[previous], current_col) = 0
  <2>1. pc = "augment" /\ current_col \in Cols /\ current_col \in Tree /\ current_col # 0
    BY DEF Augment, TreeInv, Tree
  <2>2. Reached(rank, current_col)
    BY <1>1, <2>1
  <2>. QED BY <2>1, <2>2 DEF Reached, HungarianTypeOK
<1>3. /\ matching_row_for_col' = [matching_row_for_col EXCEPT ![current_col] = matching_row_for_col[previous]]
      /\ current_col' = previous
      /\ pc' = IF previous = 0 THEN "row" ELSE "augment"
      /\ UNCHANGED <<cost, row_potential, col_potential, previous_col, min_slack,
                     used_col, current_row>>
  BY DEF Augment
<1>4. /\ matching_row_for_col'[current_col] = matching_row_for_col[previous]
      /\ \A j \in ColsAndRoot \ {current_col} : matching_row_for_col'[j] = matching_row_for_col[j]
      /\ matching_row_for_col[previous] # 0 /\ matching_row_for_col[previous] \in Rows
  BY <1>2, <1>3 DEF HungarianTypeOK, TreeInv
<1>5. \A i, j : reduced_cost(i, j)' = reduced_cost(i, j)
  BY <1>3, SameReduced
<1> HIDE DEF previous
<1>6. HungarianTypeOK'
  BY <1>2, <1>3 DEF HungarianTypeOK, previous
<1>7. DualFeasible'
  BY <1>5 DEF DualFeasible
<1>8. MatchedTight'
  <2> SUFFICES ASSUME NEW j \in Cols, matching_row_for_col'[j] # 0,
                      pc' = "augment" => j # previous
               PROVE  reduced_cost(matching_row_for_col'[j], j) = 0
    BY <1>3, <1>5 DEF MatchedTight
  <2>1. CASE j = current_col
    BY <1>2, <1>4, <2>1
  <2>2. CASE j # current_col
    BY <1>2, <1>4, <2>2 DEF MatchedTight
  <2>. QED BY <2>1, <2>2
<1>9. FreeColumnsUnpriced'
  BY <1>3, <1>4 DEF FreeColumnsUnpriced
<1>10. MatchingInv'
  <2>1. Holders = ColsAndRoot \ {current_col} /\ Holders' = ColsAndRoot \ {previous}
    BY <1>2, <1>3 DEF Holders
  <2>2. ASSUME NEW j \in Holders', NEW k \in Holders', j # k,
               matching_row_for_col'[j] = matching_row_for_col'[k]
        PROVE  matching_row_for_col'[j] = 0
    <3>1. CASE j # current_col /\ k # current_col
      BY <1>4, <2>1, <2>2, <3>1 DEF MatchingInv
    <3>2. CASE j = current_col
      BY <1>2, <1>4, <2>1, <2>2, <3>2 DEF MatchingInv
    <3>3. CASE k = current_col
      BY <1>2, <1>4, <2>1, <2>2, <3>3 DEF MatchingInv
    <3>. QED BY <3>1, <3>2, <3>3
  <2>3. ASSUME NEW i \in 1 .. current_row
        PROVE  \E j \in Holders' : matching_row_for_col'[j] = i
    <3>1. PICK j \in Holders : matching_row_for_col[j] = i
      BY DEF MatchingInv
    <3>2. CASE j = previous
      BY <1>2, <1>4, <2>1, <3>1, <3>2
    <3>3. CASE j # previous
      BY <1>4, <2>1, <3>1, <3>3
    <3>. QED BY <3>2, <3>3
  <2>4. \A j \in ColsAndRoot : matching_row_for_col'[j] <= current_row
    BY <1>2, <1>4 DEF MatchingInv
  <2>. QED BY <1>3, <2>2, <2>3, <2>4 DEF MatchingInv
<1>11. TreeInv'
  <2>1. \A j \in used_col : matching_row_for_col'[j] # 0
    BY <1>2, <1>4 DEF TreeInv, HungarianTypeOK
  <2>. QED BY <1>2, <1>3, <2>1 DEF TreeInv
<1>12. SlackInv'
  BY <1>3 DEF SlackInv
<1>13. PathInv'
  <2>1. Tree' \subseteq Tree
    BY <1>2, <1>3 DEF Tree
  <2>2. ASSUME NEW j \in Tree' \ {0}, rank[j] <= rank[previous]
        PROVE  Reached(rank, j)'
    <3>1. j \in ColsAndRoot /\ rank[j] \in Nat /\ rank[previous] \in Nat /\ rank[current_col] \in Nat
      BY <1>2, <1>3, <2>1 DEF Tree, HungarianTypeOK
    <3>2. Reached(rank, j)
      BY <1>1, <1>2, <2>1, <2>2, <3>1
    <3>3. previous_col[j] \in ColsAndRoot /\ rank[previous_col[j]] \in Nat /\ previous_col[j] # current_col
      BY <1>2, <2>2, <3>1, <3>2 DEF Reached, HungarianTypeOK
    <3>4. matching_row_for_col'[previous_col'[j]] = matching_row_for_col[previous_col[j]]
      BY <1>3, <1>4, <3>3
    <3>. QED BY <1>3, <1>5, <3>2, <3>4 DEF Reached
  <2>. QED BY <1>3, <2>2 DEF PathInv
<1>. QED BY <1>6, <1>7, <1>8, <1>9, <1>10, <1>11, <1>12, <1>13

LEMMA FinishSolver ==
    ASSUME SolverInv, Finish
    PROVE  SolverInv'
<1> USE SameSizes DEF SolverInv, Finish
<1>1. \A i, j : reduced_cost(i, j)' = reduced_cost(i, j)
  BY SameReduced
<1>2. HungarianTypeOK' /\ FreeColumnsUnpriced'
  BY DEF HungarianTypeOK, FreeColumnsUnpriced
<1>3. DualFeasible' /\ MatchedTight'
  BY <1>1 DEF DualFeasible, MatchedTight
<1>4. MatchingInv'
  BY DEF MatchingInv, Holders
<1>5. TreeInv' /\ SlackInv' /\ PathInv'
  BY DEF TreeInv, SlackInv, PathInv
<1>. QED BY <1>2, <1>3, <1>4, <1>5

LEMMA StutterSolver ==
    ASSUME SolverInv, UNCHANGED hungarianVars
    PROVE  SolverInv'
<1> USE SameSizes DEF SolverInv, hungarianVars
<1>1. \A i, j : reduced_cost(i, j)' = reduced_cost(i, j)
  BY SameReduced
<1>2. HungarianTypeOK' /\ FreeColumnsUnpriced'
  BY DEF HungarianTypeOK, FreeColumnsUnpriced
<1>3. DualFeasible' /\ MatchedTight'
  BY <1>1 DEF DualFeasible, MatchedTight
<1>4. MatchingInv'
  BY DEF MatchingInv, Holders
<1>5. TreeInv'
  BY DEF TreeInv
<1>6. SlackInv'
  BY <1>1 DEF SlackInv
<1>7. PathInv'
  BY <1>1 DEF PathInv, Reached, Tree
<1>. QED BY <1>2, <1>3, <1>4, <1>5, <1>6, <1>7

LEMMA NextSolver == SolverInv /\ [HungarianNext]_hungarianVars => SolverInv'
BY StartRowSolver, GrowTreeSolver, AugmentSolver, FinishSolver, StutterSolver
   DEF HungarianNext, Done

THEOREM SolverCorrect == HungarianSpec => []SolverInv
BY InitSolver, NextSolver, PTL DEF HungarianSpec

---------------------------------------------------------------------------
\* Every reachable state of the solver is well typed.
THEOREM AlwaysTyped == HungarianSpec => []HungarianTypeOK
BY SolverCorrect, PTL DEF SolverInv

\* The potentials are a lower bound on every cost throughout the search.
THEOREM AlwaysFeasible == HungarianSpec => []DualFeasible
BY SolverCorrect, PTL DEF SolverInv

\* Matched pairs cost exactly their potentials, also halfway along a path.
THEOREM AlwaysTight == HungarianSpec => []MatchedTight
BY SolverCorrect, PTL DEF SolverInv

\* A column is priced only once it is matched.
THEOREM FreeNeverPriced == HungarianSpec => []FreeColumnsUnpriced
BY SolverCorrect, PTL DEF SolverInv

\* Between rows, every row entered so far is matched with exactly one column.
THEOREM NobodyLost == HungarianSpec => []RowsMatchedOnce
<1>1. SolverInv => RowsMatchedOnce
  BY SizesTyped DEF SolverInv, MatchingInv, Holders, RowsMatchedOnce
<1>. QED BY <1>1, SolverCorrect, PTL

---------------------------------------------------------------------------
(* The assignment is optimal, by weak duality: the potentials add up to no *)
(* more than the cost of any complete pairing, and to exactly the cost of  *)
(* the one that was found.                                                 *)

\* A pairing of all rows of the working matrix.
CompletePairing(pairs) ==
    /\ pairs \subseteq Rows \X Cols
    /\ \A p, q \in pairs : p # q => p[1] # q[1] /\ p[2] # q[2]
    /\ \A i \in Rows : \E p \in pairs : p[1] = i

ColsOf(pairs) == {p[2] : p \in pairs}

WorkingCost(pairs) ==
    SumFunctionOnSet([p \in pairs |-> working_matrix(p[1], p[2])], pairs)

DualCost ==
    SumFunctionOnSet(row_potential, Rows) + SumFunctionOnSet(col_potential, Cols)

LEMMA PairsFinite ==
    ASSUME HungarianTypeOK, NEW pairs \in SUBSET (Rows \X Cols)
    PROVE  IsFiniteSet(Rows) /\ IsFiniteSet(Cols) /\ IsFiniteSet(pairs)
<1>1. IsFiniteSet(Rows) /\ IsFiniteSet(Cols)
  BY SizesTyped, FS_Interval DEF Rows, Cols
<1>2. IsFiniteSet(Rows \X Cols)
  BY <1>1, FS_Product
<1>. QED BY <1>1, <1>2, FS_Subset

\* Summing a function of the row, or of the column, over the pairs.
LEMMA SumOverRows ==
    ASSUME HungarianTypeOK, NEW pairs, CompletePairing(pairs), NEW u, \A i \in Rows : u[i] \in Int
    PROVE  SumFunctionOnSet([p \in pairs |-> u[p[1]]], pairs) = SumFunctionOnSet(u, Rows)
<1> DEFINE m == [p \in pairs |-> p[1]]
           g == [p \in pairs |-> u[p[1]]]
<1>1. IsFiniteSet(pairs)
  BY PairsFinite DEF CompletePairing
<1>2. \A p \in pairs : p[1] \in Rows /\ p[2] \in Cols
  BY DEF CompletePairing
<1>3. \A p, q \in pairs : m[p] = m[q] => p = q
  BY DEF CompletePairing
<1>4. \A p \in pairs : u[m[p]] \in Int /\ g[p] = u[m[p]]
  BY <1>2
<1>5. {m[p] : p \in pairs} = Rows
  BY <1>2 DEF CompletePairing
<1> HIDE DEF m, g
<1>6. SumFunctionOnSet(u, {m[p] : p \in pairs}) = SumFunctionOnSet(g, pairs)
  BY <1>1, <1>3, <1>4, SumReindex
<1>. QED BY <1>5, <1>6 DEF g

LEMMA SumOverCols ==
    ASSUME HungarianTypeOK, NEW pairs, CompletePairing(pairs), NEW v, \A j \in Cols : v[j] \in Int
    PROVE  SumFunctionOnSet([p \in pairs |-> v[p[2]]], pairs) =
               SumFunctionOnSet(v, ColsOf(pairs))
<1> DEFINE m == [p \in pairs |-> p[2]]
           g == [p \in pairs |-> v[p[2]]]
<1>1. IsFiniteSet(pairs)
  BY PairsFinite DEF CompletePairing
<1>2. \A p \in pairs : p[1] \in Rows /\ p[2] \in Cols
  BY DEF CompletePairing
<1>3. \A p, q \in pairs : m[p] = m[q] => p = q
  BY DEF CompletePairing
<1>4. \A p \in pairs : v[m[p]] \in Int /\ g[p] = v[m[p]]
  BY <1>2
<1>5. {m[p] : p \in pairs} = ColsOf(pairs)
  BY DEF ColsOf
<1> HIDE DEF m, g
<1>6. SumFunctionOnSet(v, {m[p] : p \in pairs}) = SumFunctionOnSet(g, pairs)
  BY <1>1, <1>3, <1>4, SumReindex
<1>. QED BY <1>5, <1>6 DEF g

\* The potentials of the paired rows and columns.
LEMMA PairPotentials ==
    ASSUME HungarianTypeOK, NEW pairs, CompletePairing(pairs)
    PROVE  SumFunctionOnSet([p \in pairs |-> row_potential[p[1]] + col_potential[p[2]]],
                            pairs) =
               SumFunctionOnSet(row_potential, Rows) +
               SumFunctionOnSet(col_potential, ColsOf(pairs))
<1> DEFINE f == [p \in pairs |-> row_potential[p[1]]]
           g == [p \in pairs |-> col_potential[p[2]]]
           h == [p \in pairs |-> row_potential[p[1]] + col_potential[p[2]]]
<1>1. IsFiniteSet(pairs)
  BY PairsFinite DEF CompletePairing
<1>2. /\ \A i \in Rows : row_potential[i] \in Int
      /\ \A j \in Cols : col_potential[j] \in Int
  BY SizesTyped DEF HungarianTypeOK
<1>3. \A p \in pairs : f[p] \in Int /\ g[p] \in Int /\ h[p] = f[p] + g[p]
  BY <1>2 DEF CompletePairing
<1>4. /\ SumFunctionOnSet(f, pairs) = SumFunctionOnSet(row_potential, Rows)
      /\ SumFunctionOnSet(g, pairs) = SumFunctionOnSet(col_potential, ColsOf(pairs))
  BY <1>2, SumOverRows, SumOverCols
<1> HIDE DEF f, g, h
<1>5. SumFunctionOnSet(h, pairs) =
         SumFunctionOnSet(f, pairs) + SumFunctionOnSet(g, pairs)
  BY <1>1, <1>3, SumPlus
<1>. QED BY <1>4, <1>5 DEF h

LEMMA DualTyped ==
    ASSUME HungarianTypeOK, NEW C \in SUBSET Cols
    PROVE  /\ SumFunctionOnSet(row_potential, Rows) \in Int
           /\ SumFunctionOnSet(col_potential, C) \in Int
<1>1. IsFiniteSet(Rows) /\ IsFiniteSet(C)
  BY PairsFinite, FS_Subset
<1>2. /\ \A i \in Rows : row_potential[i] \in Int
      /\ \A j \in C : col_potential[j] \in Int
  BY SizesTyped DEF HungarianTypeOK
<1>. QED BY <1>1, <1>2, SumInt

LEMMA WeakDuality ==
    ASSUME SolverInv, NEW pairs, CompletePairing(pairs)
    PROVE  DualCost <= WorkingCost(pairs)
<1> DEFINE f == [p \in pairs |-> row_potential[p[1]] + col_potential[p[2]]]
           g == [p \in pairs |-> working_matrix(p[1], p[2])]
<1> USE DEF SolverInv
<1>1. IsFiniteSet(pairs)
  BY PairsFinite DEF CompletePairing
<1>2. \A p \in pairs : f[p] \in Int /\ g[p] \in Int /\ f[p] <= g[p]
  <2> SUFFICES ASSUME NEW p \in pairs PROVE f[p] \in Int /\ g[p] \in Int /\ f[p] <= g[p]
    OBVIOUS
  <2>1. p[1] \in Rows /\ p[2] \in Cols
    BY DEF CompletePairing
  <2>2. row_potential[p[1]] \in Int /\ col_potential[p[2]] \in Int
    BY <2>1, SizesTyped DEF HungarianTypeOK
  <2>3. working_matrix(p[1], p[2]) \in Int
    BY <2>1, CostsTyped
  <2>4. reduced_cost(p[1], p[2]) >= 0
    BY <2>1 DEF DualFeasible
  <2>. QED BY <2>2, <2>3, <2>4 DEF reduced_cost
<1>3. SumFunctionOnSet(f, pairs) <= SumFunctionOnSet(g, pairs)
  <2> HIDE DEF f, g
  <2>. QED BY <1>1, <1>2, SumMonotone
<1>4. SumFunctionOnSet(g, pairs) \in Int
  <2> HIDE DEF f, g
  <2>. QED BY <1>1, <1>2, SumInt
<1>5. ColsOf(pairs) \in SUBSET Cols
  BY DEF ColsOf, CompletePairing
<1>6. SumFunctionOnSet(col_potential, Cols) <= SumFunctionOnSet(col_potential, ColsOf(pairs))
  <2>1. \A j \in Cols : col_potential[j] \in Int /\ col_potential[j] <= 0
    BY SizesTyped DEF HungarianTypeOK, FreeColumnsUnpriced
  <2>. QED BY <1>5, <2>1, PairsFinite, SumPart
<1>7. SumFunctionOnSet(f, pairs) = SumFunctionOnSet(row_potential, Rows) +
                                   SumFunctionOnSet(col_potential, ColsOf(pairs))
  BY PairPotentials
<1>8. /\ SumFunctionOnSet(row_potential, Rows) \in Int
      /\ SumFunctionOnSet(col_potential, Cols) \in Int
      /\ SumFunctionOnSet(col_potential, ColsOf(pairs)) \in Int
  BY <1>5, DualTyped
<1>. QED BY <1>3, <1>4, <1>6, <1>7, <1>8 DEF DualCost, WorkingCost

---------------------------------------------------------------------------
(* The pairing that was found.                                             *)

\* The solver does not return before the last row is entered.
AllEntered == pc = "done" => current_row = row_count

THEOREM AllRowsEntered == HungarianSpec => []AllEntered
<1>1. HungarianInit => AllEntered
  BY DEF HungarianInit, AllEntered
<1>2. AllEntered /\ [HungarianNext]_hungarianVars => AllEntered'
  <2> SUFFICES ASSUME AllEntered, [HungarianNext]_hungarianVars, pc' = "done"
               PROVE  current_row' = row_count'
    BY DEF AllEntered
  <2>1. cost' = cost
    BY DEF HungarianNext, StartRow, GrowTree, Augment, Finish, Done, hungarianVars
  <2>2. current_row' = row_count
    BY DEF AllEntered, HungarianNext, StartRow, GrowTree, Move, Augment, Finish, Done,
           hungarianVars
  <2>. QED BY <2>1, <2>2, SameSizes
<1>. QED BY <1>1, <1>2, PTL DEF HungarianSpec

Found == SolverInv /\ AllEntered /\ pc = "done"

LEMMA FoundMatching ==
    ASSUME Found
    PROVE  /\ \A i \in Rows : \E j \in Cols : matching_row_for_col[j] = i
           /\ \A j, k \in Cols :
                 matching_row_for_col[j] = matching_row_for_col[k] /\ j # k =>
                     matching_row_for_col[j] = 0
           /\ \A j \in Cols : matching_row_for_col[j] \in 0 .. row_count
<1>0. HungarianTypeOK
  BY DEF Found, SolverInv
<1> USE <1>0
<1>1. RowsMatchedOnce
  BY SizesTyped DEF Found, SolverInv, MatchingInv, Holders, RowsMatchedOnce
<1>. QED BY <1>1, SizesTyped DEF RowsMatchedOnce, Found, AllEntered, SolverInv, HungarianTypeOK, Rows

LEMMA FoundComplete ==
    ASSUME Found
    PROVE  CompletePairing(working_assignments)
<1>0. HungarianTypeOK
  BY DEF Found, SolverInv
<1> USE <1>0
<1>1. working_assignments \subseteq Rows \X Cols
  BY DEF working_assignments
<1>2. ASSUME NEW p \in working_assignments, NEW q \in working_assignments, p # q
      PROVE  p[1] # q[1] /\ p[2] # q[2]
  <2>1. /\ p[1] \in Rows /\ p[2] \in Cols /\ matching_row_for_col[p[2]] = p[1]
        /\ q[1] \in Rows /\ q[2] \in Cols /\ matching_row_for_col[q[2]] = q[1]
        /\ p = <<p[1], p[2]>> /\ q = <<q[1], q[2]>>
    BY DEF working_assignments
  <2>2. p[1] # q[1] \/ p[2] # q[2]
    BY <1>2, <2>1
  <2>3. p[1] # 0
    BY <2>1, SizesTyped
  <2>. QED BY <2>1, <2>2, <2>3, FoundMatching
<1>3. ASSUME NEW i \in Rows PROVE \E p \in working_assignments : p[1] = i
  <2>1. PICK j \in Cols : matching_row_for_col[j] = i
    BY FoundMatching
  <2>2. <<i, j>> \in working_assignments
    BY <2>1 DEF working_assignments
  <2>. QED BY <2>2
<1>. QED BY <1>1, <1>2, <1>3 DEF CompletePairing

LEMMA FoundCost ==
    ASSUME Found
    PROVE  WorkingCost(working_assignments) = DualCost
<1>0. HungarianTypeOK
  BY DEF Found, SolverInv
<1> USE <1>0
<1> DEFINE pairs == working_assignments
           f == [p \in pairs |-> row_potential[p[1]] + col_potential[p[2]]]
           g == [p \in pairs |-> working_matrix(p[1], p[2])]
<1>1. CompletePairing(pairs) /\ IsFiniteSet(pairs)
  BY FoundComplete, PairsFinite DEF CompletePairing
<1>2. \A p \in pairs : f[p] \in Int /\ g[p] = f[p]
  <2> SUFFICES ASSUME NEW p \in pairs PROVE f[p] \in Int /\ g[p] = f[p]
    OBVIOUS
  <2>1. p[1] \in Rows /\ p[2] \in Cols /\ matching_row_for_col[p[2]] = p[1]
    BY DEF working_assignments
  <2>2. row_potential[p[1]] \in Int /\ col_potential[p[2]] \in Int
    BY <2>1, SizesTyped DEF Found, SolverInv, HungarianTypeOK
  <2>3. working_matrix(p[1], p[2]) \in Int
    BY <2>1, CostsTyped DEF Found, SolverInv
  <2>4. reduced_cost(p[1], p[2]) = 0
    BY <2>1, SizesTyped DEF Found, SolverInv, MatchedTight
  <2>. QED BY <2>2, <2>3, <2>4 DEF reduced_cost
<1>3. SumFunctionOnSet(g, pairs) = SumFunctionOnSet(f, pairs)
  <2> HIDE DEF f, g, pairs
  <2>. QED BY <1>1, <1>2, SumEqual
<1>4. SumFunctionOnSet(f, pairs) = SumFunctionOnSet(row_potential, Rows) +
                                   SumFunctionOnSet(col_potential, ColsOf(pairs))
  BY <1>1, PairPotentials DEF Found, SolverInv
<1>5. SumFunctionOnSet(col_potential, Cols) = SumFunctionOnSet(col_potential, ColsOf(pairs))
  <2>1. ColsOf(pairs) \in SUBSET Cols
    BY <1>1 DEF ColsOf, CompletePairing
  <2>2. \A j \in Cols : col_potential[j] \in Int
    BY SizesTyped DEF Found, SolverInv, HungarianTypeOK
  <2>3. ASSUME NEW j \in Cols \ ColsOf(pairs) PROVE col_potential[j] = 0
    <3>1. matching_row_for_col[j] \in 0 .. row_count
      BY FoundMatching
    <3>2. matching_row_for_col[j] \notin Rows
      <4>1. ASSUME matching_row_for_col[j] \in Rows PROVE FALSE
        <5>1. <<matching_row_for_col[j], j>> \in pairs
          BY <4>1 DEF working_assignments
        <5>. QED BY <5>1 DEF ColsOf
      <4>. QED BY <4>1
    <3>3. matching_row_for_col[j] = 0
      BY <3>1, <3>2, SizesTyped
    <3>. QED BY <3>3 DEF Found, SolverInv, FreeColumnsUnpriced
  <2> HIDE DEF pairs
  <2>. QED BY <2>1, <2>2, <2>3, PairsFinite, SumZeros
<1>. QED BY <1>3, <1>4, <1>5 DEF WorkingCost, DualCost

---------------------------------------------------------------------------
(* Back to the rows and columns of the matrix that was passed.             *)

Grid == (1 .. RowCount) \X (1 .. ColCount)

\* Pairs of the matrix as pairs of the working matrix, or the other way round.
Oriented(pairs) == IF transposed THEN {<<p[2], p[1]>> : p \in pairs} ELSE pairs

OneToOne(pairs) == \A p, q \in pairs : p # q => p[1] # q[1] /\ p[2] # q[2]

LEMMA GridOriented ==
    HungarianTypeOK =>
        /\ transposed => Rows = 1 .. ColCount /\ Cols = 1 .. RowCount
        /\ ~transposed => Rows = 1 .. RowCount /\ Cols = 1 .. ColCount
        /\ row_count <= col_count
        /\ RowCount = ColCount => row_count = col_count
BY MatrixShape DEF HungarianTypeOK, transposed, Rows, Cols, row_count, col_count

LEMMA OrientedCost ==
    ASSUME HungarianTypeOK, NEW pairs \in SUBSET Grid
    PROVE  total_cost(pairs) = WorkingCost(Oriented(pairs))
<1> DEFINE g == [p \in pairs |-> cost[p[1]][p[2]]]
           f == [p \in Oriented(pairs) |-> working_matrix(p[1], p[2])]
<1>1. total_cost(pairs) = SumFunctionOnSet(g, pairs)
  BY DEF total_cost, SumFunction
<1>2. CASE ~transposed
  <2>1. Oriented(pairs) = pairs /\ f = g
    BY <1>2 DEF Oriented, working_matrix
  <2>. QED BY <1>1, <2>1 DEF WorkingCost
<1>3. CASE transposed
  <2> DEFINE m == [p \in pairs |-> <<p[2], p[1]>>]
  <2>1. {m[p] : p \in pairs} = Oriented(pairs)
    BY <1>3 DEF Oriented
  <2>2. \A p \in pairs : p[1] \in 1 .. RowCount /\ p[2] \in 1 .. ColCount
                         /\ p = <<p[1], p[2]>>
    BY DEF Grid
  <2>3. \A p, q \in pairs : m[p] = m[q] => p = q
    BY <2>2
  <2>4. \A p \in pairs : g[p] = f[m[p]] /\ f[m[p]] \in Int
    <3> SUFFICES ASSUME NEW p \in pairs PROVE g[p] = f[m[p]] /\ f[m[p]] \in Int
      OBVIOUS
    <3>1. m[p] \in Oriented(pairs) /\ m[p] = <<p[2], p[1]>>
      BY <2>1
    <3>2. f[m[p]] = working_matrix(p[2], p[1])
      BY <3>1
    <3>3. p[2] \in Rows /\ p[1] \in Cols
      BY <1>3, <2>2, GridOriented
    <3>4. working_matrix(p[2], p[1]) \in Int
      BY <3>3, CostsTyped
    <3>. QED BY <1>3, <3>2, <3>4 DEF working_matrix
  <2>5. IsFiniteSet(pairs)
    <3>1. IsFiniteSet(1 .. RowCount) /\ IsFiniteSet(1 .. ColCount)
      BY MatrixShape, FS_Interval DEF HungarianTypeOK
    <3>. QED BY <3>1, FS_Product, FS_Subset DEF Grid
  <2> HIDE DEF m, f, g
  <2>6. SumFunctionOnSet(f, {m[p] : p \in pairs}) = SumFunctionOnSet(g, pairs)
    BY <2>3, <2>4, <2>5, SumReindex
  <2>. QED BY <1>1, <2>1, <2>6 DEF WorkingCost, f
<1>. QED BY <1>2, <1>3

\* Pairing off the larger side pairs off the smaller one.
LEMMA RowsCovered ==
    ASSUME HungarianTypeOK, NEW pairs \in SUBSET (Rows \X Cols), OneToOne(pairs),
           \A j \in Cols : \E p \in pairs : p[2] = j
    PROVE  \A i \in Rows : \E p \in pairs : p[1] = i
<1> DEFINE row == [p \in pairs |-> p[1]]
           col == [p \in pairs |-> p[2]]
<1>1. IsFiniteSet(Rows) /\ IsFiniteSet(Cols) /\ IsFiniteSet(pairs)
  BY PairsFinite
<1>2. col \in Surjection(pairs, Cols)
  BY DEF Surjection
<1>3. row \in Injection(pairs, Rows)
  BY DEF Injection, IsInjective, OneToOne
<1>4. Cardinality(Rows) = row_count /\ Cardinality(Cols) = col_count
  <2>1. row_count \in Nat /\ col_count \in Nat
    BY SizesTyped
  <2>. QED BY <2>1, FS_Interval DEF Rows, Cols
<1>5. Cardinality(pairs) \in Nat
  BY <1>1, FS_CardinalityType
<1> HIDE DEF row, col
<1>6. Cardinality(Cols) <= Cardinality(pairs)
  BY <1>1, <1>2, FS_Surjection
<1>7. /\ Cardinality(pairs) <= Cardinality(Rows)
      /\ Cardinality(pairs) = Cardinality(Rows) <=> row \in Surjection(pairs, Rows)
  BY <1>1, <1>3, FS_Injection
<1>8. row \in Surjection(pairs, Rows)
  BY <1>4, <1>5, <1>6, <1>7, SizesTyped, GridOriented
<1>. QED BY <1>8 DEF Surjection, row

\* On a square matrix, pairing off the rows pairs off the columns.
LEMMA ColsCovered ==
    ASSUME HungarianTypeOK, NEW pairs, CompletePairing(pairs), row_count = col_count
    PROVE  \A j \in Cols : \E p \in pairs : p[2] = j
<1> DEFINE row == [p \in pairs |-> p[1]]
           col == [p \in pairs |-> p[2]]
<1>1. IsFiniteSet(Rows) /\ IsFiniteSet(Cols) /\ IsFiniteSet(pairs)
  BY PairsFinite DEF CompletePairing
<1>2. row \in Surjection(pairs, Rows)
  BY DEF Surjection, CompletePairing
<1>3. col \in Injection(pairs, Cols)
  BY DEF Injection, IsInjective, CompletePairing
<1>4. Cardinality(Rows) = Cardinality(Cols) /\ Cardinality(Rows) \in Nat
  <2>1. row_count \in Nat /\ col_count \in Nat
    BY SizesTyped
  <2>. QED BY <2>1, FS_Interval DEF Rows, Cols
<1>5. Cardinality(pairs) \in Nat
  BY <1>1, FS_CardinalityType
<1> HIDE DEF row, col
<1>6. Cardinality(Rows) <= Cardinality(pairs)
  BY <1>1, <1>2, FS_Surjection
<1>7. /\ Cardinality(pairs) <= Cardinality(Cols)
      /\ Cardinality(pairs) = Cardinality(Cols) <=> col \in Surjection(pairs, Cols)
  BY <1>1, <1>3, FS_Injection
<1>8. col \in Surjection(pairs, Cols)
  BY <1>4, <1>5, <1>6, <1>7
<1>. QED BY <1>8 DEF Surjection, col

LEMMA PerfectMeans ==
    ASSUME NEW pairs
    PROVE  pairs \in PerfectPairings <=>
               /\ pairs \in SUBSET Grid /\ OneToOne(pairs)
               /\ \/ \A i \in 1 .. RowCount : \E p \in pairs : p[1] = i
                  \/ \A j \in 1 .. ColCount : \E p \in pairs : p[2] = j
BY DEF PerfectPairings, Grid, OneToOne

LEMMA PerfectIsComplete ==
    ASSUME HungarianTypeOK, NEW pairs \in PerfectPairings
    PROVE  pairs \in SUBSET Grid /\ CompletePairing(Oriented(pairs))
<1>1. /\ pairs \in SUBSET Grid /\ OneToOne(pairs)
      /\ \/ \A i \in 1 .. RowCount : \E p \in pairs : p[1] = i
         \/ \A j \in 1 .. ColCount : \E p \in pairs : p[2] = j
  BY PerfectMeans
<1>2. \A p \in pairs : /\ p[1] \in 1 .. RowCount /\ p[2] \in 1 .. ColCount
                       /\ p = <<p[1], p[2]>>
  BY <1>1 DEF Grid
<1>3. /\ Oriented(pairs) \in SUBSET (Rows \X Cols)
      /\ OneToOne(Oriented(pairs))
      /\ \/ \A i \in Rows : \E p \in Oriented(pairs) : p[1] = i
         \/ \A j \in Cols : \E p \in Oriented(pairs) : p[2] = j
  <2>1. CASE ~transposed
    BY <1>1, <1>2, <2>1, GridOriented DEF Oriented, Grid
  <2>2. CASE transposed
    <3>1. Oriented(pairs) = {<<p[2], p[1]>> : p \in pairs}
          /\ Rows = 1 .. ColCount /\ Cols = 1 .. RowCount
      BY <2>2, GridOriented DEF Oriented
    <3>2. \A q \in Oriented(pairs) : \E p \in pairs : q = <<p[2], p[1]>>
      BY <3>1
    <3>3. \A p \in pairs : <<p[2], p[1]>> \in Oriented(pairs)
      BY <3>1
    <3>4. Oriented(pairs) \in SUBSET (Rows \X Cols)
      BY <1>2, <3>1
    <3>5. OneToOne(Oriented(pairs))
      BY <1>1, <3>2 DEF OneToOne
    <3>6. \/ \A i \in Rows : \E p \in Oriented(pairs) : p[1] = i
          \/ \A j \in Cols : \E p \in Oriented(pairs) : p[2] = j
      <4>1. ASSUME NEW p \in pairs
            PROVE  \E q \in Oriented(pairs) : q[1] = p[2] /\ q[2] = p[1]
        BY <3>3
      <4>. QED BY <1>1, <3>1, <4>1
    <3>. QED BY <3>4, <3>5, <3>6
  <2>. QED BY <2>1, <2>2
<1>. QED BY <1>1, <1>3, RowsCovered DEF CompletePairing, OneToOne

LEMMA FoundPerfect ==
    ASSUME Found
    PROVE  /\ Oriented(assignments) = working_assignments
           /\ assignments \in PerfectPairings
           /\ RowCount <= ColCount =>
                 \A i \in 1 .. RowCount : \E p \in assignments : p[1] = i
           /\ RowCount >= ColCount =>
                 \A j \in 1 .. ColCount : \E p \in assignments : p[2] = j
<1>0. HungarianTypeOK
  BY DEF Found, SolverInv
<1> USE <1>0
<1>1. /\ working_assignments \subseteq Rows \X Cols
      /\ OneToOne(working_assignments)
      /\ \A i \in Rows : \E p \in working_assignments : p[1] = i
  BY FoundComplete DEF CompletePairing, OneToOne
<1>2. \A p \in working_assignments :
         p[1] \in Rows /\ p[2] \in Cols /\ p = <<p[1], p[2]>>
  BY <1>1
<1>3. CASE ~transposed
  <2>1. assignments = working_assignments /\ ~(RowCount > ColCount)
        /\ Rows = 1 .. RowCount /\ Cols = 1 .. ColCount
    BY <1>3, GridOriented DEF assignments, transposed
  <2>2. RowCount >= ColCount => \A j \in 1 .. ColCount : \E p \in assignments : p[2] = j
    <3>1. RowCount >= ColCount => row_count = col_count
      BY <2>1, MatrixShape, GridOriented DEF Found, SolverInv, HungarianTypeOK
    <3>. QED BY <2>1, <3>1, FoundComplete, ColsCovered
  <2>. QED BY <1>1, <1>3, <2>1, <2>2, PerfectMeans DEF Oriented, Grid
<1>4. CASE transposed
  <2>1. /\ assignments = {<<p[2], p[1]>> : p \in working_assignments}
        /\ RowCount > ColCount /\ ~(RowCount <= ColCount)
        /\ Rows = 1 .. ColCount /\ Cols = 1 .. RowCount
    BY <1>4, MatrixShape, GridOriented
       DEF assignments, transposed, Found, SolverInv, HungarianTypeOK
  <2>2. /\ \A q \in assignments : \E p \in working_assignments : q = <<p[2], p[1]>>
        /\ \A p \in working_assignments : <<p[2], p[1]>> \in assignments
    BY <2>1
  <2>3. Oriented(assignments) = working_assignments
    <3>1. Oriented(assignments) = {<<q[2], q[1]>> : q \in assignments}
      BY <1>4 DEF Oriented
    <3>2. ASSUME NEW q \in assignments PROVE <<q[2], q[1]>> \in working_assignments
      <4>1. PICK p \in working_assignments : q = <<p[2], p[1]>>
        BY <2>2
      <4>. QED BY <1>2, <4>1
    <3>3. \A p \in working_assignments : \E q \in assignments : p = <<q[2], q[1]>>
      BY <1>2, <2>2
    <3>. QED BY <3>1, <3>2, <3>3
  <2>4. assignments \in SUBSET Grid
    BY <1>2, <2>1 DEF Grid
  <2>5. OneToOne(assignments)
    BY <1>1, <2>2 DEF OneToOne
  <2>6. \A j \in 1 .. ColCount : \E p \in assignments : p[2] = j
    <3>1. ASSUME NEW j \in Rows PROVE \E q \in assignments : q[2] = j
      <4>1. PICK p \in working_assignments : p[1] = j
        BY <1>1
      <4>2. <<p[2], p[1]>> \in assignments
        BY <2>2
      <4>. QED BY <4>1, <4>2
    <3>. QED BY <2>1, <3>1
  <2>. QED BY <2>1, <2>3, <2>4, <2>5, <2>6, PerfectMeans
<1>. QED BY <1>3, <1>4

LEMMA FoundOptimal ==
    ASSUME Found
    PROVE  OptimalAssignment
<1>0. HungarianTypeOK
  BY DEF Found, SolverInv
<1> USE <1>0
<1>2. total_cost(assignments) = DualCost
  <2>1. assignments \in SUBSET Grid
    BY FoundPerfect, PerfectIsComplete DEF Found, SolverInv
  <2>. QED BY <2>1, FoundPerfect, OrientedCost, FoundCost DEF Found, SolverInv
<1>3. ASSUME NEW pairs \in PerfectPairings
      PROVE  DualCost <= total_cost(pairs)
  BY PerfectIsComplete, OrientedCost, WeakDuality DEF Found, SolverInv
<1>4. RowCount <= ColCount => unassigned_rows(assignments) = {}
  <2> SUFFICES ASSUME RowCount <= ColCount, NEW i \in unassigned_rows(assignments) PROVE FALSE
    OBVIOUS
  <2>1. PICK p \in assignments : p[1] = i
    BY FoundPerfect DEF unassigned_rows
  <2>2. p \in Grid
    BY FoundPerfect, PerfectIsComplete DEF Found, SolverInv
  <2>. QED BY <2>1, <2>2 DEF unassigned_rows, Grid
<1>5. RowCount >= ColCount => unassigned_cols(assignments) = {}
  <2> SUFFICES ASSUME RowCount >= ColCount, NEW j \in unassigned_cols(assignments) PROVE FALSE
    OBVIOUS
  <2>1. PICK p \in assignments : p[2] = j
    BY FoundPerfect DEF unassigned_cols
  <2>2. p \in Grid
    BY FoundPerfect, PerfectIsComplete DEF Found, SolverInv
  <2>. QED BY <2>1, <2>2 DEF unassigned_cols, Grid
<1>. QED BY <1>2, <1>3, <1>4, <1>5, FoundPerfect DEF OptimalAssignment

\* When the solver returns, for a matrix of any size and shape, the assignment it
\* makes of the search pairs off the smaller side completely, no pairing of that
\* kind is cheaper, and exactly the surplus of the larger side is unassigned.
THEOREM AlwaysOptimal == HungarianSpec => []OptimalAssignment
<1>1. SolverInv /\ AllEntered => OptimalAssignment
  BY FoundOptimal DEF Found, OptimalAssignment
<1>. QED BY <1>1, SolverCorrect, AllRowsEntered, PTL

---------------------------------------------------------------------------
(* The search is never stuck: a column is left outside the tree, because   *)
(* the tree holds a different row for each of its columns and for column 0. *)

LEMMA OutsideLeft ==
    ASSUME SolverInv, pc = "grow"
    PROVE  Outside # {}
<1> SUFFICES ASSUME Outside = {} PROVE FALSE
  OBVIOUS
<1> USE DEF SolverInv
<1>1. \A j \in Cols : j \in Tree
  BY DEF Outside
<1>2. current_col \in Tree /\ Tree \subseteq ColsAndRoot
  BY DEF Tree, HungarianTypeOK
<1>3. \A j \in Tree : matching_row_for_col[j] # 0
  BY DEF Tree, TreeInv
<1>4. 0 \in Tree
  BY DEF TreeInv, Tree
<1>5. \A j \in ColsAndRoot : j \in Tree
  BY <1>1, <1>4, SizesTyped
<1>6. matching_row_for_col \in [ColsAndRoot -> Rows]
  BY <1>3, <1>5, SizesTyped DEF HungarianTypeOK
<1>7. \A j, k \in ColsAndRoot : matching_row_for_col[j] = matching_row_for_col[k] => j = k
  BY <1>3, <1>5 DEF MatchingInv, Holders
<1>8. /\ IsFiniteSet(Rows) /\ Cardinality(Rows) = row_count
      /\ IsFiniteSet(ColsAndRoot) /\ Cardinality(ColsAndRoot) = col_count + 1
  <2>1. row_count \in Nat /\ col_count \in Nat
    BY SizesTyped
  <2>. QED BY <2>1, FS_Interval DEF Rows, ColsAndRoot
<1>9. Cardinality(Rows) < Cardinality(ColsAndRoot)
  BY <1>8, SizesTyped, GridOriented
<1>. QED BY <1>6, <1>7, <1>8, <1>9, FS_PigeonHole

LEMMA SlacksNatural ==
    ASSUME SolverInv, pc = "grow"
    PROVE  \A j \in Outside : RelaxedSlack(j) \in Nat
<1> USE DEF SolverInv
<1> SUFFICES ASSUME NEW j \in Outside PROVE RelaxedSlack(j) \in Nat
  OBVIOUS
<1>1. j \in Cols /\ j \notin used_col
  BY DEF Outside, Tree
<1>2. matching_row_for_col[current_col] \in Rows
  BY SizesTyped DEF HungarianTypeOK, TreeInv
<1>3. reduced_cost(matching_row_for_col[current_col], j) \in Nat
  <2>1. reduced_cost(matching_row_for_col[current_col], j) >= 0
    BY <1>1, <1>2 DEF DualFeasible
  <2>. QED BY <1>1, <1>2, <2>1, ReducedTyped
<1>4. CASE Improves(j)
  BY <1>3, <1>4 DEF RelaxedSlack
<1>5. CASE ~Improves(j)
  <2>1. min_slack[j] # Infinity /\ RelaxedSlack(j) = min_slack[j]
    BY <1>5 DEF Improves, Less, RelaxedSlack
  <2>2. /\ previous_col[j] \in used_col
        /\ min_slack[j] = reduced_cost(matching_row_for_col[previous_col[j]], j)
    BY <1>1, <2>1 DEF SlackInv
  <2>3. matching_row_for_col[previous_col[j]] \in Rows
    BY <2>2, SizesTyped DEF TreeInv, HungarianTypeOK
  <2>4. reduced_cost(matching_row_for_col[previous_col[j]], j) >= 0
    BY <1>1, <2>3 DEF DualFeasible
  <2>. QED BY <1>1, <2>1, <2>2, <2>3, <2>4, ReducedTyped
<1>. QED BY <1>4, <1>5

\* While a row searches for its column there is always a next one to enter, the
\* first of those with the least slack: the inner loops never run dry.
NextColExists == pc = "grow" => \E j \in Cols : IsNextCol(j)

LEMMA SolverFindsNextCol == SolverInv => NextColExists
<1> SUFFICES ASSUME SolverInv, pc = "grow" PROVE \E j \in Cols : IsNextCol(j)
  BY DEF NextColExists
<1> DEFINE Slacks == {RelaxedSlack(j) : j \in Outside}
<1>1. Slacks \in SUBSET Nat /\ Slacks # {}
  BY OutsideLeft, SlacksNatural
<1>2. PICK least \in Slacks : \A slack \in Slacks : least <= slack
  <2> HIDE DEF Slacks
  <2>. QED BY <1>1, LeastElement
<1> DEFINE Firsts == {j \in Outside : RelaxedSlack(j) = least}
<1>3. Firsts \in SUBSET Nat /\ Firsts # {}
  BY SizesTyped DEF Outside, Cols
<1>4. PICK j \in Firsts : \A k \in Firsts : j <= k
  <2> HIDE DEF Firsts
  <2>. QED BY <1>3, LeastElement
<1>5. j \in Cols /\ j \in Outside /\ RelaxedSlack(j) = least
  BY DEF Outside
<1>6. \A k \in Outside : RelaxedSlack(j) <= RelaxedSlack(k)
  BY <1>2, <1>5
<1>7. ASSUME NEW k \in Outside, k < j PROVE RelaxedSlack(j) < RelaxedSlack(k)
  <2>1. RelaxedSlack(j) \in Nat /\ RelaxedSlack(k) \in Nat /\ k \in Nat /\ j \in Nat
    BY <1>5, SlacksNatural, SizesTyped DEF Outside, Cols
  <2>2. k \notin Firsts
    BY <1>4, <1>7, <2>1
  <2>3. RelaxedSlack(k) # RelaxedSlack(j)
    BY <1>5, <2>2
  <2>. QED BY <1>6, <2>1, <2>3
<1>. QED BY <1>5, <1>6, <1>7 DEF IsNextCol

THEOREM NeverStuck == HungarianSpec => []NextColExists
BY SolverFindsNextCol, SolverCorrect, PTL

============================================================================
