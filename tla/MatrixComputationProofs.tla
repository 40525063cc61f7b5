---------------------- MODULE MatrixComputationProofs ----------------------
(***************************************************************************)
(* Proofs about MatrixComputation, for any locations, roads and pools: no  *)
(* pair is lost or counted twice, and every step of the computation is a   *)
(* step of DistanceTable or leaves it alone.                               *)
(***************************************************************************)
EXTENDS MatrixComputation, FiniteSetTheorems, SequenceTheorems, TLAPS

(***************************************************************************)
(* Jobs and pairs.                                                         *)
(***************************************************************************)

\* The k-th pair of a matrix of m locations.
PairAt(m, k) == <<((k - 1) \div m) + 1, ((k - 1) % m) + 1>>

LEMMA JobIsPairAt == \A k : Job(k) = PairAt(n, k)
BY DEF Job, PairAt

LEMMA DivMod ==
    ASSUME NEW m \in Nat \ {0}, NEW a \in Nat
    PROVE  /\ a \div m \in Nat
           /\ a % m \in 0 .. m - 1
           /\ a = m * (a \div m) + (a % m)
OBVIOUS

LEMMA DivBelow ==
    ASSUME NEW m \in Nat \ {0}, NEW a \in Nat, a < m * m
    PROVE  a \div m < m
<1>1. /\ a \div m \in Nat
      /\ a % m \in 0 .. m - 1
      /\ a = m * (a \div m) + (a % m)
  BY DivMod
<1> QED
  BY <1>1, SMT

\* Jobs are numbered so that different ones are different pairs of the matrix.
LEMMA JobsArePairs ==
    ASSUME NEW m \in Nat, NEW k \in 1 .. m * m
    PROVE  PairAt(m, k) \in (1 .. m) \X (1 .. m)
<1>1. m \in Nat \ {0}
  BY SMT
<1>2. k - 1 \in Nat /\ k - 1 < m * m
  BY <1>1, SMT
<1>3. (k - 1) \div m \in Nat /\ (k - 1) % m \in 0 .. m - 1
  BY <1>1, <1>2, DivMod
<1>4. (k - 1) \div m < m
  BY <1>1, <1>2, DivBelow
<1>5. ((k - 1) \div m) + 1 \in 1 .. m /\ ((k - 1) % m) + 1 \in 1 .. m
  BY <1>3, <1>4
<1> QED
  BY <1>5 DEF PairAt

LEMMA JobsDiffer ==
    ASSUME NEW m \in Nat, NEW k \in 1 .. m * m, NEW l \in 1 .. m * m,
           PairAt(m, k) = PairAt(m, l)
    PROVE  k = l
<1>1. m \in Nat \ {0}
  BY SMT
<1>2. k - 1 \in Nat /\ l - 1 \in Nat
  OBVIOUS
<1>3. /\ (k - 1) \div m \in Nat
      /\ (k - 1) % m \in 0 .. m - 1
      /\ k - 1 = m * ((k - 1) \div m) + ((k - 1) % m)
  BY <1>1, <1>2, DivMod
<1>4. /\ (l - 1) \div m \in Nat
      /\ (l - 1) % m \in 0 .. m - 1
      /\ l - 1 = m * ((l - 1) \div m) + ((l - 1) % m)
  BY <1>1, <1>2, DivMod
<1>5. /\ ((k - 1) \div m) + 1 = ((l - 1) \div m) + 1
      /\ ((k - 1) % m) + 1 = ((l - 1) % m) + 1
  BY DEF PairAt
<1>6. (k - 1) \div m = (l - 1) \div m /\ (k - 1) % m = (l - 1) % m
  BY <1>3, <1>4, <1>5
<1>7. k - 1 = l - 1
  BY <1>3, <1>4, <1>6
<1> QED
  BY <1>7

(***************************************************************************)
(* Sequences without repetition.                                           *)
(***************************************************************************)

Distinct(s) == \A i, j \in DOMAIN s : s[i] = s[j] => i = j

LEMMA AppendSet ==
    ASSUME NEW S, NEW s \in Seq(S), NEW e \in S
    PROVE  /\ Append(s, e) \in Seq(S)
           /\ Len(Append(s, e)) = Len(s) + 1
           /\ ToSet(Append(s, e)) = ToSet(s) \cup {e}
           /\ Distinct(s) /\ e \notin ToSet(s) => Distinct(Append(s, e))
<1>1. /\ Append(s, e) \in Seq(S)
      /\ Len(Append(s, e)) = Len(s) + 1
      /\ DOMAIN Append(s, e) = 1 .. Len(s) + 1
      /\ DOMAIN s = 1 .. Len(s) /\ Len(s) \in Nat
      /\ \A i \in 1 .. Len(s) : Append(s, e)[i] = s[i]
      /\ Append(s, e)[Len(s) + 1] = e
  OBVIOUS
<1>2. ToSet(Append(s, e)) = ToSet(s) \cup {e}
  <2>1. ASSUME NEW x \in ToSet(s) \cup {e}
        PROVE  x \in ToSet(Append(s, e))
    BY <1>1, <2>1 DEF ToSet
  <2>2. ASSUME NEW k \in 1 .. Len(s) + 1
        PROVE  Append(s, e)[k] \in ToSet(s) \cup {e}
    BY <1>1 DEF ToSet
  <2>3. \A x \in ToSet(Append(s, e)) : \E k \in 1 .. Len(s) + 1 : x = Append(s, e)[k]
    BY <1>1 DEF ToSet
  <2> QED
    BY <2>1, <2>2, <2>3
<1>3. ASSUME Distinct(s), e \notin ToSet(s)
      PROVE  Distinct(Append(s, e))
  BY <1>1, <1>3 DEF Distinct, ToSet
<1> QED
  BY <1>1, <1>2, <1>3

LEMMA RemoveElements ==
    ASSUME NEW S, NEW s \in Seq(S), NEW i \in DOMAIN s
    PROVE  /\ RemoveAt(s, i) \in Seq(S)
           /\ Len(RemoveAt(s, i)) = Len(s) - 1
           /\ \A k \in 1 .. Len(s) - 1 :
                 RemoveAt(s, i)[k] = IF k < i THEN s[k] ELSE s[k + 1]
<1> DEFINE r == RemoveAt(s, i)
<1>1. Len(s) \in Nat /\ DOMAIN s = 1 .. Len(s) /\ i \in 1 .. Len(s)
  OBVIOUS
<1>2. /\ SubSeq(s, 1, i - 1) \in Seq(S)
      /\ Len(SubSeq(s, 1, i - 1)) = i - 1
      /\ \A k \in 1 .. i - 1 : SubSeq(s, 1, i - 1)[k] = s[k]
  BY <1>1
<1>3. /\ SubSeq(s, i + 1, Len(s)) \in Seq(S)
      /\ Len(SubSeq(s, i + 1, Len(s))) = Len(s) - i
      /\ \A k \in 1 .. Len(s) - i : SubSeq(s, i + 1, Len(s))[k] = s[k + i]
  BY <1>1
<1>4. /\ r \in Seq(S)
      /\ Len(r) = Len(s) - 1
      /\ \A k \in 1 .. Len(s) - 1 : r[k] = IF k < i THEN s[k] ELSE s[k + 1]
  <2> DEFINE a == SubSeq(s, 1, i - 1)
             b == SubSeq(s, i + 1, Len(s))
  <2>1. r = a \o b
    BY DEF RemoveAt
  <2>2. a \in Seq(S) /\ b \in Seq(S) /\ Len(a) = i - 1 /\ Len(b) = Len(s) - i
    BY <1>2, <1>3
  <2> HIDE DEF a, b, r
  <2>3. /\ a \o b \in Seq(S)
        /\ Len(a \o b) = Len(a) + Len(b)
        /\ \A k \in 1 .. Len(a) + Len(b) :
              (a \o b)[k] = IF k <= Len(a) THEN a[k] ELSE b[k - Len(a)]
    BY <2>2, ConcatProperties
  <2>4. ASSUME NEW k \in 1 .. Len(s) - 1
        PROVE  r[k] = IF k < i THEN s[k] ELSE s[k + 1]
    <3>1. CASE k < i
      <4>1. k \in 1 .. i - 1
        BY <1>1, <3>1
      <4>2. a[k] = s[k]
        BY <4>1, <1>2 DEF a
      <4> QED
        BY <1>1, <2>1, <2>2, <2>3, <3>1, <4>1, <4>2
    <3>2. CASE ~(k < i)
      <4>1. k - (i - 1) \in 1 .. Len(s) - i
        BY <1>1, <3>2
      <4>2. b[k - (i - 1)] = s[(k - (i - 1)) + i]
        BY <4>1, <1>3 DEF b
      <4>3. (k - (i - 1)) + i = k + 1 /\ ~(k <= i - 1)
        BY <1>1, <3>2
      <4>4. k \in 1 .. Len(a) + Len(b)
        BY <1>1, <2>2
      <4>5. (a \o b)[k] = b[k - Len(a)]
        BY <2>2, <2>3, <4>3, <4>4
      <4> QED
        BY <2>1, <2>2, <3>2, <4>2, <4>3, <4>5
    <3> QED
      BY <3>1, <3>2
  <2>5. Len(r) = Len(s) - 1 /\ r \in Seq(S)
    BY <1>1, <2>1, <2>2, <2>3
  <2> QED
    BY <2>4, <2>5
<1> QED
  BY <1>4

LEMMA RemoveKeeps ==
    ASSUME NEW S, NEW s \in Seq(S), NEW i \in DOMAIN s
    PROVE  RemoveAt(s, i) \in Seq(S) /\ ToSet(RemoveAt(s, i)) \subseteq ToSet(s)
<1> DEFINE r == RemoveAt(s, i)
<1>1. Len(s) \in Nat /\ DOMAIN s = 1 .. Len(s) /\ i \in 1 .. Len(s)
  OBVIOUS
<1>2. /\ r \in Seq(S)
      /\ Len(r) = Len(s) - 1
      /\ \A k \in 1 .. Len(s) - 1 : r[k] = IF k < i THEN s[k] ELSE s[k + 1]
  BY RemoveElements
<1> HIDE DEF r
<1>3. DOMAIN r = 1 .. Len(s) - 1
  BY <1>1, <1>2
<1>4. ASSUME NEW x \in ToSet(r)
      PROVE  x \in ToSet(s)
  <2>1. PICK k \in 1 .. Len(s) - 1 : x = r[k]
    BY <1>3 DEF ToSet
  <2>2. x = s[k] \/ x = s[k + 1]
    BY <1>2, <2>1
  <2>3. k \in DOMAIN s /\ k + 1 \in DOMAIN s
    BY <1>1
  <2> QED
    BY <2>2, <2>3 DEF ToSet
<1> QED
  BY <1>2, <1>4 DEF r

LEMMA RemoveSet ==
    ASSUME NEW S, NEW s \in Seq(S), NEW i \in DOMAIN s, Distinct(s)
    PROVE  /\ RemoveAt(s, i) \in Seq(S)
           /\ Len(RemoveAt(s, i)) = Len(s) - 1
           /\ ToSet(RemoveAt(s, i)) = ToSet(s) \ {s[i]}
           /\ Distinct(RemoveAt(s, i))
<1> DEFINE r == RemoveAt(s, i)
<1>1. Len(s) \in Nat /\ DOMAIN s = 1 .. Len(s) /\ i \in 1 .. Len(s)
  OBVIOUS
<1>2. /\ r \in Seq(S)
      /\ Len(r) = Len(s) - 1
      /\ \A k \in 1 .. Len(s) - 1 : r[k] = IF k < i THEN s[k] ELSE s[k + 1]
  BY RemoveElements
<1> HIDE DEF r
<1>4. /\ r \in Seq(S)
      /\ Len(r) = Len(s) - 1
      /\ DOMAIN r = 1 .. Len(s) - 1
      /\ \A k \in 1 .. Len(s) - 1 : r[k] = IF k < i THEN s[k] ELSE s[k + 1]
  BY <1>1, <1>2
<1>5. ToSet(r) = ToSet(s) \ {s[i]}
  <2>1. ASSUME NEW k \in 1 .. Len(s), k # i
        PROVE  s[k] \in ToSet(r)
    <3>1. CASE k < i
      BY <1>1, <1>4, <2>1, <3>1 DEF ToSet
    <3>2. CASE k > i
      <4>1. k - 1 \in 1 .. Len(s) - 1 /\ r[k - 1] = s[k]
        BY <1>1, <1>4, <3>2
      <4> QED
        BY <1>4, <4>1 DEF ToSet
    <3> QED
      BY <1>1, <2>1, <3>1, <3>2
  <2>2. ASSUME NEW k \in 1 .. Len(s) - 1
        PROVE  \E l \in 1 .. Len(s) : l # i /\ r[k] = s[l]
    <3>1. CASE k < i
      BY <1>1, <1>4, <3>1
    <3>2. CASE ~(k < i)
      <4>1. k + 1 \in 1 .. Len(s) /\ k + 1 # i /\ r[k] = s[k + 1]
        BY <1>1, <1>4, <3>2
      <4> QED
        BY <4>1
    <3> QED
      BY <3>1, <3>2
  <2>3. ASSUME NEW x \in ToSet(r)
        PROVE  x \in ToSet(s) \ {s[i]}
    <3>1. PICK k \in 1 .. Len(s) - 1 : x = r[k]
      BY <1>4 DEF ToSet
    <3>2. PICK l \in 1 .. Len(s) : l # i /\ r[k] = s[l]
      BY <2>2
    <3> QED
      BY <1>1, <3>1, <3>2 DEF ToSet, Distinct
  <2>4. ToSet(s) \ {s[i]} \subseteq ToSet(r)
    BY <1>1, <2>1 DEF ToSet
  <2> QED
    BY <2>3, <2>4
<1>6. Distinct(r)
  BY <1>1, <1>4 DEF Distinct
<1> QED
  BY <1>4, <1>5, <1>6 DEF r

(***************************************************************************)
(* The threads of the pool.                                                *)
(***************************************************************************)

LEMMA LargerOfTwo ==
    ASSUME NEW a \in Int, NEW b \in Int
    PROVE  Max({a, b}) \in Int /\ Max({a, b}) >= a
<1>1. \E x \in {a, b} : \A y \in {a, b} : x >= y
  <2>1. CASE a >= b
    BY <2>1
  <2>2. CASE ~(a >= b)
    BY <2>2
  <2> QED
    BY <2>1, <2>2
<1>2. Max({a, b}) \in {a, b} /\ \A y \in {a, b} : Max({a, b}) >= y
  BY <1>1 DEF Max
<1> QED
  BY <1>2

LEMMA SmallerOfTwo ==
    ASSUME NEW a \in Int, NEW b \in Int
    PROVE  Min({a, b}) \in Int
<1>1. \E x \in {a, b} : \A y \in {a, b} : x =< y
  <2>1. CASE a <= b
    BY <2>1
  <2>2. CASE ~(a <= b)
    BY <2>2
  <2> QED
    BY <2>1, <2>2
<1>2. Min({a, b}) \in {a, b}
  BY <1>1 DEF Min
<1> QED
  BY <1>2

LEMMA InputTypes ==
    ASSUME problem \in Problems
    PROVE  /\ problem.points \in Seq(Points)
           /\ problem.workers \in Int
           /\ n \in Nat
           /\ n * n \in Nat
BY ProblemsAssumption DEF n

\* However small matrix_workers is set, a thread runs.
LEMMA WorkersPositive ==
    ASSUME problem \in Problems
    PROVE  effective_workers \in Int /\ effective_workers >= 1
<1> DEFINE least == Min({problem.workers, n * n})
<1>1. problem.workers \in Int /\ n * n \in Int
  BY InputTypes
<1>2. least \in Int
  BY <1>1, SmallerOfTwo, Zenon
<1>3. effective_workers = Max({1, least})
  BY DEF effective_workers
<1> HIDE DEF least
<1>4. 1 \in Int
  OBVIOUS
<1> QED
  BY <1>2, <1>3, <1>4, LargerOfTwo, Zenon

(***************************************************************************)
(* Types.                                                                  *)
(***************************************************************************)

Cells == (1 .. n) \X (1 .. n)

TypeInv ==
    /\ problem \in Problems
    /\ roads \in RoadTables
    /\ stage \in {"snap", "search", "assemble", "submit", "collect", "returned",
                  "rejected", "raised"}
    /\ snapped \in Seq(Nodes)
    /\ Len(snapped) <= n
    /\ submitted \in 0 .. n * n
    /\ started \in 0 .. submitted
    /\ running \in SUBSET (1 .. started)
    /\ finished \in Seq(Nat)
    /\ ToSet(finished) \subseteq 1 .. started
    /\ failures \in Seq(Cells)
    /\ computed_pairs \in Nat

LEMMA RecordedCount ==
    ASSUME TypeInv
    PROVE  Recorded \in Nat
BY DEF TypeInv, Recorded

LEMMA InputsStay ==
    ASSUME UNCHANGED inputVars
    PROVE  /\ problem' = problem /\ roads' = roads
           /\ n' = n
           /\ Cells' = Cells
           /\ effective_workers' = effective_workers
BY DEF inputVars, n, Cells, effective_workers

LEMMA JobIsCell ==
    ASSUME problem \in Problems, NEW k \in 1 .. n * n
    PROVE  Job(k) \in Cells
BY InputTypes, JobIsPairAt, JobsArePairs DEF Cells

LEMMA RecordTypes ==
    ASSUME TypeInv, UNCHANGED inputVars,
           NEW pair \in Cells, NEW distance, Record(pair, distance)
    PROVE  failures' \in Seq(Cells') /\ computed_pairs' \in Nat
<1>1. failures \in Seq(Cells) /\ computed_pairs \in Nat /\ Cells' = Cells
  BY InputsStay DEF TypeInv
<1>2. CASE distance = NoPath
  BY <1>1, <1>2, AppendSet DEF Record
<1>3. CASE distance # NoPath
  BY <1>1, <1>3 DEF Record
<1> QED
  BY <1>2, <1>3

LEMMA CollectedJob ==
    ASSUME TypeInv, NEW i \in DOMAIN finished
    PROVE  finished[i] \in ToSet(finished) /\ finished[i] \in 1 .. n * n
<1>1. finished[i] \in ToSet(finished)
  BY DEF ToSet
<1>2. /\ ToSet(finished) \subseteq 1 .. started
      /\ started \in 0 .. submitted
      /\ submitted \in 0 .. n * n
      /\ n * n \in Nat
  BY InputTypes DEF TypeInv
<1> QED
  BY <1>1, <1>2

LEMMA EmptySequence ==
    /\ \A S : << >> \in Seq(S)
    /\ Len(<< >>) = 0
    /\ ToSet(<< >>) = {}
    /\ DOMAIN << >> = {}
    /\ Distinct(<< >>)
BY DEF ToSet, Distinct

LEMMA InitTypes == Init => TypeInv
<1> SUFFICES ASSUME Init PROVE TypeInv
  OBVIOUS
<1>1. problem \in Problems
  BY DEF Init
<1> QED
  BY <1>1, InputTypes, EmptySequence DEF Init, TypeInv

LEMMA NextTypes == TypeInv /\ [Next]_vars => TypeInv'
<1> SUFFICES ASSUME TypeInv, [Next]_vars PROVE TypeInv'
  OBVIOUS
<1> USE DEF TypeInv
<1>1. n \in Nat /\ n * n \in Nat /\ problem.points \in Seq(Points)
  BY InputTypes
<1>2. ASSUME UNCHANGED inputVars
      PROVE  problem' = problem /\ roads' = roads /\ n' = n /\ Cells' = Cells
  BY <1>2, InputsStay
<1>3. CASE Snap
  <2>1. UNCHANGED <<inputVars, distance_by_source, poolVars, resultVars>>
    BY <1>3 DEF Snap
  <2> DEFINE point == problem.points[Len(snapped) + 1]
  <2>2. \/ snapped' = Append(snapped, Nearest[point]) /\ UNCHANGED stage
        \/ stage' = "rejected" /\ UNCHANGED snapped
    BY <1>3 DEF Snap
  <2>3. point \in Points
    <3>1. Len(snapped) \in Nat /\ Len(snapped) < Len(problem.points)
      BY <1>3 DEF Snap, n
    <3> QED
      BY <1>1, <3>1
  <2>4. snapped' \in Seq(Nodes) /\ Len(snapped') <= n
    <3>1. Nearest[point] \in Nodes
      BY <2>3, RoadTablesAssumption
    <3>2. snapped \in Seq(Nodes) /\ Len(snapped) \in Nat /\ Len(snapped) < n
      BY <1>3 DEF Snap
    <3> HIDE DEF point, TypeInv
    <3>3. /\ Append(snapped, Nearest[point]) \in Seq(Nodes)
          /\ Len(Append(snapped, Nearest[point])) = Len(snapped) + 1
      BY <3>1, <3>2, AppendSet
    <3> QED
      BY <1>1, <2>2, <3>2, <3>3
  <2> QED
    BY <1>2, <2>1, <2>2, <2>4 DEF poolVars, resultVars
<1>4. CASE ChooseBuilder
  BY <1>2, <1>4 DEF ChooseBuilder, poolVars, resultVars
<1>5. CASE SearchSource
  BY <1>2, <1>5 DEF SearchSource, poolVars, resultVars
<1>6. CASE StartAssembly
  BY <1>2, <1>6 DEF StartAssembly, poolVars, resultVars
<1>7. CASE Assemble
  <2>1. Recorded + 1 \in 1 .. n * n
    BY <1>1, <1>7, RecordedCount DEF Assemble
  <2>2. Job(Recorded + 1) \in Cells
    BY <2>1, JobIsCell
  <2>3. /\ UNCHANGED <<inputVars, stage, snapped, distance_by_source, poolVars>>
        /\ \E distance : Record(Job(Recorded + 1), distance)
    BY <1>7 DEF Assemble
  <2>4. failures' \in Seq(Cells') /\ computed_pairs' \in Nat
    BY <2>2, <2>3, RecordTypes
  <2> QED
    BY <1>2, <2>3, <2>4 DEF poolVars
<1>8. CASE Submit
  BY <1>1, <1>2, <1>8 DEF Submit, resultVars
<1>9. CASE AwaitResults
  BY <1>2, <1>9 DEF AwaitResults, resultVars
<1>10. CASE TakeJob
  BY <1>1, <1>2, <1>10 DEF TakeJob, resultVars
<1>11. ASSUME NEW k \in running, FinishJob(k)
       PROVE  TypeInv'
  <2>1. /\ finished' \in Seq(Nat)
        /\ ToSet(finished') = ToSet(finished) \cup {k}
    BY <1>11, AppendSet DEF FinishJob
  <2> QED
    BY <1>2, <1>11, <2>1 DEF FinishJob, resultVars
<1>12. ASSUME NEW i \in DOMAIN finished, Collect(i)
       PROVE  TypeInv'
  <2>1. /\ UNCHANGED <<inputVars, stage, snapped, distance_by_source, submitted,
                       started, running>>
        /\ finished' = RemoveAt(finished, i)
        /\ \E distance : Record(Job(finished[i]), distance)
    BY <1>12 DEF Collect
  <2>2. Job(finished[i]) \in Cells
    BY JobIsCell, CollectedJob
  <2>3. failures' \in Seq(Cells') /\ computed_pairs' \in Nat
    BY <2>1, <2>2, RecordTypes
  <2>4. finished' \in Seq(Nat) /\ ToSet(finished') \subseteq ToSet(finished)
    BY <2>1, RemoveKeeps
  <2> QED
    BY <1>2, <2>1, <2>3, <2>4
<1>13. CASE Return
  BY <1>2, <1>13 DEF Return, poolVars, resultVars
<1>14. CASE UNCHANGED vars
  BY <1>2, <1>14 DEF vars, poolVars, resultVars
<1> QED
  BY <1>3, <1>4, <1>5, <1>6, <1>7, <1>8, <1>9, <1>10, <1>11, <1>12, <1>13, <1>14
     DEF Next, Rest

\* Every variable keeps its type, whatever the problem, the roads and the pool.
THEOREM TypeCorrect == Spec => []TypeInv
<1> QED
  BY InitTypes, NextTypes, PTL DEF Spec

(***************************************************************************)
(* What is recorded.                                                       *)
(***************************************************************************)

Settled == DOMAIN matrix_distance_m \cup ToSet(failures)

\* A pair is recorded once, as a distance or as a failure.
Ledger ==
    /\ DOMAIN matrix_distance_m \subseteq Cells
    /\ ToSet(failures) \cap DOMAIN matrix_distance_m = {}
    /\ Distinct(failures)
    /\ computed_pairs = Cardinality(DOMAIN matrix_distance_m)

\* The jobs whose pairs are still to be recorded.
Pending ==
    CASE stage = "assemble" -> Recorded + 1 .. n * n
      [] stage = "collect" -> running \cup ToSet(finished) \cup (started + 1 .. n * n)
      [] OTHER -> {}

LedgerInv ==
    /\ Ledger
    /\ stage \in {"snap", "search", "submit"} =>
          DOMAIN matrix_distance_m = {} /\ failures = << >>
    /\ \A k \in Pending : PairAt(n, k) \notin Settled

\* A job is with one thread at most, then once among those that are done; when
\* the pool is not in use it is empty.
PoolInv ==
    /\ early \subseteq ToSet(finished)
    /\ Distinct(finished)
    /\ running \cap ToSet(finished) = {}
    /\ Cardinality(running) <= effective_workers
    /\ stage \notin {"submit", "collect"} =>
          submitted = started /\ running = {} /\ finished = << >>
    /\ stage = "snap" => submitted = 0
    /\ stage = "collect" => submitted = n * n
    /\ stage \in {"submit", "collect"} => Held = submitted

LEMMA CellsFinite ==
    ASSUME problem \in Problems
    PROVE  IsFiniteSet(Cells) /\ Cardinality(Cells) = n * n
<1>1. n \in Nat
  BY InputTypes
<1>2. IsFiniteSet(1 .. n) /\ Cardinality(1 .. n) = n
  <2>1. 1 \in Int /\ n \in Int
    BY <1>1
  <2>2. IsFiniteSet(1 .. n) /\ Cardinality(1 .. n) = IF 1 > n THEN 0 ELSE n - 1 + 1
    BY <2>1, FS_Interval
  <2> QED
    BY <1>1, <2>2
<1> QED
  BY <1>2, FS_Product, Zenon DEF Cells

LEMMA RecordCounts ==
    ASSUME TypeInv, NEW pair \in Cells, NEW distance, Record(pair, distance)
    PROVE  Recorded' = Recorded + 1
<1>1. failures \in Seq(Cells) /\ computed_pairs \in Nat
  BY DEF TypeInv
<1>2. CASE distance = NoPath
  <2>1. failures' = Append(failures, pair) /\ computed_pairs' = computed_pairs
    BY <1>2 DEF Record
  <2>2. Len(failures') = Len(failures) + 1 /\ Len(failures) \in Nat
    BY <1>1, <2>1, AppendSet
  <2> QED
    BY <1>1, <2>1, <2>2 DEF Recorded
<1>3. CASE distance # NoPath
  <2>1. failures' = failures /\ computed_pairs' = computed_pairs + 1
    BY <1>3 DEF Record
  <2>2. Len(failures) \in Nat
    BY <1>1
  <2> QED
    BY <1>1, <2>1, <2>2 DEF Recorded
<1> QED
  BY <1>2, <1>3

\* A pair not recorded before is entered properly.
LEMMA RecordKeeps ==
    ASSUME TypeInv, Ledger, UNCHANGED inputVars,
           NEW pair \in Cells, NEW distance, pair \notin Settled, Record(pair, distance)
    PROVE  Ledger' /\ Settled' = Settled \cup {pair}
<1>1. /\ failures \in Seq(Cells)
      /\ Cells' = Cells
      /\ pair \notin DOMAIN matrix_distance_m /\ pair \notin ToSet(failures)
  BY InputsStay DEF TypeInv, Settled
<1>2. CASE distance = NoPath
  <2>1. /\ failures' = Append(failures, pair)
        /\ matrix_distance_m' = matrix_distance_m /\ computed_pairs' = computed_pairs
    BY <1>2 DEF Record
  <2>2. ToSet(failures') = ToSet(failures) \cup {pair} /\ Distinct(failures')
    BY <1>1, <2>1, AppendSet DEF Ledger
  <2> QED
    BY <1>1, <2>1, <2>2 DEF Ledger, Settled
<1>3. CASE distance # NoPath
  <2>1. /\ failures' = failures
        /\ DOMAIN matrix_distance_m' = DOMAIN matrix_distance_m \cup {pair}
        /\ computed_pairs' = computed_pairs + 1
    BY <1>3 DEF Record
  <2>2. IsFiniteSet(DOMAIN matrix_distance_m)
    BY CellsFinite, FS_Subset DEF Ledger, TypeInv
  <2>3. Cardinality(DOMAIN matrix_distance_m') = computed_pairs'
    BY <1>1, <2>1, <2>2, FS_AddElement DEF Ledger
  <2> QED
    BY <1>1, <2>1, <2>3 DEF Ledger, Settled
<1> QED
  BY <1>2, <1>3

LEMMA LedgerStays ==
    ASSUME Ledger, UNCHANGED inputVars, UNCHANGED resultVars
    PROVE  Ledger' /\ Settled' = Settled /\ Recorded' = Recorded
BY InputsStay DEF Ledger, resultVars, Settled, Recorded

LEMMA InitLedger == Init => LedgerInv
<1> SUFFICES ASSUME Init PROVE LedgerInv
  OBVIOUS
<1>1. /\ failures = << >> /\ matrix_distance_m = << >> /\ computed_pairs = 0
      /\ stage = "snap"
  BY DEF Init
<1>2. Ledger
  BY <1>1, EmptySequence, FS_EmptySet DEF Ledger
<1> QED
  BY <1>1, <1>2, EmptySequence DEF LedgerInv, Pending

LEMMA NextLedger == TypeInv /\ PoolInv /\ LedgerInv /\ [Next]_vars => LedgerInv'
<1> SUFFICES ASSUME TypeInv, PoolInv, LedgerInv, [Next]_vars PROVE LedgerInv'
  OBVIOUS
<1>1. /\ problem \in Problems /\ n \in Nat /\ n * n \in Nat
      /\ Recorded \in Nat
      /\ started \in 0 .. n * n /\ running \subseteq 1 .. n * n
      /\ ToSet(finished) \subseteq 1 .. n * n
  BY InputTypes, RecordedCount DEF TypeInv
<1>2. /\ Ledger
      /\ \A k \in Pending : PairAt(n, k) \notin Settled
  BY DEF LedgerInv
<1>3. ASSUME UNCHANGED inputVars, UNCHANGED resultVars, Pending' \subseteq Pending,
             \/ stage' \notin {"snap", "search", "submit"}
             \/ stage \in {"snap", "search", "submit"}
      PROVE  LedgerInv'
  <2>1. Ledger' /\ Settled' = Settled /\ n' = n
    BY <1>2, <1>3, InputsStay, LedgerStays
  <2>2. /\ stage \in {"snap", "search", "submit"} =>
              DOMAIN matrix_distance_m = {} /\ failures = << >>
        /\ matrix_distance_m' = matrix_distance_m /\ failures' = failures
    BY <1>3 DEF LedgerInv, resultVars
  <2>3. \A k \in Pending' : PairAt(n', k) \notin Settled'
    BY <1>2, <1>3, <2>1
  <2> QED
    BY <1>3, <2>1, <2>2, <2>3 DEF LedgerInv
<1>4. ASSUME UNCHANGED inputVars, UNCHANGED resultVars,
             stage \in {"snap", "search", "submit"}
      PROVE  LedgerInv'
  <2>1. Ledger' /\ Settled' = Settled
    BY <1>2, <1>4, LedgerStays
  <2>2. /\ DOMAIN matrix_distance_m = {} /\ failures = << >>
        /\ matrix_distance_m' = matrix_distance_m /\ failures' = failures
    BY <1>4 DEF LedgerInv, resultVars
  <2>3. Settled' = {}
    BY <2>1, <2>2, EmptySequence DEF Settled
  <2> QED
    BY <2>1, <2>2, <2>3 DEF LedgerInv
<1>5. ASSUME UNCHANGED inputVars, stage \in {"assemble", "collect"}, stage' = stage,
             NEW k \in Pending, k \in 1 .. n * n,
             NEW distance, Record(Job(k), distance),
             Pending' \subseteq Pending \ {k}, Pending \subseteq 1 .. n * n
      PROVE  LedgerInv'
  <2>1. Job(k) = PairAt(n, k) /\ Job(k) \in Cells
    BY <1>1, <1>5, JobIsPairAt, JobIsCell
  <2>2. Job(k) \notin Settled
    BY <1>2, <2>1
  <2>3. Ledger' /\ Settled' = Settled \cup {PairAt(n, k)} /\ n' = n
    BY <1>2, <1>5, <2>1, <2>2, InputsStay, RecordKeeps
  <2>4. ASSUME NEW l \in Pending'
        PROVE  PairAt(n, l) \notin Settled'
    <3>1. l \in Pending /\ l # k /\ l \in 1 .. n * n
      BY <1>5
    <3>2. PairAt(n, l) # PairAt(n, k)
      BY <1>1, <1>5, <3>1, JobsDiffer
    <3> QED
      BY <1>2, <2>3, <3>1, <3>2
  <2> QED
    BY <1>5, <2>3, <2>4 DEF LedgerInv
<1>6. CASE Snap
  BY <1>4, <1>6 DEF Snap
<1>7. CASE ChooseBuilder
  BY <1>4, <1>7 DEF ChooseBuilder
<1>8. CASE SearchSource
  BY <1>4, <1>8 DEF SearchSource
<1>9. CASE StartAssembly
  BY <1>4, <1>9 DEF StartAssembly
<1>10. CASE Assemble
  <2>1. /\ stage = "assemble" /\ stage' = stage /\ UNCHANGED inputVars
        /\ Recorded < n * n
        /\ UNCHANGED <<inputVars, stage, snapped, distance_by_source, poolVars>>
    BY <1>10 DEF Assemble
  <2>2. PICK distance : Record(Job(Recorded + 1), distance)
    BY <1>10 DEF Assemble
  <2>3. Recorded + 1 \in 1 .. n * n
    BY <1>1, <2>1
  <2>4. Pending = Recorded + 1 .. n * n /\ Pending' = Recorded' + 1 .. n * n
    BY <2>1, InputsStay DEF Pending
  <2>5. Recorded' = Recorded + 1
    BY <1>1, <2>2, <2>3, JobIsCell, RecordCounts
  <2>6. Pending' \subseteq Pending \ {Recorded + 1} /\ Pending \subseteq 1 .. n * n
    BY <1>1, <2>4, <2>5
  <2>7. Recorded + 1 \in Pending
    BY <1>1, <2>1, <2>4
  <2> QED
    BY <1>5, <2>1, <2>2, <2>3, <2>6, <2>7
<1>11. CASE Submit
  BY <1>4, <1>11 DEF Submit
<1>12. CASE AwaitResults
  BY <1>4, <1>12 DEF AwaitResults
<1>13. CASE TakeJob
  <2>1. /\ UNCHANGED inputVars /\ UNCHANGED resultVars
        /\ stage' = stage /\ finished' = finished
        /\ started' = started + 1 /\ running' = running \cup {started + 1}
        /\ started < submitted
    BY <1>13 DEF TakeJob
  <2>2. started + 1 \in 1 .. n * n
    BY <1>1, <2>1 DEF TypeInv
  <2>3. Recorded' = Recorded /\ n' = n
    BY <1>2, <2>1, InputsStay, LedgerStays
  <2>4. Pending' \subseteq Pending
    BY <1>1, <2>1, <2>2, <2>3 DEF Pending
  <2> QED
    BY <1>3, <2>1, <2>4
<1>14. ASSUME NEW k \in running, FinishJob(k)
       PROVE  LedgerInv'
  <2>1. /\ UNCHANGED inputVars /\ UNCHANGED resultVars
        /\ stage' = stage /\ started' = started
        /\ running' = running \ {k} /\ finished' = Append(finished, k)
    BY <1>14 DEF FinishJob
  <2>a. finished \in Seq(Nat) /\ k \in Nat
    BY <1>1, <1>14 DEF TypeInv
  <2>2. ToSet(finished') = ToSet(finished) \cup {k}
    BY <2>a, <2>1, AppendSet
  <2>3. Recorded' = Recorded /\ n' = n
    BY <1>2, <2>1, InputsStay, LedgerStays
  <2>4. Pending' \subseteq Pending
    BY <2>1, <2>2, <2>3 DEF Pending
  <2> QED
    BY <1>3, <2>1, <2>4
<1>15. ASSUME NEW i \in DOMAIN finished, Collect(i)
       PROVE  LedgerInv'
  <2> DEFINE k == finished[i]
  <2>1. /\ stage = "collect" /\ stage' = stage
        /\ UNCHANGED inputVars /\ started' = started /\ running' = running
        /\ finished' = RemoveAt(finished, i)
    BY <1>15 DEF Collect
  <2>2. PICK distance : Record(Job(k), distance)
    BY <1>15 DEF Collect
  <2>3. k \in ToSet(finished) /\ k \in 1 .. n * n
    BY <1>15, CollectedJob
  <2>4. finished \in Seq(Nat) /\ Distinct(finished)
    BY DEF TypeInv, PoolInv
  <2>5. ToSet(finished') = ToSet(finished) \ {k}
    BY <1>15, <2>1, <2>4, RemoveSet
  <2>6. k \notin running /\ k \notin started + 1 .. n * n
    BY <2>3 DEF TypeInv, PoolInv
  <2> HIDE DEF k
  <2>7. /\ Pending = running \cup ToSet(finished) \cup (started + 1 .. n * n)
        /\ Pending' = running \cup ToSet(finished') \cup (started + 1 .. n * n)
    BY <2>1, InputsStay DEF Pending
  <2>8. Pending' \subseteq Pending \ {k} /\ k \in Pending
    BY <2>3, <2>5, <2>6, <2>7
  <2>9. started + 1 .. n * n \subseteq 1 .. n * n
    BY <1>1
  <2>10. Pending \subseteq 1 .. n * n
    BY <1>1, <2>7, <2>9
  <2> QED
    BY <1>5, <2>1, <2>2, <2>3, <2>8, <2>10
<1>16. CASE Return
  <2>1. /\ UNCHANGED inputVars /\ UNCHANGED resultVars /\ stage' = "returned"
    BY <1>16 DEF Return
  <2>2. Pending' \subseteq Pending
    BY <2>1 DEF Pending
  <2> QED
    BY <1>3, <2>1, <2>2
<1>17. CASE UNCHANGED vars
  <2>1. /\ UNCHANGED inputVars /\ UNCHANGED resultVars /\ stage' = stage
        /\ running' = running /\ finished' = finished /\ started' = started
    BY <1>17 DEF vars, poolVars
  <2>2. Recorded' = Recorded /\ n' = n
    BY <1>2, <2>1, InputsStay, LedgerStays
  <2>3. Pending' = Pending
    BY <2>1, <2>2 DEF Pending
  <2> QED
    BY <1>3, <2>1, <2>3
<1> QED
  BY <1>6, <1>7, <1>8, <1>9, <1>10, <1>11, <1>12, <1>13, <1>14, <1>15, <1>16,
     <1>17
     DEF Next, Rest

LEMMA InitPool == Init => PoolInv
<1> SUFFICES ASSUME Init PROVE PoolInv
  OBVIOUS
<1>1. /\ problem \in Problems /\ stage = "snap"
      /\ submitted = 0 /\ started = 0 /\ running = {} /\ finished = << >> /\ early = {}
  BY DEF Init
<1>2. Cardinality(running) = 0
  BY <1>1, FS_EmptySet
<1>3. Cardinality(running) <= effective_workers
  BY <1>1, <1>2, WorkersPositive
<1> QED
  BY <1>1, <1>3, EmptySequence DEF PoolInv

LEMMA NothingRecorded ==
    ASSUME LedgerInv, stage \in {"snap", "search", "submit"}
    PROVE  Recorded = 0
<1>1. computed_pairs = 0 /\ failures = << >>
  BY FS_EmptySet DEF LedgerInv, Ledger
<1>2. Len(failures) = 0
  BY <1>1, EmptySequence
<1> QED
  BY <1>1, <1>2 DEF Recorded

LEMMA RunningFinite ==
    ASSUME TypeInv
    PROVE  IsFiniteSet(running) /\ Cardinality(running) \in Nat
<1>1. running \in SUBSET (1 .. started) /\ started \in Int
  BY InputTypes DEF TypeInv
<1>2. IsFiniteSet(1 .. started)
  BY <1>1, FS_Interval
<1>3. IsFiniteSet(running)
  BY <1>1, <1>2, FS_Subset
<1> QED
  BY <1>3, FS_CardinalityType

\* When every pair is recorded, the pool is empty.
LEMMA PoolEmptied ==
    ASSUME TypeInv, PoolInv, stage = "collect", Recorded = n * n
    PROVE  submitted = started /\ running = {} /\ finished = << >>
<1>1. /\ submitted = n * n /\ Held = submitted
      /\ Held = submitted - started + Cardinality(running) + Len(finished) + Recorded
  BY DEF PoolInv, Held
<1>2. /\ submitted \in Nat /\ started \in 0 .. submitted
      /\ Cardinality(running) \in Nat /\ IsFiniteSet(running)
      /\ finished \in Seq(Nat) /\ Len(finished) \in Nat
  BY RunningFinite, InputTypes DEF TypeInv
<1> DEFINE c == Cardinality(running)
           l == Len(finished)
           r == Recorded
<1>3. /\ submitted = submitted - started + c + l + submitted
      /\ c \in Nat /\ l \in Nat
  BY <1>1, <1>2
<1> HIDE DEF c, l
<1>4. submitted = started /\ c = 0 /\ l = 0
  BY <1>2, <1>3
<1>5. running = {}
  BY <1>2, <1>4, FS_EmptySet DEF c
<1>6. finished = << >>
  BY <1>2, <1>4 DEF l
<1> QED
  BY <1>4, <1>5, <1>6

LEMMA NextPool == TypeInv /\ PoolInv /\ LedgerInv /\ [Next]_vars => PoolInv'
<1> SUFFICES ASSUME TypeInv, PoolInv, LedgerInv, [Next]_vars PROVE PoolInv'
  OBVIOUS
<1>1. /\ problem \in Problems /\ n \in Nat /\ n * n \in Nat
      /\ Recorded \in Nat
      /\ submitted \in Nat /\ started \in 0 .. submitted /\ submitted <= n * n
      /\ running \subseteq 1 .. started
      /\ finished \in Seq(Nat) /\ ToSet(finished) \subseteq 1 .. started
      /\ IsFiniteSet(running) /\ Cardinality(running) \in Nat
      /\ effective_workers \in Int
  BY InputTypes, RecordedCount, RunningFinite, WorkersPositive DEF TypeInv
<1>2. ASSUME UNCHANGED inputVars, UNCHANGED poolVars, UNCHANGED resultVars,
             \/ stage' = stage
             \/ stage' \notin {"snap", "submit", "collect"}
                /\ stage \notin {"submit", "collect"}
      PROVE  PoolInv'
  <2>1. n' = n /\ effective_workers' = effective_workers /\ Recorded' = Recorded
    BY <1>2, InputsStay DEF resultVars, Recorded
  <2> QED
    BY <1>2, <2>1 DEF PoolInv, Held, poolVars
<1>3. CASE Snap
  BY <1>2, <1>3 DEF Snap
<1>4. CASE ChooseBuilder
  <2>1. /\ UNCHANGED inputVars /\ UNCHANGED poolVars /\ UNCHANGED resultVars
        /\ stage = "snap" /\ stage' \in {"search", "submit"}
    BY <1>4 DEF ChooseBuilder
  <2>2. n' = n /\ effective_workers' = effective_workers /\ Recorded' = 0
    BY <2>1, InputsStay, NothingRecorded DEF resultVars, Recorded
  <2>3. /\ submitted = 0 /\ started = 0 /\ running = {} /\ finished = << >>
        /\ Cardinality(running) = 0 /\ Len(finished) = 0
    BY <2>1, EmptySequence, FS_EmptySet DEF PoolInv
  <2>4. Held' = 0
    BY <2>1, <2>2, <2>3 DEF Held, poolVars
  <2> QED
    BY <2>1, <2>2, <2>3, <2>4 DEF PoolInv, poolVars
<1>5. CASE SearchSource
  BY <1>2, <1>5 DEF SearchSource
<1>6. CASE StartAssembly
  BY <1>2, <1>6 DEF StartAssembly
<1>7. CASE Assemble
  <2>1. /\ UNCHANGED inputVars /\ UNCHANGED poolVars
        /\ stage = "assemble" /\ stage' = stage
    BY <1>7 DEF Assemble
  <2>2. n' = n /\ effective_workers' = effective_workers
    BY <2>1, InputsStay
  <2> QED
    BY <2>1, <2>2 DEF PoolInv, poolVars
<1>8. CASE Submit
  <2>1. /\ UNCHANGED inputVars /\ UNCHANGED resultVars
        /\ stage = "submit" /\ stage' = stage /\ submitted' = submitted + 1
        /\ UNCHANGED <<started, running, finished, early>>
    BY <1>8 DEF Submit
  <2>2. n' = n /\ effective_workers' = effective_workers /\ Recorded' = Recorded
    BY <2>1, InputsStay DEF resultVars, Recorded
  <2>3. Held' = Held + 1
    BY <1>1, <2>1, <2>2 DEF Held
  <2> QED
    BY <2>1, <2>2, <2>3 DEF PoolInv
<1>9. CASE AwaitResults
  <2>1. /\ UNCHANGED inputVars /\ UNCHANGED resultVars
        /\ stage = "submit" /\ stage' = "collect" /\ submitted = n * n
        /\ early' = ToSet(finished)
        /\ UNCHANGED <<submitted, started, running, finished>>
    BY <1>9 DEF AwaitResults
  <2>2. n' = n /\ effective_workers' = effective_workers /\ Recorded' = Recorded
    BY <2>1, InputsStay DEF resultVars, Recorded
  <2>3. Held' = Held
    BY <2>1, <2>2 DEF Held
  <2> QED
    BY <2>1, <2>2, <2>3 DEF PoolInv
<1>10. CASE TakeJob
  <2>1. /\ UNCHANGED inputVars /\ UNCHANGED resultVars /\ stage' = stage
        /\ started < submitted /\ Cardinality(running) < effective_workers
        /\ started' = started + 1 /\ running' = running \cup {started + 1}
        /\ UNCHANGED <<submitted, finished, early>>
    BY <1>10 DEF TakeJob
  <2>2. n' = n /\ effective_workers' = effective_workers /\ Recorded' = Recorded
    BY <2>1, InputsStay DEF resultVars, Recorded
  <2>3. started + 1 \notin running /\ started + 1 \notin ToSet(finished)
    BY <1>1
  <2>4. Cardinality(running') = Cardinality(running) + 1
    BY <1>1, <2>1, <2>3, FS_AddElement
  <2>5. stage \in {"submit", "collect"}
    BY <1>1, <2>1 DEF PoolInv
  <2>6. Held' = Held
    BY <1>1, <2>1, <2>2, <2>4 DEF Held
  <2>7. Cardinality(running') <= effective_workers'
    BY <1>1, <2>1, <2>2, <2>4
  <2>8. running' \cap ToSet(finished') = {}
    BY <2>1, <2>3 DEF PoolInv
  <2> QED
    BY <2>1, <2>2, <2>5, <2>6, <2>7, <2>8 DEF PoolInv
<1>11. ASSUME NEW k \in running, FinishJob(k)
       PROVE  PoolInv'
  <2>1. /\ UNCHANGED inputVars /\ UNCHANGED resultVars /\ stage' = stage
        /\ running' = running \ {k} /\ finished' = Append(finished, k)
        /\ UNCHANGED <<submitted, started, early>>
    BY <1>11 DEF FinishJob
  <2>2. n' = n /\ effective_workers' = effective_workers /\ Recorded' = Recorded
    BY <2>1, InputsStay DEF resultVars, Recorded
  <2>3. k \in Nat /\ k \notin ToSet(finished)
    BY <1>1 DEF PoolInv
  <2>4. /\ Len(finished') = Len(finished) + 1
        /\ ToSet(finished') = ToSet(finished) \cup {k}
        /\ Distinct(finished')
    BY <1>1, <2>1, <2>3, AppendSet DEF PoolInv
  <2>5. Cardinality(running') = Cardinality(running) - 1
    BY <1>1, <2>1, FS_RemoveElement
  <2>6. stage \in {"submit", "collect"}
    BY <1>11 DEF PoolInv
  <2>7. Held' = Held
    <3>1. Len(finished) \in Nat
      BY <1>1
    <3> QED
      BY <1>1, <2>1, <2>2, <2>4, <2>5, <3>1 DEF Held
  <2>8. Cardinality(running') <= effective_workers'
    BY <1>1, <2>2, <2>5 DEF PoolInv
  <2>9. running' \cap ToSet(finished') = {} /\ early' \subseteq ToSet(finished')
    BY <2>1, <2>4 DEF PoolInv
  <2> QED
    BY <2>1, <2>2, <2>4, <2>6, <2>7, <2>8, <2>9 DEF PoolInv
<1>12. ASSUME NEW i \in DOMAIN finished, Collect(i)
       PROVE  PoolInv'
  <2> DEFINE k == finished[i]
  <2>1. /\ stage = "collect" /\ stage' = stage /\ UNCHANGED inputVars
        /\ finished' = RemoveAt(finished, i) /\ early' = early \ {k}
        /\ UNCHANGED <<submitted, started, running>>
        /\ \E distance : Record(Job(k), distance)
    BY <1>12 DEF Collect
  <2>2. n' = n /\ effective_workers' = effective_workers
    BY <2>1, InputsStay
  <2>3. Recorded' = Recorded + 1
    <3>1. Job(k) \in Cells
      BY <1>1, <1>12, CollectedJob, JobIsCell
    <3> QED
      BY <2>1, <3>1, RecordCounts
  <2>4. /\ Len(finished') = Len(finished) - 1
        /\ ToSet(finished') = ToSet(finished) \ {k}
        /\ Distinct(finished')
    BY <1>1, <1>12, <2>1, RemoveSet DEF PoolInv
  <2> HIDE DEF k
  <2>5. Held' = Held
    <3>1. Len(finished) \in Nat
      BY <1>1
    <3>2. submitted' = submitted /\ started' = started /\ running' = running
      BY <2>1
    <3>3. /\ submitted \in Int /\ started \in Int /\ Cardinality(running) \in Int
          /\ Recorded \in Int
      BY <1>1
    <3> DEFINE rest == submitted - started + Cardinality(running)
    <3>4. rest \in Int
      BY <3>3
    <3>5. /\ Held = rest + Len(finished) + Recorded
          /\ Held' = rest + Len(finished') + Recorded'
      BY <3>2 DEF Held
    <3>6. Len(finished') = Len(finished) - 1
      BY <2>4
    <3> HIDE DEF rest
    <3> QED
      BY <2>3, <3>1, <3>3, <3>4, <3>5, <3>6
  <2>6. running' \cap ToSet(finished') = {} /\ early' \subseteq ToSet(finished')
    BY <2>1, <2>4 DEF PoolInv
  <2> QED
    BY <2>1, <2>2, <2>4, <2>5, <2>6 DEF PoolInv
<1>13. CASE Return
  <2>1. /\ UNCHANGED inputVars /\ UNCHANGED poolVars /\ stage' = "returned"
        /\ stage \in {"assemble", "collect"} /\ Recorded = n * n
    BY <1>13 DEF Return
  <2>2. n' = n /\ effective_workers' = effective_workers
    BY <2>1, InputsStay
  <2>3. submitted = started /\ running = {} /\ finished = << >>
    BY <2>1, PoolEmptied DEF PoolInv
  <2> QED
    BY <2>1, <2>2, <2>3 DEF PoolInv, poolVars
<1>14. CASE UNCHANGED vars
  BY <1>2, <1>14 DEF vars
<1> QED
  BY <1>3, <1>4, <1>5, <1>6, <1>7, <1>8, <1>9, <1>10, <1>11, <1>12, <1>13, <1>14
     DEF Next, Rest

(***************************************************************************)
(* No pair is lost, none is recorded twice.                                *)
(***************************************************************************)

IInv == TypeInv /\ PoolInv /\ LedgerInv

LEMMA Invariance == Spec => []IInv
<1>1. Init => IInv
  BY InitTypes, InitPool, InitLedger DEF IInv
<1>2. IInv /\ [Next]_vars => IInv'
  BY NextTypes, NextPool, NextLedger DEF IInv
<1> QED
  BY <1>1, <1>2, PTL DEF Spec

LEMMA DistinctCount ==
    ASSUME NEW S, NEW s \in Seq(S), Distinct(s)
    PROVE  Cardinality(ToSet(s)) = Len(s) /\ IsFiniteSet(ToSet(s))
<1>1. Len(s) \in Nat /\ DOMAIN s = 1 .. Len(s)
  OBVIOUS
<1>2. s \in Bijection(1 .. Len(s), ToSet(s))
  BY <1>1 DEF Distinct, ToSet, Bijection, Injection, Surjection, IsInjective
<1>3. ExistsBijection(1 .. Len(s), ToSet(s))
  BY <1>2 DEF ExistsBijection
<1> QED
  BY <1>1, <1>3, FS_CountingElements, FS_NatBijection

\* Of the threads that work on the pairs at once, none loses a job and no two
\* have the same one, and each pair is written or reported once, however many
\* locations, jobs and threads there are.
THEOREM EachPairOnce == Spec => []PairsOnce
<1>1. IInv => PairsOnce
  <2> SUFFICES ASSUME IInv PROVE PairsOnce
    OBVIOUS
  <2>1. failures \in Seq(Cells) /\ Distinct(failures)
    BY DEF IInv, TypeInv, LedgerInv, Ledger
  <2>2. Cardinality(ToSet(failures)) = Len(failures)
    BY <2>1, DistinctCount
  <2> QED
    BY <2>2 DEF IInv, PoolInv, LedgerInv, Ledger, PairsOnce
<1> QED
  BY <1>1, Invariance, PTL

(***************************************************************************)
(* What is recorded of a pair is the length of its shortest road.          *)
(***************************************************************************)

SnapInv ==
    /\ \A i \in 1 .. Len(snapped) :
          /\ problem.points[i] \in InArea
          /\ snapped[i] = Nearest[problem.points[i]]
    /\ stage \notin {"snap", "rejected"} => Len(snapped) = n
    /\ stage = "rejected" => ~Promise!Acceptable
    /\ stage \in {"search", "assemble"} => problem.algorithm = "source_dijkstra"
    /\ stage \in {"submit", "collect"} => problem.algorithm # "source_dijkstra"
    /\ stage = "raised" => Promise!MeetsNegative
    /\ stage \in {"assemble", "submit", "collect", "returned"} => ~Promise!MeetsNegative

SearchInv ==
    /\ DOMAIN distance_by_source \subseteq ToSet(snapped) \ Raising
    /\ \A u \in DOMAIN distance_by_source, v \in ToSet(snapped) :
          distance_by_source[u][v] = roads[<<u, v>>]
    /\ stage = "snap" => DOMAIN distance_by_source = {}
    /\ stage = "assemble" => DOMAIN distance_by_source = ToSet(snapped)

ValueInv ==
    /\ \A pair \in DOMAIN matrix_distance_m :
          /\ matrix_distance_m[pair] = Promise!Table[pair]
          /\ Promise!Table[pair] # NoPath
    /\ \A pair \in ToSet(failures) : Promise!Table[pair] = NoPath
    /\ stage = "returned" => Settled = Cells

LEMMA IndicesOfPoints ==
    ASSUME problem \in Problems
    PROVE  Promise!Indices = 1 .. n /\ Promise!Pairs = Cells
<1>1. Promise!Indices = 1 .. n
  BY InputTypes DEF Promise!Indices, n
<1> QED
  BY <1>1 DEF Promise!Pairs, Cells

LEMMA PromiseStays ==
    ASSUME UNCHANGED inputVars
    PROVE  /\ Promise!Table' = Promise!Table
           /\ Promise!MeetsNegative' = Promise!MeetsNegative
           /\ Promise!Acceptable' = Promise!Acceptable
BY DEF inputVars, Promise!Table, Promise!MeetsNegative, Promise!Acceptable,
       Promise!Pairs, Promise!Indices, Promise!NodeOf

LEMMA NodesOfPoints ==
    ASSUME problem \in Problems, NEW i \in 1 .. n
    PROVE  problem.points[i] \in Points /\ Promise!NodeOf(i) \in Nodes
<1>1. problem.points[i] \in Points
  BY InputTypes DEF n
<1> QED
  BY <1>1, RoadTablesAssumption DEF Promise!NodeOf

LEMMA TableEntries ==
    ASSUME problem \in Problems, NEW i \in 1 .. n, NEW j \in 1 .. n
    PROVE  Promise!Table[<<i, j>>] = roads[<<Promise!NodeOf(i), Promise!NodeOf(j)>>]
<1>1. <<i, j>> \in Promise!Pairs
  BY IndicesOfPoints DEF Cells
<1> QED
  BY <1>1 DEF Promise!Table

LEMMA Diagonal ==
    ASSUME roads \in RoadTables, NEW u \in Nodes
    PROVE  roads[<<u, u>>] = 0
BY RoadTablesAssumption

LEMMA SnappedNodes ==
    ASSUME TypeInv, SnapInv, Len(snapped) = n
    PROVE  /\ \A i \in 1 .. n : snapped[i] = Promise!NodeOf(i)
           /\ ToSet(snapped) = {Promise!NodeOf(i) : i \in 1 .. n}
<1>1. \A i \in 1 .. n : snapped[i] = Promise!NodeOf(i)
  BY DEF SnapInv, Promise!NodeOf
<1>2. DOMAIN snapped = 1 .. n
  BY DEF TypeInv
<1> QED
  BY <1>1, <1>2 DEF ToSet

LEMMA PairDistanceRight ==
    ASSUME TypeInv, SnapInv, Len(snapped) = n, NEW pair \in Cells
    PROVE  PairDistance(pair) = Promise!Table[pair]
<1>1. PICK i \in 1 .. n, j \in 1 .. n : pair = <<i, j>>
  BY DEF Cells
<1>2. snapped[i] = Promise!NodeOf(i) /\ snapped[j] = Promise!NodeOf(j)
  BY SnappedNodes
<1>3. /\ problem \in Problems /\ roads \in RoadTables
  BY DEF TypeInv
<1>4. Promise!Table[pair] = roads[<<snapped[i], snapped[j]>>]
  BY <1>1, <1>2, <1>3, TableEntries
<1>5. roads[<<snapped[i], snapped[i]>>] = 0
  BY <1>2, <1>3, NodesOfPoints, Diagonal
<1>6. PairDistance(pair) = IF i = j THEN 0 ELSE roads[<<snapped[i], snapped[j]>>]
  BY <1>1 DEF PairDistance
<1> QED
  BY <1>4, <1>5, <1>6

LEMMA CellRight ==
    ASSUME TypeInv, SnapInv, SearchInv, stage = "assemble", NEW pair \in Cells
    PROVE  Cell(pair[1], pair[2]) = Promise!Table[pair]
<1>1. PICK i \in 1 .. n, j \in 1 .. n : pair = <<i, j>>
  BY DEF Cells
<1>2. Len(snapped) = n
  BY DEF SnapInv
<1>3. snapped[i] = Promise!NodeOf(i) /\ snapped[j] = Promise!NodeOf(j)
  BY <1>2, SnappedNodes
<1>4. /\ problem \in Problems /\ roads \in RoadTables
  BY DEF TypeInv
<1>5. Promise!Table[pair] = roads[<<snapped[i], snapped[j]>>]
  BY <1>1, <1>3, <1>4, TableEntries
<1>6. roads[<<snapped[i], snapped[i]>>] = 0
  BY <1>3, <1>4, NodesOfPoints, Diagonal
<1>7. snapped[i] \in ToSet(snapped) /\ snapped[j] \in ToSet(snapped)
  BY <1>2, <1>3, SnappedNodes
<1>8. distance_by_source[snapped[i]][snapped[j]] = roads[<<snapped[i], snapped[j]>>]
  BY <1>7 DEF SearchInv
<1>9. Cell(pair[1], pair[2]) = IF i = j \/ snapped[i] = snapped[j] THEN 0
                               ELSE distance_by_source[snapped[i]][snapped[j]]
  BY <1>1 DEF Cell
<1>10. i = j => snapped[i] = snapped[j]
  OBVIOUS
<1> QED
  BY <1>5, <1>6, <1>8, <1>9, <1>10

\* A recorded pair has the length of its shortest road; the rest stays.
LEMMA RecordRight ==
    ASSUME TypeInv, ValueInv, UNCHANGED inputVars, stage' # "returned",
           NEW pair \in Cells, NEW distance, Record(pair, distance),
           distance = Promise!Table[pair]
    PROVE  ValueInv'
<1>1. failures \in Seq(Cells) /\ Promise!Table' = Promise!Table
  BY PromiseStays DEF TypeInv
<1>2. CASE distance = NoPath
  <2>1. failures' = Append(failures, pair) /\ matrix_distance_m' = matrix_distance_m
    BY <1>2 DEF Record
  <2>2. ToSet(failures') = ToSet(failures) \cup {pair}
    BY <1>1, <2>1, AppendSet
  <2> QED
    BY <1>1, <1>2, <2>1, <2>2 DEF ValueInv
<1>3. CASE distance # NoPath
  <2>1. /\ failures' = failures
        /\ matrix_distance_m' =
              [cell \in DOMAIN matrix_distance_m \cup {pair} |->
                  IF cell = pair THEN distance ELSE matrix_distance_m[cell]]
    BY <1>3 DEF Record
  <2> QED
    BY <1>1, <1>3, <2>1 DEF ValueInv
<1> QED
  BY <1>2, <1>3

LEMMA ValuesStay ==
    ASSUME ValueInv, UNCHANGED inputVars, UNCHANGED resultVars,
           stage' # "returned" \/ stage' = stage
    PROVE  ValueInv'
BY PromiseStays, InputsStay DEF ValueInv, resultVars, Settled

\* When as many pairs are recorded as there are, they are all recorded.
LEMMA AllSettled ==
    ASSUME TypeInv, LedgerInv, Recorded = n * n
    PROVE  Settled = Cells
<1>1. /\ IsFiniteSet(Cells) /\ Cardinality(Cells) = n * n
      /\ failures \in Seq(Cells) /\ Distinct(failures)
      /\ DOMAIN matrix_distance_m \in SUBSET Cells
      /\ ToSet(failures) \cap DOMAIN matrix_distance_m = {}
      /\ computed_pairs = Cardinality(DOMAIN matrix_distance_m)
  BY CellsFinite DEF TypeInv, LedgerInv, Ledger
<1>2. Cardinality(ToSet(failures)) = Len(failures) /\ IsFiniteSet(ToSet(failures))
  BY <1>1, DistinctCount
<1>3. IsFiniteSet(DOMAIN matrix_distance_m)
  BY <1>1, FS_Subset
<1>4. Cardinality(DOMAIN matrix_distance_m \cap ToSet(failures)) = 0
  BY <1>1, FS_EmptySet
<1>5. Cardinality(Settled) = computed_pairs + Len(failures) - 0
  BY <1>1, <1>2, <1>3, <1>4, FS_Union DEF Settled
<1>6. Cardinality(Settled) = Cardinality(Cells)
  <2>1. computed_pairs \in Nat /\ Len(failures) \in Nat
    BY <1>1 DEF TypeInv
  <2> QED
    BY <1>1, <1>5, <2>1 DEF Recorded
<1>7. ToSet(failures) \subseteq Cells
  BY <1>1 DEF ToSet
<1>8. Settled \in SUBSET Cells
  BY <1>1, <1>7 DEF Settled
<1> QED
  BY <1>1, <1>6, <1>8, FS_Subset

SInv == SnapInv /\ SearchInv /\ ValueInv

LEMMA InitValues == Init => SInv
<1> SUFFICES ASSUME Init PROVE SInv
  OBVIOUS
<1>1. /\ stage = "snap" /\ snapped = << >> /\ distance_by_source = << >>
      /\ matrix_distance_m = << >> /\ failures = << >>
  BY DEF Init
<1>2. 1 .. Len(snapped) = {}
  BY <1>1, EmptySequence
<1>3. SnapInv
  BY <1>1, <1>2 DEF SnapInv
<1>4. SearchInv
  BY <1>1, EmptySequence DEF SearchInv
<1>5. ValueInv
  BY <1>1, EmptySequence DEF ValueInv
<1> QED
  BY <1>3, <1>4, <1>5 DEF SInv

\* A location is snapped to the node nearest to it, or the call is refused.
LEMMA SnapKeeps == TypeInv /\ LedgerInv /\ SInv /\ Snap => SInv'
<1> SUFFICES ASSUME TypeInv, LedgerInv, SInv, Snap PROVE SInv'
  OBVIOUS
<1> DEFINE i == Len(snapped) + 1
           point == problem.points[i]
<1>1. /\ stage = "snap" /\ Len(snapped) < n
      /\ UNCHANGED inputVars /\ UNCHANGED resultVars
      /\ distance_by_source' = distance_by_source
  BY DEF Snap
<1>2. \/ /\ point \in InArea
         /\ snapped' = Append(snapped, Nearest[point]) /\ stage' = stage
      \/ /\ point \notin InArea
         /\ stage' = "rejected" /\ snapped' = snapped
  BY DEF Snap
<1>3. /\ problem \in Problems /\ n \in Nat
      /\ snapped \in Seq(Nodes) /\ Len(snapped) \in Nat
  BY InputTypes DEF TypeInv
<1>4. i \in 1 .. n
  BY <1>1, <1>3
<1>5. problem' = problem /\ n' = n
  BY <1>1, InputsStay
<1>6. ValueInv'
  BY <1>1, <1>2, ValuesStay DEF SInv
<1>7. SearchInv'
  BY <1>1, <1>2, <1>5 DEF SInv, SearchInv
<1>8. CASE stage' = "rejected"
  <2>1. point \notin InArea /\ snapped' = snapped
    BY <1>1, <1>2, <1>8
  <2>2. ~Promise!Acceptable
    BY <1>3, <1>4, <2>1, IndicesOfPoints DEF Promise!Acceptable
  <2>3. ~Promise!Acceptable'
    BY <1>1, <2>2, PromiseStays
  <2> HIDE DEF point
  <2>4. SnapInv'
    BY <1>5, <1>8, <2>1, <2>3 DEF SInv, SnapInv
  <2> QED
    BY <1>6, <1>7, <2>4 DEF SInv
<1>9. CASE stage' = "snap"
  <2>1. /\ point \in InArea
        /\ snapped' = Append(snapped, Nearest[point])
    BY <1>2, <1>9
  <2>2. Nearest[point] \in Nodes
    BY <1>3, <1>4, NodesOfPoints DEF Promise!NodeOf
  <2>3. /\ Len(snapped') = i
        /\ \A j \in 1 .. Len(snapped) : snapped'[j] = snapped[j]
        /\ snapped'[i] = Nearest[point]
    BY <1>3, <2>1, <2>2, AppendProperties
  <2>4. ASSUME NEW j \in 1 .. Len(snapped')
        PROVE  /\ problem.points[j] \in InArea
               /\ snapped'[j] = Nearest[problem.points[j]]
    <3>1. CASE j = i
      BY <2>1, <2>3, <3>1
    <3>2. CASE j # i
      <4>1. j \in 1 .. Len(snapped)
        BY <1>3, <2>3, <2>4, <3>2
      <4> QED
        BY <2>3, <4>1 DEF SInv, SnapInv
    <3> QED
      BY <3>1, <3>2
  <2>5. SnapInv'
    BY <1>5, <1>9, <2>4 DEF SnapInv
  <2> QED
    BY <1>6, <1>7, <2>5 DEF SInv
<1> QED
  BY <1>1, <1>2, <1>8, <1>9

\* The search from a node tells the distances from it, or the call fails.
LEMMA SearchKeeps == TypeInv /\ SInv /\ SearchSource => SInv'
<1> SUFFICES ASSUME TypeInv, SInv, SearchSource PROVE SInv'
  OBVIOUS
<1>1. /\ stage = "search" /\ snapped' = snapped
      /\ UNCHANGED inputVars /\ UNCHANGED resultVars
  BY DEF SearchSource
<1>2. PICK i \in DOMAIN snapped :
         \/ /\ snapped[i] \in Raising
            /\ stage' = "raised" /\ distance_by_source' = distance_by_source
         \/ /\ snapped[i] \notin Raising
            /\ distance_by_source' =
                  [u \in DOMAIN distance_by_source \cup {snapped[i]} |->
                      IF u = snapped[i]
                      THEN [v \in ToSet(snapped) |-> roads[<<snapped[i], v>>]]
                      ELSE distance_by_source[u]]
            /\ stage' = stage
  BY DEF SearchSource
<1>3. /\ problem' = problem /\ roads' = roads /\ n' = n
      /\ problem \in Problems /\ Len(snapped) = n /\ i \in 1 .. n
      /\ problem.algorithm = "source_dijkstra"
  BY <1>1, InputsStay DEF TypeInv, SInv, SnapInv
<1>4. ValueInv'
  BY <1>1, <1>2, ValuesStay DEF SInv
<1>5. snapped[i] \in ToSet(snapped)
  BY DEF ToSet
<1>6. SearchInv'
  <2>1. CASE distance_by_source' = distance_by_source /\ stage' = "raised"
    BY <1>1, <1>3, <2>1 DEF SInv, SearchInv
  <2>2. CASE /\ snapped[i] \notin Raising
             /\ distance_by_source' =
                  [u \in DOMAIN distance_by_source \cup {snapped[i]} |->
                      IF u = snapped[i]
                      THEN [v \in ToSet(snapped) |-> roads[<<snapped[i], v>>]]
                      ELSE distance_by_source[u]]
             /\ stage' = stage
    BY <1>1, <1>3, <1>5, <2>2 DEF SInv, SearchInv
  <2> QED
    BY <1>2, <2>1, <2>2
<1>7. SnapInv'
  <2>1. stage' = "raised" => Promise!MeetsNegative
    <3>1. snapped[i] = Promise!NodeOf(i) /\ i \in Promise!Indices
      BY <1>3, SnappedNodes, IndicesOfPoints DEF SInv
    <3> QED
      BY <1>1, <1>2, <1>3, <3>1 DEF Promise!MeetsNegative
  <2>2. Promise!MeetsNegative' = Promise!MeetsNegative
    BY <1>1, PromiseStays
  <2> QED
    BY <1>1, <1>2, <1>3, <2>1, <2>2 DEF SInv, SnapInv
<1> QED
  BY <1>4, <1>6, <1>7 DEF SInv

LEMMA NextValues == IInv /\ SInv /\ [Next]_vars => SInv'
<1> SUFFICES ASSUME IInv, SInv, [Next]_vars PROVE SInv'
  OBVIOUS
<1>1. /\ TypeInv /\ PoolInv /\ LedgerInv /\ SnapInv /\ SearchInv /\ ValueInv
      /\ problem \in Problems /\ n \in Nat /\ n * n \in Nat /\ Recorded \in Nat
  BY InputTypes, RecordedCount DEF IInv, SInv, TypeInv
<1>2. ASSUME UNCHANGED inputVars, snapped' = snapped, stage' = stage,
             distance_by_source' = distance_by_source
      PROVE  SnapInv' /\ SearchInv'
  <2>1. /\ problem' = problem /\ roads' = roads /\ n' = n
        /\ Promise!MeetsNegative' = Promise!MeetsNegative
        /\ Promise!Acceptable' = Promise!Acceptable
    BY <1>2, InputsStay, PromiseStays
  <2> QED
    BY <1>1, <1>2, <2>1 DEF SnapInv, SearchInv
<1>3. ASSUME UNCHANGED inputVars, snapped' = snapped, stage' = stage,
             distance_by_source' = distance_by_source, UNCHANGED resultVars
      PROVE  SInv'
  BY <1>1, <1>2, <1>3, ValuesStay DEF SInv
<1>4. CASE Snap
  BY <1>1, <1>4, SnapKeeps
<1>5. CASE ChooseBuilder
  <2>1. /\ stage = "snap" /\ Len(snapped) = n
        /\ stage' = IF problem.algorithm = "source_dijkstra" THEN "search" ELSE "submit"
        /\ UNCHANGED inputVars /\ UNCHANGED resultVars
        /\ snapped' = snapped /\ distance_by_source' = distance_by_source
    BY <1>5 DEF ChooseBuilder
  <2>2. /\ problem' = problem /\ roads' = roads /\ n' = n
        /\ Promise!MeetsNegative' = Promise!MeetsNegative
    BY <2>1, InputsStay, PromiseStays
  <2>3. problem.algorithm # "source_dijkstra" => ~Promise!MeetsNegative
    BY DEF Promise!MeetsNegative
  <2>4. SnapInv'
    BY <1>1, <2>1, <2>2, <2>3 DEF SnapInv
  <2>5. SearchInv'
    BY <1>1, <2>1, <2>2 DEF SearchInv
  <2>6. ValueInv'
    BY <1>1, <2>1, ValuesStay
  <2> QED
    BY <2>4, <2>5, <2>6 DEF SInv
<1>6. CASE SearchSource
  BY <1>1, <1>6, SearchKeeps
<1>7. CASE StartAssembly
  <2>1. /\ stage = "search" /\ stage' = "assemble"
        /\ DOMAIN distance_by_source = ToSet(snapped)
        /\ UNCHANGED inputVars /\ UNCHANGED resultVars
        /\ snapped' = snapped /\ distance_by_source' = distance_by_source
    BY <1>7 DEF StartAssembly
  <2>2. /\ problem' = problem /\ roads' = roads /\ n' = n
        /\ Promise!MeetsNegative' = Promise!MeetsNegative
    BY <2>1, InputsStay, PromiseStays
  <2>3. ~Promise!MeetsNegative
    <3>1. ToSet(snapped) = {Promise!NodeOf(i) : i \in 1 .. n}
      BY <1>1, <2>1, SnappedNodes DEF SnapInv
    <3>2. ToSet(snapped) \cap Raising = {}
      BY <1>1, <2>1 DEF SearchInv
    <3> QED
      BY <1>1, <3>1, <3>2, IndicesOfPoints DEF Promise!MeetsNegative
  <2>4. SnapInv'
    BY <1>1, <2>1, <2>2, <2>3 DEF SnapInv
  <2>5. SearchInv'
    BY <1>1, <2>1, <2>2 DEF SearchInv
  <2>6. ValueInv'
    BY <1>1, <2>1, ValuesStay
  <2> QED
    BY <2>4, <2>5, <2>6 DEF SInv
<1>8. CASE Assemble
  <2> DEFINE pair == Job(Recorded + 1)
  <2>1. /\ stage = "assemble" /\ stage' = stage /\ Recorded < n * n
        /\ Record(pair, Cell(pair[1], pair[2]))
        /\ UNCHANGED inputVars
        /\ snapped' = snapped /\ distance_by_source' = distance_by_source
    BY <1>8 DEF Assemble
  <2>2. Recorded + 1 \in 1 .. n * n
    BY <1>1, <2>1
  <2>3. pair \in Cells
    BY <1>1, <2>2, JobIsCell
  <2> HIDE DEF pair
  <2>4. Cell(pair[1], pair[2]) = Promise!Table[pair]
    BY <1>1, <2>1, <2>3, CellRight
  <2>5. ValueInv'
    BY <1>1, <2>1, <2>3, <2>4, RecordRight
  <2> QED
    BY <1>2, <2>1, <2>5 DEF SInv
<1>9. CASE Submit
  BY <1>3, <1>9 DEF Submit
<1>10. CASE AwaitResults
  <2>1. /\ stage = "submit" /\ stage' = "collect"
        /\ UNCHANGED inputVars /\ UNCHANGED resultVars
        /\ snapped' = snapped /\ distance_by_source' = distance_by_source
    BY <1>10 DEF AwaitResults
  <2>2. /\ problem' = problem /\ roads' = roads /\ n' = n
        /\ Promise!MeetsNegative' = Promise!MeetsNegative
    BY <2>1, InputsStay, PromiseStays
  <2>3. SnapInv'
    BY <1>1, <2>1, <2>2 DEF SnapInv
  <2>4. SearchInv'
    BY <1>1, <2>1, <2>2 DEF SearchInv
  <2>5. ValueInv'
    BY <1>1, <2>1, ValuesStay
  <2> QED
    BY <2>3, <2>4, <2>5 DEF SInv
<1>11. CASE TakeJob
  BY <1>3, <1>11 DEF TakeJob
<1>12. ASSUME NEW k \in running, FinishJob(k)
       PROVE  SInv'
  BY <1>3, <1>12 DEF FinishJob
<1>13. ASSUME NEW i \in DOMAIN finished, Collect(i)
       PROVE  SInv'
  <2> DEFINE pair == Job(finished[i])
  <2>1. /\ stage = "collect" /\ stage' = stage
        /\ Record(pair, PairDistance(pair))
        /\ UNCHANGED inputVars
        /\ snapped' = snapped /\ distance_by_source' = distance_by_source
    BY <1>13 DEF Collect
  <2>2. pair \in Cells
    BY <1>1, <1>13, CollectedJob, JobIsCell
  <2> HIDE DEF pair
  <2>3. PairDistance(pair) = Promise!Table[pair]
    BY <1>1, <2>1, <2>2, PairDistanceRight DEF SnapInv
  <2>4. ValueInv'
    BY <1>1, <2>1, <2>2, <2>3, RecordRight
  <2> QED
    BY <1>2, <2>1, <2>4 DEF SInv
<1>14. CASE Return
  <2>1. /\ stage \in {"assemble", "collect"} /\ stage' = "returned"
        /\ Recorded = n * n
        /\ UNCHANGED inputVars /\ UNCHANGED resultVars
        /\ snapped' = snapped /\ distance_by_source' = distance_by_source
    BY <1>14 DEF Return
  <2>2. /\ problem' = problem /\ roads' = roads /\ n' = n /\ Cells' = Cells
        /\ Promise!MeetsNegative' = Promise!MeetsNegative
        /\ Promise!Table' = Promise!Table
    BY <2>1, InputsStay, PromiseStays
  <2>3. SnapInv'
    BY <1>1, <2>1, <2>2 DEF SnapInv
  <2>4. SearchInv'
    BY <1>1, <2>1, <2>2 DEF SearchInv
  <2>5. Settled = Cells /\ Settled' = Settled
    BY <1>1, <2>1, AllSettled DEF resultVars, Settled
  <2>6. ValueInv'
    BY <1>1, <2>1, <2>2, <2>5 DEF ValueInv, resultVars
  <2> QED
    BY <2>3, <2>4, <2>6 DEF SInv
<1>15. CASE UNCHANGED vars
  BY <1>3, <1>15 DEF vars
<1> QED
  BY <1>4, <1>5, <1>6, <1>7, <1>8, <1>9, <1>10, <1>11, <1>12, <1>13, <1>14, <1>15
     DEF Next, Rest

(***************************************************************************)
(* The computation implements DistanceTable.                               *)
(***************************************************************************)

Unfinished == stage \notin {"returned", "rejected", "raised"}

LEMMA OutcomeUnfinished ==
    /\ Unfinished => outcome = Promise!NoOutcome
    /\ Unfinished' => outcome' = Promise!NoOutcome
BY DEF Unfinished, outcome, Promise!NoOutcome

LEMMA OutcomeRefused ==
    stage' \in {"rejected", "raised"} => outcome' = Promise!Refused(stage')
BY DEF outcome, Promise!Refused

\* The answer of a call that returns.
LEMMA OutcomeReturned ==
    TypeInv /\ Ledger /\ ValueInv /\ stage = "returned" =>
        outcome = Promise!Computed(Promise!Table, Promise!Gaps,
                                   Cardinality(Promise!Pairs \ Promise!Gaps))
<1> SUFFICES ASSUME TypeInv, Ledger, ValueInv, stage = "returned"
             PROVE  outcome = Promise!Computed(Promise!Table, Promise!Gaps,
                                               Cardinality(Promise!Pairs \ Promise!Gaps))
  OBVIOUS
<1>1. /\ Settled = Cells /\ Promise!Pairs = Cells
      /\ DOMAIN matrix_distance_m \cap ToSet(failures) = {}
      /\ computed_pairs = Cardinality(DOMAIN matrix_distance_m)
  BY IndicesOfPoints DEF TypeInv, Ledger, ValueInv
<1>2. /\ \A pair \in DOMAIN matrix_distance_m :
            /\ matrix_distance_m[pair] = Promise!Table[pair]
            /\ Promise!Table[pair] # NoPath
      /\ \A pair \in ToSet(failures) : Promise!Table[pair] = NoPath
  BY DEF ValueInv
<1>3. ToSet(failures) = Promise!Gaps
  BY <1>1, <1>2 DEF Promise!Gaps, Settled
<1>4. DOMAIN matrix_distance_m = Promise!Pairs \ Promise!Gaps
  BY <1>1, <1>3 DEF Settled
<1>5. ASSUME NEW pair \in Cells
      PROVE  Promise!Table[pair] = IF pair \in DOMAIN matrix_distance_m
                                   THEN matrix_distance_m[pair] ELSE NoPath
  BY <1>1, <1>2, <1>5 DEF Settled
<1>6. Promise!Table = [pair \in Cells |-> Promise!Table[pair]]
  BY <1>1 DEF Promise!Table
<1>7. Promise!Table = [pair \in (1 .. n) \X (1 .. n) |->
                          IF pair \in DOMAIN matrix_distance_m
                          THEN matrix_distance_m[pair] ELSE NoPath]
  BY <1>5, <1>6 DEF Cells
<1>8. outcome = [status |-> "computed",
                 matrix |-> [pair \in (1 .. n) \X (1 .. n) |->
                                IF pair \in DOMAIN matrix_distance_m
                                THEN matrix_distance_m[pair] ELSE NoPath],
                 failures |-> ToSet(failures),
                 computed_pairs |-> computed_pairs]
  BY DEF outcome
<1> QED
  BY <1>1, <1>3, <1>4, <1>7, <1>8 DEF Promise!Computed

\* A call whose stage does not come to an end has no outcome before and after.
LEMMA StepKeepsOutcome ==
    ASSUME UNCHANGED inputVars, Unfinished, Unfinished'
    PROVE  UNCHANGED <<problem, roads, outcome>>
BY OutcomeUnfinished, InputsStay

LEMMA AcceptedWhenSnapped ==
    TypeInv /\ SnapInv /\ stage \notin {"snap", "rejected"} => Promise!Acceptable
BY IndicesOfPoints DEF TypeInv, SnapInv, Promise!Acceptable

LEMMA AcceptedAfter ==
    (TypeInv /\ SnapInv /\ stage \notin {"snap", "rejected"} => Promise!Acceptable)'
BY AcceptedWhenSnapped, PTL

LEMMA ReturnedAfter ==
    (TypeInv /\ Ledger /\ ValueInv /\ stage = "returned" =>
        outcome = Promise!Computed(Promise!Table, Promise!Gaps,
                                   Cardinality(Promise!Pairs \ Promise!Gaps)))'
BY OutcomeReturned, PTL

LEMMA SameCardinality == \A S : Promise!Cardinality(S) = Cardinality(S)
BY DEF Promise!Cardinality, Cardinality

\* A step that ends the call answers as DistanceTable does.
LEMMA LastStepAnswers ==
    ASSUME IInv, SInv, IInv', SInv', UNCHANGED inputVars, Unfinished, ~Unfinished'
    PROVE  Promise!Next
<1>1. /\ problem' = problem /\ roads' = roads
      /\ Promise!Table' = Promise!Table
      /\ Promise!MeetsNegative' = Promise!MeetsNegative
      /\ Promise!Acceptable' = Promise!Acceptable
      /\ Promise!Pairs' = Promise!Pairs
      /\ Promise!Gaps' = Promise!Gaps
  <2>1. problem' = problem /\ roads' = roads
    BY InputsStay
  <2>2. Promise!Pairs' = Promise!Pairs
    BY <2>1 DEF Promise!Pairs, Promise!Indices
  <2> QED
    BY <2>1, <2>2, PromiseStays DEF Promise!Gaps
<1>2. outcome = Promise!NoOutcome
  BY OutcomeUnfinished
<1>3. CASE stage' = "rejected"
  <2>1. ~Promise!Acceptable
    BY <1>1, <1>3 DEF SInv, SnapInv
  <2>2. outcome' = Promise!Refused("rejected")
    BY <1>3, OutcomeRefused
  <2> QED
    BY <1>1, <1>2, <2>1, <2>2 DEF Promise!Next, Promise!Answer
<1>4. CASE stage' = "raised"
  <2>1. Promise!MeetsNegative
    BY <1>1, <1>4 DEF SInv, SnapInv
  <2>2. outcome' = Promise!Refused("raised")
    BY <1>4, OutcomeRefused
  <2>3. Promise!Acceptable
    BY <1>1, <1>4, AcceptedAfter DEF IInv, SInv
  <2> QED
    BY <1>1, <1>2, <2>1, <2>2, <2>3 DEF Promise!Next, Promise!Answer
<1>5. CASE stage' = "returned"
  <2>1. ~Promise!MeetsNegative
    BY <1>1, <1>5 DEF SInv, SnapInv
  <2>2. Promise!Acceptable
    BY <1>1, <1>5, AcceptedAfter DEF IInv, SInv
  <2>3. outcome' = Promise!Computed(Promise!Table, Promise!Gaps,
                                    Cardinality(Promise!Pairs \ Promise!Gaps))
    BY <1>1, <1>5, ReturnedAfter DEF IInv, SInv, LedgerInv
  <2> QED
    BY <1>1, <1>2, <2>1, <2>2, <2>3, SameCardinality DEF Promise!Next, Promise!Answer
<1> QED
  BY <1>3, <1>4, <1>5 DEF Unfinished, IInv, TypeInv

\* A call that has ended stays as it is.
LEMMA EndedStays ==
    ASSUME IInv, [Next]_vars, ~Unfinished
    PROVE  UNCHANGED <<problem, roads, outcome>>
<1>1. stage \in {"returned", "rejected", "raised"}
  BY DEF IInv, TypeInv, Unfinished
<1>2. submitted = started /\ running = {} /\ finished = << >>
  BY <1>1 DEF IInv, PoolInv
<1>3. started \in Nat /\ DOMAIN finished = {}
  BY <1>2, InputTypes, EmptySequence DEF IInv, TypeInv
<1>4. ~TakeJob
  BY <1>2, <1>3 DEF TakeJob
<1>5. UNCHANGED vars
  BY <1>1, <1>2, <1>3, <1>4 DEF Next, Rest, Snap, ChooseBuilder, SearchSource,
     StartAssembly, Assemble, Submit, AwaitResults, Return
<1>6. /\ problem' = problem /\ roads' = roads /\ stage' = stage /\ n' = n
      /\ failures' = failures /\ matrix_distance_m' = matrix_distance_m
      /\ computed_pairs' = computed_pairs
  BY <1>5, InputsStay DEF vars, resultVars, inputVars
<1>7. outcome' = outcome
  BY <1>6 DEF outcome
<1> QED
  BY <1>6, <1>7

\* Whatever the locations, roads and threads, a call that returns gives the
\* matrix of the shortest roads with each gap reported once, and a call that
\* does not was refused for a location or for a road of negative length.
THEOREM ImplementsTable == Spec => Promise!Spec
<1>1. Init => Promise!Init
  BY OutcomeUnfinished DEF Init, Promise!Init, Unfinished
<1>2. Init => SInv
  BY InitValues
<1>3. IInv /\ SInv /\ [Next]_vars => SInv'
  BY NextValues
<1>4. IInv /\ SInv /\ IInv' /\ SInv' /\ [Next]_vars
        => [Promise!Next]_<<problem, roads, outcome>>
  <2> SUFFICES ASSUME IInv, SInv, IInv', SInv', [Next]_vars
               PROVE  [Promise!Next]_<<problem, roads, outcome>>
    OBVIOUS
  <2>1. UNCHANGED inputVars
    BY DEF Next, Rest, vars, Snap, ChooseBuilder, SearchSource, StartAssembly,
       Assemble, Submit, AwaitResults, TakeJob, FinishJob, Collect, Return
  <2>2. CASE ~Unfinished
    BY <2>2, EndedStays
  <2>3. CASE Unfinished /\ Unfinished'
    BY <2>1, <2>3, StepKeepsOutcome
  <2>4. CASE Unfinished /\ ~Unfinished'
    BY <2>1, <2>4, LastStepAnswers
  <2> QED
    BY <2>2, <2>3, <2>4
<1> QED
  BY <1>1, <1>2, <1>3, <1>4, Invariance, PTL DEF Spec, Promise!Spec

============================================================================
