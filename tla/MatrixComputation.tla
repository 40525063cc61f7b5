------------------------- MODULE MatrixComputation -------------------------
(***************************************************************************)
(* build_distance_matrix (app/core/distance_matrix.py) step by step: the   *)
(* locations are snapped, then either one search per distinct node is run  *)
(* and the matrix put together from their results, or every pair is a job  *)
(* of a thread pool, whose results are collected as they come in.          *)
(*                                                                         *)
(* A search is one step with the result that RouteCalls shows it to have.  *)
(***************************************************************************)
EXTENDS Integers, Sequences, FiniteSets, SequencesExt

CONSTANTS
    Problems,        \* the calls: locations, algorithm and settings.matrix_workers
    Points, InArea,  \* coordinates; those validate_coordinates accepts
    Nodes, Nearest,  \* nodes; the node query_snap_index finds for a point
    RoadTables,      \* the length of the shortest road between any two nodes,
    NoPath,          \* NoPath where there is none: the results of the searches
    Raising          \* the nodes from which multi_target_dijkstra meets an edge of
                     \* negative length and raises

ASSUME ProblemsAssumption ==
    Problems \subseteq [points : Seq(Points), workers : Int,
                        algorithm : {"source_dijkstra", "bidirectional_astar", "astar"}]

ASSUME RoadTablesAssumption ==
    /\ InArea \subseteq Points
    /\ Nearest \in [Points -> Nodes]
    /\ RoadTables \subseteq [Nodes \X Nodes -> Nat \cup {NoPath}]
    /\ NoPath \notin Nat
    /\ \A table \in RoadTables, u \in Nodes : table[<<u, u>>] = 0

VARIABLES
    problem, roads,     \* the arguments
    stage,
    snapped,            \* node_id of the locations snapped so far
    distance_by_source,
    submitted,          \* the number of jobs handed to the pool
    started,            \* the number of jobs its threads have taken
    running,            \* the jobs the threads are at
    finished,           \* the jobs done and not yet collected, in their order
    early,              \* those of them that were done when as_completed began
    matrix_distance_m,  \* the cells written so far
    failures,
    computed_pairs

inputVars == <<problem, roads>>
poolVars == <<submitted, started, running, finished, early>>
resultVars == <<matrix_distance_m, failures, computed_pairs>>

vars == <<inputVars, stage, snapped, distance_by_source, poolVars, resultVars>>

---------------------------------------------------------------------------
n == Len(problem.points)

\* pair_jobs, row by row.
Job(k) == <<((k - 1) \div n) + 1, ((k - 1) % n) + 1>>

effective_workers == Max({1, Min({problem.workers, n * n})})

Init ==
    /\ problem \in Problems
    /\ roads \in RoadTables
    /\ stage = "snap"
    /\ snapped = <<>>
    /\ distance_by_source = <<>>
    /\ submitted = 0 /\ started = 0 /\ running = {} /\ finished = <<>> /\ early = {}
    /\ matrix_distance_m = <<>> /\ failures = <<>> /\ computed_pairs = 0

\* _snap_locations_once, one location.
Snap ==
    /\ stage = "snap"
    /\ Len(snapped) < n
    /\ LET point == problem.points[Len(snapped) + 1] IN
          \/ /\ point \in InArea
             /\ snapped' = Append(snapped, Nearest[point])
             /\ UNCHANGED stage
          \/ /\ point \notin InArea
             /\ stage' = "rejected"
             /\ UNCHANGED snapped
    /\ UNCHANGED <<inputVars, distance_by_source, poolVars, resultVars>>

ChooseBuilder ==
    /\ stage = "snap"
    /\ Len(snapped) = n
    /\ stage' = IF problem.algorithm = "source_dijkstra" THEN "search" ELSE "submit"
    /\ UNCHANGED <<inputVars, snapped, distance_by_source, poolVars, resultVars>>

\* A cell is written at the pair's own indices, or the pair is a failure.
Record(pair, distance) ==
    IF distance = NoPath
    THEN /\ failures' = Append(failures, pair)
         /\ UNCHANGED <<matrix_distance_m, computed_pairs>>
    ELSE /\ matrix_distance_m' =
               [cell \in DOMAIN matrix_distance_m \cup {pair} |->
                   IF cell = pair THEN distance ELSE matrix_distance_m[cell]]
         /\ computed_pairs' = computed_pairs + 1
         /\ UNCHANGED failures

Recorded == computed_pairs + Len(failures)

---------------------------------------------------------------------------
(* _build_source_dijkstra_matrix                                           *)

\* One run of multi_target_dijkstra, for the next of the unique nodes.
SearchSource ==
    /\ stage = "search"
    /\ \E i \in DOMAIN snapped :
          LET source == snapped[i] IN
          /\ source \notin DOMAIN distance_by_source
          /\ \A j \in 1 .. i - 1 : snapped[j] \in DOMAIN distance_by_source
          /\ \/ /\ source \in Raising
                /\ stage' = "raised"
                /\ UNCHANGED distance_by_source
             \/ /\ source \notin Raising
                /\ distance_by_source' =
                      [u \in DOMAIN distance_by_source \cup {source} |->
                          IF u = source
                          THEN [v \in ToSet(snapped) |-> roads[<<source, v>>]]
                          ELSE distance_by_source[u]]
                /\ UNCHANGED stage
    /\ UNCHANGED <<inputVars, snapped, poolVars, resultVars>>

StartAssembly ==
    /\ stage = "search"
    /\ DOMAIN distance_by_source = ToSet(snapped)
    /\ stage' = "assemble"
    /\ UNCHANGED <<inputVars, snapped, distance_by_source, poolVars, resultVars>>

Cell(i, j) ==
    IF i = j \/ snapped[i] = snapped[j] THEN 0
                                        ELSE distance_by_source[snapped[i]][snapped[j]]

Assemble ==
    /\ stage = "assemble"
    /\ Recorded < n * n
    /\ LET pair == Job(Recorded + 1) IN Record(pair, Cell(pair[1], pair[2]))
    /\ UNCHANGED <<inputVars, stage, snapped, distance_by_source, poolVars>>

---------------------------------------------------------------------------
(* _build_pairwise_matrix                                                  *)

Submit ==
    /\ stage = "submit"
    /\ submitted < n * n
    /\ submitted' = submitted + 1
    /\ UNCHANGED <<inputVars, stage, snapped, distance_by_source, started, running,
                   finished, early, resultVars>>

\* as_completed takes down which jobs are done already.
AwaitResults ==
    /\ stage = "submit"
    /\ submitted = n * n
    /\ stage' = "collect"
    /\ early' = ToSet(finished)
    /\ UNCHANGED <<inputVars, snapped, distance_by_source, submitted, started, running,
                   finished, resultVars>>

\* A thread takes the job at the head of the pool's queue.
TakeJob ==
    /\ started < submitted
    /\ Cardinality(running) < effective_workers
    /\ started' = started + 1
    /\ running' = running \cup {started + 1}
    /\ UNCHANGED <<inputVars, stage, snapped, distance_by_source, submitted, finished,
                   early, resultVars>>

FinishJob(k) ==
    /\ k \in running
    /\ running' = running \ {k}
    /\ finished' = Append(finished, k)
    /\ UNCHANGED <<inputVars, stage, snapped, distance_by_source, submitted, started,
                   early, resultVars>>

\* _compute_one_pair: an exception, no path included, is a result as well.
PairDistance(pair) ==
    IF pair[1] = pair[2] THEN 0 ELSE roads[<<snapped[pair[1]], snapped[pair[2]]>>]

\* What as_completed yields next: of what was done when it began anything, then
\* what ended first.
Yields(i) == IF early # {} THEN finished[i] \in early ELSE i = 1

\* Mutant: results are taken to come in the order of the jobs.
CollectAsSubmitted(i) ==
    /\ stage = "collect"
    /\ Yields(i)
    /\ finished' = RemoveAt(finished, i)
    /\ early' = early \ {finished[i]}
    /\ Record(Job(Recorded + 1), PairDistance(Job(finished[i])))
    /\ UNCHANGED <<inputVars, stage, snapped, distance_by_source, submitted, started, running>>

\* Mutant: what was done when as_completed began is yielded once more.
CollectEarlyTwice(i) ==
    /\ stage = "collect"
    /\ Yields(i)
    /\ finished' = IF finished[i] \in early THEN finished ELSE RemoveAt(finished, i)
    /\ early' = early \ {finished[i]}
    /\ Record(Job(finished[i]), PairDistance(Job(finished[i])))
    /\ UNCHANGED <<inputVars, stage, snapped, distance_by_source, submitted, started, running>>

Collect(i) ==
    /\ stage = "collect"
    /\ Yields(i)
    /\ finished' = RemoveAt(finished, i)
    /\ early' = early \ {finished[i]}
    /\ Record(Job(finished[i]), PairDistance(Job(finished[i])))
    /\ UNCHANGED <<inputVars, stage, snapped, distance_by_source, submitted, started, running>>

Return ==
    /\ stage \in {"assemble", "collect"}
    /\ Recorded = n * n
    /\ stage' = "returned"
    /\ UNCHANGED <<inputVars, snapped, distance_by_source, poolVars, resultVars>>

---------------------------------------------------------------------------
Rest == stage \in {"rejected", "raised", "returned"} /\ UNCHANGED vars

Next ==
    \/ Snap \/ ChooseBuilder
    \/ SearchSource \/ StartAssembly \/ Assemble
    \/ Submit \/ AwaitResults \/ TakeJob
    \/ \E k \in running : FinishJob(k)
    \/ \E i \in DOMAIN finished : Collect(i)
    \/ Return
    \/ Rest

Spec == Init /\ [][Next]_vars

\* The caller's thread runs, or waits for a thread of the pool, and a search
\* ends; the pool's threads run.
FairSpec == Spec /\ WF_vars(Next)

---------------------------------------------------------------------------
\* What the caller has of the call.
outcome ==
    CASE stage = "returned" ->
            [status |-> "computed",
             matrix |-> [pair \in (1 .. n) \X (1 .. n) |->
                           IF pair \in DOMAIN matrix_distance_m
                           THEN matrix_distance_m[pair] ELSE NoPath],
             failures |-> ToSet(failures),
             computed_pairs |-> computed_pairs]
      [] stage \in {"rejected", "raised"} -> [status |-> stage]
      [] OTHER -> [status |-> "none"]

Promise == INSTANCE DistanceTable WITH outcome <- outcome

(* Properties.                                                             *)

\* Whoever has a pair's job, the queue, a thread, the list of finished jobs or
\* the result, exactly one of them has it, never more threads than allowed are
\* at work, and no pair is written or reported twice, in whatever order the
\* jobs end (distance_matrix.py:421).
Held == submitted - started + Cardinality(running) + Len(finished) + Recorded

PairsOnce ==
    /\ stage \in {"submit", "collect"} => Held = submitted
    /\ Cardinality(running) <= effective_workers
    /\ running \cap ToSet(finished) = {}
    /\ early \subseteq ToSet(finished)
    /\ Cardinality(ToSet(failures)) = Len(failures)
    /\ ToSet(failures) \cap DOMAIN matrix_distance_m = {}
    /\ computed_pairs = Cardinality(DOMAIN matrix_distance_m)

\* Both algorithms, and any number of threads however they are scheduled,
\* produce the matrix of DistanceTable with each gap reported once, and the call
\* returns, also when matrix_workers is set to 0 or below (distance_matrix.py:389).
ComputesMatrix == Promise!FairSpec

============================================================================
