# CityRoute in TLA+

CityRoute is a FastAPI service for last-mile delivery: it loads a road graph,
computes distance matrices with a Redis cache, orders stops, and assigns orders
to drivers. This directory models the parts of it whose correctness depends on
the order of events or on an algorithm's invariants, checks them with TLC, and
proves the main properties with TLAPS for every size.

All source paths below are relative to `src/`.

## Inventory

| Component | State | Operations | Interacts with |
|---|---|---|---|
| Worker startup (`app/main.py`, `services/graph_service.py`) | the GraphML file, per worker `app.state.graph`, `graph_loaded`, `snap_index` | look for the file, load, download, save, build the index | other workers through the file; `/health` and the 503 guards read the result |
| Distance-matrix service (`api/matrix.py`, `services/matrix_service.py`, `models/matrix_model.py`, `utils/geo_validation.py`) | none of its own, one call per thread of the pool | validate, look up, compute, store | Redis; called by all VRP services too |
| Redis cache (`infrastructure/redis_cache.py`, `utils/matrix_cache_key.py`) | one value and TTL per key, shared by all workers | `get_json`, `set_json`, `delete` | Redis (timeouts of 2 s, no retry) |
| Matrix computation (`core/distance_matrix.py`, `multi_target_dijkstra.py`, `graph_adjacency.py`) | local | one search per source, or a thread pool with one search per pair | reads the graph |
| Searches (`core/a_star.py`, `bidirectional_a_star.py`, `eta.py`) | local | point-to-point search | reads the graph |
| Route heuristics (`core/greedy_nearest_neighbor.py`, `two_opt.py`, `lns.py`) | local | build and improve an order of stops | a matrix |
| VRP services (`services/greedy_service.py`, `vrp_compare_service.py`, `vrp_advanced_compare_service.py`, `api/vrp.py`) | none | request a matrix, run heuristics, compare | matrix service, heuristics |
| Dispatch (`api/dispatch.py`, `core/dispatch_cost_matrix.py`, `greedy_dispatch.py`, `hungarian.py`, `dispatch_fairness.py`, `services/dispatch_service.py`) | local | slots and costs, two solvers, comparison | distance provider |
| Dispatch distances (`services/dispatch_distance_service.py`) | an injected cache backend (none in the live API) | look up, build, store | cache backend |
| Single routes, snapping, maps (`services/routing_service.py`, `utils/node_snapper.py`, `snap_index.py`, `route_map.py`) | none | sequential calls | reads the graph |
| Schemas, settings, logging, metrics | none | declarations and I/O; `observability/metrics.py` is not wired in | |

What is hard, and what makes each component correct:

- **Cache**: several workers that may hold different graphs share one Redis that
  fails, forgets, holds junk and executes commands late. An answer must fit its
  request and graph, trouble with Redis must never show in the kind of answer,
  stale entries must go.
- **Startup**: workers race on one file, written in place, without a lock, and
  may die while writing it. A complete file must stay complete and be loaded.
- **Hungarian**: three nested loops that share potentials, slacks and paths. The
  result must be complete and cheapest, the search must never get stuck.
- **Searches**: heaps with stale entries, nodes that are closed for good, two
  frontiers that stop each other, a search that breaks off at its last target. A
  route must be a shortest one, and "no path" must mean that there is none.
- **Route heuristics**: three stages, written apart, pass an order, its distance and
  a matrix with missing pairs to each other. No stop may be lost, no stage may be
  worse than the one before, and a missing road must end the request where the
  code says, not later.

- **Matrix computation**: jobs of a pool end in any order, on as many threads as a
  setting says. No pair may be lost, counted twice or written at another's place,
  and both builders must produce the same matrix.
- **Dispatch**: distances come from a cache that others write to, under a key of
  rounded points; slots of one driver cost more and more; two solvers work on one
  matrix, and the fairness counts leave full drivers out. Distances must belong to
  the request, capacity must hold, slots must fill in order, and the solver must
  not be worse than greedy.

`PROJECT.json` lists the hazards line by line with the properties that cover them.

## Modules

| Module | What it is |
|---|---|
| `MatrixRequests` | requests, locations, matrices, validation; the constants |
| `MatrixService` | the service, its cache, Redis, deployments and restarts |
| `MatrixPromise` | what `POST /matrix` promises, with no cache in sight |
| `MatrixServiceProofs` | theorems about `MatrixService` |
| `MCMatrixService` | its instances for TLC |
| `DistanceTable` | what `build_distance_matrix` promises, whichever builder runs |
| `MatrixComputation` | snapping, both builders, the thread pool |
| `MatrixComputationProofs`, `MCMatrixComputation` | its theorems, its instance |
| `Hungarian`, `HungarianResult` | the solver, and the result made of a finished search |
| `HungarianProofs`, `MCHungarian` | its theorems, its instance |
| `DispatchRequests` | requests, distances, cache key, slots and costs of a dispatch |
| `Dispatch` | `POST /dispatch/compare` with its cache and both solvers |
| `DispatchProofs`, `MCDispatch` | its theorems, its instance |
| `RoadGraph` | the graph, the query, heaps and dicts: what the searches share |
| `AStar`, `BidirectionalAStar`, `MultiTargetDijkstra` | the three searches |
| `RouteCalls` | who runs which search, and what the answers must be |
| `ShortestPathProofs` | theorems about the searches and their callers |
| `MCRouteCalls` | the instance for TLC |
| `StopOrders` | matrix, orders and their distance: what the heuristics share |
| `NearestNeighbor`, `TwoOpt`, `LargeNeighborhood` | the three heuristics |
| `RouteSearch` | a VRP request running them, and what its answers must be |
| `RouteSearchProofs`, `MCRouteSearch` | its theorems, its instance |
| `GraphStartup` | workers getting their graph |
| `GraphStartupProofs`, `MCGraphStartup` | its theorems, its instance |
| `Foundations` | least numbers, counting up, iterated functions, sums over finite sets: what the proofs share |

Operators called `Mutant: ...` in a comment are faulty variants of the definition
below them. No specification uses them; each shows that a property notices that
fault when it takes the definition's place.

### MatrixService

A call (`Calls`, a thread of the pool) goes through `build_distance_matrix_response`:

| Action | Code |
|---|---|
| `Submit` | endpoint guards (503), `_validate_matrix_request` (422), up to the first round trip |
| `LookupHit/Miss/Truncated/Foreign/Fails` | `get_json`: a response, nothing, undecodable, JSON of another shape, any exception |
| `Evict`, `EvictFails` | the `delete` inside `get_json` |
| `Compute`, `ComputeRejects`, `ComputeRaises` | `build_distance_matrix`: computed, coordinates refused (422), an exception (500) |
| `Store`, `StoreFails` | `set_json`, and the error swallowed into the answer's cache metadata |

A round trip is one atomic step; between two of them everything else can happen.
A SET that failed at the client may still be `in_flight` and `Land` any time
later; a DEL that does the same is covered by `Lose`. `Restart` cuts a worker's
calls off, possibly after they sent their SET, and loads `file` or nothing.
`ReplaceFile` deploys another graph. A matrix is represented by the graph, the
algorithm and the locations it was computed from, so that "the right matrix" can
be stated. `FileName` maps graphs to file names: whether it is injective is the
difference between two of the runs and an assumption of one theorem.

Not modelled here: the lengths of ids, the numbers in a matrix, `ping`/`close`,
logging, timing. A matrix's failed pairs are part of the matrix.

`MatrixPromise` is the same service seen by clients: `Ask` and `Serve`. A `200`
carries a matrix for the asked algorithm and, up to 6 decimals, the asked
locations in order; `422` needs a malformed request or a location outside the
area, `500` a computation that raises. Redis is not mentioned.

One consequence of the rounding is part of the promise: a coordinate less than half
a millionth of a degree outside the area may be answered from the entry of its
neighbour inside (`Rephrasings`), where the same request is refused with `422` as
long as the cache is empty. Left out of the promise,
this one effect would hide everything else `PromiseKept` says. It is reported on its own: `MatrixEdge` violates `OutsideRefused`, and
`OutsideAlwaysRefused` proves that rounding is the only way to such an answer.

### MatrixComputation

The computation that `MatrixService` takes as one step. The results of the searches
are given (`RoadTables`): that a search finds them is the subject of `RouteCalls`.

| Action | Code |
|---|---|
| `Snap`, `ChooseBuilder` | one location of `_snap_locations_once`, or its refusal; `build_distance_matrix` choosing |
| `SearchSource`, `StartAssembly`, `Assemble` | `_build_source_dijkstra_matrix`: one search per distinct node, or its exception; one cell |
| `Submit`, `AwaitResults`, `Collect` | `_build_pairwise_matrix`: one `executor.submit`, the start of `as_completed`, one result it yields |
| `TakeJob`, `FinishJob` | a thread of the pool takes the oldest job; `_compute_one_pair` ends |
| `Return` | the result of either builder |

`as_completed` first yields what was done when it began (`early`), in any order, then
the rest as it ends. `DistanceTable` knows no searches, threads or cells: it answers
with the matrix of the nodes' distances, the set of missing pairs and their number,
or refuses (`outcome` maps the states). The order of the failures is not promised; with the pool it differs
from run to run, and one of these orders is what the matrix service caches.

### Dispatch

A call of `compare_dispatch_assignments` from the request to its HTTP status, with
the optional `cache_backend` and `source_dijkstra_matrix_builder` injected or not
(the live endpoint injects neither).

| Action | Code |
|---|---|
| `Submit` | ids stripped, empty and repeated ones refused (400); cache or not |
| `LookupHit/Miss/Raises` | `_read_cached_matrix` and the validation of what it read: 400 for another shape or non-numbers, 500 for entries that are no rows |
| `Measure`, `MeasureFails` | haversine or the builder, missing roads replaced by `UNREACHABLE_DISPATCH_COST_M`; no builder, a failing one |
| `Store`, `StoreFails` | `_write_cached_matrix`; its errors are swallowed, except those of the second `set` after a `TypeError` |
| `BuildCosts` | validation of the loads, slots, costs |
| `GreedyPick` | one assignment of `solve_greedy_dispatch`: the first candidate not skipped |
| `StartHungarian`, `RunHungarian` | the call of the solver on the matrix at hand: the actions of `Hungarian`, which `Dispatch` extends |
| `AnswerCompare`, `Return` | the response; the call's variables are gone |
| `Environment` | the backend forgets, another program writes, another call stores its distances (`StoreOther`) |

One call is followed. Calls share nothing but the cache, which another call reads
without a trace and writes in one step, so what others do to the followed call is
`StoreOther`, at any time. After the distances are fetched the cache is not looked
at again: the environment is not interleaved with the later stages, since its steps
commute with them. Changing roads are a builder that may return any of
`RoadDistances` at each call. Distances are whole numbers; a missing road, `nan`,
`inf` and negative values are one value `None`. The fairness counts are computed
from the answer (`DriverMetric`); percentages and deviations are left out.

### Hungarian

The matrix is a variable, `cost`, so that a caller can run the solver on any it
makes; `ValidMatrix` is what `_validate_and_copy_cost_matrix` lets through.
`StartRow`, `GrowTree` and `Augment` are the three loops of
`_hungarian_rows_leq_cols`, one step per iteration of the loop that matters; the
inner scans over columns are set expressions. `Infinity` stays an unordered
value: a slack is either it or an integer. The code's `_EPSILON` comparisons
become exact ones on natural numbers.

### The searches

One action is one iteration of a search's loop; the scan over a node's neighbours
is a set expression, which is right because every neighbour occurs once
(`_edge_length_m` takes the least of parallel edges). A heap is the set of its
entries; a node can have several, and entries of equal priority leave in any
order, of which the code's counter picks one. The Python dicts are functions on
the nodes they hold. Coordinates are reduced to `Crow`, the straight-line
distances, and `CrowAssumption` says what the code relies on: roads are not
shorter than the straight line (sampled by `tests/test_heuristic_admissibility.py`)
and straight lines obey the triangle inequality. Edges without a length and nodes
without coordinates are left out, and so are the `NodeNotFound` branches: both
ends come from snapping to the same graph.

| Module | Action | Code |
|---|---|---|
| `AStar` | `AStarSkip`, `AStarReach`, `AStarExpand`, `AStarNoPath` | an entry of a closed node, the goal, another node; the empty heap |
| `BidirectionalAStar` | `PeekDrop`, `Expand(side)`, `Return` | `peek_valid_priority`, one expansion with its meetings, the end of the loop and the path |
| `MultiTargetDijkstra` | `DijkstraSkip`, `DijkstraSettle`, `DijkstraReturn` | likewise; settling the last target breaks before its neighbours |

Of the two sides of the bidirectional search, `x[side]` stands for the code's
`forward_x` and `backward_x`. Potentials are halves of differences, so priorities
and the stop test are doubled.

### GraphStartup

`Check`, `Load`, `Download`, `OpenFile`, `FinishFile` and `BuildSnapIndex` follow
`load_or_download_graph` and `lifespan`. `OpenFile` empties the file and only the
last byte (`FinishFile`) of the writer that opened it last completes it: all
writers lay down the same bytes. `SaveFails` and `Die` interrupt, and each worker's
interruptions are counted (`Interrupt`), so that the properties can say who is to
blame. The starting file is absent or complete.

A file cut off while it was written passes `graph_path.exists()` in every later
startup: nothing repairs it, nothing loads it, and every new worker stays without a
graph (`SettledFileKept`). What keeps this from happening is stated per download.
A half-written file has a writer that is still writing or was interrupted
(`PartialOnlyWhenInterrupted`), and one download that succeeds makes the file
complete for good, whatever fails elsewhere (`EventuallyQuiet`), unless its worker
is interrupted before it opens the file (`DownloadDropped`) or the last one to open
the file is interrupted while writing (`CutOff`). Failed downloads and failed index
builds excuse nothing.

### RouteSearch

A request of `/vrp/greedy`, `/vrp/compare` or `/vrp/compare/advanced` once its matrix
is there. Stop `s` has index `s + 1` in the matrix, index 0 is the start, and
`PublicToMatrix` and `MatrixToPublic` convert as the services do.

| Module | Action | Code |
|---|---|---|
| `RouteSearch` | `RejectMatrix` | `/vrp/compare` calls `float(None)` on the first missing pair: 422 |
| | `TakeMatrix` | `/vrp/compare/advanced` turns missing pairs into -1; the others keep them |
| | `GreedyFails`, `NoWayBack`, `TwoOptFails` | a missing road in the baseline (404 or 503), on the return leg (404 or 422), in a candidate of 2-opt (422) |
| | `StartTwoOpt`, `StartLns`, `AnswerGreedy`, `AnswerCompare`, `AnswerAdvanced` | what the services do between the stages, their non-regression checks included |
| `NearestNeighbor` | `GreedyPick` | one iteration: the nearest candidate, the first of equally near ones |
| `TwoOpt` | `TrySwap`, `Converge`, `ApplySwap` | one candidate; the end of a scan without or with a better one |
| `LargeNeighborhood` | `Destroy`, `InsertStop`, `Judge` | sampling and shuffling, one reinsertion, acceptance and the two limits |

What `rng` draws is a nondeterministic choice: `keep` are the positions that stay,
in their order, and `drop` the removed ones in any order. Distances are whole
numbers, so a tolerance below the smallest difference is 0. `RoadsAssumption` says that the
matrix comes from roads that can be driven one after the other. Two consequences
are not obvious from the code: the baseline of `/vrp/greedy`, which gives up at the
first candidate it has no road to, fails on the same requests as the other two,
which skip such candidates (`StuckAtDeadEnd`); and a first scan of 2-opt that does
not raise has met a road for every pair a tour can use (`NoGapAfterScan`), so the
handling of missing pairs in `lns.py` is never needed by these endpoints.

The number of iterations in the response is not modelled. With the trace it counts
scans, without it swaps (`core/two_opt.py:281`), so for `/vrp/compare` without the
trace a last scan that finds no swap is missing from what is described as "Number of
scan iterations executed by this algorithm" (`schemas/vrp_compare.py:124`).

## Runs

| Run | Instance | Shows |
|---|---|---|
| `MatrixKeys` | 2 calls, 2 workers, 2 graphs with their own names, 1 deployment; the same locations in both orders, one of them a little outside the area | the cache key keeps requests and graphs apart although Redis is shared; only validated matrices are stored |
| `MatrixPromise` | 1 live call, 2 workers, 2 graphs of one name, 1 deployment, 1 unusable value (undecodable or of another shape); requests that are cached, bypass the cache and may raise, lie outside the area, or are too short | refinement of `MatrixPromise`, with `EveryCallReturns`; stale matrices leave Redis for good |
| `MatrixFileContent` (violation) | 1 worker, 2 graphs of one name, 1 deployment | the answer comes from the earlier graph |
| `MatrixUnusable` (violation) | 1 foreign value | it survives the call that rejected it |
| `MatrixEdge` (violation) | 1 call, 1 worker; a location inside the area and one outside that rounds to it | the second is answered with a matrix |
| `Hungarian` | 4 x 3, costs 0..2, fourth row fixed (19683 matrices) | all invariants, termination, optimality against all complete pairings |
| `MatrixComputation` | 2 locations with pools of 1, 2 and 4 threads (settings 0, 1, 2, 8), 3 locations with 2 threads, by source with a raising search and a location outside the area; two of them on one node, a road missing one way | no pair lost or counted twice, refinement of `DistanceTable` with termination |
| `Dispatch` | 13 requests of 1 or 2 drivers and 1 to 3 orders, 2 states of the roads, every content of the cache | distances fit, capacity and counts, order of slots, non-regression, every call answered |
| `RouteCalls` | 4 nodes on a line, 7 roads each missing, straight or 2 longer (2187 graphs), 3 queries, every set of targets | all three searches find shortest distances, whatever the order of equal entries |
| `RouteSearch` | 1 to 3 stops; the shortest distances on any subset of 7 of the 12 streets, with and without the others; 12 requests | all invariants of the three endpoints |
| `GraphStartup` | 3 workers, 1 interruption each, 1 outage | the file's life, who can leave it cut off, that one good download suffices, and that a quiet service loads |
| `GraphReadiness` (violation) | 2 workers, no failure at all | a worker is healthy and never ready |

Bounds. `MaxInFlight`, `MaxReplacements`, `MaxCorruptions`, `MaxInterruptions` (for
each worker) and `MaxOutages` bound what the environment does; nothing else is bounded. Two
calls suffice for every race on one key (a third only repeats the second one's
steps), and calls and workers are interchangeable in `MatrixKeys`, which is checked
up to symmetry. In `MatrixPromise` one live call is enough: another one would act on
it only through Redis, where its SET is a `Land`, left by a call that a restart cut
off, and its DEL a `Lose`; two requests of that run share a key by rounding. The
race of `get_json` with itself is in this run: the live call reads an undecodable value,
the SET of the call cut off lands on it, and the live call's DEL removes a good matrix
(a state reached after 9 steps). `CacheSound` under the same race, for any number of
calls and values, is a theorem. A stale
write needs one command in flight and two graphs. Two locations make four jobs, so a
pool of four has no queue and one of two overtakes; three locations, two of them on
one node, make nine. The dispatch requests have more slots than orders and fewer,
the same drivers in either order, drivers who round to one place, who are full or
overloaded, and ids that agree once stripped. The matrix of
the Hungarian run is transposed, leaves one row over and makes augmenting paths
of up to three columns; wide and square matrices take the same steps without the
transposition. The graphs of `RouteCalls` let a node's cost improve after it was
queued, leave stale entries behind, make the frontiers meet first on a longer
route, close either side early and cut the goal off; one query starts where it
ends and one runs back and forth inside the graph. Three workers let one overtake two
others, and an interruption for each lets all be cut off in turn.
Three stops are the fewest with which 2-opt can swap twice in one run, a scan can
improve its candidate twice and a repaired route differs from a reversal; the
requests stop 2-opt after 1 or 3 scans, so that the large neighbourhood search
starts from converged and from other orders (it improves on both), remove one stop
or all, and use a tolerance of 0 or one that hides a better swap.

Fairness. `MatrixService`: each call keeps moving, because every round trip has a
socket timeout and the searches end; Redis honours TTLs; a command in flight
arrives. No fairness on `Lose`, `Corrupt`, deployments or restarts. `Hungarian`:
a sequential loop is not suspended. `GraphStartup`: a dead worker is started
again (uvicorn's supervisor, `restart: unless-stopped`) and a startup is one
coroutine; deaths and failures are never required.
`MatrixComputation`: a call's thread and the pool's threads run, and a search
ends. `Dispatch`: a call is sequential code whose backend and builder return or
raise; nothing is asked of the environment.
`RouteSearch` and `MatrixKeys` have safety properties only and need none.

## What the violations show

1. `MatrixFileContent`: the key contains the graph's file name, not its content,
   so "graph file changes" (`utils/matrix_cache_key.py:57`) does not change it.
2. `MatrixUnusable`: only undecodable values are deleted ("Corrupt cache should
   not poison future requests", `redis_cache.py:97`); JSON of another shape stays
   and switches the cache off for its request.
3. `GraphReadiness`: `/health` is the "Liveness/readiness probe" (`Dockerfile:23`)
   and is green on a worker that lost the race for the file and answers 503.
4. `MatrixEdge`: "Structured `422` responses for invalid/out-of-bounds coordinates"
   (`README.md:67`), but the cache is asked before the coordinates are validated
   (`services/matrix_service.py:120`), under a key of rounded coordinates: a location
   just outside the area is answered with the matrix of its neighbour inside.

## Proofs

For any values of the constants that satisfy the named assumptions of the modules:

- **MatrixServiceProofs.** `TypeInv` adds to `TypeOK` that a call being served
  holds a graph and a valid request. `SoundInv` adds two facts that make
  `CacheSound` and `AnswerFitsRequest` inductive: a call that is about to store
  has passed the area check (`StoresValidated`), and every 200 answer carries the
  key of its request and is of validated locations (`AnswersKeyed`), whichever way it
  came. If no outside point rounds to the same value as one inside, a request with an
  outside location therefore never gets a matrix (`OutsideAlwaysRefused`); the run
  `MatrixEdge` shows that this assumption is needed. Equal keys give
  equal algorithms and equal rounded locations (`EqualKeys`), hence `AnswersFit`;
  with injective file names they give equal graphs, hence `AnswersOwnGraph`.
  `ImplementsPromise` is the refinement of `MatrixPromise`, step by step. A hit is
  a promised answer because what the cache holds is a matrix of some graph deployed
  so far for the locations of the request, which `SoundInv` and validation give.
- **MatrixComputationProofs.** `PairsOnce` for any locations, jobs and threads
  (`EachPairOnce`), and `MatrixComputation` implements `DistanceTable` step by step
  (`ImplementsTable`). `PoolInv` adds to `PairsOnce` that the finished jobs not yet
  collected are different (`Distinct`) and that a pool not in use is empty.
  `LedgerInv` says that the pairs of the jobs at hand, `Pending`, are not yet
  recorded; since different jobs are different pairs (`JobsDiffer`, by division with
  remainder), recording one keeps it, and `RecordKeeps` carries the counts along.
  When as many pairs are recorded as there are, they are all recorded
  (`AllSettled`). `SInv` adds what the values are: `SnapInv` relates locations,
  nodes and the reason a call ends for, `SearchInv` the results by source,
  `ValueInv` the recorded cells to the promised table.
- **HungarianProofs.** `SolverInv` adds to the four invariants what relates them
  during a search: slacks outside the tree are the least reduced costs from the
  tree and their `previous_col` attains them, tree columns are matched, paths lead
  back to the root, and while augmenting exactly one row is held twice. From it
  follow feasibility, tightness, unpriced free columns and that no row is lost,
  for matrices of every size. `AlwaysOptimal` is weak duality: the sum of the
  potentials is at most the cost of any complete pairing (`DualFeasible`, and free
  columns are unpriced), and it is the cost of the matching (`MatchedTight`); the
  sums are split, compared and renumbered with the lemmas of `Foundations`, and the
  transposition of the matrix is undone at the end. `NeverStuck` counts: the tree's
  columns but the root are matched to different rows entered before, of which there
  are fewer than columns.
- **DispatchProofs.** All five invariants of `Dispatch`, for any requests, roads,
  contents of the cache and other writers. `StageInv` and `SolvingInv` say which
  variables are in use at which stage; once the solver runs, `SolvingInv` is
  `SolverInv`, since `CostShape` shows that the matrix made of slots and distances is
  a `ValidMatrix`. `CacheInv` makes `DistancesFitRequest` inductive: unless foreign, what
  is stored under a key fits every request with that key, and equal keys need equal
  distances (`SameKeyFits`), so it does not matter who stored it. `GreedyInv` says that
  greedy's pairs share nothing and fill slots in order: the candidate that sorts first
  cannot skip a free slot of its driver, which would cost no more and sort earlier
  (`CheapestInOrder`). When a call has answered, both answers are perfect pairings
  (`FullIsPerfect`), so `FoundOptimal` of the solver compares them; its slots are in
  order because exchanging one for the slot before would be cheaper (`SolverInOrder`),
  and each order no road leads to costs the penalty at least (`UnreachableCost`). The
  counts add up because slots, and pairs, can be counted driver by driver
  (`CountByKey`); where the slots of a driver are in the flattened sequence is
  `SlotsOrdered`. The one assumption about the sentinels is that `NoMatrix` is no matrix.
- **ShortestPathProofs.** A*, the multi-target search and each side of the
  bidirectional one are one argument: all settle the least entry of a heap ordered
  by cost plus a potential, in units of one or, with halved potentials, of two
  (`Frontier`). It says that costs are lengths of roads and least for settled nodes
  (`CostsAreRoads`), that entries may be stale but never too early (`NotEarly`),
  that nothing queued comes before a settled node (`SettledBefore`), that settled
  nodes have relaxed all neighbours (`SettledRelaxed`), and that every other node's
  current cost is in the heap (`Queued`). `HeadShortest` shows that the head is
  final: any other road to it has a first unsettled node, which is queued and not
  before the head. `SettleKeeps` carries all of it over an expansion. For the
  multi-target search it holds while targets remain, since the last one's
  neighbours are never relaxed. `Tree` says that parents lead back to the source by
  roads whose lengths are the differences of the costs; walking back along it gives
  the returned path (`PathBack`). The bidirectional search is two frontiers, one of
  them on the reversed graph (`ReverseRoad`), whose potentials are opposite
  (`HalvesOpposite`). Along a shorter road than the best one met, some node would be
  on both sides, or the heads of the two heaps would still be too early for the
  stop test (`StopIsShortest`). `MeetingAlwaysLeast` needs only types: costs fall,
  and each node whose cost falls is compared. `SearchesAlone` shows that a step of
  `RouteCalls` is a step of one search and leaves the others alone, so each result
  about one search holds for the callers; `Distances`, the reference the runs use,
  is shown to be the least length of a road (`DistancesShortest`), which turns them
  into `AStarOptimal`, `BidirectionalOptimal` and `TargetsExact` for graphs of any
  size. A road is a sequence of nodes with the distances along it (`IsRoad`).
- **RouteSearchProofs.** All seven invariants of `RouteSearch`, for matrices of any
  size. `OrdersInv` says that the stages come in order, that the greedy order never
  repeats a stop, and that what 2-opt and LNS hold are permutations (`Once`, with
  matrix indices `IndexOnce`), for LNS in the middle of a repair the remaining and
  the removed stops together. Reversing a segment, taking stops out in order and
  inserting one keep them (`SwapOnce`, `SplitOnce`, `InsertKeeps`). `DistancesInv`
  adds the matrix and the distances: each is the distance of its order, and no
  reversal tried so far in a scan beats the candidate by more than the tolerance
  (`TriedSwaps`), which at the end of a scan without a swap is the local optimum.
  `BackLegs` adds what the first scan has shown of the matrix: a reversal of two
  neighbours drives from the second to the first, so a scan that ends without
  raising leaves a way back along the order, and by transitivity
  (`RoadsAssumption`) a way between any two stops (`ChainReachable`). `CountersInv`
  bounds the counters. The length of a tour is a recursive function; that it exists
  and is the sum it says is shown by `SumExists`.
- **GraphStartupProofs.** `PartialOnlyWhenInterrupted` is inductive with the types,
  since an interruption is counted for the worker it hits and the last to open the
  file is the only one that can complete it. `SettledFileKept` is an action property
  proved step by step: a file that exists, complete or cut off, keeps workers from the
  download.
- **Foundations.** Induction is a theorem with an operator as parameter, which the
  provers cannot use. Its place is taken by sets: the first number for which a claim
  fails is the least element of a set (`LeastElement`), a set that holds 0 and with
  each number the next holds them all (`CountUp`), likewise for subsets of a finite
  set (`SubsetInduction`). With them a function defined by recursion is shown to
  exist and to satisfy its equation (`Iteration`), and the sums over finite sets that
  the community modules define by a fold obey the laws of sums.

Only model-checked: all liveness, that is `Terminates`, `CallsEnd`,
`StaleEntriesAgeOut`, `EventuallyQuiet`, and that calls return in `PromiseKept`
and `ComputesMatrix`, since neither fairness nor ENABLED is within the
prover's reach.

## Plan

Next are the responses of the VRP services: legs, cache telemetry and their
consistency with the orders of `RouteSearch`; and, for the termination that is only
model-checked, the safety half of it as theorems: that each step of a search or of
2-opt uses up something finite, as `NeverStuck` does for the solver.

## Not modelled

Floating point (rounding inside sums, `_EPSILON`), geometry (haversine, nearest
neighbours), rendering, schemas beyond the rules named above, metrics, benchmarks
and scripts. The routing endpoints and snapping are sequential calls without state;
`vrp_improvement_metrics.py` and `dispatch_cache_key.py` are not called by the
program. Of the VRP and dispatch responses, derived figures (percentages, ETAs,
deviations, timings) are left out.
