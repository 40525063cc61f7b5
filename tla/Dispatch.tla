------------------------------ MODULE Dispatch ------------------------------
(***************************************************************************)
(* compare_dispatch_assignments (app/services/dispatch_service.py): fetch  *)
(* or build the distances (dispatch_distance_service.py), make a cost      *)
(* matrix of slots and orders, assign greedily (greedy_dispatch.py) and    *)
(* with the solver of Hungarian.tla, report the fairness of both           *)
(* (dispatch_fairness.py).  One call at a time is followed; the calls that *)
(* run beside it show in what they store.                                  *)
(***************************************************************************)
EXTENDS DispatchRequests, HungarianResult, FiniteSetsExt

CONSTANTS
    Absent,          \* no value under the key
    Unreadable,      \* neither JSON nor a list: read as a miss
    Misshapen,       \* other numbers of rows or columns, no numbers, no UTF-8
    Untyped,         \* a list whose entries are not rows of numbers
    NoRequest,       \* nobody calls
    NoMatrix         \* no distances yet

Foreign == {Unreadable, Misshapen, Untyped}

ASSUME DispatchSentinelsAssumption ==
    /\ Absent \notin Foreign
    /\ NoMatrix \notin Seq(Seq(Nat))

VARIABLES
    cache,         \* the injected cache backend
    stage,         \* the next step of compare_dispatch_assignments
    request,       \* request
    injected,      \* which of cache_backend and source_dijkstra_matrix_builder
    distances,     \* driver_order_distance_matrix
    cache_hit,
    status,        \* the HTTP answer, 0 before there is one
    greedy         \* the assignments of solve_greedy_dispatch so far

callVars == <<stage, request, injected, distances, cache_hit, status>>

\* The variables of the solver, of which pc is "rest" when nobody calls it.
solverVars == <<row_potential, col_potential, matching_row_for_col, previous_col,
                min_slack, used_col, current_row, current_col, pc>>

vars == <<cache, callVars, greedy, cost, solverVars>>

---------------------------------------------------------------------------
drivers == Stripped(request.drivers)
orders == Stripped(request.orders)
slots == DriverSlots(drivers)

KeyOf == [r \in Requests |->
            CacheKey(r.matrix_algorithm, Stripped(r.drivers), Stripped(r.orders))]

Keys == {KeyOf[r] : r \in {asked \in Requests : asked.use_cache}}

\* use_cache and cache_backend is not None
CacheUsed == request.use_cache /\ "cache_backend" \in injected

\* Where a request's distances come from; roads change between two calls of a
\* builder.
Sources(r) == IF r.matrix_algorithm = "haversine" THEN {Haversine} ELSE RoadDistances

Matrices(r) ==
    {DistanceMatrix(table, Stripped(r.drivers), Stripped(r.orders)) : table \in Sources(r)}

Init ==
    /\ cache = [k \in Keys |-> Absent]
    /\ stage = "idle"
    /\ request = NoRequest
    /\ injected = {}
    /\ distances = NoMatrix
    /\ cache_hit = FALSE
    /\ status = 0
    /\ greedy = {}
    /\ cost = <<>>
    /\ row_potential = <<>> /\ col_potential = <<>> /\ matching_row_for_col = <<>>
    /\ previous_col = <<>> /\ min_slack = <<>> /\ used_col = {}
    /\ current_row = 0 /\ current_col = 0 /\ pc = "rest"

---------------------------------------------------------------------------
(* The distances.                                                          *)

Answer(code) ==
    /\ stage' = "answered"
    /\ status' = code

Continue(next) ==
    /\ stage' = next
    /\ UNCHANGED status

CallKept == UNCHANGED <<request, injected, greedy, cost, solverVars>>

\* ValueError is 400; every other exception is 500.
Submit(r, given) ==
    /\ stage = "idle"
    /\ request' = r
    /\ injected' = given
    /\ \/ /\ ~(GoodIds(drivers') /\ GoodIds(orders'))
          /\ Answer(400)
       \/ /\ GoodIds(drivers') /\ GoodIds(orders')
          /\ Continue(IF CacheUsed' THEN "lookup" ELSE "measure")
    /\ UNCHANGED <<distances, cache_hit, greedy, cost, solverVars, cache>>

\* The call is over and its local variables are gone.
Return ==
    /\ stage = "answered"
    /\ stage' = "idle"
    /\ request' = NoRequest /\ injected' = {} /\ distances' = NoMatrix
    /\ cache_hit' = FALSE /\ status' = 0 /\ greedy' = {} /\ cost' = <<>>
    /\ row_potential' = <<>> /\ col_potential' = <<>> /\ matching_row_for_col' = <<>>
    /\ previous_col' = <<>> /\ min_slack' = <<>> /\ used_col' = {}
    /\ current_row' = 0 /\ current_col' = 0 /\ pc' = "rest"
    /\ UNCHANGED cache

Value == cache[KeyOf[request]]

\* A list of the right shape is taken as it is.
LookupHit ==
    /\ stage = "lookup"
    /\ Value \notin Foreign \cup {Absent}
    /\ distances' = Value
    /\ cache_hit' = TRUE
    /\ Continue("costs")
    /\ UNCHANGED cache /\ CallKept

\* Mutant: a value that cannot be read is fetched again.
LookupMissRetries ==
    /\ stage = "lookup"
    /\ IF Value = Absent THEN Continue("measure") ELSE UNCHANGED <<stage, status>>
    /\ UNCHANGED <<distances, cache_hit, cache>> /\ CallKept

\* No value, no JSON, no list, or get() raised.
LookupMiss ==
    /\ stage = "lookup"
    /\ Continue("measure")
    /\ UNCHANGED <<distances, cache_hit, cache>> /\ CallKept

\* _validate_and_normalize_distance_matrix raises on what the cache holds.
LookupRaises ==
    /\ stage = "lookup"
    /\ \/ Value = Misshapen /\ Answer(400)
       \/ Value = Untyped /\ Answer(500)
    /\ UNCHANGED <<distances, cache_hit, cache>> /\ CallKept

Measure ==
    /\ stage = "measure"
    /\ request.matrix_algorithm = "source_dijkstra" =>
          "source_dijkstra_matrix_builder" \in injected
    /\ distances' \in Matrices(request)
    /\ Continue(IF CacheUsed THEN "store" ELSE "costs")
    /\ UNCHANGED <<cache_hit, cache>> /\ CallKept

\* There is no builder, or it fails, or its matrix has another shape.
MeasureFails ==
    /\ stage = "measure"
    /\ request.matrix_algorithm = "source_dijkstra"
    /\ \/ Answer(400)
       \/ "source_dijkstra_matrix_builder" \in injected /\ Answer(500)
    /\ UNCHANGED <<distances, cache_hit, cache>> /\ CallKept

Store ==
    /\ stage = "store"
    /\ cache' = [cache EXCEPT ![KeyOf[request]] = distances]
    /\ Continue("costs")
    /\ UNCHANGED <<distances, cache_hit>> /\ CallKept

\* An exception of set() is swallowed; one of the second set(), without a TTL,
\* that follows a TypeError is not.
StoreFails ==
    /\ stage = "store"
    /\ Continue("costs") \/ \E code \in {400, 500} : Answer(code)
    /\ UNCHANGED <<distances, cache_hit, cache>> /\ CallKept

---------------------------------------------------------------------------
(* The two assignments.                                                    *)

BuildCosts ==
    /\ stage = "costs"
    /\ \/ /\ \/ \E d \in DOMAIN drivers : drivers[d].current_load > drivers[d].max_capacity
             \/ slots = <<>>
          /\ Answer(400)
          /\ UNCHANGED cost
       \/ /\ \A d \in DOMAIN drivers : drivers[d].current_load <= drivers[d].max_capacity
          /\ slots # <<>>
          /\ cost' = CostMatrix(drivers, slots, distances,
                                request.load_penalty_m, request.slot_penalty_m)
          /\ Continue("greedy")
    /\ UNCHANGED <<request, injected, distances, cache_hit, cache, greedy, solverVars>>

\* min(row_count, col_count)
target_assignment_count == Min({Len(slots), Len(orders)})

\* The candidates that are not skipped.
Candidates ==
    {pair \in (DOMAIN slots) \X (DOMAIN orders) :
        \A taken \in greedy : pair[1] # taken[1] /\ pair[2] # taken[2]}

CostOf(pair) == cost[pair[1]][pair[2]]

\* Mutant: among equal costs the later slot comes first.
BeforeByLaterRow(p, q) ==
    \/ CostOf(p) < CostOf(q)
    \/ CostOf(p) = CostOf(q) /\ p[1] > q[1]
    \/ CostOf(p) = CostOf(q) /\ p[1] = q[1] /\ p[2] < q[2]

\* candidates.sort: by cost, row and column.
Before(p, q) ==
    \/ CostOf(p) < CostOf(q)
    \/ CostOf(p) = CostOf(q) /\ p[1] < q[1]
    \/ CostOf(p) = CostOf(q) /\ p[1] = q[1] /\ p[2] < q[2]

GreedyPick ==
    /\ stage = "greedy"
    /\ Cardinality(greedy) < target_assignment_count
    /\ \E pair \in Candidates :
          /\ \A other \in Candidates \ {pair} : Before(pair, other)
          /\ greedy' = greedy \cup {pair}
    /\ UNCHANGED <<cache, callVars, cost, solverVars>>

\* What HungarianInit says of the local variables.
StartHungarian ==
    /\ stage = "greedy"
    /\ Cardinality(greedy) = target_assignment_count
    /\ Continue("hungarian")
    /\ row_potential' = [i \in Rows |-> 0]
    /\ col_potential' = [j \in ColsAndRoot |-> 0]
    /\ matching_row_for_col' = [j \in ColsAndRoot |-> 0]
    /\ previous_col' = [j \in Cols |-> 0]
    /\ min_slack' = [j \in Cols |-> Infinity]
    /\ pc' = "row"
    /\ UNCHANGED <<used_col, current_row, current_col, cost, greedy, request,
                   injected, distances, cache_hit, cache>>

RunHungarian ==
    /\ stage = "hungarian"
    /\ StartRow \/ GrowTree \/ Augment \/ Finish
    /\ UNCHANGED <<cache, callVars, greedy>>

AnswerCompare ==
    /\ stage = "hungarian"
    /\ pc = "done"
    /\ Answer(200)
    /\ UNCHANGED <<distances, cache_hit, cache>> /\ CallKept

Step ==
    \/ LookupHit \/ LookupMiss \/ LookupRaises
    \/ Measure \/ MeasureFails \/ Store \/ StoreFails
    \/ BuildCosts \/ GreedyPick \/ StartHungarian \/ RunHungarian \/ AnswerCompare
    \/ Return

---------------------------------------------------------------------------
(* The cache backend and the other calls.                                  *)

Forget(k) ==
    /\ cache[k] # Absent
    /\ cache' = [cache EXCEPT ![k] = Absent]

\* Another call stores the distances it measured.
StoreOther(r) ==
    /\ r.use_cache
    /\ GoodIds(Stripped(r.drivers)) /\ GoodIds(Stripped(r.orders))
    /\ \E matrix \in Matrices(r) : cache' = [cache EXCEPT ![KeyOf[r]] = matrix]

\* Another program writes under the key.
Pollute(k, junk) == cache' = [cache EXCEPT ![k] = junk]

\* Once a call has its distances nothing of it depends on the cache, so what
\* happens there meanwhile may as well happen after it has returned.
Environment ==
    /\ stage \in {"idle", "lookup", "measure", "store"}
    /\ \/ \E k \in Keys : Forget(k) \/ \E junk \in Foreign : Pollute(k, junk)
       \/ \E r \in Requests : StoreOther(r)
    /\ UNCHANGED <<callVars, greedy, cost, solverVars>>

Next ==
    \/ \E r \in Requests, given \in SUBSET {"cache_backend", "source_dijkstra_matrix_builder"} :
          Submit(r, given)
    \/ Step
    \/ Environment

Spec == Init /\ [][Next]_vars

\* A call is one thread running through sequential code; the backend's and the
\* builder's calls return or raise.
FairSpec == Spec /\ WF_vars(Step)

---------------------------------------------------------------------------
(* The answer.                                                             *)

\* The pairs of the solver's result.
hungarian == assignments

hungarian_non_regression == total_cost(hungarian) <= total_cost(greedy)

DriverOf(pair) == slots[pair[1]].driver_index

\* driver_state: drivers without a free slot do not occur.
DriversWithSlots == {slots[i].driver_index : i \in DOMAIN slots}

DriverMetric(pairs, d) ==
    LET assigned == Cardinality({pair \in pairs : DriverOf(pair) = d})
        projected == drivers[d].current_load + assigned
    IN  [available_slots |-> AvailableCapacity(drivers[d]),
         assigned_orders |-> assigned,
         projected_load |-> projected,
         remaining_capacity |-> drivers[d].max_capacity - projected]

Sum(pairs, field) ==
    SumFunction([d \in DriversWithSlots |-> DriverMetric(pairs, d)[field]])

---------------------------------------------------------------------------
(* Properties.                                                             *)

TypeOK ==
    /\ stage \in {"idle", "lookup", "measure", "store", "costs", "greedy", "hungarian",
                  "answered"}
    /\ request \in IF stage = "idle" THEN {NoRequest} ELSE Requests
    /\ injected \subseteq {"cache_backend", "source_dijkstra_matrix_builder"}
    /\ status \in {0, 200, 400, 500}
    /\ distances # NoMatrix =>
          distances \in [DOMAIN drivers -> [DOMAIN orders -> Nat]]
    /\ cost # <<>> => cost \in [DOMAIN slots -> [DOMAIN orders -> Nat]]
    /\ cache_hit => distances # NoMatrix
    /\ greedy # {} => greedy \subseteq (DOMAIN slots) \X (DOMAIN orders)

\* The distances between some points that round to those of the asked drivers
\* and orders, in the asked order, at some time.
DistancesOf(matrix, table) ==
    \A d \in DOMAIN drivers, o \in DOMAIN orders :
        \E p, q \in Points :
            /\ Round7[p] = Round7[drivers[d].at]
            /\ Round7[q] = Round7[orders[o].at]
            /\ matrix[d][o] = NormalizeDistance(table[<<p, q>>])

\* However the distances of a call came about, cached by whomever or measured
\* now, they belong to its drivers and orders, one by one, and come from one
\* state of the roads (dispatch_distance_service.py:276).  It need not be the
\* present one: the key does not name it.
DistancesFitRequest ==
    distances # NoMatrix =>
        \E table \in Sources(request) : DistancesOf(distances, table)

\* In both answers, every order goes to one slot or is reported unassigned, as
\* many as possible are assigned, nobody is loaded beyond capacity, and the
\* fairness metrics, which leave full drivers out, add up to the same
\* (dispatch_service.py:84).
AnswersConsistent ==
    status = 200 => \A pairs \in {greedy, hungarian} :
        /\ \A p, q \in pairs : p # q => p[1] # q[1] /\ p[2] # q[2]
        /\ Cardinality(pairs) + Cardinality(unassigned_cols(pairs)) = Len(orders)
        /\ unassigned_cols(pairs) = {} \/ Cardinality(pairs) = Len(slots)
        /\ \A d \in DOMAIN drivers :
              IF d \in DriversWithSlots
              THEN /\ DriverMetric(pairs, d).projected_load <= drivers[d].max_capacity
                   /\ DriverMetric(pairs, d).remaining_capacity =
                          DriverMetric(pairs, d).available_slots
                              - DriverMetric(pairs, d).assigned_orders
              ELSE drivers[d].current_load = drivers[d].max_capacity
        /\ Sum(pairs, "assigned_orders") = Cardinality(pairs)
        /\ Sum(pairs, "available_slots") = Len(slots)

\* The k-th order given to a driver pays k - 1 slot penalties: no slot is used
\* before the ones that precede it.  Greedy does so always, the solver, which
\* may choose among equal costs, when slots cost something
\* (dispatch_cost_matrix.py:138).
SlotsFilledInOrder ==
    status = 200 =>
        \A pairs \in {greedy} \cup
                     (IF request.slot_penalty_m > 0 THEN {hungarian} ELSE {}) :
            \A pair \in pairs : slots[pair[1]].driver_slot_index > 0 =>
                \E other \in pairs : other[1] = pair[1] - 1

Unreachable(pairs) ==
    {pair \in pairs : distances[DriverOf(pair)][pair[2]] = UNREACHABLE_DISPATCH_COST_M}

\* The solver's answer is never dearer than greedy's, and it gives no driver an
\* order no road leads to that greedy could avoid, as long as what greedy's
\* answer costs besides adds up to less than UNREACHABLE_DISPATCH_COST_M
\* (dispatch_service.py:241).
SolverNotWorse ==
    status = 200 =>
        /\ hungarian_non_regression
        /\ total_cost(greedy)
              - Cardinality(Unreachable(greedy)) * UNREACHABLE_DISPATCH_COST_M
                  < UNREACHABLE_DISPATCH_COST_M =>
              Cardinality(Unreachable(hungarian)) <= Cardinality(Unreachable(greedy))

\* Every call is answered, whatever the cache holds and however the solver's
\* loops run.
CallsEnd == stage # "idle" ~> stage = "answered"

============================================================================
