-------------------------- MODULE DispatchRequests --------------------------
(***************************************************************************)
(* The data of POST /dispatch/compare: requests, the slots of the drivers, *)
(* distances and the costs made of them (app/schemas/dispatch.py,          *)
(* app/services/dispatch_service.py, dispatch_distance_service.py and      *)
(* app/core/dispatch_cost_matrix.py).                                      *)
(***************************************************************************)
EXTENDS Integers, SequencesExt

CONSTANTS
    Requests,          \* the DispatchCompareRequest bodies clients send
    Ids, NoId, Strip,  \* ids as they are sent, the empty one; str.strip
    Points, Round7,    \* coordinates; round(lat, 7) and round(lon, 7)
    Haversine,         \* haversine_m between two points
    RoadDistances,     \* what an injected builder finds, as the roads change,
    None,              \* None, nan, inf or a negative number where no road leads
    UNREACHABLE_DISPATCH_COST_M

Drivers == [id : Ids, at : Points, current_load : Nat, max_capacity : Nat \ {0}]
Orders == [id : Ids, at : Points]

\* What the schema lets through.
CompareRequests ==
    [drivers : Seq(Drivers) \ {<<>>}, orders : Seq(Orders) \ {<<>>},
     matrix_algorithm : {"haversine", "source_dijkstra"}, use_cache : BOOLEAN,
     load_penalty_m : Nat, slot_penalty_m : Nat]

ASSUME DispatchRequestsAssumption == Requests \subseteq CompareRequests

ASSUME DispatchDataAssumption ==
    /\ NoId \in Ids
    /\ Strip \in [Ids -> Ids]
    /\ Round7 \in [Points -> Points]
    /\ Haversine \in [Points \X Points -> Nat]
    /\ RoadDistances \subseteq [Points \X Points -> Nat \cup {None}]
    /\ None \notin Nat
    /\ UNREACHABLE_DISPATCH_COST_M \in Nat

---------------------------------------------------------------------------
(* Ids.                                                                    *)

\* _build_core_drivers, _build_core_orders
Stripped(items) == [i \in DOMAIN items |-> [items[i] EXCEPT !.id = Strip[@]]]

\* _validate_unique_driver_ids, _validate_unique_order_ids and, for empty ids,
\* _validate_drivers_and_orders.
GoodIds(items) ==
    /\ \A i \in DOMAIN items : items[i].id # NoId
    /\ \A i, j \in DOMAIN items : i # j => items[i].id # items[j].id

---------------------------------------------------------------------------
(* Distances, one row per driver and one column per order.                 *)

\* Mutant: a driver no road leads from is passed on.
NormalizeNothing(distance) == distance

\* _normalize_distance_value
NormalizeDistance(distance) ==
    IF distance = None THEN UNREACHABLE_DISPATCH_COST_M ELSE distance

\* _build_haversine_matrix or the builder, validated.
DistanceMatrix(table, drivers, orders) ==
    [d \in DOMAIN drivers |-> [o \in DOMAIN orders |->
        NormalizeDistance(table[<<drivers[d].at, orders[o].at>>])]]

Rounded(items) == [i \in DOMAIN items |-> [items[i] EXCEPT !.at = Round7[@]]]

\* Mutant: whose row is whose is lost.
KeyOfIdSets(algorithm, drivers, orders) ==
    [algorithm |-> algorithm,
     drivers |-> {Rounded(drivers)[d] : d \in DOMAIN drivers},
     orders |-> {Rounded(orders)[o] : o \in DOMAIN orders}]

\* _build_dispatch_distance_cache_key: neither the graph nor its version.
CacheKey(algorithm, drivers, orders) ==
    [algorithm |-> algorithm, drivers |-> Rounded(drivers), orders |-> Rounded(orders)]

---------------------------------------------------------------------------
(* Slots and costs.                                                        *)

\* Mutant: a slot more than the driver has room for.
AvailableOneMore(driver) == driver.max_capacity - driver.current_load + 1

AvailableCapacity(driver) ==
    IF driver.current_load < driver.max_capacity
    THEN driver.max_capacity - driver.current_load
    ELSE 0

\* _expand_driver_slots: one slot after the other, driver by driver.
DriverSlots(drivers) ==
    FlattenSeq([d \in DOMAIN drivers |->
        [k \in 1 .. AvailableCapacity(drivers[d]) |->
            [driver_index |-> d, driver_slot_index |-> k - 1]]])

\* total_cost of one slot and one order.
CostMatrix(drivers, slots, distances, load_penalty_m, slot_penalty_m) ==
    [i \in DOMAIN slots |->
        LET d == slots[i].driver_index
        IN  [o \in DOMAIN distances[d] |->
                distances[d][o] + drivers[d].current_load * load_penalty_m
                    + slots[i].driver_slot_index * slot_penalty_m]]

============================================================================
