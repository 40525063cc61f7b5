--------------------------- MODULE MatrixService ---------------------------
(***************************************************************************)
(* POST /matrix: the distance-matrix service of app/services/matrix_service *)
(* with its Redis response cache (app/infrastructure/redis_cache.py).      *)
(*                                                                         *)
(* Several worker processes (Dockerfile: uvicorn --workers) serve calls in *)
(* a thread pool.  Every worker loads a road graph once, when it starts;   *)
(* all of them share one Redis.  A call validates its request, looks the   *)
(* response up under a key made from the graph's FILE NAME, the algorithm  *)
(* and the ordered, rounded locations, computes it on a miss and writes it *)
(* back with a TTL.  Redis may fail at each of the three round trips, drop *)
(* any key, and hold values that this service did not write.               *)
(*                                                                         *)
(* MatrixRequests defines requests and matrices, MatrixPromise what the    *)
(* service promises about its answers.                                     *)
(***************************************************************************)
EXTENDS MatrixRequests, FiniteSets

CONSTANTS
    Calls,            \* slots for requests being served (thread-pool threads)
    Workers,          \* worker processes
    Absent, Truncated, Foreign,  \* no value; not JSON; JSON of another shape
    MaxInFlight,      \* bound on commands that reach Redis late
    MaxReplacements,  \* bound on deployments of another graph file
    MaxCorruptions    \* bound on values stored by someone else

ASSUME SentinelsAssumption ==
    /\ {Absent, Truncated, Foreign} \cap Docs = {}
    /\ Absent \notin {Truncated, Foreign}
    /\ Truncated # Foreign

ASSUME BoundsAssumption ==
    /\ MaxInFlight \in Nat
    /\ MaxReplacements \in Nat
    /\ MaxCorruptions \in Nat

VARIABLES
    file,         \* the graph stored at settings.graph_path
    graph,        \* per worker: app.state.graph
    snap_index,   \* per worker: whether app.state.snap_index is set
    redis,        \* the value under each cache key
    expiring,     \* the keys Redis holds a TTL for
    in_flight,    \* SETs whose caller gave up, still on their way to Redis
    pc,           \* per call: the next step of build_distance_matrix_response
    worker,       \* per call: the process serving it
    request,      \* per call: payload
    graph_arg,    \* per call: the graph argument taken from app.state
    cache_error,  \* per call: cache_error
    reply,        \* per call: the HTTP answer
    replacements, corruptions  \* how often the environment acted

vars == <<file, graph, snap_index, redis, expiring, in_flight, pc, worker,
          request, graph_arg, cache_error, reply, replacements, corruptions>>

workerVars == <<file, graph, snap_index, replacements>>
redisVars == <<redis, expiring, in_flight, corruptions>>
callVars == <<pc, worker, request, graph_arg, cache_error, reply>>

---------------------------------------------------------------------------
(* The cache key: equal keys are served the same document.                 *)

\* Mutant: the order of the locations is lost.
KeyOfLocationSet(g, algorithm, locations) ==
    [graph |-> FileName[g], algorithm |-> algorithm,
     locations |-> {NormalizeLocation(locations[i]) : i \in DOMAIN locations}]

\* Mutant: one key for all graphs.
KeyWithoutGraph(g, algorithm, locations) ==
    [algorithm |-> algorithm,
     locations |-> [i \in DOMAIN locations |-> NormalizeLocation(locations[i])]]

BuildMatrixCacheKey(g, algorithm, locations) ==
    [graph |-> FileName[g],
     algorithm |-> algorithm,
     locations |-> [i \in DOMAIN locations |-> NormalizeLocation(locations[i])]]

KeyOf(g, source) == BuildMatrixCacheKey(g, source.algorithm, source.locations)

Keys == {KeyOf(g, r) : g \in Graphs, r \in Requests}

CacheKey(c) == KeyOf(graph_arg[c], request[c])

---------------------------------------------------------------------------
(* The state of a call.                                                    *)

Payload(c) == ResponsePayload(graph_arg[c], request[c])

Reply(status, doc, hit, error) ==
    [status |-> status, doc |-> doc, hit |-> hit, error |-> error]

NoReply == Reply(0, NoDoc, FALSE, "none")

\* redis_cache is not None: the cache is in use and nothing failed so far.
CacheUsable(c) == request[c].use_cache /\ cache_error[c] = "none"

Answer(c, response) ==
    /\ pc' = [pc EXCEPT ![c] = "answered"]
    /\ reply' = [reply EXCEPT ![c] = response]

GoTo(c, step) ==
    /\ pc' = [pc EXCEPT ![c] = step]
    /\ UNCHANGED reply

---------------------------------------------------------------------------
Init ==
    /\ file \in Graphs
    /\ graph = [w \in Workers |-> file]
    /\ snap_index = [w \in Workers |-> TRUE]
    /\ redis = [k \in Keys |-> Absent]
    /\ expiring = {}
    /\ in_flight = {}
    /\ pc = [c \in Calls |-> "idle"]
    /\ worker \in [Calls -> Workers]
    /\ request \in [Calls -> Requests]
    /\ graph_arg = [c \in Calls |-> NoGraph]
    /\ cache_error = [c \in Calls |-> "none"]
    /\ reply = [c \in Calls |-> NoReply]
    /\ replacements = 0
    /\ corruptions = 0

---------------------------------------------------------------------------
(* Steps of a call.                                                        *)

Ready(w) == graph[w] # NoGraph /\ snap_index[w]

\* The endpoint and the service's own validation, up to the first round trip.
Submit(c, w, r) ==
    /\ pc[c] \in {"idle", "answered"}
    /\ worker' = [worker EXCEPT ![c] = w]
    /\ request' = [request EXCEPT ![c] = r]
    /\ graph_arg' = [graph_arg EXCEPT ![c] = graph[w]]
    /\ cache_error' = [cache_error EXCEPT ![c] = "none"]
    /\ \/ /\ ~Ready(w)
          /\ Answer(c, Reply(503, NoDoc, FALSE, "none"))
       \/ /\ Ready(w) /\ ~ValidMatrixRequest(r)
          /\ Answer(c, Reply(422, NoDoc, FALSE, "none"))
       \/ /\ Ready(w) /\ ValidMatrixRequest(r)
          /\ pc' = [pc EXCEPT ![c] = IF r.use_cache THEN "lookup" ELSE "compute"]
          /\ reply' = [reply EXCEPT ![c] = NoReply]
    /\ UNCHANGED <<workerVars, redisVars>>

CallKept == UNCHANGED <<workerVars, worker, request, graph_arg>>

\* A hit is answered as it was stored, only the cache metadata is fresh.
LookupHit(c) ==
    /\ pc[c] = "lookup"
    /\ redis[CacheKey(c)] \in Docs
    /\ Answer(c, Reply(200, redis[CacheKey(c)], TRUE, "none"))
    /\ UNCHANGED <<cache_error, redisVars>> /\ CallKept

\* Mutant: None is not told from a response.
LookupMissUnchecked(c) ==
    /\ pc[c] = "lookup"
    /\ redis[CacheKey(c)] = Absent
    /\ Answer(c, Reply(200, redis[CacheKey(c)], TRUE, "none"))
    /\ UNCHANGED <<cache_error, redisVars>> /\ CallKept

LookupMiss(c) ==
    /\ pc[c] = "lookup"
    /\ redis[CacheKey(c)] = Absent
    /\ GoTo(c, "compute")
    /\ UNCHANGED <<cache_error, redisVars>> /\ CallKept

\* JSONDecodeError: get_json goes on to delete the key.
LookupTruncated(c) ==
    /\ pc[c] = "lookup"
    /\ redis[CacheKey(c)] = Truncated
    /\ GoTo(c, "evict")
    /\ UNCHANGED <<cache_error, redisVars>> /\ CallKept

\* Not an object (ValueError) or not a MatrixResponse (ValidationError).
LookupForeign(c) ==
    /\ pc[c] = "lookup"
    /\ redis[CacheKey(c)] = Foreign
    /\ GoTo(c, "compute")
    /\ cache_error' = [cache_error EXCEPT ![c] = "content"]
    /\ UNCHANGED redisVars /\ CallKept

LookupFails(c) ==
    /\ pc[c] = "lookup"
    /\ GoTo(c, "compute")
    /\ cache_error' = [cache_error EXCEPT ![c] = "redis"]
    /\ UNCHANGED redisVars /\ CallKept

Remove(k) ==
    /\ redis' = [redis EXCEPT ![k] = Absent]
    /\ expiring' = expiring \ {k}
    /\ UNCHANGED <<in_flight, corruptions>>

\* The DEL drops whatever is under the key by now, then get_json returns None.
Evict(c) ==
    /\ pc[c] = "evict"
    /\ GoTo(c, "compute")
    /\ Remove(CacheKey(c))
    /\ UNCHANGED cache_error /\ CallKept

\* A DEL that fails; if it reached Redis all the same, Lose follows.
EvictFails(c) ==
    /\ pc[c] = "evict"
    /\ GoTo(c, "compute")
    /\ cache_error' = [cache_error EXCEPT ![c] = "redis"]
    /\ UNCHANGED redisVars /\ CallKept

\* build_distance_matrix: snapping validates every coordinate first.
ComputeRejects(c) ==
    /\ pc[c] = "compute"
    /\ ~AllInArea(request[c].locations)
    /\ Answer(c, Reply(422, NoDoc, FALSE, "none"))
    /\ UNCHANGED <<cache_error, redisVars>> /\ CallKept

ComputeRaises(c) ==
    /\ pc[c] = "compute"
    /\ AllInArea(request[c].locations)
    /\ MayRaise(graph_arg[c], request[c])
    /\ Answer(c, Reply(500, NoDoc, FALSE, "none"))
    /\ UNCHANGED <<cache_error, redisVars>> /\ CallKept

\* Mutant: coordinates are not validated before they are snapped.
ComputeUnvalidated(c) ==
    /\ pc[c] = "compute"
    /\ \/ CacheUsable(c) /\ GoTo(c, "store")
       \/ /\ ~CacheUsable(c)
          /\ Answer(c, Reply(200, Payload(c), FALSE, cache_error[c]))
    /\ UNCHANGED <<cache_error, redisVars>> /\ CallKept

Compute(c) ==
    /\ pc[c] = "compute"
    /\ AllInArea(request[c].locations)
    /\ \/ CacheUsable(c) /\ GoTo(c, "store")
       \/ /\ ~CacheUsable(c)
          /\ Answer(c, Reply(200, Payload(c), FALSE, cache_error[c]))
    /\ UNCHANGED <<cache_error, redisVars>> /\ CallKept

\* Mutant: SET without EX.
SetJsonForever(k, doc) ==
    /\ redis' = [redis EXCEPT ![k] = doc]
    /\ UNCHANGED expiring

\* SET name value EX ttl.
SetJson(k, doc) ==
    /\ redis' = [redis EXCEPT ![k] = doc]
    /\ expiring' = expiring \cup {k}

Store(c) ==
    /\ pc[c] = "store"
    /\ SetJson(CacheKey(c), Payload(c))
    /\ Answer(c, Reply(200, Payload(c), FALSE, "none"))
    /\ UNCHANGED <<cache_error, in_flight, corruptions>> /\ CallKept

SetCommand(c) == [key |-> CacheKey(c), doc |-> Payload(c)]

\* Commands whose caller is gone still reach Redis, some time later (Land).
ArriveLate(commands) ==
    /\ in_flight' = in_flight \cup commands
    /\ Cardinality(in_flight') <= MaxInFlight

\* Mutant: an error while the response is stored fails the call.
StoreFailsLoudly(c) ==
    /\ pc[c] = "store"
    /\ Answer(c, Reply(500, NoDoc, FALSE, "write"))
    /\ UNCHANGED <<cache_error, redisVars>> /\ CallKept

\* RedisError: the command is lost, or only its caller stopped waiting.
StoreFails(c) ==
    /\ pc[c] = "store"
    /\ \/ UNCHANGED in_flight
       \/ ArriveLate({SetCommand(c)})
    /\ Answer(c, Reply(200, Payload(c), FALSE, "write"))
    /\ UNCHANGED <<cache_error, redis, expiring, corruptions>> /\ CallKept

Step(c) ==
    \/ LookupHit(c) \/ LookupMiss(c) \/ LookupTruncated(c) \/ LookupForeign(c)
    \/ LookupFails(c) \/ Evict(c) \/ EvictFails(c)
    \/ ComputeRejects(c) \/ ComputeRaises(c) \/ Compute(c)
    \/ Store(c) \/ StoreFails(c)

---------------------------------------------------------------------------
(* Redis and the other processes.                                          *)

Land(set) ==
    /\ set \in in_flight
    /\ SetJson(set.key, set.doc)
    /\ in_flight' = in_flight \ {set}
    /\ UNCHANGED <<corruptions, workerVars, callVars>>

Expire(k) ==
    /\ k \in expiring
    /\ Remove(k)
    /\ UNCHANGED <<workerVars, callVars>>

\* Eviction, FLUSHDB, a restarted Redis, a late DEL.
Lose(k) ==
    /\ redis[k] # Absent
    /\ Remove(k)
    /\ UNCHANGED <<workerVars, callVars>>

\* Another writer stores a value under the key, without a TTL.
Corrupt(k, junk) ==
    /\ corruptions < MaxCorruptions
    /\ corruptions' = corruptions + 1
    /\ redis' = [redis EXCEPT ![k] = junk]
    /\ expiring' = expiring \ {k}
    /\ UNCHANGED <<in_flight, workerVars, callVars>>

ReplaceFile(g) ==
    /\ replacements < MaxReplacements
    /\ g # file
    /\ replacements' = replacements + 1
    /\ file' = g
    /\ UNCHANGED <<graph, snap_index, redisVars, callVars>>

CallsOf(w) == {c \in Calls : worker[c] = w /\ pc[c] \notin {"idle", "answered"}}

\* The worker dies and starts again: its calls are cut off, a SET it had just
\* sent may still arrive, and the graph is what lifespan() manages to load.
Restart(w) ==
    /\ \E started \in SUBSET {c \in CallsOf(w) : pc[c] = "store"} :
          ArriveLate({SetCommand(c) : c \in started})
    /\ pc' = [c \in Calls |-> IF c \in CallsOf(w) THEN "idle" ELSE pc[c]]
    /\ \/ /\ graph' = [graph EXCEPT ![w] = file]
          /\ \E built \in BOOLEAN : snap_index' = [snap_index EXCEPT ![w] = built]
       \/ /\ graph' = [graph EXCEPT ![w] = NoGraph]
          /\ snap_index' = [snap_index EXCEPT ![w] = FALSE]
    /\ UNCHANGED <<file, replacements, redis, expiring, corruptions,
                   worker, request, graph_arg, cache_error, reply>>

Environment ==
    \/ \E set \in in_flight : Land(set)
    \/ \E k \in Keys : Expire(k) \/ Lose(k)
    \/ \E k \in Keys, junk \in {Truncated, Foreign} : Corrupt(k, junk)
    \/ \E g \in Graphs : ReplaceFile(g)
    \/ \E w \in Workers : Restart(w)

Next ==
    \/ \E c \in Calls, w \in Workers, r \in Requests : Submit(c, w, r)
    \/ \E c \in Calls : Step(c)
    \/ Environment

Spec == Init /\ [][Next]_vars

\* Socket timeouts bound every round trip and the computation terminates, so a
\* call keeps moving; Redis honours TTLs; a command in flight arrives.
Fairness ==
    /\ \A c \in Calls : WF_vars(Step(c))
    /\ \A k \in Keys : WF_vars(Expire(k))
    /\ WF_vars(\E set \in in_flight : Land(set))

FairSpec == Spec /\ Fairness

---------------------------------------------------------------------------
(* What the clients see of it.                                             *)

Phase(step) == IF step \in {"idle", "answered"} THEN step ELSE "pending"

phase == [c \in Calls |-> Phase(pc[c])]
answer == [c \in Calls |-> [status |-> reply[c].status, doc |-> reply[c].doc]]

Promise == INSTANCE MatrixPromise

---------------------------------------------------------------------------
(* Properties.                                                             *)

TypeOK ==
    /\ file \in Graphs
    /\ graph \in [Workers -> Graphs \cup {NoGraph}]
    /\ snap_index \in [Workers -> BOOLEAN]
    /\ redis \in [Keys -> Docs \cup {Absent, Truncated, Foreign}]
    /\ expiring \subseteq Keys
    /\ in_flight \subseteq [key : Keys, doc : Docs]
    /\ pc \in [Calls -> {"idle", "lookup", "evict", "compute", "store", "answered"}]
    /\ worker \in [Calls -> Workers]
    /\ request \in [Calls -> Requests]
    /\ graph_arg \in [Calls -> Graphs \cup {NoGraph}]
    /\ cache_error \in [Calls -> {"none", "redis", "content"}]
    /\ reply \in [Calls -> [status : {0, 200, 422, 500, 503}, doc : Docs \cup {NoDoc},
                            hit : BOOLEAN, error : {"none", "redis", "content", "write"}]]
    /\ replacements \in 0 .. MaxReplacements
    /\ corruptions \in 0 .. MaxCorruptions

\* The answer a client gets was computed for what it asked: the algorithm, the
\* locations and their order, however the response came about (cache key).
AnswerFitsRequest ==
    \A c \in Calls : reply[c].status = 200 =>
        Promise!ComputedFor(reply[c].doc, request[c])

\* The answer was computed on the graph of the worker that gives it, although
\* all workers share one Redis.  It takes file names that identify a graph.
AnswerFromOwnGraph ==
    \A c \in Calls : reply[c].status = 200 => reply[c].doc.graph = graph_arg[c]

\* Every matrix in Redis, or on its way there, passed every validation and is
\* under the key its own contents give.
Sound(k, doc) ==
    /\ k = KeyOf(doc.graph, doc)
    /\ ValidMatrixRequest(doc)
    /\ AllInArea(doc.locations)

CacheSound ==
    /\ \A k \in Keys : redis[k] \in Docs => Sound(k, redis[k])
    /\ \A set \in in_flight : Sound(set.key, set.doc)

\* The service keeps the promise of MatrixPromise: no failure of Redis changes
\* the kind of answer, a call that bypasses the cache gets its own matrix, and
\* every accepted call returns unless its worker dies.
PromiseKept == Promise!Promise

\* After the last deployment and restart, matrices computed on an earlier graph
\* disappear from Redis, even when the file name, and so the key, is the same:
\* every entry carries a TTL that hits do not renew.
StaleEntriesAgeOut ==
    LET settled == \A w \in Workers : graph[w] \in {file, NoGraph}
        fresh == \A k \in Keys : redis[k] \in Docs => redis[k].graph = file
    IN  <>[]settled => <>[]fresh

\* redis_cache.py: "Corrupt cache should not poison future requests."  A call
\* that met a value it cannot use and moved on leaves no such value behind.
UnusableValueDropped ==
    \A c \in Calls :
        pc[c] = "compute" /\ cache_error[c] = "content" => redis[CacheKey(c)] # Foreign

\* README.md:67: "Structured `422` responses for invalid/out-of-bounds coordinates".
\* The lookup comes before validate_coordinates, under a rounded key: a location
\* outside must not be answered from the entry of one inside that rounds alike.
OutsideRefused ==
    \A c \in Calls : reply[c].status = 200 => AllInArea(request[c].locations)

===========================================================================
