------------------------ MODULE MatrixServiceProofs ------------------------
(***************************************************************************)
(* Proofs about MatrixService, for any number of calls and workers, any    *)
(* requests, points and graphs.                                            *)
(*                                                                         *)
(* TypeInv, the type invariant with the fact that a call under way has     *)
(* been accepted, is inductive.  With CacheSound (what Redis holds is under *)
(* its own key) and AnswersKeyed (what was answered was validated and has  *)
(* the key of the request) it gives the properties of the answers.         *)
(***************************************************************************)
EXTENDS MatrixService, TLAPS

\* A call that reached the service proper has a graph and a valid request.
Accepted ==
    \A c \in Calls : pc[c] \in {"lookup", "evict", "compute", "store"} =>
        graph_arg[c] \in Graphs /\ ValidMatrixRequest(request[c])

TypeInv == TypeOK /\ Accepted

---------------------------------------------------------------------------
(* The keys and documents of accepted calls.                               *)

LEMMA KeysOfCalls ==
    ASSUME NEW c \in Calls, graph_arg[c] \in Graphs, request[c] \in Requests
    PROVE  CacheKey(c) \in Keys
BY DEF CacheKey, Keys

LEMMA PayloadsAreDocs ==
    ASSUME NEW c \in Calls, graph_arg[c] \in Graphs, request[c] \in Requests,
           ValidMatrixRequest(request[c])
    PROVE  Payload(c) \in Docs
BY RequestsAssumption DEF Payload, ResponsePayload, Docs, ValidMatrixRequest

---------------------------------------------------------------------------
LEMMA InitTyped == Init => TypeInv
BY BoundsAssumption DEF Init, TypeInv, TypeOK, Accepted, NoReply, Reply

LEMMA SubmitTyped ==
    ASSUME TypeInv, NEW c \in Calls, NEW w \in Workers, NEW r \in Requests,
           Submit(c, w, r)
    PROVE  TypeInv'
<1> USE DEF TypeInv, TypeOK, Accepted, Answer, Reply, NoReply,
            workerVars, redisVars
<1>1. CASE ~Ready(w) /\ Answer(c, Reply(503, NoDoc, FALSE, "none"))
  BY <1>1 DEF Submit
<1>2. CASE ~ValidMatrixRequest(r) /\ Answer(c, Reply(422, NoDoc, FALSE, "none"))
  BY <1>2 DEF Submit
<1>3. CASE /\ Ready(w) /\ ValidMatrixRequest(r)
           /\ pc' = [pc EXCEPT ![c] = IF r.use_cache THEN "lookup" ELSE "compute"]
           /\ reply' = [reply EXCEPT ![c] = NoReply]
  BY <1>3 DEF Submit, Ready
<1>. QED BY <1>1, <1>2, <1>3 DEF Submit

LEMMA StepTyped ==
    ASSUME TypeInv, NEW c \in Calls, Step(c)
    PROVE  TypeInv'
<1> USE DEF TypeInv, TypeOK, Accepted, Answer, GoTo, Reply, CallKept,
            workerVars, redisVars
<1>1. CASE LookupHit(c)
  BY <1>1 DEF LookupHit
<1>2. CASE LookupMiss(c)
  BY <1>2 DEF LookupMiss
<1>3. CASE LookupTruncated(c)
  BY <1>3 DEF LookupTruncated
<1>4. CASE LookupForeign(c)
  BY <1>4 DEF LookupForeign
<1>5. CASE LookupFails(c)
  BY <1>5 DEF LookupFails
<1>6. CASE Evict(c)
  <2>1. CacheKey(c) \in Keys
    BY <1>6, KeysOfCalls DEF Evict
  <2>. QED BY <1>6, <2>1 DEF Evict, Remove
<1>7. CASE EvictFails(c)
  BY <1>7 DEF EvictFails
<1>8. CASE ComputeRejects(c)
  BY <1>8 DEF ComputeRejects
<1>9. CASE ComputeRaises(c)
  BY <1>9 DEF ComputeRaises
<1>10. CASE Compute(c)
  <2>1. Payload(c) \in Docs
    BY <1>10, PayloadsAreDocs DEF Compute
  <2>2. CASE CacheUsable(c) /\ GoTo(c, "store")
    BY <1>10, <2>2 DEF Compute
  <2>3. CASE ~CacheUsable(c) /\ Answer(c, Reply(200, Payload(c), FALSE, cache_error[c]))
    BY <1>10, <2>1, <2>3 DEF Compute
  <2>. QED BY <1>10, <2>2, <2>3 DEF Compute
<1>11. CASE Store(c)
  <2>1. Payload(c) \in Docs /\ CacheKey(c) \in Keys
    BY <1>11, PayloadsAreDocs, KeysOfCalls DEF Store
  <2>. QED BY <1>11, <2>1 DEF Store, SetJson
<1>12. CASE StoreFails(c)
  <2>1. Payload(c) \in Docs /\ CacheKey(c) \in Keys
    BY <1>12, PayloadsAreDocs, KeysOfCalls DEF StoreFails
  <2>2. in_flight' \subseteq [key : Keys, doc : Docs]
    BY <1>12, <2>1 DEF StoreFails, ArriveLate, SetCommand
  <2>. QED BY <1>12, <2>1, <2>2 DEF StoreFails
<1>. QED BY <1>1, <1>2, <1>3, <1>4, <1>5, <1>6, <1>7, <1>8, <1>9, <1>10,
            <1>11, <1>12 DEF Step

LEMMA EnvironmentTyped ==
    ASSUME TypeInv, Environment
    PROVE  TypeInv'
<1> USE DEF TypeInv, TypeOK, Accepted, workerVars, redisVars, callVars
<1>1. ASSUME NEW set \in in_flight, Land(set) PROVE TypeInv'
  <2>1. set.key \in Keys /\ set.doc \in Docs
    OBVIOUS
  <2>. QED BY <1>1, <2>1 DEF Land, SetJson
<1>2. ASSUME NEW k \in Keys, Expire(k) \/ Lose(k) PROVE TypeInv'
  BY <1>2 DEF Expire, Lose, Remove
<1>3. ASSUME NEW k \in Keys, NEW junk \in {Truncated, Foreign}, Corrupt(k, junk)
      PROVE TypeInv'
  BY <1>3, BoundsAssumption DEF Corrupt
<1>4. ASSUME NEW g \in Graphs, ReplaceFile(g) PROVE TypeInv'
  BY <1>4, BoundsAssumption DEF ReplaceFile
<1>5. ASSUME NEW w \in Workers, Restart(w) PROVE TypeInv'
  <2>1. in_flight' \subseteq [key : Keys, doc : Docs]
    <3>1. PICK started \in SUBSET {c \in CallsOf(w) : pc[c] = "store"} :
             ArriveLate({SetCommand(c) : c \in started})
      BY <1>5 DEF Restart
    <3>2. ASSUME NEW c \in started PROVE SetCommand(c) \in [key : Keys, doc : Docs]
      BY PayloadsAreDocs, KeysOfCalls DEF SetCommand, CallsOf
    <3>. QED BY <3>1, <3>2 DEF ArriveLate
  <2>2. pc' \in [Calls -> {"idle", "lookup", "evict", "compute", "store", "answered"}]
    BY <1>5 DEF Restart
  <2>3. graph' \in [Workers -> Graphs \cup {NoGraph}]
    <3>1. \/ graph' = [graph EXCEPT ![w] = file]
          \/ graph' = [graph EXCEPT ![w] = NoGraph]
      BY <1>5, Zenon DEF Restart
    <3>2. file \in Graphs /\ graph \in [Workers -> Graphs \cup {NoGraph}]
      OBVIOUS
    <3>. HIDE DEF TypeInv, TypeOK, Accepted
    <3>. QED BY <3>1, <3>2
  <2>5. snap_index' \in [Workers -> BOOLEAN]
    <3>1. PICK built \in BOOLEAN : snap_index' = [snap_index EXCEPT ![w] = built]
      BY <1>5, Zenon DEF Restart
    <3>. QED BY <3>1
  <2>4. Accepted'
    BY <1>5 DEF Restart
  <2>. QED BY <1>5, <2>1, <2>2, <2>3, <2>4, <2>5 DEF Restart
<1>. QED BY <1>1, <1>2, <1>3, <1>4, <1>5 DEF Environment

LEMMA NextTyped ==
    ASSUME TypeInv, [Next]_vars
    PROVE  TypeInv'
<1>1. CASE UNCHANGED vars
  BY <1>1 DEF vars, TypeInv, TypeOK, Accepted
<1>. QED BY <1>1, SubmitTyped, StepTyped, EnvironmentTyped DEF Next

\* Every reachable state is well typed, and a call under way was accepted with
\* a loaded graph (api/matrix.py answers 503 otherwise).
THEOREM TypeCorrect == Spec => []TypeInv
BY InitTyped, NextTyped, PTL DEF Spec

\* The type invariant itself.
THEOREM AlwaysTyped == Spec => []TypeOK
BY TypeCorrect, PTL DEF TypeInv

---------------------------------------------------------------------------
(* The cache, and the answers taken from it.                               *)

\* Only a request whose locations were all validated is about to be stored.
StoresValidated ==
    \A c \in Calls : pc[c] = "store" => AllInArea(request[c].locations)

\* A matrix that was answered has the key of the request it answers, and its own
\* locations were validated.
AnswersKeyed ==
    \A c \in Calls : reply[c].status = 200 =>
        /\ graph_arg[c] \in Graphs
        /\ reply[c].doc \in Docs
        /\ KeyOf(reply[c].doc.graph, reply[c].doc) = CacheKey(c)
        /\ AllInArea(reply[c].doc.locations)

SoundInv == TypeInv /\ CacheSound /\ StoresValidated /\ AnswersKeyed

LEMMA PayloadsAreSound ==
    ASSUME NEW c \in Calls, ValidMatrixRequest(request[c]),
           AllInArea(request[c].locations)
    PROVE  Sound(CacheKey(c), Payload(c))
BY DEF Sound, CacheKey, Payload, ResponsePayload, KeyOf, BuildMatrixCacheKey,
       ValidMatrixRequest

LEMMA PayloadsAreKeyed ==
    ASSUME NEW c \in Calls
    PROVE  /\ KeyOf(Payload(c).graph, Payload(c)) = CacheKey(c)
           /\ Payload(c).locations = request[c].locations
BY DEF CacheKey, Payload, ResponsePayload, KeyOf, BuildMatrixCacheKey

LEMMA InitSound == Init => SoundInv
<1> SUFFICES ASSUME Init PROVE SoundInv
  OBVIOUS
<1>1. CacheSound
  BY SentinelsAssumption DEF Init, CacheSound
<1>2. StoresValidated /\ AnswersKeyed
  BY DEF Init, StoresValidated, AnswersKeyed, NoReply, Reply
<1>. QED BY <1>1, <1>2, InitTyped DEF SoundInv

LEMMA SubmitAnswers ==
    ASSUME TypeOK, NEW c \in Calls, NEW w \in Workers, NEW r \in Requests,
           Submit(c, w, r)
    PROVE  /\ pc'[c] # "store" /\ reply'[c].status # 200
           /\ \A d \in Calls \ {c} : pc'[d] = pc[d] /\ reply'[d] = reply[d]
<1> USE DEF TypeOK, Answer, Reply, NoReply
<1>1. CASE Answer(c, Reply(503, NoDoc, FALSE, "none"))
  BY <1>1
<1>2. CASE Answer(c, Reply(422, NoDoc, FALSE, "none"))
  BY <1>2
<1>3. CASE /\ pc' = [pc EXCEPT ![c] = IF r.use_cache THEN "lookup" ELSE "compute"]
           /\ reply' = [reply EXCEPT ![c] = NoReply]
  BY <1>3
<1>. QED BY <1>1, <1>2, <1>3 DEF Submit

LEMMA SubmitSound ==
    ASSUME SoundInv, NEW c \in Calls, NEW w \in Workers, NEW r \in Requests,
           Submit(c, w, r)
    PROVE  CacheSound' /\ StoresValidated' /\ AnswersKeyed'
<1> USE DEF SoundInv, TypeInv, TypeOK
<1>1. CacheSound'
  BY DEF Submit, CacheSound, redisVars
<1>2. StoresValidated'
  <2>1. \A d \in Calls \ {c} : request'[d] = request[d]
    BY DEF Submit
  <2>. QED BY <2>1, SubmitAnswers DEF StoresValidated
<1>3. AnswersKeyed'
  <2>1. reply'[c].status # 200
    BY SubmitAnswers
  <2>2. ASSUME NEW d \in Calls, d # c
        PROVE  /\ reply'[d] = reply[d] /\ graph_arg'[d] = graph_arg[d]
               /\ CacheKey(d)' = CacheKey(d)
    <3>1. reply'[d] = reply[d]
      BY <2>2, SubmitAnswers
    <3>2. graph_arg'[d] = graph_arg[d] /\ request'[d] = request[d]
      BY <2>2 DEF Submit
    <3>. QED BY <3>1, <3>2 DEF CacheKey
  <2>. QED BY <2>1, <2>2 DEF AnswersKeyed
<1>. QED BY <1>1, <1>2, <1>3

\* What every step of call c leaves alone, and what its answer must satisfy.
LEMMA StepKeepsAnswersKeyed ==
    ASSUME SoundInv, NEW c \in Calls, CallKept,
           \A d \in Calls \ {c} : reply'[d] = reply[d],
           \/ reply'[c] = reply[c]
           \/ reply'[c].status # 200
           \/ /\ graph_arg[c] \in Graphs /\ reply'[c].doc \in Docs
              /\ KeyOf(reply'[c].doc.graph, reply'[c].doc) = CacheKey(c)
              /\ AllInArea(reply'[c].doc.locations)
    PROVE  AnswersKeyed'
<1>1. \A d \in Calls : CacheKey(d)' = CacheKey(d) /\ graph_arg'[d] = graph_arg[d]
  BY DEF CallKept, CacheKey
<1>. QED BY <1>1 DEF SoundInv, AnswersKeyed, AllInArea

LEMMA StepKeepsStoresValidated ==
    ASSUME SoundInv, NEW c \in Calls, CallKept,
           \A d \in Calls \ {c} : pc'[d] = pc[d],
           pc'[c] = "store" => AllInArea(request[c].locations)
    PROVE  StoresValidated'
BY DEF SoundInv, StoresValidated, CallKept

LEMMA StepSound ==
    ASSUME SoundInv, NEW c \in Calls, Step(c)
    PROVE  CacheSound' /\ StoresValidated' /\ AnswersKeyed'
<1> USE DEF SoundInv, TypeInv, TypeOK
<1>1. CASE LookupHit(c)
  <2>1. CacheKey(c) \in Keys /\ graph_arg[c] \in Graphs
    BY <1>1, KeysOfCalls DEF LookupHit, Accepted
  <2>2. Sound(CacheKey(c), redis[CacheKey(c)])
    BY <1>1, <2>1 DEF LookupHit, CacheSound
  <2>3. AnswersKeyed'
    <3>1. reply'[c].doc = redis[CacheKey(c)] /\ redis[CacheKey(c)] \in Docs
      BY <1>1 DEF LookupHit, Answer, Reply
    <3>2. \A d \in Calls \ {c} : reply'[d] = reply[d]
      BY <1>1 DEF LookupHit, Answer
    <3>. QED BY <1>1, <2>1, <2>2, <3>1, <3>2, StepKeepsAnswersKeyed DEF LookupHit, Sound
  <2>. QED BY <1>1, <2>3 DEF LookupHit, Answer, CallKept, CacheSound, StoresValidated, redisVars
<1>2. CASE \/ LookupMiss(c) \/ LookupTruncated(c) \/ LookupForeign(c)
           \/ LookupFails(c) \/ EvictFails(c)
  <2>1. UNCHANGED <<reply, redisVars>> /\ CallKept
    BY <1>2 DEF LookupMiss, LookupTruncated, LookupForeign, LookupFails, EvictFails, GoTo
  <2>2. StoresValidated'
    BY <1>2, <2>1 DEF LookupMiss, LookupTruncated, LookupForeign, LookupFails,
       EvictFails, GoTo, StoresValidated, CallKept
  <2>3. AnswersKeyed'
    BY <2>1, StepKeepsAnswersKeyed
  <2>. QED BY <2>1, <2>2, <2>3 DEF CacheSound, redisVars
<1>3. CASE Evict(c)
  <2>1. UNCHANGED reply /\ CallKept /\ UNCHANGED in_flight
    BY <1>3 DEF Evict, GoTo, Remove
  <2>2. StoresValidated'
    BY <1>3 DEF Evict, GoTo, StoresValidated, CallKept
  <2>3. AnswersKeyed'
    BY <2>1, StepKeepsAnswersKeyed
  <2>4. \A k \in Keys : redis'[k] = redis[k] \/ redis'[k] = Absent
    BY <1>3 DEF Evict, Remove
  <2>. QED BY <2>1, <2>2, <2>3, <2>4, SentinelsAssumption DEF CacheSound
<1>4. CASE ComputeRejects(c) \/ ComputeRaises(c)
  <2>1. UNCHANGED redisVars /\ CallKept /\ reply'[c].status # 200
        /\ \A d \in Calls \ {c} : reply'[d] = reply[d]
    BY <1>4 DEF ComputeRejects, ComputeRaises, Answer, Reply
  <2>2. StoresValidated'
    <3>1. pc' = [pc EXCEPT ![c] = "answered"] /\ CallKept
      BY <1>4 DEF ComputeRejects, ComputeRaises, Answer
    <3>. QED BY <3>1, StepKeepsStoresValidated
  <2>3. AnswersKeyed'
    BY <2>1, StepKeepsAnswersKeyed
  <2>. QED BY <2>1, <2>2, <2>3 DEF CacheSound, redisVars
<1>5. CASE Compute(c)
  <2>1. /\ UNCHANGED redisVars /\ CallKept
        /\ \A d \in Calls \ {c} : reply'[d] = reply[d]
        /\ reply'[c] = reply[c] \/ reply'[c].doc = Payload(c)
        /\ AllInArea(request[c].locations)
    BY <1>5 DEF Compute, Answer, GoTo, Reply
  <2>2. StoresValidated'
    <3>1. AllInArea(request[c].locations)
      BY <1>5 DEF Compute
    <3>2. \E step : pc' = [pc EXCEPT ![c] = step]
      BY <1>5 DEF Compute, Answer, GoTo
    <3>. QED BY <2>1, <3>1, <3>2, StepKeepsStoresValidated
  <2>3. graph_arg[c] \in Graphs /\ Payload(c) \in Docs
    BY <1>5, PayloadsAreDocs DEF Compute, Accepted
  <2>4. AnswersKeyed'
    BY <2>1, <2>3, PayloadsAreKeyed, StepKeepsAnswersKeyed
  <2>. QED BY <2>1, <2>2, <2>4 DEF CacheSound, redisVars
<1>6. CASE Store(c) \/ StoreFails(c)
  <2>1. /\ CallKept
        /\ \A d \in Calls \ {c} : reply'[d] = reply[d]
        /\ reply'[c].doc = Payload(c)
        /\ AllInArea(request[c].locations)
    BY <1>6 DEF Store, StoreFails, Answer, Reply, StoresValidated
  <2>2. StoresValidated'
    <3>1. pc' = [pc EXCEPT ![c] = "answered"]
      BY <1>6 DEF Store, StoreFails, Answer
    <3>. QED BY <2>1, <3>1, StepKeepsStoresValidated
  <2>3. graph_arg[c] \in Graphs /\ Payload(c) \in Docs
    BY <1>6, PayloadsAreDocs DEF Store, StoreFails, Accepted
  <2>4. AnswersKeyed'
    BY <2>1, <2>3, PayloadsAreKeyed, StepKeepsAnswersKeyed
  <2>5. Sound(CacheKey(c), Payload(c))
    BY <1>6, PayloadsAreSound DEF Store, StoreFails, StoresValidated, Accepted
  <2>6. CacheSound'
    <3>1. CASE Store(c)
      <4>1. redis' = [redis EXCEPT ![CacheKey(c)] = Payload(c)] /\ UNCHANGED in_flight
        BY <3>1 DEF Store, SetJson
      <4>. QED BY <2>5, <4>1 DEF CacheSound
    <3>2. CASE StoreFails(c)
      <4>1. redis' = redis /\ in_flight' \subseteq in_flight \cup {SetCommand(c)}
        BY <3>2 DEF StoreFails, ArriveLate
      <4>. QED BY <2>5, <4>1 DEF CacheSound, SetCommand
    <3>. QED BY <1>6, <3>1, <3>2
  <2>. QED BY <2>2, <2>4, <2>6
<1>. QED BY <1>1, <1>2, <1>3, <1>4, <1>5, <1>6 DEF Step

LEMMA EnvironmentSound ==
    ASSUME SoundInv, Environment
    PROVE  CacheSound' /\ StoresValidated' /\ AnswersKeyed'
<1> USE DEF SoundInv, TypeInv, TypeOK
<1>1. ASSUME NEW set \in in_flight, Land(set)
      PROVE  CacheSound' /\ StoresValidated' /\ AnswersKeyed'
  <2>1. redis' = [redis EXCEPT ![set.key] = set.doc] /\ in_flight' \subseteq in_flight
    BY <1>1 DEF Land, SetJson
  <2>2. Sound(set.key, set.doc)
    BY <1>1 DEF CacheSound
  <2>3. CacheSound'
    BY <2>1, <2>2 DEF CacheSound
  <2>. QED BY <1>1, <2>3 DEF Land, callVars, StoresValidated, AnswersKeyed, CacheKey
<1>2. ASSUME NEW k \in Keys, Expire(k) \/ Lose(k)
      PROVE  CacheSound' /\ StoresValidated' /\ AnswersKeyed'
  <2>1. \A j \in Keys : redis'[j] = redis[j] \/ redis'[j] = Absent
    BY <1>2 DEF Expire, Lose, Remove
  <2>2. CacheSound'
    BY <1>2, <2>1, SentinelsAssumption DEF CacheSound, Expire, Lose, Remove
  <2>. QED BY <1>2, <2>2 DEF Expire, Lose, callVars, StoresValidated, AnswersKeyed, CacheKey
<1>3. ASSUME NEW k \in Keys, NEW junk \in {Truncated, Foreign}, Corrupt(k, junk)
      PROVE  CacheSound' /\ StoresValidated' /\ AnswersKeyed'
  <2>1. \A j \in Keys : redis'[j] = redis[j] \/ redis'[j] = junk
    BY <1>3 DEF Corrupt
  <2>2. CacheSound'
    BY <1>3, <2>1, SentinelsAssumption DEF CacheSound, Corrupt
  <2>. QED BY <1>3, <2>2 DEF Corrupt, callVars, StoresValidated, AnswersKeyed, CacheKey
<1>4. ASSUME NEW g \in Graphs, ReplaceFile(g)
      PROVE  CacheSound' /\ StoresValidated' /\ AnswersKeyed'
  BY <1>4 DEF ReplaceFile, redisVars, callVars, CacheSound, StoresValidated, AnswersKeyed, CacheKey
<1>5. ASSUME NEW w \in Workers, Restart(w)
      PROVE  CacheSound' /\ StoresValidated' /\ AnswersKeyed'
  <2>1. PICK started \in SUBSET {c \in CallsOf(w) : pc[c] = "store"} :
           ArriveLate({SetCommand(c) : c \in started})
    BY <1>5 DEF Restart
  <2>2. ASSUME NEW c \in started PROVE Sound(SetCommand(c).key, SetCommand(c).doc)
    BY PayloadsAreSound DEF SetCommand, CallsOf, StoresValidated, Accepted
  <2>3. CacheSound'
    BY <1>5, <2>1, <2>2 DEF CacheSound, ArriveLate, Restart
  <2>4. StoresValidated'
    BY <1>5 DEF Restart, StoresValidated
  <2>. QED BY <1>5, <2>3, <2>4 DEF Restart, AnswersKeyed, CacheKey
<1>. QED BY <1>1, <1>2, <1>3, <1>4, <1>5 DEF Environment

LEMMA NextSound ==
    ASSUME SoundInv, [Next]_vars
    PROVE  SoundInv'
<1>1. TypeInv'
  BY NextTyped DEF SoundInv
<1>2. CASE UNCHANGED vars
  BY <1>1, <1>2 DEF vars, SoundInv, CacheSound, StoresValidated, AnswersKeyed, CacheKey
<1>3. CASE Next
  BY <1>1, <1>3, SubmitSound, StepSound, EnvironmentSound DEF Next, SoundInv
<1>. QED BY <1>2, <1>3

THEOREM SoundAlways == Spec => []SoundInv
BY InitSound, NextSound, PTL DEF Spec

\* Whatever is in Redis under one of our keys, or on its way there, was computed
\* for that key from a request that passed every validation.
THEOREM CacheAlwaysSound == Spec => []CacheSound
BY SoundAlways, PTL DEF SoundInv

---------------------------------------------------------------------------
LEMMA EqualKeys ==
    ASSUME NEW doc, NEW r, NEW g, NEW h,
           KeyOf(g, doc) = KeyOf(h, r)
    PROVE  FileName[g] = FileName[h] /\ Promise!ComputedFor(doc, r)
<1> DEFINE Locs(s) == [i \in DOMAIN s.locations |-> NormalizeLocation(s.locations[i])]
<1>1. FileName[g] = FileName[h] /\ doc.algorithm = r.algorithm /\ Locs(doc) = Locs(r)
  BY DEF KeyOf, BuildMatrixCacheKey
<1>2. DOMAIN doc.locations = DOMAIN r.locations
  BY <1>1
<1>3. ASSUME NEW i \in DOMAIN r.locations
      PROVE  NormalizeLocation(doc.locations[i]) = NormalizeLocation(r.locations[i])
  <2>1. Locs(doc)[i] = Locs(r)[i]
    BY <1>1
  <2>. QED BY <2>1, <1>2
<1>. QED BY <1>1, <1>2, <1>3 DEF Promise!ComputedFor, Promise!NormalizeLocation, NormalizeLocation

\* Every matrix a client gets was computed for the algorithm and, up to the
\* rounding of the cache key, for the locations it asked for, in their order.
THEOREM AnswersFit == Spec => []AnswerFitsRequest
<1>1. SoundInv => AnswerFitsRequest
  BY EqualKeys DEF SoundInv, AnswersKeyed, AnswerFitsRequest, CacheKey
<1>. QED BY <1>1, SoundAlways, PTL

\* If a file name identifies the graph stored under it, no worker ever answers
\* with a matrix of another graph, whatever the other workers store in Redis.
THEOREM AnswersOwnGraph ==
    ASSUME \A g, h \in Graphs : FileName[g] = FileName[h] => g = h
    PROVE  Spec => []AnswerFromOwnGraph
<1>1. SoundInv => AnswerFromOwnGraph
  BY EqualKeys DEF SoundInv, AnswersKeyed, AnswerFromOwnGraph, CacheKey, Docs
<1>. QED BY <1>1, SoundAlways, PTL

LEMMA ElementsOfSeq ==
    ASSUME NEW T, NEW s \in Seq(T)
    PROVE  \A i \in DOMAIN s : s[i] \in T
OBVIOUS

\* As long as rounding merges no location outside the area with one inside, none
\* outside is ever answered with a matrix: the lookup that comes before the
\* validation can only find what was validated.
THEOREM OutsideAlwaysRefused ==
    ASSUME \A p \in Points, q \in InArea : Round6[p] = Round6[q] => p \in InArea
    PROVE  Spec => []OutsideRefused
<1>1. ASSUME SoundInv, NEW c \in Calls, reply[c].status = 200
      PROVE  AllInArea(request[c].locations)
  <2> DEFINE doc == reply[c].doc
             r == request[c]
  <2>1. AllInArea(doc.locations) /\ Promise!ComputedFor(doc, r)
    BY <1>1, EqualKeys DEF SoundInv, AnswersKeyed, CacheKey
  <2>2. r.locations \in Seq([id : Ids, point : Points])
    <3>1. r \in [locations : Locations, algorithm : STRING, use_cache : BOOLEAN]
      BY <1>1, RequestsAssumption DEF SoundInv, TypeInv, TypeOK
    <3>. QED BY <3>1 DEF Locations
  <2>3. ASSUME NEW i \in DOMAIN r.locations
        PROVE  r.locations[i].point \in InArea
    <3>1. doc.locations[i].point \in InArea
      BY <2>1 DEF AllInArea, Promise!ComputedFor
    <3>2. Round6[doc.locations[i].point] = Round6[r.locations[i].point]
      BY <2>1 DEF Promise!ComputedFor, Promise!NormalizeLocation
    <3>3. r.locations[i].point \in Points
      <4>1. r.locations[i] \in [id : Ids, point : Points]
        BY <2>2, ElementsOfSeq
      <4>. QED BY <4>1
    <3>. QED BY <3>1, <3>2, <3>3
  <2>. QED BY <2>3 DEF AllInArea
<1>2. SoundInv => OutsideRefused
  BY <1>1 DEF OutsideRefused
<1>. QED BY <1>2, SoundAlways, PTL

---------------------------------------------------------------------------
(* MatrixService implements MatrixPromise: phase and answer, defined there  *)
(* from pc and reply, take the steps of Ask, Serve and Cut.                *)

\* A call at a round trip with Redis asked for the cache.
CacheAsked ==
    \A c \in Calls : pc[c] \in {"lookup", "evict", "store"} => request[c].use_cache

Pending(c) == pc[c] \notin {"idle", "answered"}

LEMMA InitCacheAsked == Init => CacheAsked
BY DEF Init, CacheAsked

LEMMA NextCacheAsked ==
    ASSUME TypeInv, CacheAsked, [Next]_vars
    PROVE  CacheAsked'
<1> USE DEF TypeInv, TypeOK, CacheAsked
<1>1. ASSUME NEW c \in Calls, NEW w \in Workers, NEW r \in Requests, Submit(c, w, r)
      PROVE  CacheAsked'
  <2>1. \/ pc' = [pc EXCEPT ![c] = "answered"]
        \/ pc' = [pc EXCEPT ![c] = IF r.use_cache THEN "lookup" ELSE "compute"]
    BY <1>1 DEF Submit, Answer
  <2>2. request' = [request EXCEPT ![c] = r]
    BY <1>1 DEF Submit
  <2>. QED BY <2>1, <2>2
<1>2. ASSUME NEW c \in Calls, Step(c)
      PROVE  CacheAsked'
  <2>1. request' = request
    BY <1>2 DEF Step, LookupHit, LookupMiss, LookupTruncated, LookupForeign,
       LookupFails, Evict, EvictFails, ComputeRejects, ComputeRaises, Compute,
       Store, StoreFails, CallKept
  <2>2. \/ pc' = [pc EXCEPT ![c] = "compute"]
        \/ pc' = [pc EXCEPT ![c] = "answered"]
        \/ pc' = [pc EXCEPT ![c] = "evict"] /\ request[c].use_cache
        \/ pc' = [pc EXCEPT ![c] = "store"] /\ request[c].use_cache
    BY <1>2 DEF Step, LookupHit, LookupMiss, LookupTruncated, LookupForeign,
       LookupFails, Evict, EvictFails, ComputeRejects, ComputeRaises, Compute,
       Store, StoreFails, Answer, GoTo, CacheUsable
  <2>. QED BY <2>1, <2>2
<1>3. CASE Environment
  <2>1. request' = request /\ \A c \in Calls : pc'[c] = pc[c] \/ pc'[c] = "idle"
    BY <1>3 DEF Environment, Land, Expire, Lose, Corrupt, ReplaceFile, Restart, callVars
  <2>. QED BY <2>1
<1>4. CASE UNCHANGED vars
  BY <1>4 DEF vars
<1>. QED BY <1>1, <1>2, <1>3, <1>4 DEF Next

---------------------------------------------------------------------------
LEMMA SameRules ==
    /\ \A r : Promise!ValidMatrixRequest(r) = ValidMatrixRequest(r)
    /\ \A locations : Promise!AllInArea(locations) = AllInArea(locations)
    /\ \A g, r : Promise!MayRaise(g, r) = MayRaise(g, r)
    /\ \A g, r : Promise!ResponsePayload(g, r) = ResponsePayload(g, r)
BY DEF Promise!ValidMatrixRequest, ValidMatrixRequest, Promise!AllInArea, AllInArea,
   Promise!MayRaise, MayRaise, Promise!ResponsePayload, ResponsePayload,
   Promise!SUPPORTED_MATRIX_ALGORITHMS, SUPPORTED_MATRIX_ALGORITHMS

LEMMA PhaseOfCalls ==
    ASSUME TypeOK, NEW c \in Calls
    PROVE  phase[c] = "pending" <=> Pending(c)
BY DEF phase, Phase, Pending, TypeOK

\* How the two kinds of steps of a call look to its client.
LEMMA AnswerSeen ==
    ASSUME TypeOK, NEW c \in Calls, NEW response, Answer(c, response)
    PROVE  /\ phase' = [phase EXCEPT ![c] = "answered"]
           /\ answer' = [answer EXCEPT ![c] =
                            [status |-> response.status, doc |-> response.doc]]
<1>1. phase' = [phase EXCEPT ![c] = "answered"]
  <2>1. pc' = [pc EXCEPT ![c] = "answered"] /\ DOMAIN pc = Calls
    BY DEF Answer, TypeOK
  <2>. QED BY <2>1 DEF phase, Phase
<1>2. answer' = [answer EXCEPT ![c] = [status |-> response.status, doc |-> response.doc]]
  <2>1. reply' = [reply EXCEPT ![c] = response] /\ DOMAIN reply = Calls
    BY DEF Answer, TypeOK
  <2>. QED BY <2>1 DEF answer
<1>. QED BY <1>1, <1>2

LEMMA GoToUnseen ==
    ASSUME TypeOK, NEW c \in Calls, Pending(c),
           NEW step \in {"lookup", "evict", "compute", "store"}, GoTo(c, step)
    PROVE  UNCHANGED <<phase, answer>>
BY DEF TypeOK, GoTo, phase, Phase, answer, Pending

LEMMA SubmitAsks ==
    ASSUME TypeInv, NEW c \in Calls, NEW w \in Workers, NEW r \in Requests,
           Submit(c, w, r)
    PROVE  Promise!Next
<1> USE DEF TypeInv
<1>1. graph[w] \in Graphs \cup {NoGraph}
  BY DEF TypeOK
<1>2. phase[c] # "pending"
  BY PhaseOfCalls DEF Submit, Pending
<1>3. /\ request' = [request EXCEPT ![c] = r]
      /\ graph_arg' = [graph_arg EXCEPT ![c] = graph[w]]
  BY DEF Submit
<1>4. Promise!Ask(c, r, graph[w])
  <2>1. CASE Answer(c, Reply(503, NoDoc, FALSE, "none"))
    <3>1. /\ phase' = [phase EXCEPT ![c] = "answered"]
          /\ answer' = [answer EXCEPT ![c] = Promise!Refusal(503)]
      BY <2>1, AnswerSeen DEF Reply, Promise!Refusal
    <3>. QED BY <1>2, <1>3, <3>1 DEF Promise!Ask
  <2>2. CASE ~ValidMatrixRequest(r) /\ Answer(c, Reply(422, NoDoc, FALSE, "none"))
    <3>1. /\ phase' = [phase EXCEPT ![c] = "answered"]
          /\ answer' = [answer EXCEPT ![c] = Promise!Refusal(422)]
      BY <2>2, AnswerSeen DEF Reply, Promise!Refusal
    <3>. QED BY <1>2, <1>3, <2>2, <3>1, SameRules DEF Promise!Ask
  <2>3. CASE /\ Ready(w) /\ ValidMatrixRequest(r)
             /\ pc' = [pc EXCEPT ![c] = IF r.use_cache THEN "lookup" ELSE "compute"]
             /\ reply' = [reply EXCEPT ![c] = NoReply]
    <3>1. graph[w] \in Graphs
      BY <1>1, <2>3 DEF Ready
    <3>2. phase' = [phase EXCEPT ![c] = "pending"]
      BY <2>3 DEF TypeOK, phase, Phase
    <3>3. answer' = [answer EXCEPT ![c] = Promise!NoAnswer]
      BY <2>3 DEF TypeOK, answer, NoReply, Reply, Promise!NoAnswer
    <3>. QED BY <1>2, <1>3, <2>3, <3>1, <3>2, <3>3, SameRules DEF Promise!Ask
  <2>. QED BY <2>1, <2>2, <2>3 DEF Submit
<1>. QED BY <1>1, <1>4 DEF Promise!Next

---------------------------------------------------------------------------
(* The documents of the answers 200.                                       *)

\* A sound document under the key of a request that may use the cache is one
\* of those its client was promised, whichever call computed it.
LEMMA SoundIsGood ==
    ASSUME NEW c \in Calls, NEW doc \in Docs, request[c].use_cache,
           Sound(CacheKey(c), doc)
    PROVE  doc \in Promise!GoodMatrices(graph_arg[c], request[c])
<1>1. /\ FileName[doc.graph] = FileName[graph_arg[c]]
      /\ Promise!ComputedFor(doc, request[c])
  <2>1. KeyOf(doc.graph, doc) = KeyOf(graph_arg[c], request[c])
    BY DEF Sound, CacheKey
  <2>. QED BY <2>1, EqualKeys
<1>2. doc.locations \in [DOMAIN request[c].locations -> [id : Ids, point : InArea]]
  <2>1. doc.locations \in Seq([id : Ids, point : Points])
    BY DEF Docs, Locations
  <2>2. \A i \in DOMAIN doc.locations :
           doc.locations[i] \in [id : Ids, point : Points]
    BY <2>1, ElementsOfSeq
  <2>6. \A i \in DOMAIN doc.locations : doc.locations[i].point \in InArea
    BY DEF Sound, AllInArea
  <2>3. \A i \in DOMAIN doc.locations : doc.locations[i] \in [id : Ids, point : InArea]
    BY <2>2, <2>6
  <2>4. doc.locations = [i \in DOMAIN doc.locations |-> doc.locations[i]]
    BY <2>1
  <2>5. DOMAIN doc.locations = DOMAIN request[c].locations
    BY <1>1 DEF Promise!ComputedFor
  <2>. QED BY <2>3, <2>4, <2>5
<1>3. doc.locations \in Promise!Rephrasings(request[c])
  BY <1>1, <1>2 DEF Promise!Rephrasings, Promise!ComputedFor
<1>4. doc = [graph |-> doc.graph, algorithm |-> request[c].algorithm,
             locations |-> doc.locations]
  BY <1>1 DEF Docs, Promise!ComputedFor
<1>. QED BY <1>1, <1>3, <1>4 DEF Promise!GoodMatrices, Docs

\* So is a matrix computed for the call itself.
LEMMA PayloadIsGood ==
    ASSUME TypeInv, NEW c \in Calls, pc[c] \in {"compute", "store"},
           AllInArea(request[c].locations)
    PROVE  Payload(c) \in Promise!GoodMatrices(graph_arg[c], request[c])
<1>1. graph_arg[c] \in Graphs /\ ValidMatrixRequest(request[c]) /\ request[c] \in Requests
  BY DEF TypeInv, TypeOK, Accepted
<1>2. CASE request[c].use_cache
  BY <1>1, <1>2, PayloadsAreDocs, PayloadsAreSound, SoundIsGood
<1>3. CASE ~request[c].use_cache
  BY <1>3, SameRules DEF Promise!GoodMatrices, Payload, ResponsePayload
<1>. QED BY <1>2, <1>3

\* A step that answers 200 with such a document is a Serve.
LEMMA GoodAnswerServes ==
    ASSUME TypeOK, NEW c \in Calls, Pending(c),
           NEW doc \in Promise!GoodMatrices(graph_arg[c], request[c]),
           NEW hit, NEW error, Answer(c, Reply(200, doc, hit, error)), CallKept
    PROVE  Promise!Serve(c)
<1>1. /\ phase' = [phase EXCEPT ![c] = "answered"]
      /\ answer' = [answer EXCEPT ![c] = [status |-> 200, doc |-> doc]]
  BY AnswerSeen DEF Reply
<1>2. phase[c] = "pending" /\ UNCHANGED <<request, graph_arg>>
  BY PhaseOfCalls DEF CallKept
<1>. QED BY <1>1, <1>2 DEF Promise!Serve

\* So is a refusal the promise allows.
LEMMA RefusalServes ==
    ASSUME TypeOK, NEW c \in Calls, Pending(c), NEW status, NEW error,
           Answer(c, Reply(status, NoDoc, FALSE, error)), CallKept,
           \/ status = 422 /\ ~AllInArea(request[c].locations)
           \/ status = 500 /\ MayRaise(graph_arg[c], request[c])
    PROVE  Promise!Serve(c)
<1>1. /\ phase' = [phase EXCEPT ![c] = "answered"]
      /\ answer' = [answer EXCEPT ![c] = Promise!Refusal(status)]
  BY AnswerSeen DEF Reply, Promise!Refusal
<1>2. phase[c] = "pending" /\ UNCHANGED <<request, graph_arg>>
  BY PhaseOfCalls DEF CallKept
<1>. QED BY <1>1, <1>2, SameRules DEF Promise!Serve

LEMMA StepServes ==
    ASSUME SoundInv, CacheAsked, NEW c \in Calls, Step(c)
    PROVE  Promise!Serve(c) \/ UNCHANGED <<phase, request, graph_arg, answer>>
<1> USE DEF SoundInv, TypeInv
<1>1. CASE LookupHit(c)
  <2>1. Pending(c) /\ request[c].use_cache /\ CacheKey(c) \in Keys
    BY <1>1, KeysOfCalls DEF LookupHit, Pending, CacheAsked, Accepted, TypeOK
  <2>2. Sound(CacheKey(c), redis[CacheKey(c)]) /\ redis[CacheKey(c)] \in Docs
    BY <1>1, <2>1 DEF LookupHit, CacheSound
  <2>3. redis[CacheKey(c)] \in Promise!GoodMatrices(graph_arg[c], request[c])
    BY <2>1, <2>2, SoundIsGood
  <2>. QED BY <1>1, <2>1, <2>3, GoodAnswerServes DEF LookupHit
<1>2. CASE \/ LookupMiss(c) \/ LookupTruncated(c) \/ LookupForeign(c)
           \/ LookupFails(c) \/ Evict(c) \/ EvictFails(c)
  <2>1. Pending(c) /\ (GoTo(c, "compute") \/ GoTo(c, "evict"))
        /\ UNCHANGED <<request, graph_arg>>
    BY <1>2 DEF LookupMiss, LookupTruncated, LookupForeign, LookupFails, Evict,
       EvictFails, Pending, CallKept
  <2>. QED BY <2>1, GoToUnseen
<1>3. CASE ComputeRejects(c)
  BY <1>3, RefusalServes DEF ComputeRejects, Pending
<1>4. CASE ComputeRaises(c)
  BY <1>4, RefusalServes DEF ComputeRaises, Pending
<1>5. CASE Compute(c)
  <2>1. Pending(c) /\ CallKept
    BY <1>5 DEF Compute, Pending
  <2>2. CASE GoTo(c, "store")
    BY <2>1, <2>2, GoToUnseen DEF CallKept
  <2>3. CASE Answer(c, Reply(200, Payload(c), FALSE, cache_error[c]))
    BY <1>5, <2>1, <2>3, PayloadIsGood, GoodAnswerServes DEF Compute
  <2>. QED BY <1>5, <2>2, <2>3 DEF Compute
<1>6. CASE Store(c) \/ StoreFails(c)
  <2>1. Pending(c) /\ CallKept /\ pc[c] = "store"
    BY <1>6 DEF Store, StoreFails, Pending
  <2>2. Payload(c) \in Promise!GoodMatrices(graph_arg[c], request[c])
    BY <2>1, PayloadIsGood DEF StoresValidated
  <2>3. \E error : Answer(c, Reply(200, Payload(c), FALSE, error))
    BY <1>6 DEF Store, StoreFails
  <2>. QED BY <2>1, <2>2, <2>3, GoodAnswerServes
<1>. QED BY <1>1, <1>2, <1>3, <1>4, <1>5, <1>6 DEF Step

---------------------------------------------------------------------------
\* Clients see nothing of Redis and of the other processes, and of a restart
\* only that their calls are cut off.
LEMMA EnvironmentCuts ==
    ASSUME TypeOK, Environment
    PROVE  Promise!Cut \/ UNCHANGED <<phase, request, graph_arg, answer>>
<1>1. CASE UNCHANGED callVars
  BY <1>1 DEF callVars, phase, answer
<1>2. ASSUME NEW w \in Workers, Restart(w) PROVE Promise!Cut
  <2>1. CallsOf(w) \in SUBSET {c \in Calls : phase[c] = "pending"}
    BY PhaseOfCalls DEF CallsOf, Pending
  <2>2. phase' = [c \in Calls |-> IF c \in CallsOf(w) THEN "idle" ELSE phase[c]]
    <3>1. pc' = [c \in Calls |-> IF c \in CallsOf(w) THEN "idle" ELSE pc[c]]
      BY <1>2 DEF Restart
    <3>. QED BY <3>1 DEF phase, Phase
  <2>3. UNCHANGED <<request, graph_arg, answer>>
    BY <1>2 DEF Restart, answer
  <2>. QED BY <2>1, <2>2, <2>3 DEF Promise!Cut
<1>. QED BY <1>1, <1>2 DEF Environment, Land, Expire, Lose, Corrupt, ReplaceFile

LEMMA InitPromised == Init => Promise!Init
BY DEF Init, Promise!Init, phase, Phase, answer, NoReply, Reply, Promise!NoAnswer

LEMMA NextPromised ==
    ASSUME SoundInv, CacheAsked, [Next]_vars
    PROVE  [Promise!Next]_Promise!vars
<1> USE DEF Promise!vars
<1>1. CASE UNCHANGED vars
  BY <1>1 DEF vars, phase, answer
<1>2. ASSUME NEW c \in Calls, NEW w \in Workers, NEW r \in Requests, Submit(c, w, r)
      PROVE  Promise!Next
  BY <1>2, SubmitAsks DEF SoundInv
<1>3. ASSUME NEW c \in Calls, Step(c) PROVE [Promise!Next]_Promise!vars
  BY <1>3, StepServes DEF Promise!Next
<1>4. CASE Environment
  BY <1>4, EnvironmentCuts DEF Promise!Next, SoundInv, TypeInv
<1>. QED BY <1>1, <1>2, <1>3, <1>4 DEF Next

\* What clients see of the service is what MatrixPromise allows, whatever Redis
\* does and however many workers, graphs and calls there are: matrices for the
\* asked algorithm and places, refusals for reasons of the request alone.
THEOREM ImplementsPromise == Spec => Promise!Spec
<1>1. Spec => []CacheAsked
  <2>1. TypeInv /\ CacheAsked /\ [Next]_vars => CacheAsked'
    BY NextCacheAsked
  <2>. QED BY <2>1, InitCacheAsked, TypeCorrect, PTL DEF Spec
<1>2. SoundInv /\ CacheAsked /\ [Next]_vars => [Promise!Next]_Promise!vars
  BY NextPromised
<1>. QED BY <1>1, <1>2, InitPromised, SoundAlways, PTL DEF Spec, Promise!Spec

===========================================================================
