--------------------------- MODULE MatrixPromise ---------------------------
(***************************************************************************)
(* What POST /matrix promises its clients, with no cache in sight.  A call *)
(* is refused at once (503, or 422 for a malformed request) or accepted;   *)
(* an accepted call is answered with a matrix computed for its algorithm   *)
(* and, up to 6 decimals, its locations in their order, on a graph of the  *)
(* same file name; it is rejected only for a location outside the area and *)
(* fails only when the computation itself does.  Trouble with Redis is     *)
(* never a reason.                                                         *)
(***************************************************************************)
EXTENDS MatrixRequests

CONSTANT Calls

VARIABLES
    phase,      \* per call: idle, pending or answered
    request,    \* per call: what was asked
    graph_arg,  \* per call: the graph of the worker that was asked
    answer      \* per call: [status, doc]

vars == <<phase, request, graph_arg, answer>>

NoAnswer == [status |-> 0, doc |-> NoDoc]

Refusal(status) == [status |-> status, doc |-> NoDoc]

\* doc answers r: same algorithm, same ids in the same order, same places.
ComputedFor(doc, r) ==
    /\ doc.algorithm = r.algorithm
    /\ DOMAIN doc.locations = DOMAIN r.locations
    /\ \A i \in DOMAIN r.locations :
          NormalizeLocation(doc.locations[i]) = NormalizeLocation(r.locations[i])

\* Locations inside the area that cannot be told from those of r.
Rephrasings(r) ==
    {locations \in [DOMAIN r.locations -> [id : Ids, point : InArea]] :
        \A i \in DOMAIN r.locations :
            NormalizeLocation(locations[i]) = NormalizeLocation(r.locations[i])}

GoodMatrices(g, r) ==
    IF r.use_cache
    THEN [graph : {h \in Graphs : FileName[h] = FileName[g]},
          algorithm : {r.algorithm}, locations : Rephrasings(r)]
    ELSE {doc \in {ResponsePayload(g, r)} : AllInArea(doc.locations)}

Init ==
    /\ phase = [c \in Calls |-> "idle"]
    /\ request \in [Calls -> Requests]
    /\ graph_arg \in [Calls -> Graphs \cup {NoGraph}]
    /\ answer = [c \in Calls |-> NoAnswer]

Ask(c, r, g) ==
    /\ phase[c] # "pending"
    /\ request' = [request EXCEPT ![c] = r]
    /\ graph_arg' = [graph_arg EXCEPT ![c] = g]
    /\ \/ /\ g \in Graphs /\ ValidMatrixRequest(r)
          /\ phase' = [phase EXCEPT ![c] = "pending"]
          /\ answer' = [answer EXCEPT ![c] = NoAnswer]
       \/ /\ phase' = [phase EXCEPT ![c] = "answered"]
          /\ \/ answer' = [answer EXCEPT ![c] = Refusal(503)]
             \/ /\ ~ValidMatrixRequest(r)
                /\ answer' = [answer EXCEPT ![c] = Refusal(422)]

Serve(c) ==
    /\ phase[c] = "pending"
    /\ phase' = [phase EXCEPT ![c] = "answered"]
    /\ \/ \E doc \in GoodMatrices(graph_arg[c], request[c]) :
             answer' = [answer EXCEPT ![c] = [status |-> 200, doc |-> doc]]
       \/ /\ ~AllInArea(request[c].locations)
          /\ answer' = [answer EXCEPT ![c] = Refusal(422)]
       \/ /\ MayRaise(graph_arg[c], request[c])
          /\ answer' = [answer EXCEPT ![c] = Refusal(500)]
    /\ UNCHANGED <<request, graph_arg>>

\* A worker died: the connections of the calls it was serving are closed.
Cut ==
    /\ \E calls \in SUBSET {c \in Calls : phase[c] = "pending"} :
          phase' = [c \in Calls |-> IF c \in calls THEN "idle" ELSE phase[c]]
    /\ UNCHANGED <<request, graph_arg, answer>>

Next ==
    \/ \E c \in Calls, r \in Requests, g \in Graphs \cup {NoGraph} : Ask(c, r, g)
    \/ \E c \in Calls : Serve(c)
    \/ Cut

Spec == Init /\ [][Next]_vars

\* Every accepted call is answered or cut off.
EveryCallReturns == \A c \in Calls : phase[c] = "pending" ~> phase[c] # "pending"

Promise == Spec /\ EveryCallReturns

===========================================================================
