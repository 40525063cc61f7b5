--------------------------- MODULE MatrixRequests ---------------------------
(***************************************************************************)
(* The data of POST /matrix: requests, locations, the matrices computed    *)
(* from them and the rules that accept or refuse them                      *)
(* (app/models/matrix_model.py, app/utils/geo_validation.py,               *)
(* app/services/matrix_service.py).  A matrix is represented by its        *)
(* provenance: the graph, algorithm and locations it was computed from.    *)
(***************************************************************************)
EXTENDS Naturals, Sequences

CONSTANTS
    Requests,         \* the MatrixRequest bodies clients send
    Ids, Points,      \* location ids; coordinates before rounding
    Round6,           \* [Points -> Points], round(lat, 6) and round(lon, 6)
    InArea,           \* the points validate_coordinates accepts
    Graphs,           \* contents the graph file may have
    NoGraph,          \* app.state.graph is None
    FileName,         \* [Graphs -> file names]: Path(graph_path).name
    NegativeEdge,     \* graphs on which source_dijkstra may raise ValueError
    MaxLocations,     \* settings.matrix_max_locations
    NoDoc             \* an answer without a matrix

SUPPORTED_MATRIX_ALGORITHMS == {"source_dijkstra", "bidirectional_astar", "astar"}

Locations == Seq([id : Ids, point : Points])

Docs == [graph : Graphs, algorithm : SUPPORTED_MATRIX_ALGORITHMS,
         locations : Locations]

ASSUME RequestsAssumption ==
    Requests \subseteq [locations : Locations, algorithm : STRING,
                        use_cache : BOOLEAN]

ASSUME PointsAssumption ==
    /\ Round6 \in [Points -> Points]
    /\ InArea \subseteq Points

ASSUME GraphsAssumption ==
    /\ NoGraph \notin Graphs
    /\ NegativeEdge \subseteq Graphs
    /\ DOMAIN FileName = Graphs

ASSUME MaxLocationsAssumption == MaxLocations \in Nat

ASSUME NoDocAssumption == NoDoc \notin Docs

---------------------------------------------------------------------------
ValidMatrixRequest(r) ==
    /\ Len(r.locations) \in 2 .. MaxLocations
    /\ r.algorithm \in SUPPORTED_MATRIX_ALGORITHMS

\* validate_coordinates on every location, before anything is snapped.
AllInArea(locations) == \A i \in DOMAIN locations : locations[i].point \in InArea

MayRaise(g, r) == g \in NegativeEdge /\ r.algorithm = "source_dijkstra"

\* The response computed for request r on graph g.
ResponsePayload(g, r) ==
    [graph |-> g, algorithm |-> r.algorithm, locations |-> r.locations]

NormalizeLocation(location) ==
    [id |-> location.id, point |-> Round6[location.point]]

===========================================================================
