----------------------------- MODULE StopOrders -----------------------------
(***************************************************************************)
(* What the three stages of a VRP request share: the distance matrix, the  *)
(* order of the stops and the length of the tour it makes.  Index 0 of the *)
(* matrix is the start; stop s has index s + 1.                            *)
(***************************************************************************)
EXTENDS Integers, Sequences, FiniteSets, SequencesExt

CONSTANTS
    Matrices,   \* what the matrix service may return: numbers of stops and matrices
    None        \* the entry of a pair no road leads from or to

UNREACHABLE_DISTANCE == -1

Points(n) == 0 .. n

ASSUME MatricesAssumption ==
    /\ None \notin Int
    /\ \A m \in Matrices :
          /\ m.stops \in Nat \ {0}
          /\ m.distances \in [Points(m.stops) \X Points(m.stops) -> Nat \cup {None}]

\* The entries are lengths of shortest roads: a point has a road to itself, and
\* roads can be driven one after the other.
ASSUME RoadsAssumption ==
    \A m \in Matrices :
        /\ \A u \in Points(m.stops) : m.distances[<<u, u>>] = 0
        /\ \A u, v, w \in Points(m.stops) :
              m.distances[<<u, v>>] # None /\ m.distances[<<v, w>>] # None =>
                  m.distances[<<u, w>>] # None

VARIABLES
    request,
    stop_count,
    distance_matrix

Stops == 0 .. stop_count - 1

\* _stop_to_matrix_index, _public_to_matrix_order, _matrix_to_public_order
PublicToMatrix(order) == [k \in DOMAIN order |-> order[k] + 1]
MatrixToPublic(order) == [k \in DOMAIN order |-> order[k] - 1]

Reachable(u, v) ==
    distance_matrix[<<u, v>>] \notin {None, UNREACHABLE_DISTANCE}

\* The matrix indices met on the way, with the return to the start if asked for.
Tour(order) ==
    <<0>> \o order \o (IF request.return_to_start THEN <<0>> ELSE <<>>)

Drivable(tour) == \A k \in 1 .. Len(tour) - 1 : Reachable(tour[k], tour[k + 1])

\* The sum of a tour's legs.
TourLength(matrix, tour) ==
    LET Sum[k \in Nat] == IF k < 2 THEN 0 ELSE Sum[k - 1] + matrix[<<tour[k - 1], tour[k]>>]
    IN  Sum[Len(tour)]

\* route_distance_m of an order of matrix indices.
RouteDistance(order) ==
    IF order = <<>> THEN 0
    ELSE IF Drivable(Tour(order)) THEN TourLength(distance_matrix, Tour(order))
                                  ELSE UNREACHABLE_DISTANCE

\* calculate_route_distance_m of an order of stops: UNREACHABLE_DISTANCE stands
\* for the ValueError.
CalculateRouteDistance(order) == RouteDistance(PublicToMatrix(order))

============================================================================
