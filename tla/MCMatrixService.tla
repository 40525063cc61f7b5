------------------------- MODULE MCMatrixService -------------------------
(* Instances of MatrixService for TLC.                                     *)
EXTENDS MatrixService, TLC

CONSTANTS c1, c2, w1, w2, g1, g2, p1, p1x, p2, out2, a, b

MCIds == {a, b}

\* p1x rounds to p1; out2 lies just outside the area and rounds to p2.
MCPoints == {p1, p1x, p2, out2}
MCRound6 == p1x :> p1 @@ p1 :> p1 @@ p2 :> p2 @@ out2 :> p2
SharpRound6 == [p \in MCPoints |-> IF p = p1x THEN p1 ELSE p]
MCInArea == {p1, p1x, p2}

At(id, point) == [id |-> id, point |-> point]
Request(locations, algorithm, use_cache) ==
    [locations |-> locations, algorithm |-> algorithm, use_cache |-> use_cache]

Plain == Request(<<At(a, p1), At(b, p2)>>, "source_dijkstra", TRUE)
OtherAlgorithm == Request(<<At(a, p1), At(b, p2)>>, "astar", TRUE)
Bypass == Request(<<At(a, p1x), At(b, p2)>>, "source_dijkstra", FALSE)
OutsideAstar == Request(<<At(a, p1), At(b, out2)>>, "astar", TRUE)
\* The locations of Plain in the other order, each a little off.
SwappedOut == Request(<<At(b, out2), At(a, p1x)>>, "source_dijkstra", TRUE)
TooShort == Request(<<At(a, p1)>>, "source_dijkstra", TRUE)

KeyRequests == {Plain, SwappedOut}
PlainRequests == {Plain}
EdgeRequests == {OtherAlgorithm, OutsideAstar}
\* Only Bypass may raise: for the others any answer 500 is a broken promise.
PromiseRequests == {OtherAlgorithm, Bypass, OutsideAstar, TooShort}

Interchangeable == Permutations(Calls) \cup Permutations(Workers)

OwnName == [g \in Graphs |-> g]
SameName == [g \in Graphs |-> "kanpur_central.graphml"]
==========================================================================
