---------------------------- MODULE MCDispatch ----------------------------
(* An instance of Dispatch for TLC: drivers and orders on a line. *)
EXTENDS Dispatch

PointsOnLine == {0, 1, 4, 5}

\* 5 rounds to 4.
RoundOnLine == [p \in PointsOnLine |-> IF p = 5 THEN 4 ELSE p]

Between(p, q) == IF p < q THEN q - p ELSE p - q

Line == [e \in PointsOnLine \X PointsOnLine |-> Between(e[1], e[2])]

\* Twice the line; the same with a bridge out: no way from 0 to 4 and 5.
TwoRoads ==
    {[e \in DOMAIN Line |-> 2 * Line[e]],
     [e \in DOMAIN Line |-> IF e[1] = 0 /\ e[2] >= 4 THEN None ELSE 2 * Line[e]]}

StripPadding == [i \in {"a", " a", "b", "c", "d", ""} |-> IF i = " a" THEN "a" ELSE i]

Driver(id, at, load, capacity) ==
    [id |-> id, at |-> at, current_load |-> load, max_capacity |-> capacity]
Order(id, at) == [id |-> id, at |-> at]

Request(ds, os, algorithm, cached, load_penalty, slot_penalty) ==
    [drivers |-> ds, orders |-> os, matrix_algorithm |-> algorithm,
     use_cache |-> cached, load_penalty_m |-> load_penalty, slot_penalty_m |-> slot_penalty]

Two == <<Order("c", 1), Order("d", 4)>>
Three == Two \o <<Order("a", 0)>>
Crossing == <<Order("c", 4), Order("d", 5), Order("a", 1)>>

A == Driver("a", 0, 0, 2)
B == Driver("b", 1, 1, 2)

\* More slots than orders and fewer, penalties that make the nearest slot a bad
\* choice, two drivers in either order, a
\* driver who stands at almost the same place, who is full or overloaded, ids
\* that agree once they are stripped or are empty.
SentRequests ==
    {Request(<<A, B>>, Two, "source_dijkstra", TRUE, 0, 0),
     Request(<<A, B>>, Two, "source_dijkstra", TRUE, 3, 1),
     Request(<<A, B>>, Two, "source_dijkstra", TRUE, 0, 4),
     Request(<<B, A>>, Two, "source_dijkstra", TRUE, 0, 1),
     Request(<<Driver("a", 4, 0, 2), B>>, Two, "haversine", TRUE, 0, 0),
     Request(<<Driver("a", 5, 0, 2), B>>, Two, "haversine", TRUE, 0, 0),
     Request(<<A, Driver("b", 4, 0, 2)>>, Crossing, "haversine", FALSE, 0, 4),
     Request(<<B>>, Three, "source_dijkstra", FALSE, 0, 0),
     Request(<<Driver("a", 4, 2, 2), B>>, Two, "haversine", FALSE, 0, 0),
     Request(<<Driver("a", 4, 2, 2)>>, Two, "haversine", FALSE, 0, 0),
     Request(<<Driver("a", 4, 3, 2), B>>, Two, "haversine", FALSE, 0, 0),
     Request(<<A, Driver(" a", 4, 0, 1)>>, Two, "haversine", FALSE, 0, 0),
     Request(<<Driver("", 4, 0, 1)>>, Two, "haversine", FALSE, 0, 0)}
============================================================================
