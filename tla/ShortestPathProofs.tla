------------------------- MODULE ShortestPathProofs -------------------------
(***************************************************************************)
(* The three searches return shortest distances on any graph that the      *)
(* straight line is consistent with.  Each settles the least entry of a    *)
(* heap ordered by cost plus a potential h, which is zero for the          *)
(* multi-target search and counted in halves by the bidirectional one: the *)
(* argument is made once, about such a Frontier that grows from one side.  *)
(***************************************************************************)
EXTENDS RouteCalls, Foundations, SequenceTheorems, TLAPS

Units == {1, 2}

\* A cost in the units of a heap's priorities.
Scaled(unit, cost) == IF unit = 2 THEN 2 * cost ELSE cost

\* p is a road that leaves a side's root, d[i] the distance to its i-th node.
IsRoad(side, n, p, d) ==
    /\ n \in Nat \ {0}
    /\ p \in [1 .. n -> Nodes] /\ d \in [1 .. n -> Nat]
    /\ p[1] = Root(side) /\ d[1] = 0
    /\ \A i \in 1 .. n - 1 :
          /\ p[i + 1] \in Neighbours(side, p[i])
          /\ d[i + 1] = d[i] + EdgeLength(side, p[i], p[i + 1])

RoadTo(side, v, length) == \E n, p, d : IsRoad(side, n, p, d) /\ p[n] = v /\ d[n] = length

Shortest(side, v, length) ==
    /\ RoadTo(side, v, length)
    /\ \A n, p, d : IsRoad(side, n, p, d) /\ p[n] = v => length <= d[n]

Unreachable(side, v) == \A n, p, d : IsRoad(side, n, p, d) => p[n] # v

Potential(side, unit, h) ==
    /\ h \in [Nodes -> Int]
    /\ \A u \in Nodes : \A v \in Neighbours(side, u) :
          h[u] <= Scaled(unit, EdgeLength(side, u, v)) + h[v]

---------------------------------------------------------------------------
CostsTyped(side, cost, settled, entries) ==
    /\ DOMAIN cost \subseteq Nodes
    /\ cost \in [DOMAIN cost -> Nat]
    /\ settled \subseteq DOMAIN cost
    /\ entries \subseteq [priority : Int, node : DOMAIN cost]
    /\ Root(side) \in DOMAIN cost /\ cost[Root(side)] = 0

\* A cost is the length of a road, the least one once the node is settled.
CostsAreRoads(side, cost, settled) ==
    /\ \A v \in DOMAIN cost : RoadTo(side, v, cost[v])
    /\ \A v \in settled : Shortest(side, v, cost[v])

\* An unsettled node's current cost is in the heap.
Queued(unit, cost, settled, entries, h) ==
    \A v \in DOMAIN cost \ settled : Entry(Scaled(unit, cost[v]) + h[v], v) \in entries

\* Entries may be stale but never too early: costs only fall.
NotEarly(unit, cost, entries, h) ==
    \A e \in entries : Scaled(unit, cost[e.node]) + h[e.node] <= e.priority

\* Nothing in the heap comes before a settled node.
SettledBefore(unit, cost, settled, entries, h) ==
    \A u \in settled : \A e \in entries : Scaled(unit, cost[u]) + h[u] <= e.priority

SettledRelaxed(side, cost, settled) ==
    \A u \in settled : \A v \in Neighbours(side, u) :
        v \in DOMAIN cost /\ cost[v] <= cost[u] + EdgeLength(side, u, v)

Frontier(side, unit, cost, settled, entries, h) ==
    /\ CostsTyped(side, cost, settled, entries)
    /\ CostsAreRoads(side, cost, settled)
    /\ NotEarly(unit, cost, entries, h)
    /\ SettledBefore(unit, cost, settled, entries, h)
    /\ SettledRelaxed(side, cost, settled)

---------------------------------------------------------------------------
LEMMA EdgeLengthNat ==
  ASSUME graph \in RoadGraphs, NEW side \in Sides, NEW u \in Nodes,
         NEW v \in Neighbours(side, u)
  PROVE  /\ v \in Nodes
         /\ EdgeLength(side, u, v) \in Nat
         /\ Crow[<<u, v>>] <= EdgeLength(side, u, v)
  <1>1. graph \in [Roads -> Nat \cup {NoRoad}]
    BY RoadGraphsAssumption
  <1>2. ASSUME NEW a \in Nodes, NEW b \in Successors(a)
        PROVE  b \in Nodes /\ Length(a, b) \in Nat /\ Crow[<<a, b>>] <= Length(a, b)
    <2>1. b \in Nodes /\ <<a, b>> \in Roads /\ Length(a, b) # NoRoad
      BY DEF Successors
    <2>2. Length(a, b) \in Nat
      BY <1>1, <2>1 DEF Length
    <2>3. Crow[<<a, b>>] <= Length(a, b)
      BY <2>1, CrowAssumption DEF Length
    <2> QED BY <2>1, <2>2, <2>3
  <1>3. CASE side = "forward"
    BY <1>2, <1>3 DEF Neighbours, EdgeLength
  <1>4. CASE side = "backward"
    <2>1. v \in Nodes /\ u \in Successors(v)
      BY <1>4 DEF Neighbours, Predecessors, Successors
    <2>2. EdgeLength(side, u, v) \in Nat /\ Crow[<<v, u>>] <= EdgeLength(side, u, v)
      BY <1>2, <1>4, <2>1 DEF EdgeLength
    <2> QED BY <2>1, <2>2, CrowAssumption
  <1> QED BY <1>3, <1>4 DEF Sides

\* A road goes on along any edge.
LEMMA ExtendRoad ==
  ASSUME graph \in RoadGraphs, NEW side \in Sides, NEW u \in Nodes, NEW length \in Nat,
         RoadTo(side, u, length), NEW v \in Neighbours(side, u)
  PROVE  RoadTo(side, v, length + EdgeLength(side, u, v))
  <1>1. PICK n, p, d : IsRoad(side, n, p, d) /\ p[n] = u /\ d[n] = length
    BY DEF RoadTo
  <1>2. v \in Nodes /\ length + EdgeLength(side, u, v) \in Nat
    <2>1. v \in Nodes /\ EdgeLength(side, u, v) \in Nat
      BY EdgeLengthNat
    <2> QED BY <2>1
  <1> DEFINE m == n + 1
             q == [i \in 1 .. m |-> IF i = m THEN v ELSE p[i]]
             c == [i \in 1 .. m |-> IF i = m THEN length + EdgeLength(side, u, v) ELSE d[i]]
  <1>3. n \in Nat \ {0} /\ m \in Nat \ {0} /\ n # m /\ 1 # m
    BY <1>1 DEF IsRoad
  <1>4. \A i \in 1 .. n : /\ i \in 1 .. m /\ i # m
                          /\ p[i] \in Nodes /\ d[i] \in Nat
    BY <1>1, <1>3 DEF IsRoad
  <1>5. \A i \in 1 .. n : q[i] = p[i] /\ c[i] = d[i]
    BY <1>4
  <1>6. q[m] = v /\ c[m] = length + EdgeLength(side, u, v)
    BY <1>3
  <1>7. q \in [1 .. m -> Nodes] /\ c \in [1 .. m -> Nat]
    <2>1. \A i \in 1 .. m : i = m \/ i \in 1 .. n
      BY <1>3
    <2>2. \A i \in 1 .. m : q[i] \in Nodes /\ c[i] \in Nat
      BY <1>2, <1>4, <1>5, <1>6, <2>1
    <2> QED BY <2>2
  <1>8. q[1] = Root(side) /\ c[1] = 0
    <2>1. 1 \in 1 .. n
      BY <1>3
    <2> QED BY <1>1, <1>5, <2>1 DEF IsRoad
  <1>9. ASSUME NEW i \in 1 .. m - 1
        PROVE  q[i + 1] \in Neighbours(side, q[i]) /\ c[i + 1] = c[i] + EdgeLength(side, q[i], q[i + 1])
    <2>1. CASE i = n
      <3>1. n \in 1 .. n /\ i + 1 = m
        BY <1>3, <2>1
      <3>2. q[i] = u /\ c[i] = length /\ q[i + 1] = v /\ c[i + 1] = length + EdgeLength(side, u, v)
        BY <1>1, <1>5, <1>6, <2>1, <3>1
      <3> QED BY <3>2
    <2>2. CASE i # n
      <3>1. i \in 1 .. n - 1 /\ i \in 1 .. n /\ i + 1 \in 1 .. n
        BY <1>3, <2>2
      <3>2. q[i] = p[i] /\ c[i] = d[i] /\ q[i + 1] = p[i + 1] /\ c[i + 1] = d[i + 1]
        BY <1>5, <3>1
      <3> QED BY <1>1, <3>1, <3>2 DEF IsRoad
    <2> QED BY <2>1, <2>2
  <1> HIDE DEF m, q, c
  <1>10. IsRoad(side, m, q, c)
    BY <1>3, <1>7, <1>8, <1>9 DEF IsRoad
  <1> QED BY <1>6, <1>10 DEF RoadTo

\* As long as a road runs through settled nodes the costs do not exceed the
\* distances along it.
LEMMA SettledPrefix ==
  ASSUME graph \in RoadGraphs, NEW side \in Sides, NEW cost, NEW settled, NEW entries,
         CostsTyped(side, cost, settled, entries), SettledRelaxed(side, cost, settled),
         NEW n, NEW p, NEW d, IsRoad(side, n, p, d), NEW m \in 1 .. n,
         \A i \in 1 .. m - 1 : p[i] \in settled
  PROVE  p[m] \in DOMAIN cost /\ cost[p[m]] <= d[m]
  <1> DEFINE S == {k \in 1 .. m : ~(p[k] \in DOMAIN cost /\ cost[p[k]] <= d[k])}
  <1>1. n \in Nat \ {0} /\ m \in 1 .. m /\ S \in SUBSET Nat
    BY DEF IsRoad
  <1>2. SUFFICES ASSUME S # {} PROVE FALSE
    BY <1>1
  <1>3. PICK k \in S : \A j \in S : k <= j
    <2> HIDE DEF S
    <2> QED BY <1>1, <1>2, LeastElement
  <1>4. k \in 1 .. m /\ k \in 1 .. n /\ ~(p[k] \in DOMAIN cost /\ cost[p[k]] <= d[k])
    BY <1>1
  <1>5. CASE k = 1
    BY <1>4, <1>5 DEF IsRoad, CostsTyped
  <1>6. CASE k # 1
    <2>1. /\ k - 1 \in 1 .. m - 1 /\ k - 1 \in 1 .. m /\ k - 1 \in 1 .. n - 1
          /\ (k - 1) + 1 = k /\ ~(k <= k - 1)
      BY <1>1, <1>4, <1>6
    <2>2. k - 1 \notin S
      BY <1>3, <2>1
    <2>3. p[k - 1] \in DOMAIN cost /\ cost[p[k - 1]] <= d[k - 1]
      BY <2>1, <2>2
    <2>4. p[k] \in Neighbours(side, p[k - 1]) /\ d[k] = d[k - 1] + EdgeLength(side, p[k - 1], p[k])
      BY <2>1 DEF IsRoad
    <2>5. p[k] \in DOMAIN cost /\ cost[p[k]] <= cost[p[k - 1]] + EdgeLength(side, p[k - 1], p[k])
      BY <2>1, <2>4 DEF SettledRelaxed
    <2>6. p[k - 1] \in Nodes /\ d[k - 1] \in Nat
      BY <2>1 DEF IsRoad
    <2>7. EdgeLength(side, p[k - 1], p[k]) \in Nat
      BY <2>4, <2>6, EdgeLengthNat
    <2>8. cost[p[k - 1]] \in Nat /\ cost[p[k]] \in Nat
      BY <2>3, <2>5 DEF CostsTyped
    <2> QED BY <1>4, <2>3, <2>4, <2>5, <2>6, <2>7, <2>8
  <1> QED BY <1>5, <1>6

\* The rest of a road is at least as long as the potential promises.
LEMMA RestOfRoad ==
  ASSUME graph \in RoadGraphs, NEW side \in Sides, NEW unit \in Units,
         NEW h, Potential(side, unit, h),
         NEW n, NEW p, NEW d, IsRoad(side, n, p, d), NEW m \in 1 .. n
  PROVE  \A k \in m .. n : Scaled(unit, d[m]) + h[p[m]] <= Scaled(unit, d[k]) + h[p[k]]
  <1> DEFINE S == {k \in m .. n : ~(Scaled(unit, d[m]) + h[p[m]] <= Scaled(unit, d[k]) + h[p[k]])}
  <1>1. n \in Nat \ {0} /\ \A k \in 1 .. n : p[k] \in Nodes /\ d[k] \in Nat
    BY DEF IsRoad
  <1>2. \A k \in 1 .. n : h[p[k]] \in Int
    BY <1>1 DEF Potential
  <1>3. SUFFICES ASSUME S # {} PROVE FALSE
    OBVIOUS
  <1>4. S \in SUBSET Nat
    BY <1>1
  <1>5. PICK k \in S : \A j \in S : k <= j
    <2> HIDE DEF S
    <2> QED BY <1>3, <1>4, LeastElement
  <1>6. k \in m .. n /\ k \in 1 .. n /\ ~(Scaled(unit, d[m]) + h[p[m]] <= Scaled(unit, d[k]) + h[p[k]])
    BY <1>1
  <1>7. k # m
    BY <1>1, <1>2, <1>6 DEF Scaled
  <1>8. /\ k - 1 \in m .. n /\ k - 1 \in 1 .. n /\ k - 1 \in 1 .. n - 1
        /\ (k - 1) + 1 = k /\ ~(k <= k - 1)
    BY <1>1, <1>6, <1>7
  <1>9. Scaled(unit, d[m]) + h[p[m]] <= Scaled(unit, d[k - 1]) + h[p[k - 1]]
    BY <1>5, <1>8
  <1>10. p[k] \in Neighbours(side, p[k - 1]) /\ d[k] = d[k - 1] + EdgeLength(side, p[k - 1], p[k])
    BY <1>8 DEF IsRoad
  <1>11. h[p[k - 1]] <= Scaled(unit, EdgeLength(side, p[k - 1], p[k])) + h[p[k]]
    BY <1>1, <1>8, <1>10 DEF Potential
  <1>12. EdgeLength(side, p[k - 1], p[k]) \in Nat
    BY <1>1, <1>8, <1>10, EdgeLengthNat
  <1>13. /\ d[m] \in Nat /\ d[k] \in Nat /\ d[k - 1] \in Nat
         /\ h[p[m]] \in Int /\ h[p[k]] \in Int /\ h[p[k - 1]] \in Int
    BY <1>1, <1>2, <1>6, <1>8
  <1> QED BY <1>6, <1>9, <1>10, <1>11, <1>12, <1>13 DEF Scaled

\* Roads only get longer: the potential may be zero.
Zero == [v \in Nodes |-> 0]

LEMMA ZeroPotential ==
  ASSUME graph \in RoadGraphs, NEW side \in Sides
  PROVE  Potential(side, 1, Zero)
  <1>1. \A u \in Nodes : \A v \in Neighbours(side, u) : v \in Nodes /\ EdgeLength(side, u, v) \in Nat
    BY EdgeLengthNat
  <1> QED BY <1>1 DEF Potential, Zero, Scaled

LEMMA RoadsLengthen ==
  ASSUME graph \in RoadGraphs, NEW side \in Sides, NEW n, NEW p, NEW d, IsRoad(side, n, p, d)
  PROVE  \A i \in 1 .. n : \A j \in i .. n : d[i] <= d[j]
  <1> TAKE i \in 1 .. n
  <1> TAKE j \in i .. n
  <1>1. Scaled(1, d[i]) + Zero[p[i]] <= Scaled(1, d[j]) + Zero[p[j]]
    <2> HIDE DEF Zero
    <2> QED BY ZeroPotential, RestOfRoad DEF Units
  <1>2. /\ n \in Nat /\ j \in 1 .. n /\ d[i] \in Nat /\ d[j] \in Nat
        /\ p[i] \in Nodes /\ p[j] \in Nodes
    BY DEF IsRoad
  <1> QED BY <1>1, <1>2 DEF Scaled, Zero

\* A road to an unsettled node leaves the settled nodes somewhere.
LEMMA FirstUnsettled ==
  ASSUME NEW side, NEW settled, NEW n, NEW p, NEW d, IsRoad(side, n, p, d), p[n] \notin settled
  PROVE  \E m \in 1 .. n : p[m] \notin settled /\ \A i \in 1 .. m - 1 : p[i] \in settled
  <1> DEFINE S == {k \in 1 .. n : p[k] \notin settled}
  <1>1. n \in Nat \ {0}
    BY DEF IsRoad
  <1>2. n \in S /\ S \in SUBSET Nat
    BY <1>1
  <1>3. PICK m \in S : \A j \in S : m <= j
    <2> HIDE DEF S
    <2> QED BY <1>2, LeastElement
  <1>4. \A i \in 1 .. m - 1 : i \in 1 .. n /\ ~(m <= i)
    BY <1>1, <1>3
  <1> QED BY <1>3, <1>4

---------------------------------------------------------------------------
\* The neighbours of u whose cost falls when u is settled, and the new costs.
Falling(side, cost, settled, u) ==
    {v \in Neighbours(side, u) \ (settled \cup {u}) :
        Improves(cost[u] + EdgeLength(side, u, v), cost, v)}

NewCosts(side, cost, settled, u) ==
    Overwrite(cost, [v \in Falling(side, cost, settled, u) |-> cost[u] + EdgeLength(side, u, v)])

NewHeap(side, unit, cost, settled, entries, h, entry) ==
    (entries \ {entry}) \cup
        {Entry(Scaled(unit, cost[entry.node] + EdgeLength(side, entry.node, v)) + h[v], v) :
            v \in Falling(side, cost, settled, entry.node)}

\* The head of the heap, if its node is not settled, carries the current cost,
\* and no road to that node is shorter: the road's first unsettled node is in
\* the heap, and not before it.
LEMMA HeadShortest ==
  ASSUME graph \in RoadGraphs, NEW side \in Sides, NEW unit \in Units,
         NEW h, Potential(side, unit, h),
         NEW cost, NEW settled, NEW entries,
         Frontier(side, unit, cost, settled, entries, h), Queued(unit, cost, settled, entries, h),
         NEW entry \in Least(entries), entry.node \notin settled
  PROVE  /\ entry.node \in DOMAIN cost
         /\ entry.priority = Scaled(unit, cost[entry.node]) + h[entry.node]
         /\ Shortest(side, entry.node, cost[entry.node])
  <1> DEFINE u == entry.node
  <1>1. /\ entry \in entries /\ \A e \in entries : entry.priority <= e.priority
        /\ u \in DOMAIN cost /\ u \in Nodes /\ entry.priority \in Int
        /\ cost[u] \in Nat /\ h[u] \in Int
    BY DEF Least, Frontier, CostsTyped, Potential
  <1>2. Entry(Scaled(unit, cost[u]) + h[u], u) \in entries
    BY <1>1 DEF Queued
  <1>3. entry.priority <= Scaled(unit, cost[u]) + h[u]
    BY <1>1, <1>2 DEF Entry
  <1>4. Scaled(unit, cost[u]) + h[u] <= entry.priority
    BY <1>1 DEF Frontier, NotEarly
  <1>5. entry.priority = Scaled(unit, cost[u]) + h[u]
    BY <1>1, <1>3, <1>4 DEF Scaled
  <1>6. ASSUME NEW n, NEW p, NEW d, IsRoad(side, n, p, d), p[n] = u
        PROVE  cost[u] <= d[n]
    <2>1. PICK m \in 1 .. n : p[m] \notin settled /\ \A i \in 1 .. m - 1 : p[i] \in settled
      BY <1>6, FirstUnsettled
    <2>2. p[m] \in DOMAIN cost /\ cost[p[m]] <= d[m]
      BY <1>6, <2>1, SettledPrefix DEF Frontier
    <2>3. Entry(Scaled(unit, cost[p[m]]) + h[p[m]], p[m]) \in entries
      BY <2>1, <2>2 DEF Queued
    <2>4. Scaled(unit, cost[u]) + h[u] <= Scaled(unit, cost[p[m]]) + h[p[m]]
      BY <1>1, <1>5, <2>3 DEF Entry
    <2>5. Scaled(unit, d[m]) + h[p[m]] <= Scaled(unit, d[n]) + h[u]
      <3>1. n \in m .. n
        BY <1>6 DEF IsRoad
      <3> QED BY <1>6, <3>1, RestOfRoad
    <2>6. /\ h[p[m]] \in Int /\ d[m] \in Nat /\ d[n] \in Nat /\ cost[p[m]] \in Nat
      BY <1>6, <2>2 DEF IsRoad, Potential, Frontier, CostsTyped
    <2> QED BY <1>1, <2>2, <2>4, <2>5, <2>6 DEF Scaled
  <1>7. RoadTo(side, u, cost[u])
    BY <1>1 DEF Frontier, CostsAreRoads
  <1> QED BY <1>1, <1>5, <1>6, <1>7 DEF Shortest

\* When the heap is empty no road leads to an unsettled node.
LEMMA EmptyHeap ==
  ASSUME graph \in RoadGraphs, NEW side \in Sides, NEW unit \in Units, NEW h, NEW cost, NEW settled,
         Frontier(side, unit, cost, settled, {}, h), Queued(unit, cost, settled, {}, h),
         NEW v, v \notin settled
  PROVE  Unreachable(side, v)
  <1>1. SUFFICES ASSUME NEW n, NEW p, NEW d, IsRoad(side, n, p, d), p[n] = v
                 PROVE  FALSE
    BY DEF Unreachable
  <1>2. PICK m \in 1 .. n : p[m] \notin settled /\ \A i \in 1 .. m - 1 : p[i] \in settled
    BY <1>1, FirstUnsettled
  <1>3. p[m] \in DOMAIN cost
    BY <1>1, <1>2, SettledPrefix DEF Frontier
  <1> QED BY <1>2, <1>3 DEF Queued

\* What settling u does to the costs.
CostsFallen(side, cost, settled, u, new) ==
    LET falling == Falling(side, cost, settled, u)
    IN  /\ DOMAIN new = DOMAIN cost \cup falling
        /\ DOMAIN new \subseteq Nodes
        /\ new \in [DOMAIN new -> Nat]
        /\ \A v \in falling :
              /\ v \in Neighbours(side, u) \ (settled \cup {u})
              /\ new[v] = cost[u] + EdgeLength(side, u, v)
        /\ \A v \in DOMAIN cost \ falling : new[v] = cost[v]
        /\ \A v \in DOMAIN cost : new[v] <= cost[v]
        /\ \A v \in Neighbours(side, u) \ (settled \cup {u}) :
              v \in DOMAIN new /\ new[v] <= cost[u] + EdgeLength(side, u, v)

LEMMA CostsFall ==
  ASSUME graph \in RoadGraphs, NEW side \in Sides, NEW cost, NEW settled, NEW entries,
         CostsTyped(side, cost, settled, entries), NEW u \in DOMAIN cost
  PROVE  CostsFallen(side, cost, settled, u, NewCosts(side, cost, settled, u))
  <1> DEFINE F == Falling(side, cost, settled, u)
             tentative(v) == cost[u] + EdgeLength(side, u, v)
             new == NewCosts(side, cost, settled, u)
  <1>1. \A v \in Neighbours(side, u) : v \in Nodes /\ tentative(v) \in Nat
    <2>1. u \in Nodes /\ cost[u] \in Nat
      BY DEF CostsTyped
    <2>2. \A v \in Neighbours(side, u) : v \in Nodes /\ EdgeLength(side, u, v) \in Nat
      BY <2>1, EdgeLengthNat
    <2> QED BY <2>1, <2>2
  <1>2. \A v \in F :
            /\ v \in Neighbours(side, u) \ (settled \cup {u})
            /\ v \in Nodes
            /\ tentative(v) \in Nat
            /\ v \in DOMAIN cost => tentative(v) < cost[v]
    <2>1. \A v \in F :
              /\ v \in Neighbours(side, u) \ (settled \cup {u})
              /\ v \in DOMAIN cost => tentative(v) < cost[v]
      BY DEF Falling, Improves
    <2> HIDE DEF F, tentative
    <2> QED BY <1>1, <2>1
  <1>3. \A v \in (Neighbours(side, u) \ (settled \cup {u})) \ F :
           v \in DOMAIN cost /\ ~(tentative(v) < cost[v])
    BY DEF Falling, Improves
  <1>4. new = [v \in DOMAIN cost \cup F |-> IF v \in F THEN tentative(v) ELSE cost[v]]
    BY DEF NewCosts, Overwrite
  <1>5. \A v \in DOMAIN cost : v \in Nodes /\ cost[v] \in Nat
    BY DEF CostsTyped
  <1>6. /\ DOMAIN new = DOMAIN cost \cup F
        /\ \A v \in F : new[v] = tentative(v)
        /\ \A v \in DOMAIN cost \ F : new[v] = cost[v]
    <2> HIDE DEF F, tentative, new
    <2> QED BY <1>4
  <1>7. \A v \in DOMAIN new : v \in Nodes /\ new[v] \in Nat
    <2> HIDE DEF F, tentative, new
    <2>1. \A v \in F : v \in Nodes /\ new[v] \in Nat
      BY <1>1, <1>2, <1>4, <1>6
    <2>2. \A v \in DOMAIN cost \ F : v \in Nodes /\ new[v] \in Nat
      BY <1>5, <1>4, <1>6
    <2> QED BY <1>6, <2>1, <2>2
  <1>8. new \in [DOMAIN new -> Nat]
    <2> HIDE DEF F, tentative, new
    <2> QED BY <1>4, <1>6, <1>7
  <1>9. \A v \in DOMAIN cost : new[v] <= cost[v]
    <2> HIDE DEF F, tentative, new
    <2>1. \A v \in DOMAIN cost \cap F : new[v] <= cost[v]
      BY <1>1, <1>2, <1>5, <1>4, <1>6
    <2>2. \A v \in DOMAIN cost \ F : new[v] <= cost[v]
      BY <1>5, <1>4, <1>6
    <2> QED BY <2>1, <2>2
  <1>10. \A v \in Neighbours(side, u) \ (settled \cup {u}) :
            v \in DOMAIN new /\ new[v] <= tentative(v)
    <2> HIDE DEF F, tentative, new
    <2>1. \A v \in F : v \in DOMAIN new /\ new[v] <= tentative(v)
      BY <1>1, <1>2, <1>4, <1>6
    <2>2. \A v \in (Neighbours(side, u) \ (settled \cup {u})) \ F :
             v \in DOMAIN new /\ new[v] <= tentative(v)
      BY <1>1, <1>3, <1>5, <1>4, <1>6
    <2> QED BY <2>1, <2>2
  <1> QED
    <2>1. DOMAIN new \subseteq Nodes
      BY <1>7
    <2> HIDE DEF new
    <2>2. CostsFallen(side, cost, settled, u, new)
      BY <1>2, <1>6, <1>8, <1>9, <1>10, <2>1 DEF CostsFallen
    <2> QED BY <2>2 DEF new

\* Settling the head's node keeps all of it.
LEMMA SettleKeeps ==
  ASSUME graph \in RoadGraphs, NEW side \in Sides, NEW unit \in Units,
         NEW h, Potential(side, unit, h),
         NEW cost, NEW settled, NEW entries,
         Frontier(side, unit, cost, settled, entries, h), Queued(unit, cost, settled, entries, h),
         NEW entry \in Least(entries), entry.node \notin settled
  PROVE  LET new == NewCosts(side, cost, settled, entry.node)
             now == settled \cup {entry.node}
             queue == NewHeap(side, unit, cost, settled, entries, h, entry)
         IN  Frontier(side, unit, new, now, queue, h) /\ Queued(unit, new, now, queue, h)
  <1> DEFINE u == entry.node
             F == Falling(side, cost, settled, u)
             new == NewCosts(side, cost, settled, u)
             now == settled \cup {u}
             queue == NewHeap(side, unit, cost, settled, entries, h, entry)
  <1>1. /\ u \in DOMAIN cost /\ u \in Nodes /\ u \notin settled
        /\ entry.priority = Scaled(unit, cost[u]) + h[u]
        /\ Shortest(side, u, cost[u])
        /\ entry \in entries /\ \A e \in entries : entry.priority <= e.priority
    BY HeadShortest DEF Least, Frontier, CostsTyped
  <1>2. /\ CostsTyped(side, cost, settled, entries)
        /\ CostsAreRoads(side, cost, settled)
        /\ NotEarly(unit, cost, entries, h)
        /\ SettledBefore(unit, cost, settled, entries, h)
        /\ SettledRelaxed(side, cost, settled)
    BY DEF Frontier
  <1>3. CostsFallen(side, cost, settled, u, new)
    BY <1>1, <1>2, CostsFall
  <1>4. \A v \in Neighbours(side, u) : v \in Nodes /\ EdgeLength(side, u, v) \in Nat
    BY <1>1, EdgeLengthNat
  <1>5. \A e : e \in queue <=> \/ e \in entries /\ e # entry
                               \/ \E v \in F :
                                      e = Entry(Scaled(unit, cost[u] + EdgeLength(side, u, v)) + h[v], v)
    BY DEF NewHeap
  <1> HIDE DEF F, new, now, queue
  <1>6. /\ DOMAIN new = DOMAIN cost \cup F
        /\ DOMAIN new \subseteq Nodes
        /\ new \in [DOMAIN new -> Nat]
        /\ \A v \in F : /\ v \in Neighbours(side, u) /\ v \notin now
                        /\ new[v] = cost[u] + EdgeLength(side, u, v)
        /\ \A v \in DOMAIN cost \ F : new[v] = cost[v]
        /\ \A v \in DOMAIN cost : new[v] <= cost[v]
        /\ \A v \in Neighbours(side, u) \ now :
              v \in DOMAIN new /\ new[v] <= cost[u] + EdgeLength(side, u, v)
    BY <1>3 DEF CostsFallen, F, now
  <1>7. /\ \A v \in DOMAIN cost : cost[v] \in Nat /\ v \in Nodes /\ new[v] \in Nat
        /\ \A v \in Nodes : h[v] \in Int
        /\ \A e \in entries : e.priority \in Int /\ e.node \in DOMAIN cost
    BY <1>2, <1>6 DEF CostsTyped, Potential
  <1>8. \A v \in now : v \in DOMAIN cost /\ new[v] = cost[v]
    BY <1>1, <1>2, <1>6 DEF CostsTyped, now
  <1>9. \A e \in queue : \/ e \in entries
                         \/ e.node \in F /\ e.priority = Scaled(unit, new[e.node]) + h[e.node]
    BY <1>5, <1>6 DEF Entry
  <1>10. CostsTyped(side, new, now, queue)
    <2>1. Root(side) \in DOMAIN new /\ new[Root(side)] = 0
      BY <1>2, <1>6, <1>7 DEF CostsTyped
    <2>2. queue \subseteq [priority : Int, node : DOMAIN new]
      <3>1. ASSUME NEW v \in F
            PROVE  Entry(Scaled(unit, cost[u] + EdgeLength(side, u, v)) + h[v], v)
                      \in [priority : Int, node : DOMAIN new]
        <4>1. Scaled(unit, cost[u] + EdgeLength(side, u, v)) + h[v] \in Int /\ v \in DOMAIN new
          BY <1>1, <1>4, <1>6, <1>7 DEF Scaled
        <4> QED BY <4>1 DEF Entry
      <3>2. entries \subseteq [priority : Int, node : DOMAIN new]
        BY <1>2, <1>6 DEF CostsTyped
      <3> QED BY <1>5, <3>1, <3>2
    <2> QED BY <1>6, <1>8, <2>1, <2>2 DEF CostsTyped
  <1>11. CostsAreRoads(side, new, now)
    <2>1. ASSUME NEW v \in F PROVE RoadTo(side, v, new[v])
      <3>1. RoadTo(side, u, cost[u]) /\ cost[u] \in Nat
        BY <1>1, <1>2, <1>7 DEF CostsAreRoads
      <3> QED BY <1>1, <1>6, <3>1, ExtendRoad
    <2>2. ASSUME NEW v \in now PROVE Shortest(side, v, new[v])
      BY <1>1, <1>2, <1>8 DEF CostsAreRoads, now
    <2> QED BY <1>2, <1>6, <2>1, <2>2 DEF CostsAreRoads
  <1>12. NotEarly(unit, new, queue, h)
    <2>1. ASSUME NEW e \in entries PROVE Scaled(unit, new[e.node]) + h[e.node] <= e.priority
      BY <1>2, <1>6, <1>7 DEF NotEarly, Scaled
    <2>2. ASSUME NEW e \in queue, e.node \in F, e.priority = Scaled(unit, new[e.node]) + h[e.node]
          PROVE  Scaled(unit, new[e.node]) + h[e.node] <= e.priority
      BY <1>6, <1>7, <2>2 DEF Scaled
    <2> QED BY <1>9, <2>1, <2>2 DEF NotEarly
  <1>13. \A e \in queue : entry.priority <= e.priority
    <2>1. ASSUME NEW e \in queue, e.node \in F, e.priority = Scaled(unit, new[e.node]) + h[e.node]
          PROVE  entry.priority <= e.priority
      <3>1. /\ e.node \in Neighbours(side, u)
            /\ e.priority = Scaled(unit, cost[u] + EdgeLength(side, u, e.node)) + h[e.node]
        BY <1>6, <2>1
      <3>2. h[u] <= Scaled(unit, EdgeLength(side, u, e.node)) + h[e.node]
        BY <1>1, <3>1 DEF Potential
      <3>3. cost[u] \in Nat /\ h[u] \in Int /\ h[e.node] \in Int /\ EdgeLength(side, u, e.node) \in Nat
        BY <1>1, <1>4, <1>7, <3>1
      <3> QED BY <1>1, <3>1, <3>2, <3>3 DEF Scaled
    <2> QED BY <1>1, <1>9, <2>1
  <1>14. SettledBefore(unit, new, now, queue, h)
    <2>1. ASSUME NEW w \in settled PROVE Scaled(unit, cost[w]) + h[w] <= entry.priority /\ w \in now
      BY <1>1, <1>2 DEF SettledBefore, now
    <2>2. \A w \in now : Scaled(unit, new[w]) + h[w] <= entry.priority
      BY <1>1, <1>7, <1>8, <2>1 DEF now
    <2>3. \A w \in now : Scaled(unit, new[w]) + h[w] \in Int
      BY <1>7, <1>8 DEF Scaled
    <2>4. \A e \in queue : e.priority \in Int
      BY <1>10 DEF CostsTyped
    <2>5. entry.priority \in Int
      BY <1>1, <1>7
    <2> QED BY <1>13, <2>2, <2>3, <2>4, <2>5 DEF SettledBefore
  <1>15. SettledRelaxed(side, new, now)
    <2>1. ASSUME NEW w \in settled, NEW v \in Neighbours(side, w)
          PROVE  v \in DOMAIN new /\ new[v] <= new[w] + EdgeLength(side, w, v)
      <3>1. v \in DOMAIN cost /\ cost[v] <= cost[w] + EdgeLength(side, w, v)
        BY <1>2 DEF SettledRelaxed
      <3>2. w \in DOMAIN cost /\ w \in Nodes /\ new[w] = cost[w]
        BY <1>7, <1>8 DEF now
      <3>3. EdgeLength(side, w, v) \in Nat
        BY <3>2, EdgeLengthNat
      <3> QED BY <1>6, <1>7, <3>1, <3>2, <3>3
    <2>2. ASSUME NEW v \in Neighbours(side, u)
          PROVE  v \in DOMAIN new /\ new[v] <= new[u] + EdgeLength(side, u, v)
      <3>1. u \in now /\ new[u] = cost[u] /\ cost[u] \in Nat /\ EdgeLength(side, u, v) \in Nat
        BY <1>1, <1>4, <1>7, <1>8 DEF now
      <3>2. CASE v \notin now
        BY <1>6, <3>1, <3>2
      <3>3. CASE v \in now
        <4>1. RoadTo(side, v, cost[u] + EdgeLength(side, u, v))
          BY <1>1, <1>2, <3>1, ExtendRoad DEF CostsAreRoads
        <4>2. Shortest(side, v, new[v])
          BY <1>11, <3>3 DEF CostsAreRoads
        <4>3. new[v] <= cost[u] + EdgeLength(side, u, v)
          BY <4>1, <4>2 DEF Shortest, RoadTo
        <4> QED BY <1>6, <1>8, <3>1, <3>3, <4>3
      <3> QED BY <3>2, <3>3
    <2> QED BY <2>1, <2>2 DEF SettledRelaxed, now
  <1>16. Queued(unit, new, now, queue, h)
    <2>1. ASSUME NEW v \in F PROVE Entry(Scaled(unit, new[v]) + h[v], v) \in queue
      BY <1>5, <1>6
    <2>2. ASSUME NEW v \in DOMAIN cost \ F, v \notin now
          PROVE  Entry(Scaled(unit, new[v]) + h[v], v) \in queue
      <3>1. new[v] = cost[v] /\ Entry(Scaled(unit, cost[v]) + h[v], v) \in entries
        BY <1>6, <2>2 DEF Queued, now
      <3>2. Entry(Scaled(unit, cost[v]) + h[v], v) # entry
        BY <2>2 DEF Entry, now
      <3> QED BY <1>5, <3>1, <3>2
    <2> QED BY <1>6, <2>1, <2>2 DEF Queued
  <1>17. Frontier(side, unit, new, now, queue, h)
    BY <1>10, <1>11, <1>12, <1>14, <1>15 DEF Frontier
  <1> QED BY <1>16, <1>17 DEF new, now, queue

\* So does taking an entry of a settled node out of the heap.
LEMMA SkipKeeps ==
  ASSUME NEW side, NEW unit, NEW h, NEW cost, NEW settled, NEW entries, NEW entry,
         Frontier(side, unit, cost, settled, entries, h), Queued(unit, cost, settled, entries, h),
         entry.node \in settled
  PROVE  /\ Frontier(side, unit, cost, settled, entries \ {entry}, h)
         /\ Queued(unit, cost, settled, entries \ {entry}, h)
  <1>1. Queued(unit, cost, settled, entries \ {entry}, h)
    BY DEF Queued, Entry
  <1> QED BY <1>1 DEF Frontier, CostsTyped, NotEarly, SettledBefore

\* The root alone is a road.
LEMMA FirstRoad ==
  ASSUME NEW side, Root(side) \in Nodes
  PROVE  RoadTo(side, Root(side), 0)
  <1> DEFINE p == [i \in 1 .. 1 |-> Root(side)]
             d == [i \in 1 .. 1 |-> 0]
  <1>1. IsRoad(side, 1, p, d) /\ p[1] = Root(side) /\ d[1] = 0
    BY DEF IsRoad
  <1> HIDE DEF p, d
  <1> QED BY <1>1 DEF RoadTo

\* A search begins with the Root(side) alone in its heap.
LEMMA FirstFrontier ==
  ASSUME graph \in RoadGraphs, NEW side \in Sides, NEW unit \in Units, Root(side) \in Nodes,
         NEW h, Potential(side, unit, h)
  PROVE  LET cost == [v \in {Root(side)} |-> 0]
             entries == {Entry(h[Root(side)], Root(side))}
         IN  Frontier(side, unit, cost, {}, entries, h) /\ Queued(unit, cost, {}, entries, h)
  <1> DEFINE cost == [v \in {Root(side)} |-> 0]
             entries == {Entry(h[Root(side)], Root(side))}
  <1>1. h[Root(side)] \in Int
    BY DEF Potential
  <1>3. RoadTo(side, Root(side), 0)
    BY FirstRoad
  <1>4. CostsTyped(side, cost, {}, entries)
    BY <1>1 DEF CostsTyped, Entry
  <1> QED BY <1>1, <1>3, <1>4
          DEF Scaled, Frontier, Queued, CostsAreRoads, NotEarly, SettledBefore, SettledRelaxed, Entry

\* What is said of roads stays true while the query does.
LEMMA SameRoads ==
  ASSUME UNCHANGED query
  PROVE  /\ \A u : Successors(u)' = Successors(u)
         /\ \A u, v : Length(u, v)' = Length(u, v)
         /\ \A side, u : Neighbours(side, u)' = Neighbours(side, u)
         /\ \A side, u, v : EdgeLength(side, u, v)' = EdgeLength(side, u, v)
         /\ \A side : Root(side)' = Root(side)
         /\ \A side, n, p, d : IsRoad(side, n, p, d)' <=> IsRoad(side, n, p, d)
         /\ \A side, v, length : RoadTo(side, v, length)' <=> RoadTo(side, v, length)
         /\ \A side, v, length : Shortest(side, v, length)' <=> Shortest(side, v, length)
         /\ \A side, v : Unreachable(side, v)' <=> Unreachable(side, v)
  <1>1. graph' = graph /\ start' = start /\ goal' = goal
    BY DEF query
  <1>2. \A u, v : Length(u, v)' = Length(u, v)
    BY <1>1 DEF Length
  <1>3. \A u : Successors(u)' = Successors(u) /\ Predecessors(u)' = Predecessors(u)
    BY <1>2 DEF Successors, Predecessors
  <1>4. /\ \A side, u : Neighbours(side, u)' = Neighbours(side, u)
        /\ \A side, u, v : EdgeLength(side, u, v)' = EdgeLength(side, u, v)
        /\ \A side : Root(side)' = Root(side)
    BY <1>1, <1>2, <1>3 DEF Neighbours, EdgeLength, Root
  <1>5. \A side, n, p, d : IsRoad(side, n, p, d)' <=> IsRoad(side, n, p, d)
    BY <1>4 DEF IsRoad
  <1>6. \A side, v, length : RoadTo(side, v, length)' <=> RoadTo(side, v, length)
    BY <1>5 DEF RoadTo
  <1>7. \A side, v, length : Shortest(side, v, length)' <=> Shortest(side, v, length)
    BY <1>5, <1>6 DEF Shortest
  <1> QED BY <1>2, <1>3, <1>4, <1>5, <1>6, <1>7 DEF Unreachable

LEMMA SameFrontier ==
  ASSUME UNCHANGED query
  PROVE  \A side, unit, cost, settled, entries, h :
            Frontier(side, unit, cost, settled, entries, h)'
                <=> Frontier(side, unit, cost, settled, entries, h)
  <1>1. \A side, cost, settled, entries :
           CostsTyped(side, cost, settled, entries)' <=> CostsTyped(side, cost, settled, entries)
    BY SameRoads DEF CostsTyped
  <1>2. \A side, cost, settled :
           CostsAreRoads(side, cost, settled)' <=> CostsAreRoads(side, cost, settled)
    BY SameRoads DEF CostsAreRoads
  <1>3. \A side, cost, settled :
           SettledRelaxed(side, cost, settled)' <=> SettledRelaxed(side, cost, settled)
    BY SameRoads DEF SettledRelaxed
  <1> QED BY <1>1, <1>2, <1>3 DEF Frontier, NotEarly, SettledBefore

LEMMA SameQueue ==
  \A unit, cost, settled, entries, h :
     Queued(unit, cost, settled, entries, h)' <=> Queued(unit, cost, settled, entries, h)
  BY DEF Queued, Entry, Scaled

\* A* and the multi-target search grow a frontier forward, in plain units.
LEMMA ForwardSide ==
  /\ "forward" \in Sides /\ 1 \in Units
  /\ Root("forward") = start
  /\ \A u : Neighbours("forward", u) = Successors(u)
  /\ \A u, v : EdgeLength("forward", u, v) = Length(u, v)
  /\ \A cost : Scaled(1, cost) = cost
  BY DEF Sides, Units, Root, Neighbours, EdgeLength, Scaled

---------------------------------------------------------------------------
(* Roads: their lengths, and the distances RouteCalls compares with.       *)

\* Shortest lengths are unique, and unreachable nodes have none.
LEMMA OneShortest ==
  ASSUME NEW side, NEW v
  PROVE  /\ \A a, b : Shortest(side, v, a) /\ Shortest(side, v, b) => a = b
         /\ \A a : Shortest(side, v, a) => a \in Nat /\ ~Unreachable(side, v)
  <1>1. \A n, p, d : IsRoad(side, n, p, d) => d[n] \in Nat
    BY DEF IsRoad
  <1>2. ASSUME NEW a, Shortest(side, v, a) PROVE a \in Nat /\ ~Unreachable(side, v)
    BY <1>1, <1>2 DEF Shortest, RoadTo, Unreachable
  <1>3. ASSUME NEW a, NEW b, Shortest(side, v, a), Shortest(side, v, b) PROVE a = b
    <2>1. a <= b /\ b <= a
      BY <1>3 DEF Shortest, RoadTo
    <2> QED BY <1>2, <1>3, <2>1
  <1> QED BY <1>2, <1>3

\* PathLength adds the lengths of a road's edges up.
LEMMA RoadLength ==
  ASSUME NEW n, NEW p, NEW d, IsRoad("forward", n, p, d), Len(p) = n
  PROVE  PathLength(p) = d[n]
  <1> DEFINE IsSums(f) == f = [k \in 0 .. n |-> IF k < 2 THEN 0
                                  ELSE f[k - 1] + Length(p[k - 1], p[k])]
             Sums == CHOOSE f : IsSums(f)
             c == [k \in 0 .. n |-> IF k = 0 THEN 0 ELSE d[k]]
  <1>1. /\ n \in Nat \ {0} /\ d[1] = 0
        /\ \A i \in 1 .. n - 1 : d[i + 1] = d[i] + Length(p[i], p[i + 1])
    BY ForwardSide DEF IsRoad
  <1>2. ASSUME NEW k \in 0 .. n
        PROVE  c[k] = IF k < 2 THEN 0 ELSE c[k - 1] + Length(p[k - 1], p[k])
    <2>1. CASE k < 2
      BY <1>1, <2>1
    <2>2. CASE ~(k < 2)
      <3>1. k - 1 \in 1 .. n - 1 /\ (k - 1) + 1 = k /\ k - 1 # 0 /\ k # 0 /\ k - 1 \in 0 .. n
        BY <1>1, <2>2
      <3> QED BY <1>1, <2>2, <3>1
    <2> QED BY <2>1, <2>2
  <1>3. IsSums(c)
    <2> HIDE DEF c
    <2>1. c = [k \in 0 .. n |-> c[k]]
      BY DEF c
    <2> QED BY <1>2, <2>1
  <1>4. IsSums(Sums)
    <2> HIDE DEF IsSums
    <2> QED BY <1>3
  <1>5. \A k \in 0 .. n : Sums[k] = IF k < 2 THEN 0 ELSE Sums[k - 1] + Length(p[k - 1], p[k])
    BY <1>4
  <1> HIDE DEF Sums, IsSums
  <1> DEFINE Good == {k \in 0 .. n : Sums[k] = c[k]}
  <1>6. 0 \in Good
    BY <1>1, <1>5
  <1>7. ASSUME NEW k \in 1 .. n, k - 1 \in Good PROVE k \in Good
    <2> HIDE DEF c
    <2>1. Sums[k - 1] = c[k - 1] /\ k \in 0 .. n
      BY <1>7
    <2>2. Sums[k] = c[k]
      BY <1>2, <1>5, <2>1
    <2> QED BY <2>1, <2>2
  <1>8. n \in Good
    <2> HIDE DEF Good
    <2>1. n \in Nat /\ n \in 0 .. n
      BY <1>1
    <2>2. \A k \in 0 .. n : k \in Good
      BY <1>6, <1>7, <2>1, CountUp
    <2> QED BY <2>1, <2>2
  <1>9. Sums[n] = d[n]
    BY <1>1, <1>8
  <1> QED BY <1>9 DEF PathLength, Sums, IsSums
\* A road without a loop is no longer, and visits no more nodes than there are.
LEMMA LooplessRoad ==
  ASSUME graph \in RoadGraphs, NEW side \in Sides, NEW n, NEW p, NEW d, IsRoad(side, n, p, d)
  PROVE  \E m, q, c : /\ IsRoad(side, m, q, c) /\ m <= Cardinality(Nodes)
                      /\ q[m] = p[n] /\ c[m] <= d[n]
  <1> DEFINE Good(m, q, c) == IsRoad(side, m, q, c) /\ q[m] = p[n] /\ c[m] <= d[n]
             Sizes == {m \in Nat : \E q, c : Good(m, q, c)}
             N == Cardinality(Nodes)
  <1>1. n \in Nat \ {0} /\ d[n] \in Nat /\ N \in Nat /\ IsFiniteSet(Nodes)
    <2>1. IsFiniteSet(Nodes)
      BY RoadGraphsAssumption
    <2>2. N \in Nat
      BY <2>1, FS_CardinalityType
    <2> QED BY <2>1, <2>2 DEF IsRoad
  <1>2. n \in Sizes /\ Sizes \in SUBSET Nat
    BY <1>1
  <1>3. PICK m \in Sizes : \A other \in Sizes : m <= other
    <2> HIDE DEF Sizes
    <2> QED BY <1>2, LeastElement
  <1>4. PICK q, c : Good(m, q, c)
    BY <1>3
  <1>5. /\ m \in Nat \ {0} /\ q \in [1 .. m -> Nodes] /\ c \in [1 .. m -> Nat]
        /\ q[1] = Root(side) /\ c[1] = 0
        /\ \A i \in 1 .. m - 1 : /\ q[i + 1] \in Neighbours(side, q[i])
                                /\ c[i + 1] = c[i] + EdgeLength(side, q[i], q[i + 1])
    BY <1>4 DEF IsRoad
  <1>6. SUFFICES ASSUME ~(m <= N) PROVE FALSE
    BY <1>4
  <1>7. PICK i \in 1 .. m, j \in 1 .. m : i < j /\ q[i] = q[j]
    <2>1. IsFiniteSet(1 .. m) /\ Cardinality(1 .. m) = m
      BY <1>5, FS_Interval
    <2>2. \E x, y \in 1 .. m : x # y /\ q[x] = q[y]
      <3>1. Cardinality(Nodes) < Cardinality(1 .. m)
        BY <1>1, <1>5, <1>6, <2>1
      <3>2. IsFiniteSet(Nodes) /\ q \in [1 .. m -> Nodes]
        BY <1>1, <1>5
      <3> HIDE DEF Sizes, Good, N
      <3> QED BY ONLY <2>1, <3>1, <3>2, FS_PigeonHole
    <2>3. \A x, y \in 1 .. m : x # y => x < y \/ y < x
      BY <1>5
    <2> QED BY <2>2, <2>3
  <1> DEFINE gap == j - i
             k == m - gap
             r == [x \in 1 .. k |-> IF x <= i THEN q[x] ELSE q[x + gap]]
             e == [x \in 1 .. k |-> IF x <= i THEN c[x] ELSE c[x + gap] - (c[j] - c[i])]
  <1>8. /\ gap \in Nat \ {0} /\ k \in Nat \ {0} /\ k < m /\ i <= k /\ j = i + gap
        /\ \A x \in 1 .. k : x \in 1 .. m /\ x + gap \in 1 .. m /\ (x > i => x + gap \in j .. m)
    BY <1>5, <1>7
  <1>9. \A x \in j .. m : c[j] <= c[x]
    BY <1>4, RoadsLengthen
  <1> HIDE DEF gap, k
  <1>10. /\ r \in [1 .. k -> Nodes] /\ e \in [1 .. k -> Nat]
         /\ r[1] = Root(side) /\ e[1] = 0
    <2>1. \A x \in 1 .. k : r[x] \in Nodes /\ e[x] \in Nat
      <3>1. TAKE x \in 1 .. k
      <3>2. CASE x <= i
        BY <1>5, <1>8, <3>1, <3>2
      <3>3. CASE ~(x <= i)
        <4>1. x + gap \in j .. m /\ x + gap \in 1 .. m /\ i \in Nat /\ x > i
          BY <1>8, <3>1, <3>3
        <4>2. /\ c[j] <= c[x + gap] /\ c[x + gap] \in Nat /\ c[i] \in Nat /\ c[j] \in Nat
              /\ q[x + gap] \in Nodes
          BY <1>5, <1>7, <1>9, <4>1
        <4> QED BY <3>1, <3>3, <4>2
      <3> QED BY <3>2, <3>3
    <2>2. 1 \in 1 .. k /\ 1 <= i
      BY <1>7, <1>8
    <2> QED BY <1>5, <2>1, <2>2
  <1>11. ASSUME NEW x \in 1 .. k - 1
         PROVE  /\ r[x + 1] \in Neighbours(side, r[x])
                /\ e[x + 1] = e[x] + EdgeLength(side, r[x], r[x + 1])
    <2>1. x \in 1 .. k /\ x + 1 \in 1 .. k
      BY <1>8
    <2>2. CASE x + 1 <= i
      <3>1. x <= i /\ x \in 1 .. m - 1
        BY <1>8, <2>2
      <3> QED BY <1>5, <2>1, <2>2, <3>1
    <2>3. CASE x = i
      <3>1. r[x] = q[j] /\ e[x] = c[i] /\ ~(x + 1 <= i) /\ (x + 1) + gap = j + 1
        BY <1>7, <1>8, <2>1, <2>3
      <3>2. j \in 1 .. m - 1
        BY <1>8, <2>1, <2>3
      <3>3. r[x + 1] = q[j + 1] /\ e[x + 1] = c[j + 1] - (c[j] - c[i])
        BY <2>1, <3>1
      <3>4. q[j + 1] \in Neighbours(side, q[j]) /\ c[j + 1] = c[j] + EdgeLength(side, q[j], q[j + 1])
        BY <1>5, <3>2
      <3>5. c[j] \in Nat /\ c[i] \in Nat /\ EdgeLength(side, q[j], q[j + 1]) \in Nat
        BY <1>5, <1>7, <3>4, EdgeLengthNat
      <3> HIDE DEF r, e
      <3> QED BY <3>1, <3>3, <3>4, <3>5
    <2>4. CASE x > i
      <3> DEFINE y == x + gap
      <3>1. /\ ~(x <= i) /\ ~(x + 1 <= i) /\ y \in 1 .. m - 1 /\ (x + 1) + gap = y + 1
        BY <1>7, <1>8, <2>1, <2>4
      <3>2. /\ r[x] = q[y] /\ e[x] = c[y] - (c[j] - c[i])
            /\ r[x + 1] = q[y + 1] /\ e[x + 1] = c[y + 1] - (c[j] - c[i])
        BY <2>1, <3>1
      <3>3. q[y + 1] \in Neighbours(side, q[y]) /\ c[y + 1] = c[y] + EdgeLength(side, q[y], q[y + 1])
        BY <1>5, <3>1
      <3>4. /\ c[j] \in Nat /\ c[i] \in Nat /\ c[y] \in Nat
            /\ EdgeLength(side, q[y], q[y + 1]) \in Nat
        <4> HIDE DEF y
        <4>1. y \in 1 .. m /\ q[y] \in Nodes
          BY <1>5, <3>1
        <4> QED BY <1>5, <1>7, <3>3, <4>1, EdgeLengthNat
      <3> HIDE DEF r, e, y
      <3> QED BY <3>2, <3>3, <3>4
    <2>5. x + 1 <= i \/ x = i \/ x > i
      BY <1>7
    <2> QED BY <2>2, <2>3, <2>4, <2>5
  <1>12. r[k] = q[m] /\ e[k] <= c[m]
    <2>1. k \in 1 .. k /\ k + gap = m /\ m \in 1 .. m
      BY <1>5, <1>8 DEF k
    <2>2. c[i] \in Nat /\ c[j] \in Nat /\ c[m] \in Nat /\ c[i] <= c[j]
      <3>1. j \in i .. m /\ m \in 1 .. m
        BY <1>5, <1>7
      <3>2. c[i] <= c[j]
        BY <1>4, <1>7, <3>1, RoadsLengthen
      <3> QED BY <1>5, <1>7, <3>1, <3>2
    <2>3. CASE k <= i
      <3>1. k = i /\ j = m
        BY <1>8, <2>1, <2>3
      <3> QED BY <1>7, <2>1, <2>2, <3>1
    <2>4. CASE ~(k <= i)
      BY <2>1, <2>2, <2>4
    <2> QED BY <2>3, <2>4
  <1> HIDE DEF r, e
  <1>13. IsRoad(side, k, r, e)
    BY <1>8, <1>10, <1>11 DEF IsRoad
  <1>14. Good(k, r, e)
    <2>1. e[k] \in Nat /\ c[m] \in Nat /\ c[m] <= d[n] /\ q[m] = p[n]
      BY <1>4, <1>5, <1>8, <1>10
    <2> QED BY <1>1, <1>12, <1>13, <2>1
  <1>15. k \in Sizes
    BY <1>8, <1>14
  <1> QED BY <1>3, <1>5, <1>8, <1>15

\* A road's first nodes are a road.
LEMMA RoadPrefix ==
  ASSUME NEW side, NEW n, NEW p, NEW d, IsRoad(side, n, p, d), NEW m \in 1 .. n
  PROVE  IsRoad(side, m, [i \in 1 .. m |-> p[i]], [i \in 1 .. m |-> d[i]])
  <1> DEFINE q == [i \in 1 .. m |-> p[i]]
             c == [i \in 1 .. m |-> d[i]]
  <1>1. n \in Nat /\ m \in Nat \ {0} /\ 1 \in 1 .. m
    BY DEF IsRoad
  <1>2. \A i \in 1 .. m : i \in 1 .. n /\ q[i] = p[i] /\ c[i] = d[i]
    BY <1>1
  <1>3. \A i \in 1 .. m - 1 : i \in 1 .. m /\ i + 1 \in 1 .. m /\ i \in 1 .. n - 1
    BY <1>1
  <1>4. q \in [1 .. m -> Nodes] /\ c \in [1 .. m -> Nat]
    BY <1>2 DEF IsRoad
  <1> HIDE DEF q, c
  <1>5. IsRoad(side, m, q, c)
    BY <1>1, <1>2, <1>3, <1>4 DEF IsRoad
  <1> QED BY <1>5 DEF q, c

\* One more edge for the nodes reached so far (the recursion of Distances).
Reached(near) == DOMAIN near \cup UNION {Successors(u) : u \in DOMAIN near}

Offers(near, v) ==
    {near[u] + Length(u, v) : u \in Predecessors(v) \cap DOMAIN near}
        \cup {near[w] : w \in {v} \cap DOMAIN near}

Lengthened(near) == [v \in Reached(near) |-> Min(Offers(near, v))]

Costings == UNION {[some -> Nat] : some \in SUBSET Nodes}

LEMMA CostingFacts ==
  /\ \A near \in Costings : /\ DOMAIN near \subseteq Nodes
                            /\ near \in [DOMAIN near -> Nat]
  /\ \A near : DOMAIN near \subseteq Nodes /\ near \in [DOMAIN near -> Nat] => near \in Costings
  <1>1. ASSUME NEW near \in Costings
        PROVE  DOMAIN near \subseteq Nodes /\ near \in [DOMAIN near -> Nat]
    <2>1. PICK some \in SUBSET Nodes : near \in [some -> Nat]
      BY DEF Costings
    <2> QED BY <2>1
  <1>2. ASSUME NEW near, DOMAIN near \subseteq Nodes, near \in [DOMAIN near -> Nat]
        PROVE  near \in Costings
    BY <1>2 DEF Costings
  <1> QED BY <1>1, <1>2

\* Every node reached has an offer, and gets the least.
LEMMA LengthenedIsLeast ==
  ASSUME graph \in RoadGraphs, NEW near \in Costings
  PROVE  /\ Lengthened(near) \in Costings
         /\ DOMAIN Lengthened(near) = Reached(near)
         /\ \A v \in Reached(near) : /\ Lengthened(near)[v] \in Offers(near, v)
                                     /\ \A c \in Offers(near, v) : Lengthened(near)[v] <= c
  <1>1. DOMAIN near \subseteq Nodes /\ near \in [DOMAIN near -> Nat]
    BY CostingFacts
  <1>2. \A u \in DOMAIN near : \A v \in Successors(u) : v \in Nodes /\ Length(u, v) \in Nat
    BY <1>1, ForwardSide, EdgeLengthNat
  <1>3. Reached(near) \subseteq Nodes
    BY <1>1, <1>2 DEF Reached
  <1>4. ASSUME NEW v \in Reached(near)
        PROVE  /\ Min(Offers(near, v)) \in Nat
               /\ Min(Offers(near, v)) \in Offers(near, v)
               /\ \A c \in Offers(near, v) : Min(Offers(near, v)) <= c
    <2>1. \A u \in Predecessors(v) \cap DOMAIN near : v \in Successors(u)
      BY <1>1, <1>3 DEF Predecessors, Successors
    <2>2. Offers(near, v) \in SUBSET Nat
      BY <1>1, <1>2, <2>1 DEF Offers
    <2>3. Offers(near, v) # {}
      <3>1. CASE v \in DOMAIN near
        BY <3>1 DEF Offers
      <3>2. CASE v \notin DOMAIN near
        <4>1. PICK u \in DOMAIN near : v \in Successors(u)
          BY <3>2 DEF Reached
        <4>2. u \in Predecessors(v)
          BY <1>1, <4>1 DEF Predecessors, Successors
        <4> QED BY <4>1, <4>2 DEF Offers
      <3> QED BY <3>1, <3>2
    <2>4. \E m \in Offers(near, v) : \A c \in Offers(near, v) : m <= c
      BY <2>2, <2>3, LeastElement
    <2> QED BY <2>2, <2>4 DEF Min
  <1>5. DOMAIN Lengthened(near) = Reached(near)
    BY DEF Lengthened
  <1>6. \A v \in Reached(near) : Lengthened(near)[v] = Min(Offers(near, v))
    BY DEF Lengthened
  <1>7. Lengthened(near) \in [DOMAIN Lengthened(near) -> Nat]
    BY <1>4, <1>5, <1>6 DEF Lengthened
  <1> QED BY <1>3, <1>4, <1>5, <1>6, <1>7, CostingFacts

\* Distances knows the shortest length to every node that can be reached.
LEMMA DistancesShortest ==
  ASSUME graph \in RoadGraphs, start \in Nodes, NEW v
  PROVE  IF v \in DOMAIN Distances THEN Shortest("forward", v, Distances[v])
         ELSE Unreachable("forward", v)
  <1> DEFINE N == Cardinality(Nodes)
             IsWithin(f) == f = [n \in 0 .. N |->
                 IF n = 0 THEN [w \in {start} |-> 0]
                 ELSE LET near == f[n - 1]
                          In(w) == Predecessors(w) \cap DOMAIN near
                      IN  [w \in DOMAIN near \cup UNION {Successors(u) : u \in DOMAIN near} |->
                              Min({near[u] + Length(u, w) : u \in In(w)}
                                    \cup {near[x] : x \in {w} \cap DOMAIN near})]]
             IsIteration(f) == f = [n \in 0 .. N |->
                 IF n = 0 THEN [w \in {start} |-> 0] ELSE Lengthened(f[n - 1])]
             Within == CHOOSE f : IsWithin(f)
  <1>1. N \in Nat /\ N >= 1
    <2>1. IsFiniteSet(Nodes)
      BY RoadGraphsAssumption
    <2>2. N \in Nat /\ N # 0
      BY <2>1, FS_CardinalityType, FS_EmptySet
    <2> QED BY <2>2
  <1>2. \A f : IsWithin(f) <=> IsIteration(f)
    BY DEF Lengthened, Reached, Offers
  <1>3. Distances = Within[N]
    BY DEF Distances
  <1> HIDE DEF N, IsWithin
  <1>4. IsIteration(Within)
    <2> DEFINE step == [near \in Costings |-> Lengthened(near)]
               first == [w \in {start} |-> 0]
    <2>1. step \in [Costings -> Costings]
      BY LengthenedIsLeast
    <2>2. first \in Costings
      BY CostingFacts
    <2>3. PICK f : Iterates(f, Costings, first, step, N)
      <3> HIDE DEF step, first
      <3> QED BY <1>1, <2>1, <2>2, Iteration
    <2>4. \A n \in 0 .. N : n = 0 \/ (n \in 1 .. N /\ n - 1 \in 0 .. N)
      BY <1>1
    <2>5. \A n \in 0 .. N : n # 0 => step[f[n - 1]] = Lengthened(f[n - 1])
      BY <2>3, <2>4 DEF Iterates
    <2>6. \A n \in 0 .. N : f[n] = IF n = 0 THEN first ELSE Lengthened(f[n - 1])
      <3> HIDE DEF step, first
      <3> QED BY <2>3, <2>4, <2>5 DEF Iterates
    <2>7. IsIteration(f)
      <3> HIDE DEF step
      <3> QED BY <2>3, <2>6 DEF Iterates
    <2> QED BY <1>2, <2>7
  <1>5. /\ Within[0] = [w \in {start} |-> 0]
        /\ \A n \in 1 .. N : Within[n] = Lengthened(Within[n - 1])
    <2>1. 0 \in 0 .. N /\ \A n \in 1 .. N : n \in 0 .. N /\ n # 0
      BY <1>1
    <2>2. \A n \in 0 .. N : Within[n] = IF n = 0 THEN [w \in {start} |-> 0]
                                       ELSE Lengthened(Within[n - 1])
      <3> HIDE DEF Within
      <3> QED BY <1>4
    <2> HIDE DEF Within, IsIteration
    <2> QED BY <2>1, <2>2
  <1> HIDE DEF Within, IsIteration
  <1> DEFINE Right(near, n) ==
               /\ near \in Costings
               /\ \A w \in DOMAIN near : RoadTo("forward", w, near[w])
               /\ \A m, p, d : IsRoad("forward", m, p, d) /\ m <= n + 1
                     => p[m] \in DOMAIN near /\ near[p[m]] <= d[m]
             Good == {n \in 0 .. N : Right(Within[n], n)}
  <1>6. 0 \in Good
    <2> DEFINE first == [w \in {start} |-> 0]
    <2>1. first \in Costings
      BY CostingFacts
    <2>2. RoadTo("forward", start, 0)
      BY FirstRoad, ForwardSide
    <2>3. ASSUME NEW m, NEW p, NEW d, IsRoad("forward", m, p, d), m <= 0 + 1
          PROVE  p[m] = start /\ d[m] = 0
      BY <2>3, ForwardSide DEF IsRoad
    <2> QED BY <1>1, <1>5, <2>1, <2>2, <2>3
  <1>7. ASSUME NEW n \in 1 .. N, n - 1 \in Good
        PROVE  n \in Good
    <2> DEFINE near == Within[n - 1]
               far == Within[n]
    <2>1. Right(near, n - 1) /\ far = Lengthened(near)
      BY <1>5, <1>7
    <2> HIDE DEF near, far
    <2>2. /\ far \in Costings /\ DOMAIN far = Reached(near)
          /\ \A w \in Reached(near) : /\ far[w] \in Offers(near, w)
                                      /\ \A c \in Offers(near, w) : far[w] <= c
      BY <2>1, LengthenedIsLeast
    <2>3. DOMAIN near \subseteq Nodes /\ near \in [DOMAIN near -> Nat]
      BY <2>1, CostingFacts
    <2>4. ASSUME NEW w \in DOMAIN far PROVE RoadTo("forward", w, far[w])
      <3>1. \/ w \in DOMAIN near /\ far[w] = near[w]
            \/ \E u \in Predecessors(w) \cap DOMAIN near : far[w] = near[u] + Length(u, w)
        BY <2>2 DEF Offers
      <3>2. CASE w \in DOMAIN near /\ far[w] = near[w]
        BY <2>1, <3>2
      <3>3. ASSUME NEW u \in Predecessors(w) \cap DOMAIN near, far[w] = near[u] + Length(u, w)
            PROVE  RoadTo("forward", w, far[w])
        <4>1. w \in Nodes
          BY <2>2, CostingFacts
        <4>2. u \in Nodes /\ near[u] \in Nat /\ w \in Neighbours("forward", u)
          BY <2>3, <4>1, ForwardSide DEF Predecessors, Successors
        <4>3. RoadTo("forward", u, near[u])
          BY <2>1
        <4> QED BY <3>3, <4>2, <4>3, ForwardSide, ExtendRoad
      <3> QED BY <3>1, <3>2, <3>3
    <2>5. ASSUME NEW m, NEW p, NEW d, IsRoad("forward", m, p, d), m <= n + 1
          PROVE  p[m] \in DOMAIN far /\ far[p[m]] <= d[m]
      <3>1. /\ m \in Nat \ {0} /\ d \in [1 .. m -> Nat] /\ p \in [1 .. m -> Nodes]
            /\ \A i \in 1 .. m - 1 : /\ p[i + 1] \in Successors(p[i])
                                    /\ d[i + 1] = d[i] + Length(p[i], p[i + 1])
        BY <2>5, ForwardSide DEF IsRoad
      <3>2. CASE m <= n
        <4>1. p[m] \in DOMAIN near /\ near[p[m]] <= d[m]
          BY <1>1, <2>1, <2>5, <3>1, <3>2
        <4>2. p[m] \in Reached(near) /\ near[p[m]] \in Offers(near, p[m])
          BY <4>1 DEF Reached, Offers
        <4>3. far[p[m]] <= near[p[m]] /\ far[p[m]] \in Nat /\ near[p[m]] \in Nat /\ d[m] \in Nat
          BY <2>2, <2>3, <3>1, <4>1, <4>2, CostingFacts
        <4> QED BY <2>2, <4>1, <4>2, <4>3
      <3>3. CASE m = n + 1
        <4>1. n \in 1 .. m - 1 /\ n \in Nat /\ n \in 1 .. m
          BY <1>1, <3>3
        <4>2. IsRoad("forward", n, [i \in 1 .. n |-> p[i]], [i \in 1 .. n |-> d[i]])
          BY <2>5, <4>1, RoadPrefix
        <4>3. p[n] \in DOMAIN near /\ near[p[n]] <= d[n]
          <5> DEFINE q == [i \in 1 .. n |-> p[i]]
                     c == [i \in 1 .. n |-> d[i]]
          <5>1. q[n] = p[n] /\ c[n] = d[n] /\ n <= (n - 1) + 1
            BY <4>1
          <5> HIDE DEF q, c
          <5>2. q[n] \in DOMAIN near /\ near[q[n]] <= c[n]
            <6>1. IsRoad("forward", n, q, c)
              BY <4>2 DEF q, c
            <6> QED BY <2>1, <5>1, <6>1
          <5> QED BY <5>1, <5>2
        <4>4. p[m] \in Successors(p[n]) /\ d[m] = d[n] + Length(p[n], p[m]) /\ p[m] \in Nodes
          BY <3>1, <3>3, <4>1
        <4>5. p[m] \in Reached(near) /\ near[p[n]] + Length(p[n], p[m]) \in Offers(near, p[m])
          BY <2>3, <4>3, <4>4 DEF Reached, Offers, Predecessors, Successors
        <4>6. far[p[m]] <= near[p[n]] + Length(p[n], p[m])
          BY <2>2, <4>5
        <4>7. far[p[m]] \in Nat /\ near[p[n]] \in Nat /\ d[n] \in Nat /\ Length(p[n], p[m]) \in Nat
          <5>1. far[p[m]] \in Nat
            BY <2>2, <4>5, CostingFacts
          <5>2. near[p[n]] \in Nat /\ d[n] \in Nat
            BY <2>3, <3>1, <4>1, <4>3
          <5>3. p[n] \in Nodes /\ p[m] \in Neighbours("forward", p[n])
            BY <3>1, <4>1, <4>4, ForwardSide
          <5>4. Length(p[n], p[m]) \in Nat
            BY <5>3, ForwardSide, EdgeLengthNat
          <5> QED BY <5>1, <5>2, <5>4
        <4> QED BY <2>2, <4>3, <4>4, <4>5, <4>6, <4>7
      <3> QED BY <1>1, <2>5, <3>1, <3>2, <3>3
    <2>6. Right(far, n)
      BY <2>2, <2>4, <2>5
    <2> QED BY <2>6 DEF far
  <1>8. Right(Within[N], N)
    <2> HIDE DEF Right
    <2>1. \A n \in 0 .. N : n \in Good
      <3> HIDE DEF Good
      <3> QED BY <1>1, <1>6, <1>7, CountUp
    <2> QED BY <1>1, <2>1
  <1>9. ASSUME NEW n, NEW p, NEW d, IsRoad("forward", n, p, d)
        PROVE  p[n] \in DOMAIN Distances /\ Distances[p[n]] <= d[n]
    <2>1. PICK m, q, c : /\ IsRoad("forward", m, q, c) /\ m <= Cardinality(Nodes)
                         /\ q[m] = p[n] /\ c[m] <= d[n]
      BY <1>9, LooplessRoad, ForwardSide
    <2>2. m \in Nat /\ m <= N + 1 /\ c[m] \in Nat /\ d[n] \in Nat
      BY <1>1, <1>9, <2>1 DEF IsRoad, N
    <2>3. q[m] \in DOMAIN Distances /\ Distances[q[m]] <= c[m]
      BY <1>3, <1>8, <2>1, <2>2
    <2>4. Distances[q[m]] \in Nat
      BY <1>3, <1>8, <2>3, CostingFacts
    <2> QED BY <2>1, <2>2, <2>3, <2>4
  <1>10. \A w \in DOMAIN Distances : RoadTo("forward", w, Distances[w])
    BY <1>3, <1>8
  <1>11. CASE v \in DOMAIN Distances
    BY <1>9, <1>10, <1>11 DEF Shortest
  <1>12. CASE v \notin DOMAIN Distances
    BY <1>9, <1>12 DEF Unreachable
  <1> QED BY <1>11, <1>12

---------------------------------------------------------------------------
(* The parents form a tree that leads every node with a cost back to the   *)
(* root: they were settled before, so the ages of the settled nodes fall.  *)

\* The settled nodes' places in the order they were settled in, and the others'.
Ages(settled, came, age) ==
    /\ age \in [Nodes -> Nat]
    /\ \A v \in settled : age[v] < Cardinality(settled)
    /\ \A v \in Nodes \ settled : age[v] = Cardinality(settled)
    /\ \A v \in DOMAIN came : age[came[v]] < age[v]

Tree(side, cost, settled, came) ==
    /\ DOMAIN came = DOMAIN cost \ {Root(side)}
    /\ came \in [DOMAIN came -> settled]
    /\ \A v \in DOMAIN came :
          /\ v \in Neighbours(side, came[v])
          /\ cost[v] = cost[came[v]] + EdgeLength(side, came[v], v)
    /\ \E age : Ages(settled, came, age)

NewTree(side, cost, settled, came, u) ==
    Overwrite(came, [v \in Falling(side, cost, settled, u) |-> u])

LEMMA FirstTree ==
  ASSUME NEW side, NEW any
  PROVE  Tree(side, [v \in {Root(side)} |-> 0], {}, [v \in {} |-> any])
  <1> DEFINE came == [v \in {} |-> any]
             age == [v \in Nodes |-> 0]
  <1>1. Ages({}, came, age)
    BY FS_EmptySet DEF Ages
  <1> QED BY <1>1 DEF Tree

LEMMA SameTree ==
  ASSUME UNCHANGED query
  PROVE  \A side, cost, settled, came :
            Tree(side, cost, settled, came)' <=> Tree(side, cost, settled, came)
  <1>1. \A settled, came : (\E age : Ages(settled, came, age))'
                              <=> (\E age : Ages(settled, came, age))
    BY DEF Ages
  <1> QED BY <1>1, SameRoads DEF Tree

\* Settling a node makes it the parent of the nodes whose cost falls; none of
\* them is settled, nor is it the root.
LEMMA TreeGrows ==
  ASSUME graph \in RoadGraphs, NEW side \in Sides, NEW cost, NEW settled, NEW entries,
         CostsTyped(side, cost, settled, entries), NEW came, Tree(side, cost, settled, came),
         NEW u \in DOMAIN cost, u \notin settled
  PROVE  Tree(side, NewCosts(side, cost, settled, u), settled \cup {u},
              NewTree(side, cost, settled, came, u))
  <1> DEFINE F == Falling(side, cost, settled, u)
             new == NewCosts(side, cost, settled, u)
             now == settled \cup {u}
             grown == NewTree(side, cost, settled, came, u)
  <1>1. CostsFallen(side, cost, settled, u, new)
    BY CostsFall
  <1>2. /\ DOMAIN cost \subseteq Nodes /\ settled \subseteq DOMAIN cost
        /\ \A v \in DOMAIN cost : cost[v] \in Nat
        /\ Root(side) \in DOMAIN cost /\ cost[Root(side)] = 0
    BY DEF CostsTyped
  <1>3. grown = [v \in DOMAIN came \cup F |-> IF v \in F THEN u ELSE came[v]]
    BY DEF NewTree, Overwrite
  <1>4. Root(side) \notin F
    <2>1. ASSUME Root(side) \in F PROVE FALSE
      <3>1. /\ Root(side) \in Neighbours(side, u) /\ u \in Nodes
            /\ cost[u] + EdgeLength(side, u, Root(side)) < cost[Root(side)]
        BY <1>2, <2>1 DEF Falling, Improves
      <3>2. EdgeLength(side, u, Root(side)) \in Nat /\ cost[u] \in Nat
        BY <1>2, <3>1, EdgeLengthNat
      <3> QED BY <1>2, <3>1, <3>2
    <2> QED BY <2>1
  <1>5. /\ DOMAIN new = DOMAIN cost \cup F
        /\ \A v \in F : /\ v \in Neighbours(side, u) /\ v \notin now
                        /\ new[v] = cost[u] + EdgeLength(side, u, v)
        /\ \A v \in DOMAIN cost \ F : new[v] = cost[v]
    BY <1>1 DEF CostsFallen
  <1>6. \A v \in DOMAIN came : /\ v \in DOMAIN cost /\ came[v] \in settled
                               /\ v \in Neighbours(side, came[v])
                               /\ cost[v] = cost[came[v]] + EdgeLength(side, came[v], v)
    BY DEF Tree
  <1> HIDE DEF F, new, grown
  <1>7. \A v \in DOMAIN grown :
           /\ grown[v] \in now
           /\ v \in Neighbours(side, grown[v])
           /\ new[v] = new[grown[v]] + EdgeLength(side, grown[v], v)
    <2>1. \A w \in now : w \in DOMAIN cost \ F
      BY <1>2, <1>5
    <2>2. \A w \in now : new[w] = cost[w]
      BY <1>5, <2>1
    <2>3. ASSUME NEW v \in F
          PROVE  /\ grown[v] = u /\ v \in Neighbours(side, u)
                 /\ new[v] = new[u] + EdgeLength(side, u, v)
      BY <1>3, <1>5, <2>2
    <2>4. ASSUME NEW v \in DOMAIN came \ F
          PROVE  /\ grown[v] = came[v] /\ came[v] \in settled /\ v \in Neighbours(side, came[v])
                 /\ new[v] = new[came[v]] + EdgeLength(side, came[v], v)
      BY <1>3, <1>5, <1>6, <2>2
    <2>5. DOMAIN grown = DOMAIN came \cup F
      BY <1>3
    <2> QED BY <2>3, <2>4, <2>5
  <1>8. DOMAIN grown = DOMAIN new \ {Root(side)}
    BY <1>3, <1>4, <1>5 DEF Tree
  <1>9. \E age : Ages(now, grown, age)
    <2>1. PICK age : Ages(settled, came, age)
      BY DEF Tree
    <2> DEFINE size == Cardinality(settled)
               older == [v \in Nodes |-> IF v \in now THEN age[v] ELSE size + 1]
    <2>2. IsFiniteSet(settled)
      BY <1>2, FS_Subset, RoadGraphsAssumption
    <2>3. size \in Nat /\ Cardinality(now) = size + 1
      BY <2>2, FS_CardinalityType, FS_AddElement
    <2>4. /\ \A v \in settled : age[v] < size /\ older[v] = age[v] /\ v \in Nodes
          /\ age[u] = size /\ older[u] = size /\ u \in Nodes
          /\ \A v \in Nodes \ settled : age[v] = size
          /\ \A v \in Nodes \ now : older[v] = size + 1
          /\ \A v \in Nodes : age[v] \in Nat
      BY <1>2, <2>1 DEF Ages
    <2>5. older \in [Nodes -> Nat]
      BY <2>3, <2>4
    <2> HIDE DEF size, older
    <2>6. ASSUME NEW v \in DOMAIN grown PROVE older[grown[v]] < older[v]
      <3>1. v \in Nodes
        BY <1>2, <1>3, <1>5, <1>6, <1>7 DEF Neighbours, Successors, Predecessors
      <3>2. CASE v \in F
        <4>1. grown[v] = u /\ older[v] = size + 1
          BY <1>3, <1>5, <2>4, <3>1, <3>2
        <4> QED BY <2>3, <2>4, <4>1
      <3>3. CASE v \notin F
        <4>1. v \in DOMAIN came /\ grown[v] = came[v] /\ came[v] \in settled /\ age[came[v]] < age[v]
          BY <1>3, <1>6, <2>1, <3>3 DEF Ages
        <4>2. older[came[v]] = age[came[v]] /\ age[came[v]] \in Nat /\ age[came[v]] < size
          BY <2>4, <4>1
        <4>3. CASE v \in now
          BY <2>4, <4>1, <4>2, <4>3
        <4>4. CASE v \notin now
          BY <2>3, <2>4, <3>1, <4>1, <4>2, <4>4
        <4> QED BY <4>3, <4>4
      <3> QED BY <3>2, <3>3
    <2>7. \A v \in now : older[v] < size + 1
      BY <2>3, <2>4
    <2>8. Ages(now, grown, older)
      BY <2>3, <2>4, <2>5, <2>6, <2>7 DEF Ages
    <2> QED BY <2>8
  <1>10. grown \in [DOMAIN grown -> now]
    BY <1>3, <1>7
  <1>11. Tree(side, new, now, grown)
    BY <1>7, <1>8, <1>9, <1>10 DEF Tree
  <1> QED BY <1>11 DEF new, grown

---------------------------------------------------------------------------
(* reconstruct_path follows the tree from a node back to the root.         *)

\* A path along the tree's edges that ends in the node.
Trail(side, cost, path, node) ==
    /\ path \in Seq(Nodes) /\ path # <<>>
    /\ path[Len(path)] = node
    /\ \A i \in 1 .. Len(path) : path[i] \in DOMAIN cost
    /\ \A i \in 1 .. Len(path) - 1 :
          /\ path[i + 1] \in Neighbours(side, path[i])
          /\ cost[path[i + 1]] = cost[path[i]] + EdgeLength(side, path[i], path[i + 1])

Back(came, path) ==
    IF Head(path) \in DOMAIN came THEN <<came[Head(path)]>> \o path ELSE path

LEMMA NonEmpty ==
  ASSUME NEW path \in Seq(Nodes), path # <<>>
  PROVE  Len(path) \in Nat \ {0} /\ Head(path) = path[1] /\ path \in [1 .. Len(path) -> Nodes]
  <1>1. Len(path) \in Nat /\ Len(path) # 0
    BY EmptySeq, LenProperties
  <1>2. path \in [1 .. Len(path) -> Nodes]
    BY LenProperties, ElementOfSeq
  <1>3. Head(path) = path[1]
    BY HeadTailProperties
  <1> QED BY <1>1, <1>2, <1>3

LEMMA BackOne ==
  ASSUME NEW side, NEW cost, NEW path, NEW node, Trail(side, cost, path, node),
         NEW parent \in DOMAIN cost, parent \in Nodes,
         path[1] \in Neighbours(side, parent),
         cost[path[1]] = cost[parent] + EdgeLength(side, parent, path[1])
  PROVE  /\ Trail(side, cost, <<parent>> \o path, node)
         /\ Head(<<parent>> \o path) = parent
  <1> DEFINE n == Len(path)
             new == <<parent>> \o path
  <1>1. path \in Seq(Nodes) /\ path # <<>> /\ n \in Nat \ {0} /\ path \in [1 .. n -> Nodes]
    BY NonEmpty DEF Trail
  <1>2. <<parent>> \in Seq(Nodes) /\ Len(<<parent>>) = 1 /\ <<parent>>[1] = parent
    OBVIOUS
  <1>3. /\ new \in Seq(Nodes) /\ Len(new) = 1 + n
        /\ \A i \in 1 .. 1 + n : new[i] = IF i <= 1 THEN <<parent>>[i] ELSE path[i - 1]
    BY <1>1, <1>2, ConcatProperties
  <1> HIDE DEF new
  <1>4. new[1] = parent /\ \A i \in 1 .. n : new[i + 1] = path[i]
    <2>1. 1 \in 1 .. 1 + n /\ new[1] = <<parent>>[1]
      BY <1>1, <1>3
    <2>2. \A i \in 1 .. n : i + 1 \in 1 .. 1 + n /\ ~(i + 1 <= 1) /\ (i + 1) - 1 = i
      BY <1>1
    <2> QED BY <1>2, <1>3, <2>1, <2>2
  <1>5. new # <<>> /\ Head(new) = parent
    <2>1. new # <<>>
      BY <1>1, <1>3
    <2> QED BY <1>3, <1>4, <2>1, NonEmpty
  <1>6. new[1 + n] = node
    BY <1>1, <1>4 DEF Trail
  <1>7. \A i \in 1 .. 1 + n : i = 1 \/ (i - 1 \in 1 .. n /\ (i - 1) + 1 = i)
    BY <1>1
  <1>8. \A i \in 1 .. 1 + n : new[i] \in DOMAIN cost
    BY <1>4, <1>7 DEF Trail
  <1>9. ASSUME NEW i \in 1 .. (1 + n) - 1
        PROVE  /\ new[i + 1] \in Neighbours(side, new[i])
               /\ cost[new[i + 1]] = cost[new[i]] + EdgeLength(side, new[i], new[i + 1])
    <2>1. i \in 1 .. n /\ new[i + 1] = path[i]
      BY <1>1, <1>4
    <2>2. CASE i = 1
      BY <1>4, <2>1, <2>2
    <2>3. CASE i # 1
      <3>1. i - 1 \in 1 .. n - 1 /\ (i - 1) + 1 = i /\ i - 1 \in 1 .. n
        BY <1>1, <2>1, <2>3
      <3>2. new[i] = path[i - 1]
        BY <1>4, <3>1
      <3>3. /\ path[i] \in Neighbours(side, path[i - 1])
            /\ cost[path[i]] = cost[path[i - 1]] + EdgeLength(side, path[i - 1], path[i])
        BY <3>1 DEF Trail
      <3> QED BY <2>1, <3>2, <3>3
    <2> QED BY <2>2, <2>3
  <1>10. Trail(side, cost, new, node)
    BY <1>3, <1>5, <1>6, <1>8, <1>9 DEF Trail
  <1> QED BY <1>5, <1>10 DEF new

LEMMA PathBack ==
  ASSUME NEW side \in Sides, NEW cost, NEW settled, NEW entries,
         CostsTyped(side, cost, settled, entries), NEW came, Tree(side, cost, settled, came),
         NEW node \in DOMAIN cost
  PROVE  LET path == ReconstructPath(came, node)
         IN  Trail(side, cost, path, node) /\ path[1] = Root(side)
  <1> DEFINE N == Cardinality(Nodes)
             X == Seq(Nodes) \ {<<>>}
             IsBack(f) == f = [n \in 0 .. N |->
                IF n = 0 THEN <<node>>
                ELSE LET path == f[n - 1]
                     IN  IF Head(path) \in DOMAIN came
                         THEN <<came[Head(path)]>> \o path
                         ELSE path]
             IsIteration(f) == f = [n \in 0 .. N |->
                IF n = 0 THEN <<node>> ELSE Back(came, f[n - 1])]
             Paths == CHOOSE f : IsBack(f)
  <1>1. /\ DOMAIN cost \subseteq Nodes /\ settled \subseteq DOMAIN cost /\ node \in Nodes
        /\ IsFiniteSet(Nodes) /\ N \in Nat
    <2>1. IsFiniteSet(Nodes)
      BY RoadGraphsAssumption
    <2> QED BY <2>1, FS_CardinalityType DEF CostsTyped
  <1>2. /\ DOMAIN came = DOMAIN cost \ {Root(side)}
        /\ \A v \in DOMAIN came :
              /\ came[v] \in settled /\ v \in Neighbours(side, came[v])
              /\ cost[v] = cost[came[v]] + EdgeLength(side, came[v], v)
    BY DEF Tree
  <1>3. \A f : IsBack(f) <=> IsIteration(f)
    BY DEF Back
  <1>4. ReconstructPath(came, node) = Paths[N]
    BY DEF ReconstructPath
  <1> HIDE DEF N, IsBack
  <1>5. IsIteration(Paths)
    <2> DEFINE step == [path \in X |-> Back(came, path)]
               first == <<node>>
    <2>1. step \in [X -> X]
      <3>1. ASSUME NEW path \in X PROVE Back(came, path) \in X
        <4>1. CASE Head(path) \in DOMAIN came
          <5>1. came[Head(path)] \in Nodes
            BY <1>1, <1>2, <4>1
          <5>2. <<came[Head(path)]>> \in Seq(Nodes) /\ path \in Seq(Nodes)
            BY <5>1
          <5>3. /\ <<came[Head(path)]>> \o path \in Seq(Nodes)
                /\ Len(<<came[Head(path)]>> \o path) = 1 + Len(path)
                /\ Len(path) \in Nat
            BY <5>2, ConcatProperties, LenProperties
          <5>4. <<came[Head(path)]>> \o path # <<>>
            BY <5>3
          <5> QED BY <4>1, <5>3, <5>4 DEF Back
        <4>2. CASE Head(path) \notin DOMAIN came
          BY <4>2 DEF Back
        <4> QED BY <4>1, <4>2
      <3> HIDE DEF X
      <3> QED BY <3>1
    <2>2. first \in X
      BY <1>1
    <2>3. PICK f : Iterates(f, X, first, step, N)
      <3> HIDE DEF step, first, X
      <3> QED BY <1>1, <2>1, <2>2, Iteration
    <2>4. \A n \in 0 .. N : n = 0 \/ (n \in 1 .. N /\ n - 1 \in 0 .. N)
      BY <1>1
    <2>5. \A n \in 0 .. N : n # 0 => step[f[n - 1]] = Back(came, f[n - 1])
      <3> HIDE DEF X
      <3> QED BY <2>3, <2>4 DEF Iterates
    <2>6. \A n \in 0 .. N : f[n] = IF n = 0 THEN first ELSE Back(came, f[n - 1])
      <3> HIDE DEF step, first, X
      <3> QED BY <2>3, <2>4, <2>5 DEF Iterates
    <2>7. IsIteration(f)
      <3> HIDE DEF step, X
      <3> QED BY <2>3, <2>6 DEF Iterates
    <2> QED BY <1>3, <2>7
  <1>6. /\ Paths[0] = <<node>>
        /\ \A n \in 1 .. N : Paths[n] = Back(came, Paths[n - 1])
    <2>1. 0 \in 0 .. N /\ \A n \in 1 .. N : n \in 0 .. N /\ n # 0
      BY <1>1
    <2>2. \A n \in 0 .. N : Paths[n] = IF n = 0 THEN <<node>> ELSE Back(came, Paths[n - 1])
      <3> HIDE DEF Paths
      <3> QED BY <1>5
    <2> HIDE DEF Paths, IsIteration
    <2> QED BY <2>1, <2>2
  <1> HIDE DEF Paths, IsIteration, X
  <1>7. PICK age : Ages(settled, came, age)
    BY DEF Tree
  <1>8. age[node] < N /\ \A v \in Nodes : age[v] \in Nat
    <2>1. settled \subseteq Nodes /\ Cardinality(settled) \in Nat /\ Cardinality(settled) <= N
      BY <1>1, FS_Subset, FS_CardinalityType DEF N
    <2>2. settled = Nodes \/ Cardinality(settled) < N
      BY <1>1, <2>1, FS_Subset DEF N
    <2> QED BY <1>1, <1>7, <2>1, <2>2 DEF Ages
  <1> DEFINE Right(path, n) ==
               /\ Trail(side, cost, path, node)
               /\ Head(path) = Root(side) \/ age[Head(path)] + n <= age[node]
             Good == {n \in 0 .. N : Right(Paths[n], n)}
  <1>9. 0 \in Good
    <2>1. <<node>> \in Seq(Nodes) /\ Len(<<node>>) = 1 /\ Head(<<node>>) = node /\ <<node>>[1] = node
      BY <1>1
    <2>2. Trail(side, cost, <<node>>, node)
      BY <2>1 DEF Trail
    <2>3. Right(<<node>>, 0)
      BY <1>1, <1>8, <2>1, <2>2
    <2> HIDE DEF Right
    <2> QED BY <1>1, <1>6, <2>3
  <1>10. ASSUME NEW n \in 1 .. N, n - 1 \in Good PROVE n \in Good
    <2> DEFINE path == Paths[n - 1]
               v == Head(path)
    <2>1. Right(path, n - 1) /\ Paths[n] = Back(came, path)
      BY <1>6, <1>10
    <2> HIDE DEF path
    <2>2. v = path[1] /\ v \in DOMAIN cost
      BY <2>1, NonEmpty DEF Trail
    <2>3. CASE v \in DOMAIN came
      <3>1. /\ came[v] \in DOMAIN cost /\ came[v] \in Nodes /\ v \in Neighbours(side, came[v])
            /\ cost[v] = cost[came[v]] + EdgeLength(side, came[v], v)
            /\ v # Root(side) /\ age[came[v]] < age[v]
        BY <1>1, <1>2, <1>7, <2>3 DEF Ages
      <3>2. Back(came, path) = <<came[v]>> \o path
        BY <2>3 DEF Back
      <3>3. Trail(side, cost, Back(came, path), node) /\ Head(Back(came, path)) = came[v]
        BY <2>1, <2>2, <3>1, <3>2, BackOne
      <3>4. age[v] + (n - 1) <= age[node]
        BY <2>1, <3>1
      <3>5. age[came[v]] \in Nat /\ age[v] \in Nat /\ age[node] \in Nat
        BY <1>1, <1>8, <2>2, <3>1
      <3>6. age[came[v]] + n <= age[node]
        BY <3>1, <3>4, <3>5
      <3> QED BY <2>1, <3>3, <3>6
    <2>4. CASE v \notin DOMAIN came
      <3>1. Back(came, path) = path
        BY <2>4 DEF Back
      <3>2. v = Root(side)
        BY <1>2, <2>2, <2>4
      <3> QED BY <2>1, <3>1, <3>2
    <2> QED BY <2>3, <2>4
  <1>11. Right(Paths[N], N)
    <2> HIDE DEF Right
    <2>1. \A n \in 0 .. N : n \in Good
      <3> HIDE DEF Good
      <3> QED BY <1>1, <1>9, <1>10, CountUp
    <2> QED BY <1>1, <2>1
  <1>12. Head(Paths[N]) = Paths[N][1] /\ Paths[N][1] \in Nodes
    BY <1>1, <1>11, NonEmpty DEF Trail
  <1>13. Head(Paths[N]) = Root(side)
    BY <1>1, <1>8, <1>11, <1>12
  <1> QED BY <1>4, <1>11, <1>12, <1>13

---------------------------------------------------------------------------
(* The answers: a found path is a road to the goal of the least length.    *)
QueryOK ==
    /\ graph \in RoadGraphs /\ <<start, goal>> \in Queries
    /\ start \in Nodes /\ goal \in Nodes

LEMMA QueryInitOK == QueryInit => QueryOK
  <1> SUFFICES ASSUME QueryInit PROVE QueryOK
    OBVIOUS
  <1>1. PICK nodes \in Queries : start = nodes[1] /\ goal = nodes[2]
    BY DEF QueryInit
  <1>2. nodes \in Nodes \X Nodes
    BY RoadGraphsAssumption
  <1>3. nodes = <<start, goal>> /\ start \in Nodes /\ goal \in Nodes
    BY <1>1, <1>2
  <1> QED BY <1>3 DEF QueryInit, QueryOK

RightAnswer(result) ==
    /\ result.status = "found" =>
          /\ result.path \in Seq(Nodes) /\ result.path # <<>>
          /\ \E d : /\ IsRoad("forward", Len(result.path), result.path, d)
                    /\ d[Len(result.path)] = result.distance
          /\ result.path[Len(result.path)] = goal
          /\ Shortest("forward", goal, result.distance)
    /\ result.status = "no_path" => Unreachable("forward", goal)

LEMMA SameAnswer ==
  ASSUME UNCHANGED query
  PROVE  \A result : RightAnswer(result)' <=> RightAnswer(result)
  <1>1. goal' = goal
    BY DEF query
  <1> QED BY <1>1, SameRoads DEF RightAnswer

\* A trail from the root is a road, the costs along it its lengths.
LEMMA TrailIsRoad ==
  ASSUME NEW side, NEW cost, NEW settled, NEW entries,
         CostsTyped(side, cost, settled, entries),
         NEW path, NEW node, Trail(side, cost, path, node), path[1] = Root(side)
  PROVE  /\ IsRoad(side, Len(path), path, [i \in 1 .. Len(path) |-> cost[path[i]]])
         /\ path[Len(path)] = node
  <1> DEFINE d == [i \in 1 .. Len(path) |-> cost[path[i]]]
  <1>1. /\ Len(path) \in Nat \ {0} /\ path \in [1 .. Len(path) -> Nodes]
        /\ 1 \in 1 .. Len(path)
    BY NonEmpty DEF Trail
  <1>2. \A i \in 1 .. Len(path) : d[i] = cost[path[i]] /\ d[i] \in Nat
    BY DEF Trail, CostsTyped
  <1>3. d[1] = 0
    BY <1>1, <1>2 DEF CostsTyped
  <1>4. \A i \in 1 .. Len(path) - 1 : i \in 1 .. Len(path) /\ i + 1 \in 1 .. Len(path)
    BY <1>1
  <1>5. d \in [1 .. Len(path) -> Nat]
    BY <1>2
  <1> HIDE DEF d
  <1>6. \A i \in 1 .. Len(path) - 1 :
           /\ path[i + 1] \in Neighbours(side, path[i])
           /\ d[i + 1] = d[i] + EdgeLength(side, path[i], path[i + 1])
    BY <1>2, <1>4 DEF Trail
  <1>7. IsRoad(side, Len(path), path, d)
    BY <1>1, <1>3, <1>5, <1>6 DEF IsRoad
  <1> QED BY <1>7 DEF d, Trail

\* What RouteCalls asks of an answer.
LEMMA RightIsShortestRoute ==
  ASSUME graph \in RoadGraphs, start \in Nodes, NEW result, RightAnswer(result),
         result.status \in {"found", "no_path"}
  PROVE  IsShortestRoute(result)
  <1>1. IF goal \in DOMAIN Distances THEN Shortest("forward", goal, Distances[goal])
        ELSE Unreachable("forward", goal)
    BY DistancesShortest
  <1>2. CASE result.status = "no_path"
    <2>1. goal \notin DOMAIN Distances
      BY <1>1, <1>2, OneShortest DEF RightAnswer
    <2> QED BY <1>2, <2>1 DEF IsShortestRoute
  <1>3. CASE result.status = "found"
    <2> DEFINE path == result.path
    <2>1. /\ path \in Seq(Nodes) /\ path # <<>> /\ path[Len(path)] = goal
          /\ Shortest("forward", goal, result.distance)
      BY <1>3 DEF RightAnswer
    <2>2. PICK d : IsRoad("forward", Len(path), path, d) /\ d[Len(path)] = result.distance
      BY <1>3 DEF RightAnswer
    <2>3. goal \in DOMAIN Distances /\ result.distance = Distances[goal]
      BY <1>1, <2>1, OneShortest
    <2>4. Head(path) = start
      BY <2>1, <2>2, NonEmpty, ForwardSide DEF IsRoad
    <2>5. result.distance = PathLength(path)
      BY <2>2, RoadLength
    <2>6. \A i \in 1 .. Len(path) - 1 : path[i + 1] \in Successors(path[i])
      BY <2>2, ForwardSide DEF IsRoad
    <2> QED BY <1>3, <2>1, <2>3, <2>4, <2>5, <2>6 DEF IsShortestRoute
  <1> QED BY <1>2, <1>3

\* The start alone is the shortest road to itself.
LEMMA AlreadyThere ==
  ASSUME QueryOK, start = goal
  PROVE  RightAnswer(Found(<<start>>, 0))
  <1> DEFINE path == <<start>>
             d == [i \in 1 .. 1 |-> 0]
  <1>1. /\ path \in Seq(Nodes) /\ Len(path) = 1 /\ path # <<>> /\ path[1] = start
        /\ path \in [1 .. 1 -> Nodes]
    BY DEF QueryOK
  <1>2. IsRoad("forward", 1, path, d) /\ d[1] = 0
    BY <1>1, ForwardSide DEF IsRoad
  <1>3. Shortest("forward", goal, 0)
    <2>1. RoadTo("forward", goal, 0)
      BY FirstRoad, ForwardSide DEF QueryOK
    <2>2. \A n, p, c : IsRoad("forward", n, p, c) => c[n] \in Nat
      BY DEF IsRoad
    <2>3. \A n, p, c : IsRoad("forward", n, p, c) => 0 <= c[n]
      BY <2>2
    <2> QED BY <2>1, <2>3 DEF Shortest
  <1> HIDE DEF path, d
  <1>4. /\ Found(path, 0).status = "found" /\ Found(path, 0).path = path
        /\ Found(path, 0).distance = 0
    BY DEF Found
  <1>5. RightAnswer(Found(path, 0))
    BY <1>1, <1>2, <1>3, <1>4 DEF RightAnswer
  <1> QED BY <1>5 DEF path

---------------------------------------------------------------------------
\* A*'s potential is the straight line to the goal.
Heuristic == [v \in Nodes |-> H(v)]

AStarInv ==
    /\ QueryOK
    /\ Frontier("forward", 1, g_score, closed, open_heap, Heuristic)
    /\ Tree("forward", g_score, closed, came_from)
    /\ goal \notin closed
    /\ astar.status = "searching" => Queued(1, g_score, closed, open_heap, Heuristic)
    /\ astar.status \in {"searching", "found", "no_path"}

AStarRight == RightAnswer(astar)

LEMMA HeuristicPotential ==
  ASSUME graph \in RoadGraphs, goal \in Nodes
  PROVE  Potential("forward", 1, Heuristic)
  <1>1. \A v \in Nodes : Crow[<<v, goal>>] \in Nat
    BY RoadGraphsAssumption
  <1>2. ASSUME NEW u \in Nodes, NEW v \in Successors(u)
        PROVE  H(u) <= Length(u, v) + H(v)
    <2>1. v \in Nodes /\ Length(u, v) \in Nat /\ Crow[<<u, v>>] <= Length(u, v)
      BY <1>2, ForwardSide, EdgeLengthNat
    <2>2. Crow[<<u, goal>>] <= Crow[<<u, v>>] + Crow[<<v, goal>>]
      BY <2>1, CrowAssumption
    <2>3. Crow[<<u, v>>] \in Nat
      BY <2>1, RoadGraphsAssumption
    <2> QED BY <1>1, <2>1, <2>2, <2>3 DEF H
  <1>3. \A u \in Nodes : \A v \in Successors(u) : v \in Nodes
    BY DEF Successors
  <1> QED BY <1>1, <1>2, <1>3, ForwardSide DEF Potential, Heuristic, H

LEMMA AStarInitInv == QueryInit /\ AStarInit => AStarInv /\ AStarRight
  <1> SUFFICES ASSUME QueryInit, AStarInit PROVE AStarInv /\ AStarRight
    OBVIOUS
  <1>1. QueryOK
    BY QueryInitOK
  <1>2. Potential("forward", 1, Heuristic) /\ Heuristic[start] = H(start)
    BY <1>1, HeuristicPotential DEF Heuristic, QueryOK
  <1>3. /\ Frontier("forward", 1, g_score, closed, open_heap, Heuristic)
        /\ Queued(1, g_score, closed, open_heap, Heuristic)
    BY <1>1, <1>2, ForwardSide, FirstFrontier DEF AStarInit, QueryOK
  <1>4. Tree("forward", g_score, closed, came_from)
    BY ForwardSide, FirstTree DEF AStarInit
  <1> QED BY <1>1, <1>3, <1>4 DEF AStarInit, AStarInv, AStarRight, RightAnswer, Searching

LEMMA SameHeuristic ==
  ASSUME UNCHANGED query
  PROVE  Heuristic' = Heuristic
  BY DEF query, Heuristic, H

LEMMA ExpandAStar ==
  ASSUME AStarInv, UNCHANGED query, AStarExpand
  PROVE  AStarInv'
  <1>1. PICK entry \in open_heap :
          LET u == entry.node
          IN  /\ AStarHead(entry)
              /\ u \notin closed
              /\ u # goal
              /\ closed' = closed \cup {u}
              /\ came_from' = Overwrite(came_from, NewParents(u))
              /\ g_score' = Overwrite(g_score, [v \in Relaxed(u) |-> TentativeG(u, v)])
              /\ open_heap' = (open_heap \ {entry})
                     \cup {Entry(TentativeG(u, v) + H(v), v) : v \in Relaxed(u)}
              /\ UNCHANGED astar
    BY DEF AStarExpand
  <1> DEFINE u == entry.node
             F == Falling("forward", g_score, closed, u)
  <1>2. /\ entry \in Least(open_heap) /\ u \notin closed /\ u # goal
        /\ astar.status = "searching" /\ astar' = astar
        /\ closed' = closed \cup {u}
    BY <1>1 DEF AStarHead
  <1>3. /\ Frontier("forward", 1, g_score, closed, open_heap, Heuristic)
        /\ Queued(1, g_score, closed, open_heap, Heuristic)
        /\ Potential("forward", 1, Heuristic) /\ graph \in RoadGraphs
    BY <1>2, HeuristicPotential DEF AStarInv, QueryOK
  <1>4. u \in DOMAIN g_score /\ DOMAIN g_score \subseteq Nodes
    BY <1>2, <1>3, ForwardSide, HeadShortest DEF Frontier, CostsTyped
  <1>5. /\ Relaxed(u) = F
        /\ \A v \in F : v \in Nodes /\ TentativeG(u, v) = g_score[u] + Length(u, v)
    BY ForwardSide DEF Relaxed, Falling, TentativeG, Successors
  <1>6. g_score' = NewCosts("forward", g_score, closed, u)
    BY <1>1, <1>5, ForwardSide DEF NewCosts, TentativeG
  <1>7. open_heap' = NewHeap("forward", 1, g_score, closed, open_heap, Heuristic, entry)
    <2>1. \A v \in F : Entry(TentativeG(u, v) + H(v), v)
                         = Entry(g_score[u] + Length(u, v) + Heuristic[v], v)
      BY <1>5 DEF Heuristic
    <2>2. {Entry(TentativeG(u, v) + H(v), v) : v \in Relaxed(u)}
            = {Entry(g_score[u] + Length(u, v) + Heuristic[v], v) : v \in F}
      BY <1>5, <2>1
    <2> QED BY <1>1, <2>2, ForwardSide DEF NewHeap
  <1>8. /\ Frontier("forward", 1, g_score', closed', open_heap', Heuristic)
        /\ Queued(1, g_score', closed', open_heap', Heuristic)
    BY <1>2, <1>3, <1>6, <1>7, ForwardSide, SettleKeeps
  <1>9. Tree("forward", g_score', closed', came_from')
    <2>1. came_from' = NewTree("forward", g_score, closed, came_from, u)
      BY <1>1, <1>5 DEF NewTree, NewParents
    <2> QED BY <1>2, <1>3, <1>4, <1>6, <2>1, ForwardSide, TreeGrows DEF AStarInv, Frontier
  <1>10. goal' \notin closed' /\ QueryOK'
    BY <1>2 DEF AStarInv, QueryOK, query
  <1> QED BY <1>2, <1>8, <1>9, <1>10, SameFrontier, SameQueue, SameTree, SameHeuristic DEF AStarInv

LEMMA SkipAStar ==
  ASSUME AStarInv, UNCHANGED query, AStarSkip
  PROVE  AStarInv'
  <1>1. PICK entry \in open_heap :
          /\ AStarHead(entry)
          /\ entry.node \in closed
          /\ open_heap' = open_heap \ {entry}
          /\ UNCHANGED <<g_score, came_from, closed, astar>>
    BY DEF AStarSkip
  <1>2. /\ Frontier("forward", 1, g_score', closed', open_heap', Heuristic)
        /\ Queued(1, g_score', closed', open_heap', Heuristic)
    BY <1>1, ForwardSide, SkipKeeps DEF AStarInv, AStarHead
  <1>3. Tree("forward", g_score', closed', came_from')
    BY <1>1 DEF AStarInv
  <1> QED BY <1>1, <1>2, <1>3, SameFrontier, SameQueue, SameTree, SameHeuristic
          DEF AStarInv, QueryOK, query

\* The steps that end the search, and those that leave it alone.
LEMMA EndAStar ==
  ASSUME AStarInv, UNCHANGED query,
         AStarReach \/ AStarNoPath \/ AStarAlreadyThere \/ UNCHANGED aStarVars
  PROVE  AStarInv'
  <1>1. /\ UNCHANGED <<g_score, came_from, closed>>
        /\ open_heap' \subseteq open_heap
        /\ astar'.status = "searching" => astar' = astar /\ open_heap' = open_heap
        /\ astar'.status \in {"searching", "found", "no_path"}
    BY DEF AStarReach, AStarNoPath, AStarAlreadyThere, aStarVars, search, NoPath, Found, Searching,
           AStarInv
  <1>2. Frontier("forward", 1, g_score', closed', open_heap', Heuristic)
    BY <1>1 DEF AStarInv, Frontier, CostsTyped, NotEarly, SettledBefore
  <1>3. astar'.status = "searching" => Queued(1, g_score', closed', open_heap', Heuristic)
    BY <1>1 DEF AStarInv
  <1>4. Tree("forward", g_score', closed', came_from')
    BY <1>1 DEF AStarInv
  <1> QED BY <1>1, <1>2, <1>3, <1>4, SameFrontier, SameQueue, SameTree, SameHeuristic
          DEF AStarInv, QueryOK, query

LEMMA AStarInvNext ==
  AStarInv /\ [AStarNext /\ UNCHANGED query]_<<query, aStarVars>> => AStarInv'
  BY ExpandAStar, SkipAStar, EndAStar DEF AStarNext

\* The goal is taken from the head of the heap; an empty heap means no road.
LEMMA AStarRightNext ==
  ASSUME AStarInv, AStarRight, [AStarNext /\ UNCHANGED query]_<<query, aStarVars>>
  PROVE  AStarRight'
  <1>1. UNCHANGED query
    BY DEF query
  <1>2. SUFFICES RightAnswer(astar')
    BY <1>1, SameAnswer DEF AStarRight
  <1>3. CASE AStarReach
    <2> DEFINE path == ReconstructPath(came_from, goal)
    <2>1. PICK entry \in Least(open_heap) :
            /\ entry.node = goal /\ goal \notin closed
            /\ astar.status = "searching"
            /\ astar' = Found(path, g_score[goal])
      BY <1>3 DEF AStarReach, AStarHead
    <2>2. Shortest("forward", goal, g_score[goal]) /\ goal \in DOMAIN g_score
      BY <2>1, HeuristicPotential, ForwardSide, HeadShortest DEF AStarInv, QueryOK
    <2>3. CostsTyped("forward", g_score, closed, open_heap)
      BY DEF AStarInv, Frontier
    <2>4. Trail("forward", g_score, path, goal) /\ path[1] = Root("forward")
      BY <2>2, <2>3, ForwardSide, PathBack DEF AStarInv
    <2> HIDE DEF path
    <2> DEFINE d == [i \in 1 .. Len(path) |-> g_score[path[i]]]
    <2>5. IsRoad("forward", Len(path), path, d) /\ path[Len(path)] = goal
      BY <2>3, <2>4, TrailIsRoad
    <2>6. d[Len(path)] = g_score[goal]
      BY <2>5 DEF IsRoad
    <2>7. path \in Seq(Nodes) /\ path # <<>>
      BY <2>4 DEF Trail
    <2>8. astar'.status = "found" /\ astar'.path = path /\ astar'.distance = g_score[goal]
      BY <2>1 DEF Found
    <2> HIDE DEF d
    <2> QED BY <2>2, <2>5, <2>6, <2>7, <2>8 DEF RightAnswer
  <1>4. CASE AStarNoPath
    <2>1. Unreachable("forward", goal)
      BY <1>4, ForwardSide, EmptyHeap DEF AStarNoPath, AStarInv, QueryOK
    <2>2. astar'.status = "no_path"
      BY <1>4 DEF AStarNoPath, NoPath, Searching
    <2> QED BY <2>1, <2>2 DEF RightAnswer
  <1>5. CASE AStarAlreadyThere
    BY <1>5, AlreadyThere DEF AStarAlreadyThere, AStarInv
  <1>6. CASE AStarSkip \/ AStarExpand \/ UNCHANGED aStarVars
    <2>1. astar' = astar
      BY <1>6 DEF AStarSkip, AStarExpand, aStarVars
    <2> QED BY <2>1 DEF AStarRight
  <1> QED BY <1>3, <1>4, <1>5, <1>6 DEF AStarNext

LEMMA AStarAlways == AStarSpec => []AStarInv
  BY AStarInitInv, AStarInvNext, PTL DEF AStarSpec

\* A closed node has relaxed every neighbour, the closed ones it skipped as well
\* (a_star.py:138), on every graph the heuristic is consistent with.
THEOREM ClosedNodesFinal == AStarSpec => []ClosedRelaxed
  <1>1. AStarInv => ClosedRelaxed
    BY ForwardSide DEF AStarInv, Frontier, SettledRelaxed, ClosedRelaxed, TentativeG
  <1> QED BY <1>1, AStarAlways, PTL

\* A score is always the parent's score plus the edge from it (a_star.py:146).
THEOREM ParentsMatchScores == AStarSpec => []ParentsTight
  <1>1. AStarInv => ParentsTight
    BY ForwardSide DEF AStarInv, Tree, ParentsTight, TentativeG
  <1> QED BY <1>1, AStarAlways, PTL

\* A* answers with the least length of any road from start to goal, and with "no
\* path" only when there is no road, on every graph of any size.
THEOREM AStarAnswersRight == AStarSpec => []AStarRight
  <1>1. QueryInit /\ AStarInit => AStarRight
    BY AStarInitInv
  <1>2. AStarInv /\ AStarRight /\ [AStarNext /\ UNCHANGED query]_<<query, aStarVars>>
          => AStarRight'
    BY AStarRightNext
  <1> QED BY <1>1, <1>2, AStarAlways, PTL DEF AStarSpec

---------------------------------------------------------------------------
\* Settling the last target leaves its neighbours out, and ends the search.
DijkstraInv ==
    /\ graph \in RoadGraphs /\ start \in Nodes
    /\ remaining_targets # {} =>
          /\ Frontier("forward", 1, distances, finalized, dijkstra_heap, Zero)
          /\ Queued(1, distances, finalized, dijkstra_heap, Zero)
    /\ remaining_targets \cap finalized = {}
    /\ remaining_targets \subseteq DOMAIN target_distances

TargetsRight ==
    /\ \A v \in DOMAIN target_distances \ remaining_targets :
          Shortest("forward", v, target_distances[v])
    /\ \A v \in remaining_targets : target_distances[v] = Unreached
    /\ dijkstra = "returned" => \A v \in remaining_targets : Unreachable("forward", v)

LEMMA DijkstraInitInv == QueryInit /\ DijkstraInit => DijkstraInv /\ TargetsRight
  <1> SUFFICES ASSUME QueryInit, DijkstraInit PROVE DijkstraInv /\ TargetsRight
    OBVIOUS
  <1>1. graph \in RoadGraphs /\ start \in Nodes
    BY RoadGraphsAssumption DEF QueryInit
  <1>2. Potential("forward", 1, Zero) /\ Zero[start] = 0
    BY <1>1, ForwardSide, ZeroPotential DEF Zero
  <1>3. /\ Frontier("forward", 1, distances, finalized, dijkstra_heap, Zero)
        /\ Queued(1, distances, finalized, dijkstra_heap, Zero)
    BY <1>1, <1>2, ForwardSide, FirstFrontier DEF DijkstraInit
  <1> QED BY <1>1, <1>3 DEF DijkstraInit, DijkstraInv, TargetsRight

LEMMA SettleDijkstra ==
  ASSUME DijkstraInv, TargetsRight, UNCHANGED query, DijkstraSettle
  PROVE  DijkstraInv' /\ TargetsRight'
  <1>1. PICK entry \in dijkstra_heap :
          LET u == entry.node
              d == entry.priority
              left == remaining_targets \ {u}
              near == IF left = {} THEN {} ELSE Nearer(u, d)
          IN  /\ DijkstraHead(entry)
              /\ u \notin finalized
              /\ finalized' = finalized \cup {u}
              /\ target_distances' = [v \in DOMAIN target_distances |->
                     IF v = u /\ u \in remaining_targets THEN d ELSE target_distances[v]]
              /\ remaining_targets' = left
              /\ distances' = Overwrite(distances, [v \in near |-> d + Length(u, v)])
              /\ dijkstra_heap' = (dijkstra_heap \ {entry})
                     \cup {Entry(d + Length(u, v), v) : v \in near}
              /\ UNCHANGED dijkstra
    BY DEF DijkstraSettle
  <1> DEFINE u == entry.node
             F == Falling("forward", distances, finalized, u)
  <1>2. /\ entry \in Least(dijkstra_heap) /\ u \notin finalized
        /\ remaining_targets # {} /\ dijkstra = "searching" /\ dijkstra' = dijkstra
        /\ finalized' = finalized \cup {u}
        /\ remaining_targets' = remaining_targets \ {u}
    BY <1>1 DEF DijkstraHead
  <1>3. /\ Frontier("forward", 1, distances, finalized, dijkstra_heap, Zero)
        /\ Queued(1, distances, finalized, dijkstra_heap, Zero)
        /\ Potential("forward", 1, Zero) /\ graph \in RoadGraphs
    BY <1>2, ForwardSide, ZeroPotential DEF DijkstraInv
  <1>4. /\ u \in DOMAIN distances /\ u \in Nodes
        /\ entry.priority = distances[u] + Zero[u]
        /\ Shortest("forward", u, distances[u])
    BY <1>2, <1>3, ForwardSide, HeadShortest DEF Frontier, CostsTyped
  <1>5. entry.priority = distances[u]
    BY <1>3, <1>4 DEF Zero, Frontier, CostsTyped
  <1>6. ASSUME remaining_targets' # {}
        PROVE  /\ Frontier("forward", 1, distances', finalized', dijkstra_heap', Zero)
               /\ Queued(1, distances', finalized', dijkstra_heap', Zero)
    <2>1. Nearer(u, entry.priority) = F
      BY <1>5, ForwardSide DEF Nearer, Falling
    <2>2. distances' = NewCosts("forward", distances, finalized, u)
      BY <1>1, <1>2, <1>5, <1>6, <2>1, ForwardSide DEF NewCosts
    <2>3. dijkstra_heap' = NewHeap("forward", 1, distances, finalized, dijkstra_heap, Zero, entry)
      <3>1. \A v \in F : v \in Nodes /\ distances[u] + Length(u, v) \in Nat
        <4>1. \A v \in Successors(u) : v \in Nodes /\ Length(u, v) \in Nat
          BY <1>3, <1>4, ForwardSide, EdgeLengthNat
        <4>2. distances[u] \in Nat
          BY <1>3, <1>4 DEF Frontier, CostsTyped
        <4> QED BY <4>1, <4>2 , ForwardSide DEF Falling
      <3>2. \A v \in F : Entry(entry.priority + Length(u, v), v)
                           = Entry(distances[u] + Length(u, v) + Zero[v], v)
        BY <1>5, <3>1 DEF Zero
      <3>3. {Entry(entry.priority + Length(u, v), v) : v \in Nearer(u, entry.priority)}
              = {Entry(distances[u] + Length(u, v) + Zero[v], v) : v \in F}
        BY <2>1, <3>2
      <3> QED BY <1>1, <1>2, <1>6, <3>3, ForwardSide DEF NewHeap
    <2> QED BY <1>2, <1>3, <2>2, <2>3, ForwardSide, SettleKeeps
  <1>7. DijkstraInv'
    BY <1>1, <1>2, <1>6, SameFrontier, SameQueue DEF DijkstraInv, query
  <1>8. \A v \in DOMAIN target_distances' \ remaining_targets' :
           Shortest("forward", v, target_distances'[v])
    BY <1>1, <1>4, <1>5 DEF TargetsRight
  <1>9. \A v \in remaining_targets' : target_distances'[v] = Unreached
    BY <1>1 DEF TargetsRight, DijkstraInv
  <1> QED BY <1>2, <1>7, <1>8, <1>9, ForwardSide, SameRoads DEF TargetsRight

LEMMA SkipDijkstra ==
  ASSUME DijkstraInv, TargetsRight, UNCHANGED query, DijkstraSkip
  PROVE  DijkstraInv' /\ TargetsRight'
  <1>1. PICK entry \in dijkstra_heap :
          /\ DijkstraHead(entry)
          /\ entry.node \in finalized
          /\ dijkstra_heap' = dijkstra_heap \ {entry}
          /\ UNCHANGED <<distances, finalized, remaining_targets, target_distances, dijkstra>>
    BY DEF DijkstraSkip
  <1>2. /\ Frontier("forward", 1, distances', finalized', dijkstra_heap', Zero)
        /\ Queued(1, distances', finalized', dijkstra_heap', Zero)
    BY <1>1, ForwardSide, SkipKeeps DEF DijkstraInv, DijkstraHead
  <1>3. DijkstraInv'
    BY <1>1, <1>2, SameFrontier, SameQueue DEF DijkstraInv, query
  <1> QED BY <1>1, <1>3, ForwardSide, SameRoads DEF TargetsRight

LEMMA EndDijkstra ==
  ASSUME DijkstraInv, TargetsRight, UNCHANGED query,
         DijkstraReturn \/ UNCHANGED dijkstraVars
  PROVE  DijkstraInv' /\ TargetsRight'
  <1>1. UNCHANGED <<dijkstra_heap, distances, finalized, remaining_targets, target_distances>>
    BY DEF DijkstraReturn, dijkstraVars
  <1>2. DijkstraInv'
    BY <1>1, SameFrontier, SameQueue DEF DijkstraInv, query
  <1>3. dijkstra' = "returned" => \A v \in remaining_targets : Unreachable("forward", v)
    <2>1. CASE UNCHANGED dijkstraVars
      BY <2>1 DEF dijkstraVars, TargetsRight
    <2>2. CASE DijkstraReturn
      <3>1. CASE remaining_targets = {}
        BY <3>1
      <3>2. CASE remaining_targets # {} /\ dijkstra_heap = {}
        BY <3>2, ForwardSide, EmptyHeap DEF DijkstraInv
      <3> QED BY <2>2, <3>1, <3>2 DEF DijkstraReturn
    <2> QED BY <2>1, <2>2
  <1> QED BY <1>1, <1>2, <1>3, ForwardSide, SameRoads DEF TargetsRight

LEMMA DijkstraAlways == DijkstraSpec => [](DijkstraInv /\ TargetsRight)
  <1>1. DijkstraInv /\ TargetsRight /\ [DijkstraNext /\ UNCHANGED query]_<<query, dijkstraVars>>
          => (DijkstraInv /\ TargetsRight)'
    BY SettleDijkstra, SkipDijkstra, EndDijkstra DEF DijkstraNext
  <1> QED BY <1>1, DijkstraInitInv, PTL DEF DijkstraSpec

\* The multi-target search gives every target the least length of any road to it,
\* and None only to targets that no road leads to, on every graph of any size.
THEOREM TargetsAnsweredRight == DijkstraSpec => []TargetsRight
  BY DijkstraAlways, PTL

---------------------------------------------------------------------------
(* Bidirectional A*: the meeting node always attains the least sum of the  *)
(* two sides' costs.                                                       *)

CostsOK ==
    /\ graph \in RoadGraphs /\ start \in Nodes /\ goal \in Nodes
    /\ g = [side \in Sides |-> g[side]]
    /\ heap = [side \in Sides |-> heap[side]]
    /\ \A side \in Sides :
          /\ DOMAIN g[side] \subseteq Nodes
          /\ g[side] \in [DOMAIN g[side] -> Nat]
          /\ \A e \in heap[side] : e.node \in DOMAIN g[side]

MeetingInv ==
    /\ CostsOK /\ MeetingIsLeast
    /\ best_distance \in Nat /\ meeting_node \in Nodes \cup {NoNode}

Between == DOMAIN g["forward"] \cap DOMAIN g["backward"]

---------------------------------------------------------------------------
\* The costs after u's expansion on one side.
Costs(side, u) ==
    Overwrite(g[side],
              [v \in Shortened(side, u) |-> g[side][u] + EdgeLength(side, u, v)])

LEMMA SideCostsFall ==
  ASSUME CostsOK, NEW side \in Sides, NEW u \in DOMAIN g[side]
  PROVE  /\ DOMAIN Costs(side, u) = DOMAIN g[side] \cup Shortened(side, u)
         /\ DOMAIN Costs(side, u) \subseteq Nodes
         /\ Costs(side, u) \in [DOMAIN Costs(side, u) -> Nat]
         /\ \A v \in DOMAIN g[side] \ Shortened(side, u) : Costs(side, u)[v] = g[side][v]
         /\ \A v \in DOMAIN g[side] \cap Shortened(side, u) : Costs(side, u)[v] < g[side][v]
  <1> DEFINE new(v) == g[side][u] + EdgeLength(side, u, v)
             C == Costs(side, u)
  <1>1. u \in Nodes /\ g[side][u] \in Nat /\ graph \in RoadGraphs
    BY DEF CostsOK
  <1>2. \A v \in Shortened(side, u) :
           /\ v \in Nodes
           /\ new(v) \in Nat
           /\ v \in DOMAIN g[side] => new(v) < g[side][v]
    <2>1. \A v \in Neighbours(side, u) : v \in Nodes /\ EdgeLength(side, u, v) \in Nat
      BY <1>1, EdgeLengthNat
    <2>2. \A v \in Shortened(side, u) :
             v \in Neighbours(side, u) /\ (v \in DOMAIN g[side] => new(v) < g[side][v])
      BY DEF Shortened, Improves
    <2> QED BY <1>1, <2>1, <2>2
  <1>3. C = [v \in DOMAIN g[side] \cup Shortened(side, u) |->
                IF v \in Shortened(side, u) THEN new(v) ELSE g[side][v]]
    BY DEF Costs, Overwrite
  <1>4. \A v \in DOMAIN g[side] : v \in Nodes /\ g[side][v] \in Nat
    BY DEF CostsOK
  <1> HIDE DEF new, C
  <1>5. DOMAIN C = DOMAIN g[side] \cup Shortened(side, u)
    BY <1>3
  <1>6. \A v \in DOMAIN C : v \in Nodes /\ C[v] \in Nat
    BY <1>2, <1>3, <1>4
  <1>7. \A v \in DOMAIN g[side] \ Shortened(side, u) : C[v] = g[side][v]
    BY <1>3
  <1>8. \A v \in DOMAIN g[side] \cap Shortened(side, u) : C[v] < g[side][v]
    BY <1>2, <1>3
  <1>9. C \in [DOMAIN C -> Nat]
    BY <1>3, <1>5, <1>6
  <1> QED BY <1>5, <1>6, <1>7, <1>8, <1>9 DEF C

\* Meet keeps the meeting node the least, whatever side's costs have fallen.
LEMMA MeetLeast ==
  ASSUME CostsOK, MeetingIsLeast, start # goal,
         NEW side \in Sides, NEW u \in DOMAIN g[side],
         Meet(side, u, Costs(side, u))
  PROVE  IsLeastMeeting(meeting_node', best_distance', Costs(side, u), g[Other(side)])
  <1> DEFINE cost == Costs(side, u)
             old(v) == g[side][v] + g[Other(side)][v]
             through(v) == cost[v] + g[Other(side)][v]
             met == DOMAIN cost \cap DOMAIN g[Other(side)]
             before == DOMAIN g[side] \cap DOMAIN g[Other(side)]
             fell == Shortened(side, u)
             closer == {v \in Met(side, u) :
                           meeting_node = NoNode \/ through(v) < best_distance}
  <1>0. SUFFICES /\ meeting_node' = NoNode <=> met = {}
                 /\ \A v \in met : best_distance' <= through(v)
                 /\ met # {} => meeting_node' \in met /\ best_distance' = through(meeting_node')
    BY DEF IsLeastMeeting
  <1>1. /\ meeting_node = NoNode <=> before = {}
        /\ \A v \in before : best_distance <= old(v)
        /\ before # {} => meeting_node \in before /\ best_distance = old(meeting_node)
    <2>1. /\ meeting_node = NoNode <=> Between = {}
          /\ \A v \in Between : best_distance <= g["forward"][v] + g["backward"][v]
          /\ Between # {} => /\ meeting_node \in Between
                             /\ best_distance = g["forward"][meeting_node] + g["backward"][meeting_node]
      BY DEF MeetingIsLeast, IsLeastMeeting, Between
    <2>2. before = Between
      BY DEF Between, Sides, Other
    <2>3. \A v \in Between : old(v) = g["forward"][v] + g["backward"][v]
      <3>1. \A v \in Between : g["forward"][v] \in Nat /\ g["backward"][v] \in Nat
        BY DEF CostsOK, Sides, Between
      <3> QED BY <3>1 DEF Sides, Other
    <2> QED BY <2>1, <2>2, <2>3
  <1>2. /\ DOMAIN cost = DOMAIN g[side] \cup fell
        /\ DOMAIN cost \subseteq Nodes
        /\ \A v \in DOMAIN cost : cost[v] \in Nat
        /\ \A v \in DOMAIN g[side] \ fell : cost[v] = g[side][v]
        /\ \A v \in DOMAIN g[side] \cap fell : cost[v] < g[side][v]
    BY SideCostsFall
  <1>3. /\ \A v \in DOMAIN g[side] : g[side][v] \in Nat
        /\ \A v \in DOMAIN g[Other(side)] : g[Other(side)][v] \in Nat
    BY DEF CostsOK, Sides, Other
  <1>4. Met(side, u) = (fell \cup {u}) \cap DOMAIN g[Other(side)]
    BY DEF Met
  <1>5. IF closer = {} THEN meeting_node' = meeting_node /\ best_distance' = best_distance
        ELSE \E v \in closer : /\ \A w \in closer : through(v) <= through(w)
                               /\ best_distance' = through(v)
                               /\ meeting_node' = v
    BY DEF Meet
  <1> HIDE DEF cost, fell
  <1>6. /\ met = before \cup (fell \cap DOMAIN g[Other(side)])
        /\ Met(side, u) \subseteq met
        /\ NoNode \notin met
    BY <1>2, <1>4, NoNodeAssumption
  <1>7. /\ \A v \in met : through(v) \in Nat
        /\ \A v \in before : old(v) \in Nat /\ through(v) <= old(v)
        /\ \A v \in before \ fell : through(v) = old(v)
        /\ \A v \in before \cap fell : through(v) < old(v)
    BY <1>2, <1>3
  <1> HIDE DEF old, through, before, met
  <1>8. CASE closer = {}
    <2>1. meeting_node' = meeting_node /\ best_distance' = best_distance
      BY <1>5, <1>8
    <2>2. \A v \in Met(side, u) : meeting_node # NoNode /\ ~(through(v) < best_distance)
      BY <1>8
    <2>3. CASE before = {}
      BY <1>1, <1>4, <1>6, <2>1, <2>2, <2>3
    <2>4. CASE before # {}
      <3>1. meeting_node \in before /\ best_distance = old(meeting_node) /\ best_distance \in Nat
        BY <1>1, <1>7, <2>4
      <3>2. meeting_node \notin fell
        <4>1. ASSUME meeting_node \in fell PROVE FALSE
          <5>1. meeting_node \in Met(side, u)
            BY <1>4, <3>1, <4>1 DEF before
          <5> QED BY <1>7, <2>2, <3>1, <4>1, <5>1
        <4> QED BY <4>1
      <3>3. best_distance = through(meeting_node)
        BY <1>7, <3>1, <3>2
      <3>4. \A v \in met : best_distance <= through(v)
        <4>1. TAKE v \in met
        <4>2. CASE v \in fell
          BY <1>4, <1>6, <1>7, <2>2, <3>1, <4>1, <4>2 DEF met
        <4>3. CASE v \notin fell
          BY <1>1, <1>6, <1>7, <4>1, <4>3
        <4> QED BY <4>2, <4>3
      <3> QED BY <1>6, <2>1, <3>1, <3>3, <3>4
    <2> QED BY <2>3, <2>4
  <1>9. CASE closer # {}
    <2>1. PICK x \in closer : /\ \A w \in closer : through(x) <= through(w)
                              /\ best_distance' = through(x)
                              /\ meeting_node' = x
      BY <1>5, <1>9
    <2>2. x \in met /\ through(x) \in Nat
      BY <1>6, <1>7, <2>1
    <2>3. \A v \in met : through(x) <= through(v)
      <3>1. TAKE v \in met
      <3>2. CASE v \in closer
        BY <2>1, <3>2
      <3>3. CASE v \notin closer /\ v \in fell
        <4>1. v \in Met(side, u)
          BY <1>4, <3>1, <3>3 DEF met
        <4>2. meeting_node # NoNode /\ ~(through(v) < best_distance)
          BY <3>3, <4>1
        <4>3. best_distance \in Nat /\ through(x) < best_distance
          BY <1>1, <1>7, <2>1, <4>2
        <4> QED BY <1>7, <2>2, <3>1, <4>2, <4>3
      <3>4. CASE v \notin closer /\ v \notin fell
        <4>1. v \in before /\ before # {} /\ through(v) = old(v)
          BY <1>6, <1>7, <3>1, <3>4
        <4>2. best_distance <= through(v) /\ meeting_node # NoNode /\ best_distance \in Nat
          BY <1>1, <1>7, <4>1
        <4>3. through(x) < best_distance
          BY <2>1, <4>2
        <4> QED BY <1>7, <2>2, <3>1, <4>2, <4>3
      <3> QED BY <3>2, <3>3, <3>4
    <2> QED BY <1>6, <2>1, <2>2, <2>3
  <1> QED BY <1>8, <1>9

---------------------------------------------------------------------------
LEMMA InitMeeting == QueryInit /\ BidirectionalInit => MeetingInv
  <1> SUFFICES ASSUME QueryInit, BidirectionalInit PROVE MeetingInv
    OBVIOUS
  <1>1. graph \in RoadGraphs /\ start \in Nodes /\ goal \in Nodes
    BY RoadGraphsAssumption DEF QueryInit
  <1>2. CostsOK
    BY <1>1 DEF BidirectionalInit, CostsOK, Sides, Root, Push, Entry
  <1>3. MeetingIsLeast
    BY DEF BidirectionalInit, MeetingIsLeast, IsLeastMeeting, Sides, Root
  <1> QED BY <1>2, <1>3 DEF MeetingInv, BidirectionalInit

LEMMA ExpandMeeting ==
  ASSUME MeetingInv, UNCHANGED query, NEW side \in Sides, Expand(side)
  PROVE  MeetingInv'
  <1>1. PICK tops \in Tops :
          LET u == tops[side].node
              cost == [v \in Shortened(side, u) |-> g[side][u] + EdgeLength(side, u, v)]
          IN  /\ g' = [g EXCEPT ![side] = Overwrite(g[side], cost)]
              /\ heap' = [heap EXCEPT ![side] = (@ \ {tops[side]})
                                \cup {Push(side, v, cost[v]) : v \in DOMAIN cost}]
              /\ Meet(side, u, Overwrite(g[side], cost))
    BY DEF Expand
  <1> DEFINE u == tops[side].node
             cost == [v \in Shortened(side, u) |-> g[side][u] + EdgeLength(side, u, v)]
  <1>2. /\ g' = [g EXCEPT ![side] = Costs(side, u)]
        /\ heap' = [heap EXCEPT ![side] = (@ \ {tops[side]})
                          \cup {Push(side, v, cost[v]) : v \in Shortened(side, u)}]
        /\ Meet(side, u, Costs(side, u))
    BY <1>1 DEF Costs
  <1>3. start # goal /\ UNCHANGED <<graph, start, goal>>
    BY DEF Expand, Looping, query
  <1>4. u \in DOMAIN g[side]
    <2>1. tops[side] \in heap[side]
      BY DEF Tops, Least
    <2> QED BY <2>1 DEF MeetingInv, CostsOK
  <1> HIDE DEF u, cost
  <1>5. /\ g = [s \in Sides |-> g[s]] /\ heap = [s \in Sides |-> heap[s]]
        /\ Other(side) \in Sides /\ Other(side) # side
        /\ \A s \in Sides : s = side \/ s = Other(side)
    BY DEF MeetingInv, CostsOK, Sides, Other
  <1>6. /\ g' = [s \in Sides |-> g'[s]] /\ heap' = [s \in Sides |-> heap'[s]]
        /\ g'[side] = Costs(side, u) /\ g'[Other(side)] = g[Other(side)]
        /\ heap'[side] = (heap[side] \ {tops[side]})
                \cup {Push(side, v, cost[v]) : v \in Shortened(side, u)}
        /\ heap'[Other(side)] = heap[Other(side)]
    BY <1>2, <1>5
  <1>7. /\ DOMAIN Costs(side, u) = DOMAIN g[side] \cup Shortened(side, u)
        /\ DOMAIN Costs(side, u) \subseteq Nodes
        /\ Costs(side, u) \in [DOMAIN Costs(side, u) -> Nat]
    BY <1>4, SideCostsFall DEF MeetingInv
  <1>8. CostsOK'
    <2>1. \A e \in heap'[side] : e.node \in DOMAIN g'[side]
      BY <1>6, <1>7 DEF MeetingInv, CostsOK, Push, Entry
    <2>2. \A s \in Sides : /\ DOMAIN g'[s] \subseteq Nodes
                           /\ g'[s] \in [DOMAIN g'[s] -> Nat]
                           /\ \A e \in heap'[s] : e.node \in DOMAIN g'[s]
      BY <1>5, <1>6, <1>7, <2>1 DEF MeetingInv, CostsOK
    <2> QED BY <1>3, <1>6, <2>2 DEF MeetingInv, CostsOK
  <1>9. IsLeastMeeting(meeting_node', best_distance', g'[side], g'[Other(side)])
    BY <1>2, <1>3, <1>4, <1>6, MeetLeast DEF MeetingInv
  <1>10. IsLeastMeeting(meeting_node', best_distance', g'["forward"], g'["backward"])
    <2>1. CASE side = "forward"
      BY <1>9, <2>1 DEF Other
    <2>2. CASE side = "backward"
      <3>1. IsLeastMeeting(meeting_node', best_distance', g'["backward"], g'["forward"])
        BY <1>9, <2>2 DEF Other
      <3>2. \A v \in DOMAIN g'["forward"] \cap DOMAIN g'["backward"] :
               g'["forward"][v] \in Nat /\ g'["backward"][v] \in Nat
        BY <1>8 DEF CostsOK, Sides
      <3> QED BY <3>1, <3>2 DEF IsLeastMeeting
    <2> QED BY <2>1, <2>2 DEF Sides
  <1>11. best_distance' \in Nat /\ meeting_node' \in Nodes \cup {NoNode}
    <2>1. \/ UNCHANGED <<best_distance, meeting_node>>
          \/ \E v \in Met(side, u) : /\ best_distance' = Costs(side, u)[v] + g[Other(side)][v]
                                    /\ meeting_node' = v
      BY <1>2 DEF Meet
    <2>2. \A v \in Met(side, u) : /\ v \in DOMAIN Costs(side, u) /\ v \in Nodes
                                 /\ Costs(side, u)[v] \in Nat /\ g[Other(side)][v] \in Nat
      <3>1. \A v \in Met(side, u) : v \in DOMAIN Costs(side, u) /\ v \in DOMAIN g[Other(side)]
        BY <1>4, <1>7 DEF Met
      <3> QED BY <1>5, <1>7, <3>1 DEF MeetingInv, CostsOK
    <2> QED BY <2>1, <2>2 DEF MeetingInv
  <1> QED BY <1>8, <1>10, <1>11 DEF MeetingInv, MeetingIsLeast

LEMMA OthersMeeting ==
  ASSUME MeetingInv, UNCHANGED query,
         \/ BidirectionalAlreadyThere \/ Return \/ UNCHANGED bidirectionalVars
         \/ \E side \in Sides : PeekDrop(side)
  PROVE  MeetingInv'
  <1>1. /\ UNCHANGED <<graph, start, goal, g, best_distance, meeting_node>>
        /\ \/ heap' = heap
           \/ \E side \in Sides : \E entry \in heap[side] :
                 heap' = [heap EXCEPT ![side] = @ \ {entry}]
    BY DEF query, BidirectionalAlreadyThere, Return, PeekDrop, Least, bidirectionalVars, sides
  <1>2. /\ heap' = [side \in Sides |-> heap'[side]]
        /\ \A side \in Sides : heap'[side] \subseteq heap[side]
    BY <1>1 DEF MeetingInv, CostsOK
  <1> QED BY <1>1, <1>2 DEF MeetingInv, CostsOK, MeetingIsLeast

\* On every graph, however roads and straight lines compare: meeting_node attains
\* the least sum of the costs of the two sides whenever the loop reads it.
THEOREM MeetingAlwaysLeast == BidirectionalSpec => []MeetingIsLeast
  <1>1. MeetingInv /\ [BidirectionalNext /\ UNCHANGED query]_<<query, bidirectionalVars>>
          => MeetingInv'
    BY ExpandMeeting, OthersMeeting DEF BidirectionalNext
  <1>2. MeetingInv => MeetingIsLeast
    BY DEF MeetingInv
  <1> QED BY <1>1, <1>2, InitMeeting, PTL DEF BidirectionalSpec

---------------------------------------------------------------------------
(* The two sides of the bidirectional search: a road to the goal is, read  *)
(* backwards, a road of the other side, and where the sides meet their     *)
(* roads join.                                                             *)
LEMMA OtherSide ==
  ASSUME NEW side \in Sides
  PROVE  /\ Other(side) \in Sides /\ Other(side) # side /\ Other(Other(side)) = side
         /\ \A s \in Sides : s = side \/ s = Other(side)
  BY DEF Sides, Other

LEMMA TurnEdge ==
  ASSUME NEW side \in Sides, NEW u \in Nodes, NEW v \in Neighbours(side, u)
  PROVE  /\ u \in Neighbours(Other(side), v)
         /\ EdgeLength(Other(side), v, u) = EdgeLength(side, u, v)
  BY DEF Sides, Other, Neighbours, EdgeLength, Successors, Predecessors

LEMMA ReverseRoad ==
  ASSUME graph \in RoadGraphs, NEW side \in Sides, NEW n, NEW p, NEW d,
         IsRoad(side, n, p, d), p[n] = Root(Other(side))
  PROVE  IsRoad(Other(side), n, [i \in 1 .. n |-> p[n + 1 - i]],
                [i \in 1 .. n |-> d[n] - d[n + 1 - i]])
  <1> DEFINE q == [i \in 1 .. n |-> p[n + 1 - i]]
             c == [i \in 1 .. n |-> d[n] - d[n + 1 - i]]
  <1>1. /\ n \in Nat \ {0} /\ 1 \in 1 .. n /\ n \in 1 .. n
        /\ \A i \in 1 .. n : p[i] \in Nodes /\ d[i] \in Nat
    BY DEF IsRoad
  <1>2. \A i \in 1 .. n : n + 1 - i \in 1 .. n /\ n \in (n + 1 - i) .. n
    BY <1>1
  <1>3. \A i \in 1 .. n : q[i] = p[n + 1 - i] /\ c[i] = d[n] - d[n + 1 - i]
    OBVIOUS
  <1>4. \A i \in 1 .. n : d[n + 1 - i] <= d[n]
    BY <1>1, <1>2, RoadsLengthen
  <1>5. q \in [1 .. n -> Nodes]
    BY <1>1, <1>2
  <1>6. c \in [1 .. n -> Nat]
    <2>1. \A i \in 1 .. n : d[n] - d[n + 1 - i] \in Nat
      BY <1>1, <1>2, <1>4
    <2> QED BY <2>1
  <1> HIDE DEF q, c
  <1>7. n + 1 - 1 = n
    BY <1>1
  <1>8. q[1] = Root(Other(side)) /\ c[1] = 0
    BY <1>1, <1>3, <1>7
  <1>9. ASSUME NEW i \in 1 .. n - 1
        PROVE  /\ q[i + 1] \in Neighbours(Other(side), q[i])
               /\ c[i + 1] = c[i] + EdgeLength(Other(side), q[i], q[i + 1])
    <2> DEFINE k == n - i
    <2>1. /\ i \in 1 .. n /\ i + 1 \in 1 .. n /\ k \in 1 .. n - 1
          /\ n + 1 - i = k + 1 /\ n + 1 - (i + 1) = k /\ k \in 1 .. n /\ k + 1 \in 1 .. n
      BY <1>1
    <2> HIDE DEF k
    <2>2. /\ p[k + 1] \in Neighbours(side, p[k])
          /\ d[k + 1] = d[k] + EdgeLength(side, p[k], p[k + 1])
      BY <2>1 DEF IsRoad
    <2>3. /\ p[k] \in Neighbours(Other(side), p[k + 1])
          /\ EdgeLength(Other(side), p[k + 1], p[k]) = EdgeLength(side, p[k], p[k + 1])
          /\ EdgeLength(side, p[k], p[k + 1]) \in Nat
      BY <1>1, <2>1, <2>2, TurnEdge, EdgeLengthNat
    <2>4. q[i] = p[k + 1] /\ q[i + 1] = p[k] /\ c[i] = d[n] - d[k + 1] /\ c[i + 1] = d[n] - d[k]
      BY <1>3, <2>1
    <2>5. d[n] \in Nat /\ d[k] \in Nat /\ d[k + 1] \in Nat
      BY <1>1, <2>1
    <2> QED BY <2>2, <2>3, <2>4, <2>5
  <1>10. IsRoad(Other(side), n, q, c)
    BY <1>1, <1>5, <1>6, <1>8, <1>9 DEF IsRoad
  <1> QED BY <1>10 DEF q, c

\* No road from one end to the other, in either direction.
LEMMA TurnUnreachable ==
  ASSUME graph \in RoadGraphs, NEW side \in Sides, Unreachable(side, Root(Other(side)))
  PROVE  Unreachable("forward", goal)
  <1> SUFFICES ASSUME NEW n, NEW p, NEW d, IsRoad("forward", n, p, d), p[n] = goal
               PROVE  FALSE
    BY DEF Unreachable
  <1>1. CASE side = "forward"
    BY <1>1 DEF Unreachable, Root, Other
  <1>2. CASE side = "backward"
    <2>1. "forward" \in Sides /\ Other("forward") = "backward" /\ Root("backward") = goal
      BY DEF Sides, Other, Root
    <2> DEFINE q == [i \in 1 .. n |-> p[n + 1 - i]]
               c == [i \in 1 .. n |-> d[n] - d[n + 1 - i]]
    <2>2. IsRoad("backward", n, q, c)
      BY <2>1, ReverseRoad
    <2>3. q[n] = p[1] /\ p[1] = start
      <3>1. n \in Nat \ {0} /\ n \in 1 .. n /\ n + 1 - n = 1 /\ p[1] = start
        BY ForwardSide DEF IsRoad
      <3> QED BY <3>1
    <2> HIDE DEF q, c
    <2> QED BY <1>2, <2>2, <2>3 DEF Unreachable, Root, Other
  <1> QED BY <1>1, <1>2 DEF Sides

Joined(n, p, m, q) == [i \in 1 .. n + m - 1 |-> IF i <= n THEN p[i] ELSE q[n + m - i]]

\* A road from the start and one from the goal that end in the same node.
LEMMA JoinRoads ==
  ASSUME graph \in RoadGraphs,
         NEW n, NEW p, NEW d, IsRoad("forward", n, p, d),
         NEW m, NEW q, NEW c, IsRoad("backward", m, q, c), p[n] = q[m],
         NEW r, r = Joined(n, p, m, q)
  PROVE  \E e : /\ IsRoad("forward", n + m - 1, r, e)
                /\ r[n + m - 1] = goal /\ e[n + m - 1] = d[n] + c[m]
  <1> DEFINE N == n + m - 1
             e == [i \in 1 .. N |-> IF i <= n THEN d[i] ELSE d[n] + c[m] - c[n + m - i]]
  <1>0. r = [i \in 1 .. N |-> IF i <= n THEN p[i] ELSE q[n + m - i]]
    BY DEF Joined
  <1>1. /\ n \in Nat \ {0} /\ m \in Nat \ {0} /\ n \in 1 .. n /\ 1 \in 1 .. n /\ m \in 1 .. m
        /\ \A i \in 1 .. n : p[i] \in Nodes /\ d[i] \in Nat
        /\ \A i \in 1 .. m : q[i] \in Nodes /\ c[i] \in Nat
        /\ p[1] = start /\ d[1] = 0 /\ q[1] = goal /\ c[1] = 0
    BY DEF IsRoad, Root
  <1>2. /\ "forward" \in Sides /\ "backward" \in Sides
        /\ Root("forward") = start
        /\ \A u \in Nodes : \A v \in Neighbours("backward", u) :
              /\ u \in Neighbours("forward", v)
              /\ EdgeLength("forward", v, u) = EdgeLength("backward", u, v)
              /\ EdgeLength("backward", u, v) \in Nat
    <2>1. "forward" \in Sides /\ "backward" \in Sides /\ Other("backward") = "forward"
      BY DEF Sides, Other
    <2>2. \A u \in Nodes : \A v \in Neighbours("backward", u) :
             /\ u \in Neighbours(Other("backward"), v)
             /\ EdgeLength(Other("backward"), v, u) = EdgeLength("backward", u, v)
             /\ EdgeLength("backward", u, v) \in Nat
      BY <2>1, TurnEdge, EdgeLengthNat
    <2> QED BY <2>1, <2>2 DEF Root
  <1>3. \A i \in 1 .. m : c[i] <= c[m]
    <2>1. \A i \in 1 .. m : m \in i .. m
      BY <1>1
    <2> QED BY <1>2, <2>1, RoadsLengthen
  <1>4. /\ N \in Nat \ {0} /\ N \in 1 .. N /\ 1 \in 1 .. N
        /\ \A i \in 1 .. N : i \in 1 .. n \/ (n < i /\ n + m - i \in 1 .. m)
    BY <1>1
  \* On from the meeting node the nodes are q's and the lengths count down.
  <1>5. \A i \in n .. N : /\ i \in 1 .. N /\ n + m - i \in 1 .. m
                          /\ r[i] = q[n + m - i]
                          /\ e[i] = d[n] + c[m] - c[n + m - i]
    <2>1. \A i \in n .. N : /\ i \in 1 .. N /\ n + m - i \in 1 .. m
                            /\ i <= n => i = n /\ n + m - i = m
      BY <1>1
    <2>2. d[n] + c[m] - c[m] = d[n]
      BY <1>1
    <2> QED BY <1>0, <2>1, <2>2
  <1>6. \A i \in 1 .. n : i \in 1 .. N /\ r[i] = p[i] /\ e[i] = d[i]
    BY <1>0, <1>1
  <1>7. e \in [1 .. N -> Nat] /\ r \in [1 .. N -> Nodes]
    <2>1. ASSUME NEW i \in 1 .. N
          PROVE  (IF i <= n THEN d[i] ELSE d[n] + c[m] - c[n + m - i]) \in Nat
      <3>1. CASE i <= n
        BY <1>1, <1>4, <3>1
      <3>2. CASE ~(i <= n)
        <4>1. n + m - i \in 1 .. m
          BY <1>1, <1>4, <3>2
        <4>2. c[n + m - i] \in Nat /\ c[m] \in Nat /\ d[n] \in Nat /\ c[n + m - i] <= c[m]
          BY <1>1, <1>3, <4>1
        <4> QED BY <3>2, <4>2
      <3> QED BY <3>1, <3>2
    <2>2. ASSUME NEW i \in 1 .. N
          PROVE  (IF i <= n THEN p[i] ELSE q[n + m - i]) \in Nodes
      BY <1>1, <1>4
    <2>3. e \in [1 .. N -> Nat]
      BY <2>1
    <2>4. r \in [1 .. N -> Nodes]
      BY <1>0, <2>2
    <2> QED BY <2>3, <2>4
  <1> HIDE DEF e, N
  <1>8. ASSUME NEW i \in 1 .. N - 1
        PROVE  /\ r[i + 1] \in Neighbours("forward", r[i])
               /\ e[i + 1] = e[i] + EdgeLength("forward", r[i], r[i + 1])
    <2>1. CASE i < n
      <3>1. i \in 1 .. n - 1 /\ i \in 1 .. n /\ i + 1 \in 1 .. n
        BY <1>1, <1>4, <2>1
      <3> QED BY <1>6, <3>1 DEF IsRoad
    <2>2. CASE ~(i < n)
      <3> DEFINE k == n + m - (i + 1)
      <3>1. /\ k \in 1 .. m - 1 /\ k + 1 = n + m - i /\ k \in 1 .. m /\ k + 1 \in 1 .. m
            /\ i \in n .. N /\ i + 1 \in n .. N
        BY <1>1, <1>4, <2>2 DEF N
      <3> HIDE DEF k
      <3>2. /\ q[k + 1] \in Neighbours("backward", q[k])
            /\ c[k + 1] = c[k] + EdgeLength("backward", q[k], q[k + 1])
        BY <3>1 DEF IsRoad
      <3>3. /\ q[k] \in Neighbours("forward", q[k + 1])
            /\ EdgeLength("forward", q[k + 1], q[k]) = EdgeLength("backward", q[k], q[k + 1])
            /\ EdgeLength("backward", q[k], q[k + 1]) \in Nat
        BY <1>1, <1>2, <3>1, <3>2
      <3>4. /\ r[i] = q[k + 1] /\ e[i] = d[n] + c[m] - c[k + 1]
            /\ r[i + 1] = q[k] /\ e[i + 1] = d[n] + c[m] - c[k]
        BY <1>5, <3>1 DEF k
      <3>5. d[n] \in Nat /\ c[m] \in Nat /\ c[k] \in Nat /\ c[k + 1] \in Nat
        BY <1>1, <3>1
      <3> QED BY <3>2, <3>3, <3>4, <3>5
    <2> QED BY <2>1, <2>2
  <1>9. r[1] = start /\ e[1] = 0
    BY <1>1, <1>6
  <1>10. r[N] = goal /\ e[N] = d[n] + c[m]
    <2>1. N \in n .. N /\ n + m - N = 1
      BY <1>1 DEF N
    <2>2. d[n] + c[m] - c[1] = d[n] + c[m]
      BY <1>1
    <2> QED BY <1>1, <1>5, <2>1, <2>2
  <1>11. IsRoad("forward", N, r, e)
    BY <1>2, <1>4, <1>7, <1>8, <1>9 DEF IsRoad
  <1> QED BY <1>10, <1>11 DEF N

\* The two potentials are opposite halves, and consistent like the straight line.
Halves(side) == [v \in Nodes |-> TwicePotential(side, v)]

LEMMA HalvesOpposite ==
  ASSUME QueryOK
  PROVE  /\ \A side \in Sides : Potential(side, 2, Halves(side))
         /\ \A v \in Nodes : Halves("forward")[v] + Halves("backward")[v] = 0
  <1>1. \A side \in Sides : Root(side) \in Nodes /\ Other(side) \in Sides
    BY DEF QueryOK, Root, Sides, Other
  <1>2. \A u, v \in Nodes : Crow[<<u, v>>] \in Nat
    BY RoadGraphsAssumption
  <1>3. \A side \in Sides : \A v \in Nodes :
           Halves(side)[v] = Crow[<<v, Root(Other(side))>>] - Crow[<<v, Root(side)>>]
    BY DEF Halves, TwicePotential
  <1>4. ASSUME NEW side \in Sides PROVE Potential(side, 2, Halves(side))
    <2>1. \A v \in Nodes : Halves(side)[v] \in Int
      <3>1. \A v \in Nodes : /\ Crow[<<v, Root(side)>>] \in Int
                             /\ Crow[<<v, Root(Other(side))>>] \in Int
        BY <1>1, <1>2
      <3>2. ASSUME NEW v \in Nodes PROVE Halves(side)[v] \in Int
        <4>1. Halves(side)[v] = Crow[<<v, Root(Other(side))>>] - Crow[<<v, Root(side)>>]
          BY <1>3
        <4> QED BY <3>1, <4>1
      <3> QED BY <3>2
    <2>2. ASSUME NEW u \in Nodes, NEW v \in Neighbours(side, u)
          PROVE  Halves(side)[u] <= Scaled(2, EdgeLength(side, u, v)) + Halves(side)[v]
      <3> DEFINE here == Root(side)
                 there == Root(Other(side))
      <3>1. /\ v \in Nodes /\ EdgeLength(side, u, v) \in Nat
            /\ Crow[<<u, v>>] <= EdgeLength(side, u, v)
        BY <2>2, EdgeLengthNat DEF QueryOK
      <3>2. here \in Nodes /\ there \in Nodes
        BY <1>1
      <3> HIDE DEF here, there
      <3>3. /\ Crow[<<u, there>>] <= Crow[<<u, v>>] + Crow[<<v, there>>]
            /\ Crow[<<v, here>>] <= Crow[<<u, v>>] + Crow[<<u, here>>]
        <4>1. Crow[<<v, here>>] <= Crow[<<v, u>>] + Crow[<<u, here>>] /\ Crow[<<v, u>>] = Crow[<<u, v>>]
          BY <3>1, <3>2, CrowAssumption
        <4> QED BY <3>1, <3>2, <4>1, CrowAssumption
      <3>4. /\ Halves(side)[u] = Crow[<<u, there>>] - Crow[<<u, here>>]
            /\ Halves(side)[v] = Crow[<<v, there>>] - Crow[<<v, here>>]
        BY <1>3, <3>1 DEF here, there
      <3>5. /\ Crow[<<u, there>>] \in Nat /\ Crow[<<u, here>>] \in Nat /\ Crow[<<u, v>>] \in Nat
            /\ Crow[<<v, there>>] \in Nat /\ Crow[<<v, here>>] \in Nat
        BY <1>2, <3>1, <3>2
      <3> QED BY <3>1, <3>3, <3>4, <3>5 DEF Scaled
    <2>3. Halves(side) \in [Nodes -> Int]
      BY <2>1 DEF Halves
    <2> QED BY <2>2, <2>3 DEF Potential
  <1>5. ASSUME NEW v \in Nodes PROVE Halves("forward")[v] + Halves("backward")[v] = 0
    <2>1. /\ Halves("forward")[v] = Crow[<<v, goal>>] - Crow[<<v, start>>]
          /\ Halves("backward")[v] = Crow[<<v, start>>] - Crow[<<v, goal>>]
      BY <1>3 DEF Sides, Other, Root
    <2>2. Crow[<<v, goal>>] \in Nat /\ Crow[<<v, start>>] \in Nat
      BY <1>2 DEF QueryOK
    <2> QED BY <2>1, <2>2
  <1> QED BY <1>4, <1>5

LEMMA SameHalves ==
  ASSUME UNCHANGED query
  PROVE  \A side : Halves(side)' = Halves(side)
  BY DEF query, Halves, TwicePotential, Root

\* Each side is a frontier with its tree.
SideInv(side) ==
    /\ Frontier(side, 2, g[side], done[side], heap[side], Halves(side))
    /\ Queued(2, g[side], done[side], heap[side], Halves(side))
    /\ Tree(side, g[side], done[side], parents[side])

SidesInv ==
    /\ QueryOK
    /\ g = [side \in Sides |-> g[side]] /\ heap = [side \in Sides |-> heap[side]]
    /\ parents = [side \in Sides |-> parents[side]] /\ done = [side \in Sides |-> done[side]]
    /\ \A side \in Sides : SideInv(side)

\* No cost of a settled node falls, although the code compares those as well.
LEMMA ShortenedFalling ==
  ASSUME graph \in RoadGraphs, NEW side \in Sides,
         CostsTyped(side, g[side], done[side], heap[side]),
         CostsAreRoads(side, g[side], done[side]), NEW u \in DOMAIN g[side]
  PROVE  Shortened(side, u) = Falling(side, g[side], done[side], u)
  <1>1. \A v \in DOMAIN g[side] : v \in Nodes /\ g[side][v] \in Nat /\ RoadTo(side, v, g[side][v])
    BY DEF CostsTyped, CostsAreRoads
  <1>2. ASSUME NEW v \in Neighbours(side, u), v \in done[side] \cup {u}
        PROVE  ~Improves(g[side][u] + EdgeLength(side, u, v), g[side], v)
    <2>1. v \in DOMAIN g[side] /\ EdgeLength(side, u, v) \in Nat
      BY <1>1, <1>2, EdgeLengthNat DEF CostsTyped
    <2>2. CASE v = u
      BY <1>1, <2>1, <2>2 DEF Improves
    <2>3. CASE v \in done[side]
      <3>1. RoadTo(side, v, g[side][u] + EdgeLength(side, u, v))
        BY <1>1, <1>2, ExtendRoad
      <3>2. g[side][v] <= g[side][u] + EdgeLength(side, u, v)
        BY <2>3, <3>1 DEF CostsAreRoads, Shortest, RoadTo
      <3> QED BY <1>1, <2>1, <3>2 DEF Improves
    <2> QED BY <1>2, <2>2, <2>3
  <1> QED BY <1>2 DEF Shortened, Falling

LEMMA InitSides == QueryInit /\ BidirectionalInit => SidesInv
  <1> SUFFICES ASSUME QueryInit, BidirectionalInit PROVE SidesInv
    OBVIOUS
  <1>1. QueryOK
    BY QueryInitOK
  <1>2. ASSUME NEW side \in Sides PROVE SideInv(side)
    <2>1. Root(side) \in Nodes /\ 2 \in Units
      BY <1>1 DEF QueryOK, Root, Sides, Units
    <2>2. Potential(side, 2, Halves(side))
      BY <1>1, HalvesOpposite
    <2>3. Push(side, Root(side), 0) = Entry(Halves(side)[Root(side)], Root(side))
      <3>1. Halves(side)[Root(side)] = TwicePotential(side, Root(side))
        BY <2>1 DEF Halves
      <3>2. 2 * 0 + Halves(side)[Root(side)] = Halves(side)[Root(side)]
        BY <2>1, <2>2 DEF Potential
      <3> QED BY <3>1, <3>2 DEF Push
    <2>4. /\ g[side] = [v \in {Root(side)} |-> 0] /\ done[side] = {}
          /\ heap[side] = {Entry(Halves(side)[Root(side)], Root(side))}
          /\ parents[side] = [v \in {} |-> start]
      BY <2>3 DEF BidirectionalInit
    <2>5. Tree(side, g[side], done[side], parents[side])
      BY <2>4, FirstTree
    <2> QED BY <1>1, <2>1, <2>2, <2>4, <2>5, FirstFrontier DEF SideInv, QueryOK
  <1> QED BY <1>1, <1>2 DEF SidesInv, BidirectionalInit

LEMMA ExpandSides ==
  ASSUME SidesInv, UNCHANGED query, NEW side \in Sides, Expand(side)
  PROVE  SidesInv'
  <1>1. PICK tops \in Tops :
          LET u == tops[side].node
              cost == [v \in Shortened(side, u) |-> g[side][u] + EdgeLength(side, u, v)]
          IN  /\ done' = [done EXCEPT ![side] = @ \cup {u}]
              /\ g' = [g EXCEPT ![side] = Overwrite(g[side], cost)]
              /\ parents' = [parents EXCEPT ![side] =
                                Overwrite(@, [v \in DOMAIN cost |-> u])]
              /\ heap' = [heap EXCEPT ![side] = (@ \ {tops[side]})
                                \cup {Push(side, v, cost[v]) : v \in DOMAIN cost}]
    BY DEF Expand
  <1> DEFINE top == tops[side]
             u == top.node
             F == Falling(side, g[side], done[side], u)
             h == Halves(side)
  <1>2. top \in Least(heap[side]) /\ u \notin done[side]
    BY DEF Tops
  <1>3. /\ Frontier(side, 2, g[side], done[side], heap[side], h)
        /\ Queued(2, g[side], done[side], heap[side], h)
        /\ Tree(side, g[side], done[side], parents[side])
        /\ graph \in RoadGraphs /\ Potential(side, 2, h) /\ 2 \in Units
    BY HalvesOpposite DEF SidesInv, SideInv, QueryOK, Units
  <1>4. /\ CostsTyped(side, g[side], done[side], heap[side])
        /\ CostsAreRoads(side, g[side], done[side])
        /\ u \in DOMAIN g[side]
    BY <1>2, <1>3 DEF Frontier, CostsTyped, Least
  <1>5. Shortened(side, u) = F
    BY <1>3, <1>4, ShortenedFalling
  <1>6. \A v \in F : Push(side, v, g[side][u] + EdgeLength(side, u, v))
                       = Entry(Scaled(2, g[side][u] + EdgeLength(side, u, v)) + h[v], v)
    <2>1. \A v \in F : v \in Nodes
      BY DEF Falling, Neighbours, Successors, Predecessors
    <2> QED BY <2>1 DEF Push, Scaled, Halves
  <1> DEFINE cost == [v \in F |-> g[side][u] + EdgeLength(side, u, v)]
             fresh == {Push(side, v, cost[v]) : v \in DOMAIN cost}
  <1>7. /\ g = [s \in Sides |-> g[s]] /\ heap = [s \in Sides |-> heap[s]]
        /\ parents = [s \in Sides |-> parents[s]] /\ done = [s \in Sides |-> done[s]]
    BY DEF SidesInv
  <1>8. /\ done' = [done EXCEPT ![side] = done[side] \cup {u}]
        /\ g' = [g EXCEPT ![side] = Overwrite(g[side], cost)]
        /\ parents' = [parents EXCEPT ![side] = Overwrite(parents[side], [v \in DOMAIN cost |-> u])]
        /\ heap' = [heap EXCEPT ![side] = (heap[side] \ {top}) \cup fresh]
    BY <1>1, <1>5
  <1>9. fresh = {Entry(Scaled(2, g[side][u] + EdgeLength(side, u, v)) + h[v], v) : v \in F}
    BY <1>6
  <1>10. DOMAIN cost = F
    OBVIOUS
  <1>11. /\ Overwrite(g[side], cost) = NewCosts(side, g[side], done[side], u)
         /\ Overwrite(parents[side], [v \in DOMAIN cost |-> u])
              = NewTree(side, g[side], done[side], parents[side], u)
         /\ (heap[side] \ {top}) \cup fresh
              = NewHeap(side, 2, g[side], done[side], heap[side], h, top)
    BY <1>9, <1>10 DEF NewCosts, NewTree, NewHeap
  <1> HIDE DEF top, F, h, cost, fresh
  <1>12. /\ g' = [s \in Sides |-> g'[s]] /\ heap' = [s \in Sides |-> heap'[s]]
         /\ parents' = [s \in Sides |-> parents'[s]] /\ done' = [s \in Sides |-> done'[s]]
         /\ g'[side] = NewCosts(side, g[side], done[side], u)
         /\ heap'[side] = NewHeap(side, 2, g[side], done[side], heap[side], h, top)
         /\ parents'[side] = NewTree(side, g[side], done[side], parents[side], u)
         /\ done'[side] = done[side] \cup {u}
         /\ \A s \in Sides : s # side => /\ g'[s] = g[s] /\ heap'[s] = heap[s]
                                         /\ parents'[s] = parents[s] /\ done'[s] = done[s]
    BY <1>7, <1>8, <1>11
  <1>13. /\ Frontier(side, 2, g'[side], done'[side], heap'[side], h)
         /\ Queued(2, g'[side], done'[side], heap'[side], h)
    BY <1>2, <1>3, <1>12, SettleKeeps
  <1>14. Tree(side, g'[side], done'[side], parents'[side])
    BY <1>2, <1>3, <1>4, <1>12, TreeGrows
  <1>15. ASSUME NEW s \in Sides
         PROVE  /\ Frontier(s, 2, g'[s], done'[s], heap'[s], Halves(s))
                /\ Queued(2, g'[s], done'[s], heap'[s], Halves(s))
                /\ Tree(s, g'[s], done'[s], parents'[s])
    <2>1. CASE s = side
      BY <1>13, <1>14, <2>1 DEF h
    <2>2. CASE s # side
      BY <1>12, <2>2 DEF SidesInv, SideInv
    <2> QED BY <2>1, <2>2
  <1>16. \A s \in Sides : SideInv(s)'
    BY <1>15, SameFrontier, SameQueue, SameTree, SameHalves DEF SideInv
  <1> QED BY <1>12, <1>16 DEF SidesInv, QueryOK, query

LEMMA OthersSides ==
  ASSUME SidesInv, UNCHANGED query,
         \/ BidirectionalAlreadyThere \/ Return \/ UNCHANGED bidirectionalVars
         \/ \E side \in Sides : PeekDrop(side)
  PROVE  SidesInv'
  <1>1. CASE UNCHANGED sides
    <2>1. g' = g /\ heap' = heap /\ parents' = parents /\ done' = done
      BY <1>1 DEF sides
    <2>2. \A side \in Sides : SideInv(side)'
      BY <2>1, SameFrontier, SameQueue, SameTree, SameHalves DEF SidesInv, SideInv
    <2> QED BY <2>1, <2>2 DEF SidesInv, QueryOK, query
  <1>2. CASE \E side \in Sides : PeekDrop(side)
    <2>1. PICK side \in Sides : PeekDrop(side)
      BY <1>2
    <2>2. PICK entry \in heap[side] :
            /\ entry.node \in done[side]
            /\ heap' = [heap EXCEPT ![side] = @ \ {entry}]
      BY <2>1 DEF PeekDrop, Least
    <2>3. UNCHANGED <<g, parents, done>>
      BY <2>1 DEF PeekDrop
    <2>4. /\ heap' = [s \in Sides |-> heap'[s]]
          /\ heap'[side] = heap[side] \ {entry}
          /\ \A s \in Sides : s # side => heap'[s] = heap[s]
      BY <2>2 DEF SidesInv
    <2>5. ASSUME NEW s \in Sides
          PROVE  /\ Frontier(s, 2, g[s], done[s], heap'[s], Halves(s))
                 /\ Queued(2, g[s], done[s], heap'[s], Halves(s))
      <3>1. Frontier(s, 2, g[s], done[s], heap[s], Halves(s)) /\ Queued(2, g[s], done[s], heap[s], Halves(s))
        BY DEF SidesInv, SideInv
      <3>2. CASE s = side
        BY <2>2, <2>4, <3>1, <3>2, SkipKeeps
      <3>3. CASE s # side
        BY <2>4, <3>1, <3>3
      <3> QED BY <3>2, <3>3
    <2>6. \A s \in Sides : SideInv(s)'
      BY <2>3, <2>5, SameFrontier, SameQueue, SameTree, SameHalves DEF SidesInv, SideInv
    <2> QED BY <2>3, <2>4, <2>6 DEF SidesInv, QueryOK, query
  <1> QED BY <1>1, <1>2 DEF BidirectionalAlreadyThere, Return, bidirectionalVars, sides

---------------------------------------------------------------------------
\* What is known of a road that leaves a side's settled nodes.
LEMMA LeavesSettled ==
  ASSUME QueryOK, NEW side \in Sides, SideInv(side),
         NEW n, NEW p, NEW d, IsRoad(side, n, p, d), p[n] \notin done[side],
         NEW top \in Least(heap[side])
  PROVE  \E m \in 1 .. n :
            /\ \A i \in 1 .. m : p[i] \in DOMAIN g[side] /\ g[side][p[i]] <= d[i]
            /\ top.priority <= 2 * d[m] + Halves(side)[p[m]]
  <1>1. /\ CostsTyped(side, g[side], done[side], heap[side])
        /\ SettledRelaxed(side, g[side], done[side])
        /\ Queued(2, g[side], done[side], heap[side], Halves(side))
        /\ Potential(side, 2, Halves(side)) /\ graph \in RoadGraphs
    BY HalvesOpposite DEF SideInv, Frontier, QueryOK
  <1>2. PICK m \in 1 .. n : p[m] \notin done[side] /\ \A i \in 1 .. m - 1 : p[i] \in done[side]
    BY FirstUnsettled
  <1>3. ASSUME NEW i \in 1 .. m PROVE p[i] \in DOMAIN g[side] /\ g[side][p[i]] <= d[i]
    <2>1. i \in 1 .. n /\ \A k \in 1 .. i - 1 : k \in 1 .. m - 1
      BY DEF IsRoad
    <2> QED BY <1>1, <1>2, <2>1, SettledPrefix
  <1>4. m \in 1 .. m /\ p[m] \in Nodes /\ d[m] \in Nat
    BY DEF IsRoad
  <1>5. Entry(Scaled(2, g[side][p[m]]) + Halves(side)[p[m]], p[m]) \in heap[side]
    BY <1>1, <1>2, <1>3, <1>4 DEF Queued
  <1>6. top.priority <= 2 * g[side][p[m]] + Halves(side)[p[m]]
    BY <1>5 DEF Least, Entry, Scaled
  <1>7. /\ g[side][p[m]] \in Nat /\ g[side][p[m]] <= d[m]
        /\ Halves(side)[p[m]] \in Int /\ top.priority \in Int
    BY <1>1, <1>3, <1>4 DEF CostsTyped, Potential, Least
  <1>8. top.priority <= 2 * d[m] + Halves(side)[p[m]]
    BY <1>4, <1>6, <1>7
  <1> QED BY <1>3, <1>8

\* A road whose end one side has settled goes through a meeting.
LEMMA SettledEnd ==
  ASSUME SidesInv, MeetingIsLeast, start # goal, NEW side \in Sides,
         NEW n, NEW p, NEW d, IsRoad(side, n, p, d), p[n] = Root(Other(side)), p[n] \in done[side]
  PROVE  best_distance <= d[n]
  <1>1. /\ CostsTyped(side, g[side], done[side], heap[side])
        /\ CostsAreRoads(side, g[side], done[side])
        /\ Other(side) \in Sides
        /\ CostsTyped(Other(side), g[Other(side)], done[Other(side)], heap[Other(side)])
    BY OtherSide DEF SidesInv, SideInv, Frontier
  <1>2. /\ p[n] \in DOMAIN g[side] /\ g[side][p[n]] \in Nat /\ g[side][p[n]] <= d[n]
        /\ p[n] \in DOMAIN g[Other(side)] /\ g[Other(side)][p[n]] = 0
    BY <1>1 DEF CostsTyped, CostsAreRoads, Shortest
  <1>3. best_distance <= g["forward"][p[n]] + g["backward"][p[n]]
    BY <1>2 DEF Sides, Other, MeetingIsLeast, IsLeastMeeting
  <1>4. g["forward"][p[n]] + g["backward"][p[n]] = g[side][p[n]]
    <2>1. CASE side = "forward"
      BY <1>2, <2>1 DEF Other
    <2>2. CASE side = "backward"
      BY <1>2, <2>2 DEF Other
    <2> QED BY <2>1, <2>2 DEF Sides
  <1>5. d[n] \in Nat
    BY DEF IsRoad
  <1>6. best_distance <= g[side][p[n]]
    BY <1>3, <1>4
  <1>7. best_distance \in Nat
    BY <1>1, <1>2 DEF MeetingIsLeast, IsLeastMeeting, CostsTyped, Sides, Other, SidesInv, SideInv, Frontier
  <1> QED BY <1>2, <1>5, <1>6, <1>7

\* The stop criterion: once the tops of the heaps add up to the best distance, or
\* a heap is empty, no road is shorter.
LEMMA StopIsShortest ==
  ASSUME SidesInv, MeetingIsLeast, start # goal, best_distance \in Nat,
         \/ \E side \in Sides : heap[side] = {}
         \/ \E tops \in Tops : MayStop(tops),
         NEW n, NEW p, NEW d, IsRoad("forward", n, p, d), p[n] = goal
  PROVE  best_distance <= d[n]
  <1> DEFINE q == [i \in 1 .. n |-> p[n + 1 - i]]
             c == [i \in 1 .. n |-> d[n] - d[n + 1 - i]]
             R == "forward"
             B == "backward"
  <1>1. /\ R \in Sides /\ B \in Sides /\ Other(R) = B /\ Other(B) = R
        /\ Root(R) = start /\ Root(B) = goal
        /\ \A side \in Sides : side = R \/ side = B
    BY DEF Sides, Other, Root
  <1>2. /\ n \in Nat \ {0} /\ \A i \in 1 .. n : p[i] \in Nodes /\ d[i] \in Nat
        /\ p[1] = start /\ d[1] = 0
    BY <1>1 DEF IsRoad
  <1>3. IsRoad(B, n, q, c)
    BY <1>1, ReverseRoad DEF SidesInv, QueryOK
  <1>4. \A i \in 1 .. n : q[i] = p[n + 1 - i] /\ c[i] = d[n] - d[n + 1 - i]
    OBVIOUS
  <1>5. q[n] = start /\ c[n] = d[n] /\ n \in 1 .. n
    <2>1. n \in 1 .. n /\ n + 1 - n = 1 /\ d[n] - 0 = d[n]
      BY <1>2
    <2> QED BY <1>2, <1>4, <2>1
  <1> HIDE DEF q, c, R, B
  <1>6. CASE goal \in done[R]
    BY <1>1, <1>6, SettledEnd DEF R
  <1>7. CASE start \in done[B]
    BY <1>1, <1>3, <1>5, <1>7, SettledEnd
  <1>8. CASE goal \notin done[R] /\ start \notin done[B]
    <2>1. QueryOK /\ SideInv(R) /\ SideInv(B) /\ graph \in RoadGraphs /\ 2 \in Units
      BY <1>1 DEF SidesInv, QueryOK, Units
    <2>2. \A side \in Sides : heap[side] # {}
      <3>1. ASSUME heap[R] = {} PROVE FALSE
        <4>1. Unreachable(R, goal)
          BY <1>1, <1>8, <2>1, <3>1, EmptyHeap DEF SideInv
        <4> QED BY <4>1 DEF Unreachable, R
      <3>2. ASSUME heap[B] = {} PROVE FALSE
        <4>1. Unreachable(B, start)
          BY <1>1, <1>8, <2>1, <3>2, EmptyHeap DEF SideInv
        <4> QED BY <1>3, <1>5, <4>1 DEF Unreachable
      <3> QED BY <1>1, <3>1, <3>2
    <2>3. PICK tops \in Tops : MayStop(tops)
      BY <2>2
    <2> DEFINE tf == tops[R].priority
               tb == tops[B].priority
    <2>4. /\ tops[R] \in Least(heap[R]) /\ tops[B] \in Least(heap[B])
          /\ tf + tb >= 2 * best_distance
      BY <1>1, <2>3 DEF Tops, MayStop, R, B
    <2>5. tf \in Int /\ tb \in Int
      BY <2>1, <2>4 DEF SideInv, Frontier, CostsTyped, Least
    <2> HIDE DEF tf, tb
    <2>6. PICK i \in 1 .. n : /\ \A k \in 1 .. i : p[k] \in DOMAIN g[R] /\ g[R][p[k]] <= d[k]
                              /\ tf <= 2 * d[i] + Halves(R)[p[i]]
      BY <1>1, <1>8, <2>1, <2>4, LeavesSettled DEF R, tf
    <2>7. PICK j \in 1 .. n : /\ \A k \in 1 .. j : q[k] \in DOMAIN g[B] /\ g[B][q[k]] <= c[k]
                              /\ tb <= 2 * c[j] + Halves(B)[q[j]]
      BY <1>1, <1>3, <1>5, <1>8, <2>1, <2>4, LeavesSettled DEF tb
    <2> DEFINE J == n + 1 - j
    <2>8. J \in 1 .. n /\ q[j] = p[J] /\ c[j] = d[n] - d[J]
      BY <1>2, <1>4
    <2> HIDE DEF J
    <2>9. CASE i <= J
      <3>1. Scaled(2, d[i]) + Halves(R)[p[i]] <= Scaled(2, d[J]) + Halves(R)[p[J]]
        <4>1. J \in i .. n
          BY <1>2, <2>8, <2>9
        <4>2. Potential("forward", 2, Halves(R)) /\ "forward" \in Sides
          BY <1>1, <2>1, HalvesOpposite DEF R
        <4> QED BY <2>1, <4>1, <4>2, RestOfRoad
      <3>2. /\ Halves(R)[p[J]] + Halves(B)[p[J]] = 0
            /\ Halves(R)[p[i]] \in Int /\ Halves(R)[p[J]] \in Int /\ Halves(B)[p[J]] \in Int
        <4>1. p[i] \in Nodes /\ p[J] \in Nodes
          BY <1>2, <2>8
        <4>2. Potential(R, 2, Halves(R)) /\ Potential(B, 2, Halves(B))
          BY <1>1, <2>1, HalvesOpposite
        <4> QED BY <2>1, <4>1, <4>2, HalvesOpposite DEF Potential, R, B
      <3>3. tb <= 2 * (d[n] - d[J]) + Halves(B)[p[J]]
        BY <2>7, <2>8
      <3>4. d[i] \in Nat /\ d[J] \in Nat /\ d[n] \in Nat
        BY <1>2, <1>5, <2>8
      <3>5. tf + tb <= 2 * d[n]
        BY <2>5, <2>6, <3>1, <3>2, <3>3, <3>4 DEF Scaled
      <3> QED BY <2>4, <2>5, <3>4, <3>5
    <2>10. CASE ~(i <= J)
      <3> DEFINE k == n + 1 - i
      <3>1. k \in 1 .. j /\ k \in 1 .. n /\ n + 1 - k = i /\ i \in 1 .. i
        BY <1>2, <2>8, <2>10 DEF J
      <3> HIDE DEF k
      <3>2. q[k] = p[i] /\ c[k] = d[n] - d[i]
        BY <1>4, <3>1
      <3>3. /\ p[i] \in DOMAIN g[R] /\ g[R][p[i]] <= d[i]
            /\ p[i] \in DOMAIN g[B] /\ g[B][p[i]] <= d[n] - d[i]
        BY <2>6, <2>7, <3>1, <3>2
      <3>4. best_distance <= g[R][p[i]] + g[B][p[i]]
        BY <3>3 DEF MeetingIsLeast, IsLeastMeeting, R, B
      <3>5. /\ g[R][p[i]] \in Nat /\ g[B][p[i]] \in Nat /\ d[i] \in Nat /\ d[n] \in Nat
        BY <1>2, <1>5, <2>1, <3>3 DEF SideInv, Frontier, CostsTyped
      <3> QED BY <3>3, <3>4, <3>5
    <2> QED BY <2>9, <2>10
  <1> QED BY <1>6, <1>7, <1>8

\* The answer's path joins the two trees where they meet; it is as long as the
\* best distance says.
LEMMA MeetingPathRight ==
  ASSUME SidesInv, MeetingIsLeast, start # goal, meeting_node # NoNode
  PROVE  /\ MeetingPath \in Seq(Nodes) /\ MeetingPath # <<>>
         /\ MeetingPath[Len(MeetingPath)] = goal
         /\ \E e : /\ IsRoad("forward", Len(MeetingPath), MeetingPath, e)
                   /\ e[Len(MeetingPath)] = best_distance
  <1> DEFINE R == "forward"
             B == "backward"
             p == ReconstructPath(parents[R], meeting_node)
             q == ReconstructPath(parents[B], meeting_node)
             n == Len(p)
             m == Len(q)
             d == [i \in 1 .. n |-> g[R][p[i]]]
             c == [i \in 1 .. m |-> g[B][q[i]]]
             r == MeetingPath
  <1>1. /\ meeting_node \in DOMAIN g[R] /\ meeting_node \in DOMAIN g[B]
        /\ best_distance = g[R][meeting_node] + g[B][meeting_node]
    BY DEF MeetingIsLeast, IsLeastMeeting
  <1>2. /\ CostsTyped(R, g[R], done[R], heap[R]) /\ Tree(R, g[R], done[R], parents[R])
        /\ CostsTyped(B, g[B], done[B], heap[B]) /\ Tree(B, g[B], done[B], parents[B])
        /\ R \in Sides /\ B \in Sides /\ graph \in RoadGraphs
    BY DEF SidesInv, SideInv, Frontier, Sides, QueryOK
  <1>3. /\ Trail(R, g[R], p, meeting_node) /\ p[1] = Root(R)
        /\ Trail(B, g[B], q, meeting_node) /\ q[1] = Root(B)
    BY <1>1, <1>2, PathBack
  <1>4. r = p \o Tail(Reverse(q))
    BY DEF MeetingPath
  <1> HIDE DEF p, q, r
  <1>5. /\ IsRoad(R, n, p, d) /\ p[n] = meeting_node
        /\ IsRoad(B, m, q, c) /\ q[m] = meeting_node
    <2>1. IsRoad(R, n, p, d) /\ p[n] = meeting_node
      BY <1>2, <1>3, TrailIsRoad
    <2>2. IsRoad(B, m, q, c) /\ q[m] = meeting_node
      BY <1>2, <1>3, TrailIsRoad
    <2> QED BY <2>1, <2>2
  <1>6. /\ n \in Nat \ {0} /\ m \in Nat \ {0}
        /\ p \in Seq(Nodes) /\ q \in [1 .. m -> Nodes]
    BY <1>3, NonEmpty DEF Trail
  <1>7. d[n] = g[R][meeting_node] /\ c[m] = g[B][meeting_node]
    BY <1>5, <1>6
  <1> HIDE DEF d, c, R, B
  <1> DEFINE back == Reverse(q)
  <1>8. /\ back \in Seq(Nodes) /\ Len(back) = m /\ back # <<>>
        /\ \A i \in 1 .. m : back[i] = q[m - i + 1]
    <2>1. back = [i \in 1 .. m |-> q[(m - i) + 1]]
      BY DEF Reverse
    <2>2. \A i \in 1 .. m : (m - i) + 1 \in 1 .. m /\ q[(m - i) + 1] \in Nodes
      BY <1>6
    <2> HIDE DEF back, n, m
    <2>3. back \in [1 .. m -> Nodes]
      BY <2>1, <2>2
    <2>4. back \in Seq(Nodes)
      BY <1>6, <2>3, SeqDef
    <2>5. Len(back) = m
      <3>1. DOMAIN back = 1 .. m
        BY <2>1
      <3>2. DOMAIN back = 1 .. Len(back) /\ Len(back) \in Nat
        BY <2>4, LenProperties
      <3> QED BY <1>6, <3>1, <3>2
    <2>6. back # <<>>
      BY <1>6, <2>5, EmptySeq
    <2> QED BY <2>1, <2>4, <2>5, <2>6
  <1> HIDE DEF back, n, m
  <1>9. /\ Tail(back) \in Seq(Nodes) /\ Len(Tail(back)) = m - 1
        /\ \A i \in 1 .. m - 1 : Tail(back)[i] = back[i + 1]
    BY <1>8, HeadTailProperties
  <1>10. /\ r \in Seq(Nodes) /\ Len(r) = n + m - 1
         /\ \A i \in 1 .. n + m - 1 : r[i] = IF i <= n THEN p[i] ELSE q[n + m - i]
    <2>1. /\ r \in Seq(Nodes) /\ Len(r) = n + (m - 1)
          /\ \A i \in 1 .. n + (m - 1) : r[i] = IF i <= n THEN p[i] ELSE Tail(back)[i - n]
      <3> DEFINE rest == Tail(back)
      <3>1. r = p \o rest
        BY <1>4 DEF back
      <3>2. p \in Seq(Nodes) /\ rest \in Seq(Nodes) /\ Len(p) = n /\ Len(rest) = m - 1
        BY <1>6, <1>9 DEF n
      <3> HIDE DEF rest
      <3>3. /\ p \o rest \in Seq(Nodes) /\ Len(p \o rest) = Len(p) + Len(rest)
            /\ \A i \in 1 .. Len(p) + Len(rest) :
                  (p \o rest)[i] = IF i <= Len(p) THEN p[i] ELSE rest[i - Len(p)]
        BY <3>2, ConcatProperties
      <3>4. /\ r \in Seq(Nodes) /\ Len(r) = n + (m - 1)
            /\ \A i \in 1 .. n + (m - 1) : r[i] = IF i <= n THEN p[i] ELSE rest[i - n]
        BY <3>1, <3>2, <3>3
      <3> QED BY <3>4 DEF rest
    <2>2. ASSUME NEW i \in 1 .. n + m - 1, ~(i <= n)
          PROVE  Tail(back)[i - n] = q[n + m - i]
      <3>1. i - n \in 1 .. m - 1 /\ (i - n) + 1 \in 1 .. m /\ m - ((i - n) + 1) + 1 = n + m - i
        BY <1>6, <2>2
      <3> QED BY <1>8, <1>9, <3>1
    <2>3. n + (m - 1) = n + m - 1
      BY <1>6
    <2> QED BY <2>1, <2>2, <2>3
  <1>11. r = Joined(n, p, m, q)
    <2>1. r \in [1 .. n + m - 1 -> Nodes]
      BY <1>10, LenProperties
    <2> QED BY <1>10, <2>1 DEF Joined
  <1>12. PICK e : /\ IsRoad("forward", n + m - 1, r, e)
                  /\ r[n + m - 1] = goal /\ e[n + m - 1] = d[n] + c[m]
    <2>1. /\ IsRoad("forward", n, p, d) /\ IsRoad("backward", m, q, c) /\ p[n] = q[m]
          /\ graph \in RoadGraphs
      BY <1>2, <1>5 DEF R, B
    <2> QED BY <1>11, <2>1, JoinRoads
  <1>13. r # <<>>
    BY <1>6, <1>10, EmptySeq
  <1> QED BY <1>1, <1>7, <1>10, <1>12, <1>13 DEF r

\* The answer of the search is right whenever it is given.
LEMMA ReturnRight ==
  ASSUME SidesInv, MeetingInv, Return
  PROVE  RightAnswer(bidirectional') /\ bidirectional'.status \in {"found", "no_path"}
  <1>1. /\ start # goal
        /\ \/ \E side \in Sides : heap[side] = {}
           \/ \E tops \in Tops : MayStop(tops)
        /\ bidirectional' = IF meeting_node = NoNode THEN NoPath
                            ELSE Found(MeetingPath, PathLength(MeetingPath))
    BY DEF Return
  <1>2. MeetingIsLeast /\ best_distance \in Nat /\ QueryOK
    BY DEF MeetingInv, SidesInv
  <1>3. CASE meeting_node = NoNode
    <2>1. PICK side \in Sides : heap[side] = {}
      BY <1>1, <1>3 DEF MayStop
    <2>2. /\ Frontier(side, 2, g[side], done[side], {}, Halves(side))
          /\ Queued(2, g[side], done[side], {}, Halves(side))
          /\ Other(side) \in Sides /\ 2 \in Units /\ graph \in RoadGraphs
      BY <2>1, OtherSide DEF SidesInv, SideInv, QueryOK, Units
    <2>3. Root(Other(side)) \notin done[side]
      <3>1. Root(Other(side)) \in DOMAIN g[Other(side)]
        BY <2>2 DEF SidesInv, SideInv, Frontier, CostsTyped
      <3>2. done[side] \subseteq DOMAIN g[side]
        BY <2>2 DEF Frontier, CostsTyped
      <3>3. DOMAIN g["forward"] \cap DOMAIN g["backward"] = {}
        BY <1>1, <1>2, <1>3 DEF MeetingIsLeast, IsLeastMeeting
      <3> QED BY <3>1, <3>2, <3>3 DEF Sides, Other
    <2>4. Unreachable(side, Root(Other(side)))
      BY <2>2, <2>3, EmptyHeap
    <2>5. Unreachable("forward", goal)
      BY <2>2, <2>4, TurnUnreachable
    <2>6. bidirectional'.status = "no_path"
      BY <1>1, <1>3 DEF NoPath, Searching
    <2> QED BY <2>5, <2>6 DEF RightAnswer
  <1>4. CASE meeting_node # NoNode
    <2> DEFINE path == MeetingPath
    <2>1. /\ path \in Seq(Nodes) /\ path # <<>> /\ path[Len(path)] = goal
          /\ \E e : IsRoad("forward", Len(path), path, e) /\ e[Len(path)] = best_distance
      BY <1>1, <1>2, <1>4, MeetingPathRight
    <2>2. PICK e : IsRoad("forward", Len(path), path, e) /\ e[Len(path)] = best_distance
      BY <2>1
    <2>3. /\ bidirectional'.status = "found" /\ bidirectional'.path = path
          /\ bidirectional'.distance = PathLength(path)
      BY <1>1, <1>4 DEF Found
    <2> HIDE DEF path
    <2>4. PathLength(path) = best_distance
      BY <2>2, RoadLength
    <2>5. Shortest("forward", goal, best_distance)
      <3>1. RoadTo("forward", goal, best_distance)
        BY <2>1, <2>2 DEF RoadTo
      <3>2. \A n, p, d : IsRoad("forward", n, p, d) /\ p[n] = goal => best_distance <= d[n]
        BY <1>1, <1>2, StopIsShortest
      <3> QED BY <3>1, <3>2 DEF Shortest
    <2> QED BY <2>1, <2>2, <2>3, <2>4, <2>5 DEF RightAnswer
  <1> QED BY <1>3, <1>4

BidirectionalRight ==
    /\ RightAnswer(bidirectional)
    /\ bidirectional.status \in {"searching", "found", "no_path"}

LEMMA BidirectionalRightNext ==
  ASSUME SidesInv, MeetingInv, BidirectionalRight,
         [BidirectionalNext /\ UNCHANGED query]_<<query, bidirectionalVars>>
  PROVE  BidirectionalRight'
  <1>1. UNCHANGED query
    BY DEF query
  <1>2. SUFFICES /\ RightAnswer(bidirectional')
                 /\ bidirectional'.status \in {"searching", "found", "no_path"}
    BY <1>1, SameAnswer DEF BidirectionalRight
  <1>3. CASE Return
    BY <1>3, ReturnRight
  <1>4. CASE BidirectionalAlreadyThere
    <2>1. start = goal /\ bidirectional' = Found(<<start>>, 0) /\ QueryOK
      BY <1>4 DEF BidirectionalAlreadyThere, SidesInv
    <2>2. bidirectional'.status = "found"
      BY <2>1 DEF Found
    <2> QED BY <2>1, <2>2, AlreadyThere
  <1>5. CASE \/ \E side \in Sides : PeekDrop(side) \/ Expand(side)
             \/ UNCHANGED bidirectionalVars
    <2>1. bidirectional' = bidirectional
      BY <1>5 DEF PeekDrop, Expand, bidirectionalVars
    <2> QED BY <2>1 DEF BidirectionalRight
  <1> QED BY <1>3, <1>4, <1>5 DEF BidirectionalNext

LEMMA BidirectionalAlways ==
  BidirectionalSpec => [](SidesInv /\ MeetingInv /\ BidirectionalRight)
  <1>1. QueryInit /\ BidirectionalInit => BidirectionalRight
    BY DEF BidirectionalInit, BidirectionalRight, RightAnswer, Searching
  <1>2. SidesInv /\ [BidirectionalNext /\ UNCHANGED query]_<<query, bidirectionalVars>> => SidesInv'
    BY ExpandSides, OthersSides DEF BidirectionalNext
  <1>3. MeetingInv /\ [BidirectionalNext /\ UNCHANGED query]_<<query, bidirectionalVars>>
          => MeetingInv'
    BY ExpandMeeting, OthersMeeting DEF BidirectionalNext
  <1>4. ASSUME SidesInv, MeetingInv, BidirectionalRight,
               [BidirectionalNext /\ UNCHANGED query]_<<query, bidirectionalVars>>
        PROVE  BidirectionalRight'
    BY <1>4, BidirectionalRightNext
  <1> QED BY <1>1, <1>2, <1>3, <1>4, InitSides, InitMeeting, PTL DEF BidirectionalSpec

\* Bidirectional A* answers with a road to the goal of the least length, and with
\* "no path" only when there is no road (bidirectional_a_star.py:282).
THEOREM BidirectionalAnswersRight == BidirectionalSpec => []BidirectionalRight
  BY BidirectionalAlways, PTL

LEMMA BidirectionalTyped == SidesInv /\ MeetingInv => BidirectionalTypeOK
  <1> SUFFICES ASSUME SidesInv, MeetingInv PROVE BidirectionalTypeOK
    OBVIOUS
  <1>1. \A side \in Sides : CostsTyped(side, g[side], done[side], heap[side])
    BY DEF SidesInv, SideInv, Frontier
  <1> QED BY <1>1 DEF SidesInv, MeetingInv, QueryOK, CostsTyped, BidirectionalTypeOK

LEMMA BidirectionalExact == SidesInv /\ BidirectionalRight => BidirectionalOptimal
  BY RightIsShortestRoute DEF SidesInv, BidirectionalRight, BidirectionalOptimal, QueryOK

---------------------------------------------------------------------------
(* RouteCalls runs the searches one after another on the same query.       *)

LEMMA AStarTyped == AStarInv => AStarTypeOK
  <1> SUFFICES ASSUME AStarInv PROVE AStarTypeOK
    OBVIOUS
  <1>1. /\ CostsTyped("forward", g_score, closed, open_heap)
        /\ NotEarly(1, g_score, open_heap, Heuristic)
        /\ Tree("forward", g_score, closed, came_from)
        /\ QueryOK
    BY DEF AStarInv, Frontier
  <1>2. ASSUME NEW e \in open_heap PROVE e \in [priority : Nat, node : DOMAIN g_score]
    <2>1. /\ e \in [priority : Int, node : DOMAIN g_score]
          /\ e.node \in Nodes /\ g_score[e.node] \in Nat
      BY <1>1 DEF CostsTyped
    <2>2. Heuristic[e.node] \in Nat
      BY <1>1, <2>1, RoadGraphsAssumption DEF Heuristic, H, QueryOK
    <2>3. g_score[e.node] + Heuristic[e.node] <= e.priority
      BY <1>1, ForwardSide DEF NotEarly
    <2>4. e.priority \in Nat
      BY <2>1, <2>2, <2>3
    <2> QED BY <2>1, <2>4
  <1>3. /\ DOMAIN g_score \subseteq Nodes
        /\ g_score \in [DOMAIN g_score -> Nat]
        /\ closed \subseteq DOMAIN g_score
    BY <1>1 DEF CostsTyped
  <1>4. DOMAIN came_from \subseteq DOMAIN g_score /\ came_from \in [DOMAIN came_from -> closed]
    BY <1>1 DEF Tree
  <1> QED BY <1>1, <1>2, <1>3, <1>4 DEF AStarInv, AStarTypeOK, QueryOK

LEMMA AStarExact == AStarInv /\ AStarRight => AStarOptimal
  BY RightIsShortestRoute DEF AStarInv, AStarRight, AStarOptimal, QueryOK

LEMMA TargetsRightExact ==
  ASSUME DijkstraInv, TargetsRight
  PROVE  TargetsExact
  <1>1. \A v : IF v \in DOMAIN Distances THEN Shortest("forward", v, Distances[v])
               ELSE Unreachable("forward", v)
    BY DistancesShortest DEF DijkstraInv
  <1>2. ASSUME NEW v \in DOMAIN target_distances, v \notin remaining_targets
        PROVE  v \in DOMAIN Distances /\ target_distances[v] = Distances[v]
    <2>1. Shortest("forward", v, target_distances[v])
      BY <1>2 DEF TargetsRight
    <2> QED BY <1>1, <2>1, OneShortest
  <1>3. ASSUME NEW v \in DOMAIN target_distances, dijkstra = "returned", v \in remaining_targets
        PROVE  target_distances[v] = Unreached /\ v \notin DOMAIN Distances
    <2>1. Unreachable("forward", v) /\ target_distances[v] = Unreached
      BY <1>3 DEF TargetsRight
    <2> QED BY <1>1, <2>1, OneShortest
  <1> QED BY <1>2, <1>3 DEF TargetsExact

\* None of the searches' steps touches what another one keeps: each runs as its
\* own specification says.
THEOREM SearchesAlone == Spec => AStarSpec /\ BidirectionalSpec /\ DijkstraSpec
  <1>1. Init => /\ QueryInit /\ AStarInit
                /\ BidirectionalInit /\ DijkstraInit
    BY DEF Init
  <1>2. ASSUME [Next]_vars
        PROVE  /\ [AStarNext /\ UNCHANGED query]_<<query, aStarVars>>
               /\ [BidirectionalNext /\ UNCHANGED query]_<<query, bidirectionalVars>>
               /\ [DijkstraNext /\ UNCHANGED query]_<<query, dijkstraVars>>
    <2>1. CASE RunAStar
      BY <2>1 DEF RunAStar
    <2>2. CASE RunBidirectional
      BY <2>2 DEF RunBidirectional
    <2>3. CASE RunDijkstra
      BY <2>3 DEF RunDijkstra
    <2>4. CASE AfterAStar \/ Rest \/ UNCHANGED vars
      BY <2>4 DEF AfterAStar, Rest, vars
    <2> QED BY <1>2, <2>1, <2>2, <2>3, <2>4 DEF Next
  <1> QED BY <1>1, <1>2, PTL DEF Spec, AStarSpec, BidirectionalSpec, DijkstraSpec

\* What is left of the calls once the first has been answered.
LEMMA TailOfCalls ==
  ASSUME NEW S, NEW a \in S, NEW b \in S
  PROVE  /\ Tail(<<a, b>>) = <<b>> /\ Tail(<<a>>) = <<>>
         /\ Head(<<a>>) = a /\ Head(<<a, b>>) = a
  <1> DEFINE both == <<a, b>>
             one == <<a>>
             last == <<b>>
  <1>1. both \in Seq(S) /\ one \in Seq(S) /\ last \in Seq(S)
    OBVIOUS
  <1>2. Len(both) = 2 /\ Len(one) = 1 /\ Len(last) = 1 
    OBVIOUS
  <1>3. both[1] = a /\ both[2] = b /\ one[1] = a /\ last[1] = b
    OBVIOUS
  <1> HIDE DEF both, one, last
  <1>4. both # <<>> /\ one # <<>>
    <2>1. Len(<<>>) = 0
      OBVIOUS
    <2>2. Len(both) # 0 /\ Len(one) # 0
      BY <1>2
    <2> QED BY ONLY <2>1, <2>2
  <1> DEFINE rest == Tail(both)
  <1>5. /\ rest \in Seq(S) /\ Len(rest) = Len(both) - 1
        /\ \A i \in 1 .. Len(rest) : rest[i] = both[i + 1]
    BY <1>1, <1>4, HeadTailProperties
  <1>6. Tail(one) \in Seq(S) /\ Len(Tail(one)) = 0
    BY <1>1, <1>2, <1>4, HeadTailProperties
  <1> HIDE DEF rest
  <1>7. rest = last
    <2>1. \A i \in 1 .. Len(rest) : i = 1 /\ Len(rest) = Len(last) /\ i + 1 = 2
      BY <1>2, <1>5
    <2>2. \A i \in 1 .. Len(rest) : rest[i] = last[i]
      BY <1>3, <1>5, <2>1
    <2>3. Len(rest) = Len(last)
      BY <1>2, <1>5
    <2> QED BY <1>1, <1>5, <2>2, <2>3, SeqEqual
  <1>8. Tail(one) = <<>>
    BY <1>6, EmptySeq
  <1>9. Head(one) = a /\ Head(both) = a
    BY <1>1, <1>3, <1>4, HeadTailProperties DEF one, both
  <1> QED BY <1>7, <1>8, <1>9 DEF rest, both, one, last

\* The three searches' state stays well-formed however the calls end.
THEOREM RoutesTyped == Spec => []TypeOK
  <1> DEFINE TargetsOK == remaining_targets \subseteq DOMAIN target_distances
             CallsOK == calls \in Callers \cup {<<>>}
  <1>1. Init => CallsOK
    BY DEF Init
  <1>2. CallsOK /\ [Next]_vars => CallsOK'
    <2>1. SUFFICES ASSUME CallsOK, [Next]_vars, calls' # calls
                   PROVE  CallsOK'
      OBVIOUS
    <2>2. Running("astar") /\ calls' \in {Tail(calls), <<>>}
      BY <2>1 DEF Next, RunAStar, AfterAStar, RunBidirectional, RunDijkstra, Rest, vars
    <2>3. /\ calls = <<"astar", "bidirectional_astar">> => Tail(calls) = <<"bidirectional_astar">>
          /\ calls = <<"astar">> => Tail(calls) = <<>>
          /\ Head(<<"bidirectional_astar">>) # "astar" /\ Head(<<"source_dijkstra">>) # "astar"
      <3> DEFINE names == {"astar", "bidirectional_astar", "source_dijkstra"}
      <3>1. "astar" \in names /\ "bidirectional_astar" \in names /\ "source_dijkstra" \in names
        OBVIOUS
      <3> HIDE DEF names
      <3>2. /\ Tail(<<"astar", "bidirectional_astar">>) = <<"bidirectional_astar">>
            /\ Tail(<<"astar">>) = <<>>
            /\ Head(<<"bidirectional_astar">>) = "bidirectional_astar"
            /\ Head(<<"source_dijkstra">>) = "source_dijkstra"
        BY <3>1, TailOfCalls
      <3> QED BY <3>2
    <2> QED BY <2>1, <2>2, <2>3 DEF Running, Callers
  <1>3. DijkstraInv => TargetsOK
    BY DEF DijkstraInv
  <1>4. AStarTypeOK /\ BidirectionalTypeOK /\ TargetsOK /\ CallsOK => TypeOK
    BY DEF TypeOK
  <1>5. Spec => []CallsOK
    BY <1>1, <1>2, PTL DEF Spec
  <1> QED BY <1>3, <1>4, <1>5, AStarTyped, AStarAlways, BidirectionalTyped, BidirectionalAlways,
             DijkstraAlways, SearchesAlone, PTL

\* A* returns a shortest route, path and distance, and "no path" only when there
\* is none (a_star.py:125), on every graph of any size.
THEOREM AStarRoutesShortest == Spec => []AStarOptimal
  <1> QED BY AStarExact, AStarAlways, AStarAnswersRight, SearchesAlone, PTL

\* So does bidirectional A*, no matter where its sides meet first.
THEOREM BidirectionalRoutesShortest == Spec => []BidirectionalOptimal
  <1> QED BY BidirectionalExact, BidirectionalAlways, SearchesAlone, PTL

\* The rows of a matrix hold the exact distances to all targets (multi_target_
\* dijkstra.py:92), on every graph of any size and for every set of targets.
THEOREM TargetDistancesExact == Spec => []TargetsExact
  <1>1. DijkstraInv /\ TargetsRight => TargetsExact
    BY TargetsRightExact
  <1> QED BY <1>1, DijkstraAlways, SearchesAlone, PTL

===========================================================================
