------------------------- MODULE RouteSearchProofs -------------------------
(***************************************************************************)
(* Proofs about RouteSearch, for matrices of any size and any requests:    *)
(* what the stages do to orders, to distances, what they show of the       *)
(* matrix, and the types of their state.                                   *)
(***************************************************************************)
EXTENDS RouteSearch, Foundations, SequenceTheorems, TLAPS

(***************************************************************************)
(* Permutations.                                                           *)
(***************************************************************************)

\* An order of n stops, 0 .. n - 1, with each of them.
Once(n, order) ==
    /\ order \in [1 .. n -> 0 .. n - 1]
    /\ \A s \in 0 .. n - 1 : \E k \in 1 .. n : order[k] = s

\* The same with matrix indices, 1 .. n.
IndexOnce(n, order) ==
    /\ order \in [1 .. n -> 1 .. n]
    /\ \A u \in 1 .. n : \E k \in 1 .. n : order[k] = u

LEMMA OnceToIndex ==
    ASSUME NEW n \in Nat, NEW order, Once(n, order)
    PROVE  IndexOnce(n, PublicToMatrix(order))
<1>1. PublicToMatrix(order) = [k \in 1 .. n |-> order[k] + 1]
  BY DEF Once, PublicToMatrix
<1>2. PublicToMatrix(order) \in [1 .. n -> 1 .. n]
  <2>1. \A k \in 1 .. n : order[k] \in 0 .. n - 1
    BY DEF Once
  <2>2. \A k \in 1 .. n : order[k] + 1 \in 1 .. n
    BY <2>1
  <2> QED
    BY <1>1, <2>2
<1>3. ASSUME NEW u \in 1 .. n
      PROVE  \E k \in 1 .. n : PublicToMatrix(order)[k] = u
  <2>1. u - 1 \in 0 .. n - 1 /\ u - 1 + 1 = u
    OBVIOUS
  <2>2. PICK k \in 1 .. n : order[k] = u - 1
    BY <2>1 DEF Once
  <2> QED
    BY <1>1, <2>1, <2>2
<1> QED
  BY <1>2, <1>3 DEF IndexOnce

LEMMA IndexToOnce ==
    ASSUME NEW n \in Nat, NEW order, IndexOnce(n, order)
    PROVE  Once(n, MatrixToPublic(order))
<1>1. MatrixToPublic(order) = [k \in 1 .. n |-> order[k] - 1]
  BY DEF IndexOnce, MatrixToPublic
<1>2. MatrixToPublic(order) \in [1 .. n -> 0 .. n - 1]
  <2>1. \A k \in 1 .. n : order[k] \in 1 .. n
    BY DEF IndexOnce
  <2>2. \A k \in 1 .. n : order[k] - 1 \in 0 .. n - 1
    BY <2>1
  <2> QED
    BY <1>1, <2>2
<1>3. ASSUME NEW s \in 0 .. n - 1
      PROVE  \E k \in 1 .. n : MatrixToPublic(order)[k] = s
  <2>1. s + 1 \in 1 .. n /\ s + 1 - 1 = s
    OBVIOUS
  <2>2. PICK k \in 1 .. n : order[k] = s + 1
    BY <2>1 DEF IndexOnce
  <2> QED
    BY <1>1, <2>1, <2>2
<1> QED
  BY <1>2, <1>3 DEF Once

LEMMA LenOnce ==
    ASSUME NEW n \in Nat, NEW order, Once(n, order)
    PROVE  Len(order) = n /\ order \in Seq(0 .. n - 1)
BY DEF Once

LEMMA SwapOnce ==
    ASSUME NEW n \in Nat, NEW order, Once(n, order), NEW i \in 1 .. n, NEW j \in 1 .. n
    PROVE  Once(n, TwoOptSwap(order, i, j))
<1>1. TwoOptSwap(order, i, j) =
        [k \in 1 .. n |-> IF k \in i .. j THEN order[i + j - k] ELSE order[k]]
  BY LenOnce DEF TwoOptSwap
<1>2. \A k \in i .. j : i + j - k \in i .. j /\ i + j - (i + j - k) = k /\ k \in 1 .. n
  OBVIOUS
<1>3. ASSUME NEW s \in 0 .. n - 1
      PROVE  \E k \in 1 .. n : TwoOptSwap(order, i, j)[k] = s
  <2>1. PICK k \in 1 .. n : order[k] = s
    BY DEF Once
  <2>2. CASE k \in i .. j
    BY <1>1, <1>2, <2>1, <2>2
  <2>3. CASE k \notin i .. j
    BY <1>1, <2>1, <2>3
  <2> QED
    BY <2>2, <2>3
<1>4. TwoOptSwap(order, i, j) \in [1 .. n -> 0 .. n - 1]
  BY <1>1, <1>2 DEF Once
<1> QED
  BY <1>3, <1>4 DEF Once

\* An order without repetition that leaves no stop unvisited.
LEMMA GreedyOnce ==
    ASSUME NEW n \in Nat, NEW order \in Seq(0 .. n - 1),
           \A i, j \in 1 .. Len(order) : order[i] = order[j] => i = j,
           (0 .. n - 1) \ Range(order) = {}
    PROVE  Once(n, order)
<1> DEFINE l == Len(order)
           S == 0 .. n - 1
<1>1. l \in Nat /\ order \in [1 .. l -> S] /\ DOMAIN order = 1 .. l
  OBVIOUS
<1>2. ASSUME NEW s \in S
      PROVE  \E k \in 1 .. l : order[k] = s
  <2>1. s \in Range(order)
    OBVIOUS
  <2> QED
    BY <1>1, <2>1 DEF Range
<1>3. order \in Surjection(1 .. l, S) /\ order \in Injection(1 .. l, S)
  BY <1>1, <1>2, Zenon DEF Surjection, Injection, IsInjective, Range
<1>4. IsFiniteSet(1 .. l) /\ Cardinality(1 .. l) = l /\ Cardinality(S) = n
  <2>1. IsFiniteSet(1 .. l) /\ Cardinality(1 .. l) = IF 1 > l THEN 0 ELSE l - 1 + 1
    BY <1>1, FS_Interval
  <2>2. Cardinality(S) = IF 0 > n - 1 THEN 0 ELSE n - 1 - 0 + 1
    <3>1. 0 \in Int /\ n - 1 \in Int
      OBVIOUS
    <3> QED
      BY <3>1, FS_Interval
  <2> HIDE DEF l
  <2> QED
    BY <1>1, <2>1, <2>2
<1>5. l = n
  BY <1>3, <1>4, FS_Surjection
<1> QED
  BY <1>1, <1>2, <1>5 DEF Once

LEMMA FunctionIsSeq ==
    ASSUME NEW S, NEW l \in Nat, NEW f \in [1 .. l -> S]
    PROVE  f \in Seq(S) /\ Len(f) = l
OBVIOUS

\* Where the elements of a concatenation come from.
LEMMA ConcatAt ==
    ASSUME NEW S, NEW s1 \in Seq(S), NEW s2 \in Seq(S), NEW s, s = s1 \o s2
    PROVE  /\ s \in Seq(S) /\ Len(s) = Len(s1) + Len(s2)
           /\ \A k \in 1 .. Len(s1) : s[k] = s1[k]
           /\ \A k \in 1 .. Len(s2) : s[Len(s1) + k] = s2[k]
<1> DEFINE m == Len(s1)
           n == Len(s2)
<1>1. m \in Nat /\ n \in Nat
  OBVIOUS
<1>2. /\ s \in Seq(S) /\ Len(s) = m + n
      /\ \A i \in 1 .. m + n : s[i] = IF i <= m THEN s1[i] ELSE s2[i - m]
  BY ConcatProperties
<1> HIDE DEF m, n
<1>3. \A k \in 1 .. m : k \in 1 .. m + n /\ k <= m
  BY <1>1
<1>4. \A k \in 1 .. n : m + k \in 1 .. m + n /\ ~ (m + k <= m) /\ m + k - m = k
  BY <1>1
<1>5. \A k \in 1 .. m : s[k] = s1[k]
  BY <1>2, <1>3
<1>6. ASSUME NEW k \in 1 .. n
      PROVE  s[m + k] = s2[k]
  <2>1. PICK i : i = m + k
    OBVIOUS
  <2>2. i \in 1 .. m + n /\ ~ (i <= m) /\ i - m = k
    BY <1>1, <2>1
  <2>3. s[i] = s2[k]
    BY <1>2, <2>2
  <2> QED
    BY <2>1, <2>3
<1> QED
  BY <1>2, <1>5, <1>6 DEF m, n

\* rest and removed are what stands at the positions keep and drop of an order.
Split(n, m, order, rest, removed) ==
    \E keep \in [1 .. n - m -> 1 .. n], drop \in [1 .. m -> 1 .. n] :
        /\ Range(keep) \cup Range(drop) = 1 .. n
        /\ rest = [k \in DOMAIN keep |-> order[keep[k]]]
        /\ removed = [k \in DOMAIN drop |-> order[drop[k]]]

LEMMA SplitOnce ==
    ASSUME NEW n \in Nat, NEW order, IndexOnce(n, order), NEW m \in 0 .. n,
           NEW rest, NEW removed, Split(n, m, order, rest, removed),
           NEW both, both = rest \o removed
    PROVE  rest \in Seq(1 .. n) /\ removed \in Seq(1 .. n) /\ IndexOnce(n, both)
<1>0. PICK keep \in [1 .. n - m -> 1 .. n], drop \in [1 .. m -> 1 .. n] :
        /\ Range(keep) \cup Range(drop) = 1 .. n
        /\ rest = [k \in DOMAIN keep |-> order[keep[k]]]
        /\ removed = [k \in DOMAIN drop |-> order[drop[k]]]
  BY DEF Split
<1>1. rest \in [1 .. n - m -> 1 .. n] /\ removed \in [1 .. m -> 1 .. n]
  BY <1>0 DEF IndexOnce
<1>2. rest \in Seq(1 .. n) /\ Len(rest) = n - m /\ removed \in Seq(1 .. n) /\ Len(removed) = m
  <2>1. n - m \in Nat /\ m \in Nat
    OBVIOUS
  <2>2. rest \in Seq(1 .. n) /\ Len(rest) = n - m
    BY <1>1, <2>1, FunctionIsSeq
  <2>3. removed \in Seq(1 .. n) /\ Len(removed) = m
    BY <1>1, <2>1, FunctionIsSeq
  <2> QED
    BY <2>2, <2>3
<1>3. /\ both \in Seq(1 .. n) /\ Len(both) = n - m + m
      /\ \A k \in 1 .. n - m : both[k] = rest[k]
      /\ \A k \in 1 .. m : both[n - m + k] = removed[k]
  <2>1. /\ both \in Seq(1 .. n) /\ Len(both) = Len(rest) + Len(removed)
        /\ \A k \in 1 .. Len(rest) : both[k] = rest[k]
        /\ \A k \in 1 .. Len(removed) : both[Len(rest) + k] = removed[k]
    <3>1. rest \in Seq(1 .. n) /\ removed \in Seq(1 .. n)
      BY <1>2
    <3> QED
      BY <3>1, ConcatAt
  <2> QED
    BY <1>2, <2>1, Zenon
<1>4. ASSUME NEW u \in 1 .. n
      PROVE  \E k \in 1 .. n : both[k] = u
  <2>1. PICK p \in 1 .. n : order[p] = u
    BY DEF IndexOnce
  <2>2. CASE p \in Range(keep)
    <3>1. PICK k \in 1 .. n - m : keep[k] = p
      BY <2>2 DEF Range
    <3>2. rest[k] = u /\ k \in 1 .. n
      BY <1>0, <2>1, <3>1
    <3> QED
      BY <1>3, <3>2, Zenon
  <2>3. CASE p \in Range(drop)
    <3>1. PICK k \in 1 .. m : drop[k] = p
      BY <2>3 DEF Range
    <3>2. removed[k] = u
      BY <1>0, <2>1, <3>1
    <3>3. n - m + k \in 1 .. n
      OBVIOUS
    <3> QED
      BY <1>3, <3>2, <3>3
  <2> QED
    BY <1>0, <2>2, <2>3
<1>5. both \in [1 .. n -> 1 .. n]
  <2>1. n - m + m = n
    OBVIOUS
  <2> QED
    BY <1>3, <2>1, LenProperties
<1> QED
  BY <1>2, <1>4, <1>5 DEF IndexOnce

Inserted(r, s, p, e) ==
    /\ Len(r) = Len(s) + 1
    /\ \A k \in 1 .. p - 1 : r[k] = s[k]
    /\ r[p] = e
    /\ \A k \in p .. Len(s) : r[k + 1] = s[k]

LEMMA InsertAtProperties ==
    ASSUME NEW S, NEW s \in Seq(S), NEW e \in S, NEW p \in 1 .. Len(s) + 1,
           NEW r, r = InsertAt(s, p, e)
    PROVE  r \in Seq(S) /\ Inserted(r, s, p, e)
<1>1. PICK l \in Nat : l = Len(s)
  OBVIOUS
<1>2. p \in 1 .. l + 1 /\ p \in Int /\ p - 1 \in Int /\ \A k \in 1 .. l : s[k] \in S
  BY <1>1
<1>3. PICK a : a = SubSeq(s, 1, p - 1)
  OBVIOUS
<1>4. PICK b : b = SubSeq(s, p, Len(s))
  OBVIOUS
<1>5. PICK f : f = a \o <<e>>
  OBVIOUS
<1>6. r = f \o b
  BY <1>3, <1>4, <1>5 DEF InsertAt
<1>7. a \in Seq(S) /\ Len(a) = p - 1 /\ \A k \in 1 .. p - 1 : a[k] = s[k]
  <2>1. \A k \in 1 .. p - 1 : s[k] \in S
    BY <1>2
  <2>2. /\ a \in Seq(S)
        /\ Len(a) = IF 1 <= p - 1 THEN p - 1 - 1 + 1 ELSE 0
        /\ \A k \in 1 .. p - 1 - 1 + 1 : a[k] = s[1 + k - 1]
    BY <1>2, <1>3, <2>1, SubSeqProperties
  <2> QED
    BY <1>2, <2>2
<1>8. b \in Seq(S) /\ Len(b) = l - p + 1 /\ \A k \in 1 .. l - p + 1 : b[k] = s[p + k - 1]
  <2>1. \A k \in p .. l : s[k] \in S
    BY <1>2
  <2>2. /\ b \in Seq(S)
        /\ Len(b) = IF p <= l THEN l - p + 1 ELSE 0
        /\ \A k \in 1 .. l - p + 1 : b[k] = s[p + k - 1]
    BY <1>1, <1>2, <1>4, <2>1, SubSeqProperties
  <2> QED
    BY <1>1, <1>2, <2>2
<1>9. /\ f \in Seq(S) /\ Len(f) = p
      /\ \A k \in 1 .. p - 1 : f[k] = s[k]
      /\ f[p] = e
  <2>1. PICK t : t = <<e>>
    OBVIOUS
  <2>2. t \in Seq(S) /\ Len(t) = 1 /\ t[1] = e
    BY <2>1
  <2>3. /\ f \in Seq(S) /\ Len(f) = p - 1 + 1
        /\ \A k \in 1 .. p - 1 : f[k] = a[k]
        /\ \A k \in 1 .. 1 : f[p - 1 + k] = t[k]
    BY <1>5, <1>7, <2>1, <2>2, ConcatAt
  <2>4. f[p - 1 + 1] = e
    BY <2>2, <2>3
  <2> QED
    BY <1>2, <1>7, <2>3, <2>4
<1>10. /\ r \in Seq(S) /\ Len(r) = p + (l - p + 1)
       /\ \A k \in 1 .. p : r[k] = f[k]
       /\ \A k \in 1 .. l - p + 1 : r[p + k] = b[k]
  <2>1. /\ r \in Seq(S) /\ Len(r) = Len(f) + Len(b)
        /\ \A k \in 1 .. Len(f) : r[k] = f[k]
        /\ \A k \in 1 .. Len(b) : r[Len(f) + k] = b[k]
    <3>1. f \in Seq(S) /\ b \in Seq(S)
      BY <1>8, <1>9
    <3> QED
      BY <1>6, <3>1, ConcatAt
  <2> QED
    BY <1>8, <1>9, <2>1, Zenon
<1>11. ASSUME NEW k \in p .. Len(s)
       PROVE  r[k + 1] = s[k]
  <2>1. k - p + 1 \in 1 .. l - p + 1 /\ p + (k - p + 1) = k + 1 /\ p + (k - p + 1) - 1 = k
    BY <1>1, <1>2
  <2> QED
    BY <1>8, <1>10, <2>1
<1>12. \A k \in 1 .. p - 1 : r[k] = s[k]
  <2>1. \A k \in 1 .. p - 1 : k \in 1 .. p
    BY <1>2
  <2> QED
    BY <1>9, <1>10, <2>1
<1>13. p \in 1 .. p
  BY <1>2
<1>14. Len(r) = Len(s) + 1
  BY <1>1, <1>2, <1>10
<1> QED
  BY <1>9, <1>10, <1>11, <1>12, <1>13, <1>14 DEF Inserted

Keeps(old, new) ==
    /\ Len(new) = Len(old)
    /\ \A k \in 1 .. Len(old) : \E m \in 1 .. Len(old) : new[m] = old[k]

\* A repair puts the first removed stop between two others; none gets lost.
LEMMA InsertKeeps ==
    ASSUME NEW S, NEW rest \in Seq(S), NEW removed \in Seq(S), removed # <<>>,
           NEW old, old = rest \o removed,
           NEW p \in 1 .. Len(rest) + 1,
           NEW longer, longer = InsertAt(rest, p, Head(removed)),
           NEW tail, tail = Tail(removed),
           NEW new, new = longer \o tail
    PROVE  /\ longer \in Seq(S) /\ tail \in Seq(S)
           /\ new \in Seq(S) /\ Keeps(old, new)
<1>1. PICK l \in Nat : l = Len(rest)
  OBVIOUS
<1>2. PICK d \in Nat : Len(removed) = d + 1
  <2>1. Len(removed) \in Nat /\ Len(removed) # 0
    BY EmptySeq
  <2>2. Len(removed) - 1 \in Nat /\ Len(removed) = Len(removed) - 1 + 1
    BY <2>1
  <2> QED
    BY <2>2
<1>3. /\ Head(removed) \in S /\ Head(removed) = removed[1]
      /\ tail \in Seq(S) /\ Len(tail) = d
      /\ \A k \in 1 .. d : tail[k] = removed[k + 1]
  <2>1. /\ Head(removed) \in S
        /\ tail \in Seq(S) /\ Len(tail) = Len(removed) - 1
        /\ \A k \in 1 .. Len(tail) : tail[k] = removed[k + 1]
    BY HeadTailProperties
  <2>2. Head(removed) = removed[1]
    OBVIOUS
  <2>3. Len(tail) = d
    BY <1>2, <2>1
  <2> QED
    BY <2>1, <2>2, <2>3
<1>4. /\ longer \in Seq(S) /\ Len(longer) = l + 1
      /\ \A k \in 1 .. p - 1 : longer[k] = rest[k]
      /\ longer[p] = removed[1]
      /\ \A k \in p .. l : longer[k + 1] = rest[k]
  <2>1. PICK e \in S : e = Head(removed)
    BY <1>3
  <2>2. longer = InsertAt(rest, p, e)
    BY <2>1
  <2>3. longer \in Seq(S) /\ Inserted(longer, rest, p, e)
    BY <2>2, InsertAtProperties, Zenon
  <2> QED
    BY <1>1, <1>3, <2>1, <2>3, Zenon DEF Inserted
<1>5. /\ old \in Seq(S) /\ Len(old) = l + (d + 1)
      /\ \A k \in 1 .. l : old[k] = rest[k]
      /\ \A k \in 1 .. d + 1 : old[l + k] = removed[k]
  <2>1. /\ old \in Seq(S) /\ Len(old) = Len(rest) + Len(removed)
        /\ \A k \in 1 .. Len(rest) : old[k] = rest[k]
        /\ \A k \in 1 .. Len(removed) : old[Len(rest) + k] = removed[k]
    BY ConcatAt
  <2> QED
    BY <1>1, <1>2, <2>1, Zenon
<1>6. /\ new \in Seq(S) /\ Len(new) = l + 1 + d
      /\ \A k \in 1 .. l + 1 : new[k] = longer[k]
      /\ \A k \in 1 .. d : new[l + 1 + k] = tail[k]
  <2>1. /\ new \in Seq(S) /\ Len(new) = Len(longer) + Len(tail)
        /\ \A k \in 1 .. Len(longer) : new[k] = longer[k]
        /\ \A k \in 1 .. Len(tail) : new[Len(longer) + k] = tail[k]
    <3>1. longer \in Seq(S) /\ tail \in Seq(S)
      BY <1>3, <1>4
    <3> QED
      BY <3>1, ConcatAt
  <2> QED
    BY <1>3, <1>4, <2>1, Zenon
<1>7. PICK n \in Nat : n = l + 1 + d
  BY <1>1, <1>2
<1>8. p \in 1 .. l + 1 /\ p \in 1 .. n
  BY <1>1, <1>7
<1>9. ASSUME NEW k \in 1 .. n
      PROVE  \E m \in 1 .. n : new[m] = old[k]
  <2>2. CASE k < p
    <3>1. k \in 1 .. p - 1 /\ k \in 1 .. l /\ k \in 1 .. l + 1
      BY <1>8, <2>2
    <3> QED
      BY <1>4, <1>5, <1>6, <3>1
  <2>3. CASE p <= k /\ k <= l
    <3>1. k \in p .. l /\ k \in 1 .. l /\ k + 1 \in 1 .. l + 1 /\ k + 1 \in 1 .. n
      BY <1>7, <1>8, <2>3
    <3> QED
      BY <1>4, <1>5, <1>6, <3>1
  <2>4. CASE k = l + 1
    <3>1. 1 \in 1 .. d + 1
      OBVIOUS
    <3>2. old[k] = removed[1]
      BY <1>5, <2>4, <3>1
    <3> QED
      BY <1>4, <1>6, <1>8, <3>2
  <2>5. CASE k > l + 1
    <3>1. PICK e \in 1 .. d : k = l + 1 + e
      <4>1. k - (l + 1) \in 1 .. d /\ k = l + 1 + (k - (l + 1))
        BY <1>7, <2>5
      <4> QED
        BY <4>1
    <3>2. e + 1 \in 1 .. d + 1 /\ k = l + (e + 1)
      BY <3>1
    <3>3. old[k] = removed[e + 1]
      BY <1>5, <3>2
    <3>4. new[k] = old[k]
      BY <1>3, <1>6, <3>1, <3>3, Zenon
    <3> QED
      BY <3>4
  <2>6. k < p \/ (p <= k /\ k <= l) \/ k = l + 1 \/ k > l + 1
    BY <1>8
  <2> QED
    BY <2>2, <2>3, <2>4, <2>5, <2>6, Zenon
<1>10. Len(new) = n /\ Len(old) = n
  BY <1>5, <1>6, <1>7
<1> QED
  <2>1. Keeps(old, new)
    BY <1>9, <1>10 DEF Keeps
  <2> QED
    BY <1>3, <1>4, <1>6, <2>1

LEMMA InsertOnce ==
    ASSUME NEW n \in Nat, NEW rest \in Seq(1 .. n), NEW removed \in Seq(1 .. n),
           removed # <<>>,
           NEW old, old = rest \o removed, IndexOnce(n, old),
           NEW p \in 1 .. Len(rest) + 1,
           NEW longer, longer = InsertAt(rest, p, Head(removed)),
           NEW tail, tail = Tail(removed),
           NEW new, new = longer \o tail
    PROVE  longer \in Seq(1 .. n) /\ tail \in Seq(1 .. n) /\ IndexOnce(n, new)
<1>1. /\ longer \in Seq(1 .. n) /\ tail \in Seq(1 .. n)
      /\ new \in Seq(1 .. n) /\ Keeps(old, new)
  BY InsertKeeps
<1>2. Len(old) = n
  BY LenProperties DEF IndexOnce
<1>3. new \in [1 .. n -> 1 .. n]
  BY <1>1, <1>2, LenProperties DEF Keeps
<1>4. ASSUME NEW u \in 1 .. n
      PROVE  \E m \in 1 .. n : new[m] = u
  <2>1. PICK k \in 1 .. n : old[k] = u
    BY DEF IndexOnce
  <2> QED
    BY <1>1, <1>2, <2>1 DEF Keeps
<1> QED
  BY <1>1, <1>3, <1>4 DEF IndexOnce

LEMMA RemoveCountBounds ==
    ASSUME request \in Requests, stop_count \in Nat \ {0}
    PROVE  RemoveCount \in 1 .. stop_count
<1> DEFINE n == stop_count
           q == request.destroy_percent
<1>1. n \in Nat /\ n >= 1 /\ q \in 1 .. 100
  BY RequestsAssumption
<1> HIDE DEF n, q
<1>2. n * q \in Nat /\ n * q <= n * 100
  BY <1>1
<1>3. (n * q) \div 100 \in 0 .. n
  BY <1>2, <1>1
<1> QED
  BY <1>1, <1>3 DEF RemoveCount, n, q

---------------------------------------------------------------------------
(***************************************************************************)
(* No stop is lost.                                                        *)
(***************************************************************************)

\* What the stages have produced when.
StagesInOrder ==
    /\ stage \in {"matrix", "greedy", "two_opt", "lns", "answered"}
    /\ stage # "answered" => status = 0
    /\ stage \in {"matrix", "greedy"} => current_order = <<>> /\ best_order = <<>>
    /\ stage = "two_opt" => current_order # <<>> /\ best_order = <<>>
    /\ stage = "lns" => current_order # <<>> /\ best_order # <<>>

GreedyInv ==
    /\ greedy_order \in Seq(0 .. stop_count - 1)
    /\ \A i, j \in 1 .. Len(greedy_order) : greedy_order[i] = greedy_order[j] => i = j
    /\ TwoOptRan \/ status = 200 => Once(stop_count, greedy_order)

TwoOptInv ==
    TwoOptRan =>
        /\ Once(stop_count, current_order) /\ Once(stop_count, candidate_order)
        /\ swap \in Nat \X Nat
        /\ 1 <= swap[1] /\ swap[1] < swap[2]
        /\ swap[2] <= stop_count \/ swap = <<stop_count, stop_count + 1>>

LnsInv ==
    LnsRan =>
        /\ IndexOnce(stop_count, best_order)
        /\ lns = "repair" =>
              /\ repaired \in Seq(1 .. stop_count) /\ removed_stops \in Seq(1 .. stop_count)
              /\ IndexOnce(stop_count, repaired \o removed_stops)

OrdersInv ==
    /\ request \in Requests /\ stop_count \in Nat \ {0}
    /\ StagesInOrder /\ GreedyInv /\ TwoOptInv /\ LnsInv

LEMMA InitOrders == Init => OrdersInv
<1> SUFFICES ASSUME Init PROVE OrdersInv
  OBVIOUS
<1>1. request \in Requests /\ stop_count \in Nat \ {0}
  BY MatricesAssumption DEF Init
<1>2. greedy_order = <<>> /\ current_order = <<>> /\ best_order = <<>> /\ status = 0 /\ stage = "matrix"
  BY DEF Init, GreedyInit, TwoOptIdle, LnsIdle
<1> QED
  BY <1>1, <1>2 DEF OrdersInv, StagesInOrder, GreedyInv, TwoOptInv, LnsInv, TwoOptRan, LnsRan

\* Steps that only answer or take the matrix.
LEMMA OrdersKept ==
    ASSUME OrdersInv, UNCHANGED <<given, greedyVars, twoOptVars, lnsVars>>,
           StagesInOrder', status' = 200 => Once(stop_count, greedy_order)
    PROVE  OrdersInv'
BY DEF OrdersInv, GreedyInv, TwoOptInv, LnsInv, TwoOptRan, LnsRan,
       given, greedyVars, twoOptVars, lnsVars

LEMMA GreedyKeepsOrders ==
    ASSUME OrdersInv, RunGreedy
    PROVE  OrdersInv'
<1>1. PICK s \in Unvisited : greedy_order' = Append(greedy_order, s)
  BY DEF RunGreedy, GreedyPick, Candidates
<1>2. stage = "greedy" /\ UNCHANGED <<given, twoOptVars, lnsVars, stage, status>>
  BY DEF RunGreedy
<1>3. StagesInOrder' /\ TwoOptInv' /\ LnsInv'
  BY <1>2 DEF OrdersInv, StagesInOrder, TwoOptInv, LnsInv, TwoOptRan, LnsRan, given, twoOptVars, lnsVars
<1>4. GreedyInv'
  <2>1. s \in 0 .. stop_count - 1 /\ s \notin Range(greedy_order)
    BY DEF Unvisited, Stops
  <2>2. greedy_order \in Seq(0 .. stop_count - 1)
    BY DEF OrdersInv, GreedyInv
  <2>3. /\ greedy_order' \in Seq(0 .. stop_count - 1)
        /\ Len(greedy_order') = Len(greedy_order) + 1
        /\ \A k \in 1 .. Len(greedy_order) : greedy_order'[k] = greedy_order[k]
        /\ greedy_order'[Len(greedy_order) + 1] = s
    BY <1>1, <2>1, <2>2, AppendProperties
  <2>4. \A k \in 1 .. Len(greedy_order) : greedy_order[k] # s
    BY <2>1, <2>2 DEF Range
  <2>5. \A i, j \in 1 .. Len(greedy_order) + 1 : greedy_order'[i] = greedy_order'[j] => i = j
    <3>1. PICK l \in Nat : l = Len(greedy_order)
      BY <2>2
    <3>2. \A i, j \in 1 .. l : greedy_order[i] = greedy_order[j] => i = j
      BY <3>1 DEF OrdersInv, GreedyInv
    <3>3. \A k \in 1 .. l : greedy_order'[k] = greedy_order[k] /\ greedy_order'[k] # s
      BY <2>3, <2>4, <3>1
    <3>4. greedy_order'[l + 1] = s
      BY <2>3, <3>1
    <3>5. \A k \in 1 .. l + 1 : k \in 1 .. l \/ k = l + 1
      BY <3>1
    <3> QED
      BY <3>1, <3>2, <3>3, <3>4, <3>5, Zenon
  <2>6. UNCHANGED stop_count /\ ~ TwoOptRan' /\ status' # 200
    BY <1>2 DEF OrdersInv, StagesInOrder, TwoOptRan, given, twoOptVars
  <2> QED
    BY <2>3, <2>5, <2>6 DEF GreedyInv
<1> QED
  BY <1>2, <1>3, <1>4 DEF OrdersInv, given

LEMMA GreedyDoneOnce ==
    ASSUME OrdersInv, GreedyDone
    PROVE  Once(stop_count, greedy_order)
BY GreedyOnce DEF OrdersInv, GreedyInv, GreedyDone, Unvisited, Stops

LEMMA StartTwoOptKeepsOrders ==
    ASSUME OrdersInv, StartTwoOpt
    PROVE  OrdersInv'
<1>1. Once(stop_count, greedy_order) /\ stop_count \in Nat \ {0}
  BY GreedyDoneOnce DEF StartTwoOpt, OrdersInv
<1>2. UNCHANGED <<request, stop_count, greedy_order, best_order, status>> /\ stage' = "two_opt" /\ stage = "greedy"
  BY DEF StartTwoOpt, GreedyDone, given, greedyVars, lnsVars
<1>3. current_order' = greedy_order /\ candidate_order' = greedy_order /\ swap' = <<1, 2>>
  BY DEF StartTwoOpt, TwoOptStart, FirstSwap
<1>4. greedy_order # <<>>
  BY <1>1, LenOnce, EmptySeq
<1>5. StagesInOrder' /\ GreedyInv'
  BY <1>1, <1>2, <1>3, <1>4 DEF OrdersInv, StagesInOrder, GreedyInv, TwoOptRan
<1>6. TwoOptInv'
  BY <1>1, <1>2, <1>3 DEF TwoOptInv
<1>7. LnsInv'
  BY <1>2 DEF OrdersInv, StagesInOrder, LnsInv, LnsRan
<1> QED
  BY <1>2, <1>5, <1>6, <1>7 DEF OrdersInv

LEMMA TwoOptKeepsOrders ==
    ASSUME OrdersInv, RunTwoOpt
    PROVE  OrdersInv'
<1>1. /\ UNCHANGED <<request, stop_count, greedy_order, stage, status>> /\ stage = "two_opt"
      /\ UNCHANGED <<best_order, lns, repaired, removed_stops>>
  BY DEF RunTwoOpt, given, greedyVars, lnsVars
<1>2. /\ stop_count \in Nat \ {0}
      /\ Once(stop_count, current_order) /\ Once(stop_count, candidate_order)
      /\ Once(stop_count, greedy_order)
      /\ swap \in Nat \X Nat
      /\ 1 <= swap[1] /\ swap[1] < swap[2]
      /\ swap[2] <= stop_count \/ swap = <<stop_count, stop_count + 1>>
  BY <1>1 DEF OrdersInv, StagesInOrder, TwoOptInv, GreedyInv, TwoOptRan
<1>3. /\ Once(stop_count, current_order') /\ Once(stop_count, candidate_order')
      /\ swap' \in Nat \X Nat
      /\ 1 <= swap'[1] /\ swap'[1] < swap'[2]
      /\ swap'[2] <= stop_count \/ swap' = <<stop_count, stop_count + 1>>
  <2>1. CASE TrySwap
    <3>1. swap[1] \in 1 .. stop_count /\ swap[2] \in 1 .. stop_count
      BY <1>2, <2>1 DEF TrySwap, ScanDone
    <3>2. Once(stop_count, Candidate)
      BY <1>2, <3>1, SwapOnce DEF Candidate
    <3>3. Once(stop_count, candidate_order') /\ current_order' = current_order
      BY <1>2, <2>1, <3>2, Zenon DEF TrySwap
    <3>4. swap' = IF swap[2] < stop_count THEN <<swap[1], swap[2] + 1>>
                                          ELSE <<swap[1] + 1, swap[1] + 2>>
      BY <2>1 DEF TrySwap, NextSwap
    <3>5. /\ swap' \in Nat \X Nat
          /\ 1 <= swap'[1] /\ swap'[1] < swap'[2]
          /\ swap'[2] <= stop_count \/ swap' = <<stop_count, stop_count + 1>>
      BY <1>2, <3>1, <3>4
    <3> QED
      BY <1>2, <3>3, <3>5
  <2>2. CASE Converge
    BY <1>2, <2>2 DEF Converge
  <2>3. CASE ApplySwap
    BY <1>2, <2>3 DEF ApplySwap, FirstSwap
  <2> QED
    BY <2>1, <2>2, <2>3 DEF RunTwoOpt, TwoOptNext
<1>4. current_order' # <<>>
  BY <1>2, <1>3, LenOnce, EmptySeq
<1>5. StagesInOrder' /\ GreedyInv'
  BY <1>1, <1>2, <1>4 DEF OrdersInv, StagesInOrder, GreedyInv, TwoOptRan
<1>6. TwoOptInv'
  BY <1>1, <1>3 DEF TwoOptInv
<1>7. LnsInv'
  BY <1>1 DEF OrdersInv, LnsInv, LnsRan
<1> QED
  BY <1>1, <1>5, <1>6, <1>7 DEF OrdersInv

LEMMA StartLnsKeepsOrders ==
    ASSUME OrdersInv, StartLns
    PROVE  OrdersInv'
<1>1. /\ UNCHANGED <<request, stop_count, greedy_order, current_order, candidate_order, swap>>
      /\ stage = "two_opt"
      /\ best_order' = PublicToMatrix(current_order) /\ lns' = "destroy"
      /\ \/ stage' = "answered" /\ status' \in {503, 422}
         \/ stage' = "lns" /\ status' = status
  BY DEF StartLns, LnsStart, Answer, given, greedyVars, twoOptVars
<1>2. stop_count \in Nat \ {0} /\ Once(stop_count, current_order) /\ current_order # <<>> /\ status = 0
  BY <1>1 DEF OrdersInv, StagesInOrder, TwoOptInv, TwoOptRan
<1>3. IndexOnce(stop_count, best_order')
  BY <1>1, <1>2, OnceToIndex
<1>4. best_order' # <<>>
  BY <1>2, <1>3 DEF IndexOnce
<1>5. StagesInOrder' /\ GreedyInv'
  BY <1>1, <1>2, <1>4 DEF OrdersInv, StagesInOrder, GreedyInv, TwoOptRan
<1>6. TwoOptInv'
  BY <1>1 DEF OrdersInv, TwoOptInv, TwoOptRan
<1>7. LnsInv'
  BY <1>1, <1>3 DEF LnsInv
<1> QED
  BY <1>1, <1>5, <1>6, <1>7 DEF OrdersInv

LEMMA LnsKeepsOrders ==
    ASSUME OrdersInv, RunLns
    PROVE  OrdersInv'
<1>1. /\ UNCHANGED <<request, stop_count, greedy_order, stage, status>> /\ stage = "lns"
      /\ UNCHANGED <<current_order, candidate_order, swap>>
  BY DEF RunLns, given, greedyVars, twoOptVars
<1>2. /\ request \in Requests /\ stop_count \in Nat \ {0}
      /\ IndexOnce(stop_count, best_order)
      /\ lns = "repair" =>
            /\ repaired \in Seq(1 .. stop_count) /\ removed_stops \in Seq(1 .. stop_count)
            /\ IndexOnce(stop_count, repaired \o removed_stops)
  BY <1>1 DEF OrdersInv, StagesInOrder, LnsInv, LnsRan
<1>3. /\ IndexOnce(stop_count, best_order')
      /\ lns' = "repair" =>
            /\ repaired' \in Seq(1 .. stop_count) /\ removed_stops' \in Seq(1 .. stop_count)
            /\ IndexOnce(stop_count, repaired' \o removed_stops')
  <2>1. CASE Destroy
    <3>1. RemoveCount \in 0 .. stop_count /\ stop_count \in Nat
      BY <1>2, RemoveCountBounds
    <3>2. PICK rest, removed, both :
                 rest = repaired' /\ removed = removed_stops' /\ both = rest \o removed
      OBVIOUS
    <3>3. Split(stop_count, RemoveCount, best_order, rest, removed) /\ best_order' = best_order
      BY <2>1, <3>2 DEF Destroy, Split
    <3>4. rest \in Seq(1 .. stop_count) /\ removed \in Seq(1 .. stop_count)
          /\ IndexOnce(stop_count, both)
      BY <1>2, <3>1, <3>2, <3>3, SplitOnce
    <3> QED
      BY <1>2, <3>2, <3>3, <3>4
  <2>2. CASE InsertStop
    <3>1. PICK p \in 1 .. Len(repaired) + 1 :
                 repaired' = InsertAt(repaired, p, Head(removed_stops))
      BY <2>2 DEF InsertStop
    <3>2. /\ lns = "repair" /\ removed_stops # <<>> /\ best_order' = best_order
          /\ removed_stops' = Tail(removed_stops)
      BY <2>2 DEF InsertStop
    <3>3. PICK old, new : old = repaired \o removed_stops /\ new = repaired' \o removed_stops'
      OBVIOUS
    <3>4. /\ repaired' \in Seq(1 .. stop_count) /\ removed_stops' \in Seq(1 .. stop_count)
          /\ IndexOnce(stop_count, new)
      BY <1>2, <3>1, <3>2, <3>3, InsertOnce
    <3> QED
      BY <1>2, <3>2, <3>3, <3>4
  <2>3. CASE Judge
    <3>1. lns = "repair" /\ removed_stops = <<>> /\ lns' # "repair"
      BY <2>3 DEF Judge
    <3>2. repaired \o removed_stops = repaired
      BY <1>2, <3>1, ConcatEmptySeq
    <3>3. IndexOnce(stop_count, repaired)
      BY <1>2, <3>1, <3>2
    <3> QED
      BY <1>2, <2>3, <3>1, <3>3 DEF Judge
  <2> QED
    BY <2>1, <2>2, <2>3 DEF RunLns, LnsNext
<1>4. best_order' # <<>>
  BY <1>2, <1>3 DEF IndexOnce
<1>5. StagesInOrder' /\ GreedyInv'
  BY <1>1, <1>4 DEF OrdersInv, StagesInOrder, GreedyInv, TwoOptRan
<1>6. TwoOptInv'
  BY <1>1 DEF OrdersInv, TwoOptInv, TwoOptRan
<1>7. LnsInv'
  BY <1>1, <1>3 DEF LnsInv
<1> QED
  BY <1>1, <1>5, <1>6, <1>7 DEF OrdersInv

LEMMA NextOrders ==
    ASSUME OrdersInv, [Next]_vars
    PROVE  OrdersInv'
<1>1. CASE RejectMatrix \/ GreedyFails \/ NoWayBack \/ TwoOptFails
  <2>1. UNCHANGED <<given, greedyVars, twoOptVars, lnsVars>> /\ stage' = "answered" /\ status' # 200
    BY <1>1 DEF RejectMatrix, GreedyFails, NoWayBack, TwoOptFails, Answer
  <2> QED
    BY <2>1, OrdersKept DEF StagesInOrder
<1>2. CASE TakeMatrix
  <2>1. /\ UNCHANGED <<given, greedyVars, twoOptVars, lnsVars>>
        /\ stage = "matrix" /\ stage' = "greedy" /\ status' = status
    BY <1>2 DEF TakeMatrix
  <2>2. StagesInOrder' /\ status' # 200
    BY <2>1 DEF OrdersInv, StagesInOrder, twoOptVars, lnsVars
  <2> QED
    BY <2>1, <2>2, OrdersKept
<1>3. CASE AnswerGreedy \/ AnswerCompare \/ AnswerAdvanced
  <2>1. UNCHANGED <<given, greedyVars, twoOptVars, lnsVars>> /\ stage' = "answered"
    BY <1>3 DEF AnswerGreedy, AnswerCompare, AnswerAdvanced, Answer
  <2>2. Once(stop_count, greedy_order)
    BY <1>3, GreedyDoneOnce DEF AnswerGreedy, AnswerCompare, AnswerAdvanced,
       OrdersInv, StagesInOrder, GreedyInv, TwoOptRan
  <2> QED
    BY <2>1, <2>2, OrdersKept DEF StagesInOrder
<1>4. CASE RunGreedy
  BY <1>4, GreedyKeepsOrders
<1>5. CASE StartTwoOpt
  BY <1>5, StartTwoOptKeepsOrders
<1>6. CASE RunTwoOpt
  BY <1>6, TwoOptKeepsOrders
<1>7. CASE StartLns
  BY <1>7, StartLnsKeepsOrders
<1>8. CASE RunLns
  BY <1>8, LnsKeepsOrders
<1>9. CASE UNCHANGED vars
  <2>1. UNCHANGED <<given, greedyVars, twoOptVars, lnsVars>> /\ UNCHANGED <<stage, status>>
    BY <1>9 DEF vars
  <2>2. StagesInOrder'
    BY <2>1 DEF OrdersInv, StagesInOrder, twoOptVars, lnsVars
  <2> QED
    BY <2>1, <2>2, OrdersKept DEF OrdersInv, GreedyInv
<1> QED
  BY <1>1, <1>2, <1>3, <1>4, <1>5, <1>6, <1>7, <1>8, <1>9 DEF Next, Answered

LEMMA OnceVisitsAll ==
    ASSUME NEW order, stop_count \in Nat, Once(stop_count, order)
    PROVE  VisitsAll(order)
BY DEF Once, VisitsAll, Orders, Stops, Range

\* No stop is lost or repeated by any stage, for matrices of every size and
\* whatever the large neighbourhood search removes.
THEOREM StopsNeverLost == Spec => []EveryStopOnce
<1>1. OrdersInv => EveryStopOnce
  BY OnceVisitsAll, IndexToOnce DEF OrdersInv, GreedyInv, TwoOptInv, LnsInv, EveryStopOnce
<1> QED
  BY <1>1, InitOrders, NextOrders, PTL DEF Spec

---------------------------------------------------------------------------
(***************************************************************************)
(* Distances.                                                              *)
(***************************************************************************)

\* g holds the first n sums of the values of d, from its second on.
SumsTo(n, d, g) ==
    g = [k \in 0 .. n |-> IF k < 2 THEN 0 ELSE g[k - 1] + d[k]]

LEMMA SumsToExist ==
    ASSUME NEW d
    PROVE  \A n \in Nat : \E g : SumsTo(n, d, g)
<1> DEFINE Bad == {n \in Nat : ~ \E g : SumsTo(n, d, g)}
<1> SUFFICES ASSUME Bad # {} PROVE FALSE
  OBVIOUS
<1>1. PICK m \in Bad : \A k \in Bad : m <= k
  <2>1. Bad \in SUBSET Nat
    OBVIOUS
  <2> HIDE DEF Bad
  <2> QED
    BY <2>1, LeastElement
<1>2. CASE m = 0
  <2>1. SumsTo(0, d, [k \in 0 .. 0 |-> 0])
    BY DEF SumsTo
  <2> QED
    BY <1>2, <2>1
<1>3. CASE m # 0
  <2>1. m \in Nat /\ m - 1 \in Nat /\ m - 1 \notin Bad
    BY <1>1, <1>3
  <2>2. PICK g : SumsTo(m - 1, d, g)
    BY <2>1
  <2> DEFINE h == [k \in 0 .. m |-> IF k = m THEN IF m < 2 THEN 0 ELSE g[m - 1] + d[m] ELSE g[k]]
  <2>3. \A k \in 0 .. m : h[k] = IF k < 2 THEN 0 ELSE h[k - 1] + d[k]
    <3>1. \A k \in 0 .. m - 1 : g[k] = IF k < 2 THEN 0 ELSE g[k - 1] + d[k]
      BY <2>2 DEF SumsTo
    <3>2. ASSUME NEW k \in 0 .. m, k # m PROVE h[k] = IF k < 2 THEN 0 ELSE h[k - 1] + d[k]
      <4>1. k \in 0 .. m - 1 /\ h[k] = g[k]
        BY <2>1, <3>2
      <4>2. CASE k < 2
        BY <3>1, <4>1, <4>2
      <4>3. CASE ~ (k < 2)
        <5>1. k - 1 \in 0 .. m /\ k - 1 # m
          BY <2>1, <4>3
        <5>2. h[k - 1] = g[k - 1]
          BY <5>1
        <5> QED
          BY <3>1, <4>1, <4>3, <5>2
      <4> QED
        BY <4>2, <4>3
    <3>3. h[m] = IF m < 2 THEN 0 ELSE h[m - 1] + d[m]
      BY <2>1
    <3> QED
      BY <3>2, <3>3
  <2>4. SumsTo(m, d, h)
    BY <2>3 DEF SumsTo
  <2> QED
    BY <2>1, <2>4
<1> QED
  BY <1>2, <1>3

LEMMA SumsToAgree ==
    ASSUME NEW d, NEW n \in Nat, NEW m \in Nat, NEW g, NEW h, SumsTo(n, d, g), SumsTo(m, d, h),
           NEW k \in Nat, k <= n, k <= m
    PROVE  g[k] = h[k]
<1> DEFINE Bad == {i \in Nat : i <= n /\ i <= m /\ g[i] # h[i]}
<1> SUFFICES ASSUME Bad # {} PROVE FALSE
  OBVIOUS
<1>1. PICK i \in Bad : \A j \in Bad : i <= j
  <2>1. Bad \in SUBSET Nat
    OBVIOUS
  <2> HIDE DEF Bad
  <2> QED
    BY <2>1, LeastElement
<1>2. /\ g[i] = IF i < 2 THEN 0 ELSE g[i - 1] + d[i]
      /\ h[i] = IF i < 2 THEN 0 ELSE h[i - 1] + d[i]
  BY <1>1 DEF SumsTo
<1>3. CASE i < 2
  BY <1>1, <1>2, <1>3
<1>4. CASE ~ (i < 2)
  <2>1. i - 1 \in Nat /\ i - 1 <= n /\ i - 1 <= m /\ i - 1 \notin Bad
    BY <1>1, <1>4
  <2>2. g[i - 1] = h[i - 1]
    BY <2>1
  <2> QED
    BY <1>1, <1>2, <1>4, <2>2
<1> QED
  BY <1>3, <1>4

\* The recursive function of TourLength exists: it is made of its beginnings.
LEMMA SumExists ==
    ASSUME NEW d
    PROVE  \E f : f = [k \in Nat |-> IF k < 2 THEN 0 ELSE f[k - 1] + d[k]]
<1> DEFINE G(n) == CHOOSE g : SumsTo(n, d, g)
           f == [k \in Nat |-> G(k)[k]]
<1>1. \A n \in Nat : SumsTo(n, d, G(n))
  BY SumsToExist
<1> HIDE DEF G
<1>2. ASSUME NEW k \in Nat
      PROVE  f[k] = IF k < 2 THEN 0 ELSE f[k - 1] + d[k]
  <2>1. G(k)[k] = IF k < 2 THEN 0 ELSE G(k)[k - 1] + d[k]
    BY <1>1 DEF SumsTo
  <2>2. CASE k < 2
    BY <2>1, <2>2
  <2>3. CASE ~ (k < 2)
    <3>1. k - 1 \in Nat /\ k - 1 <= k
      BY <2>3
    <3>2. G(k)[k - 1] = G(k - 1)[k - 1]
      BY <1>1, <3>1, SumsToAgree
    <3> QED
      BY <2>1, <2>3, <3>1, <3>2
  <2> QED
    BY <2>2, <2>3
<1>3. f = [k \in Nat |-> IF k < 2 THEN 0 ELSE f[k - 1] + d[k]]
  <2> HIDE DEF f
  <2>1. f = [k \in Nat |-> f[k]]
    BY DEF f
  <2> QED
    BY <1>2, <2>1
<1> QED
  BY <1>3

LEMMA TourLengthNat ==
    ASSUME NEW matrix, NEW tour, Len(tour) \in Nat,
           \A k \in 1 .. Len(tour) - 1 : matrix[<<tour[k], tour[k + 1]>>] \in Nat
    PROVE  TourLength(matrix, tour) \in Nat
<1> DEFINE d == [k \in Nat |-> matrix[<<tour[k - 1], tour[k]>>]]
           IsTotal(f) == f = [k \in Nat |-> IF k < 2 THEN 0 ELSE f[k - 1] + matrix[<<tour[k - 1], tour[k]>>]]
           Sum == CHOOSE f : IsTotal(f)
<1>1. TourLength(matrix, tour) = Sum[Len(tour)]
  BY DEF TourLength
<1>2. IsTotal(Sum)
  <2>1. PICK f : f = [k \in Nat |-> IF k < 2 THEN 0 ELSE f[k - 1] + d[k]]
    BY SumExists
  <2>2. IsTotal(f)
    BY <2>1
  <2> HIDE DEF IsTotal
  <2> QED
    BY <2>2
<1>3. \A k \in Nat : Sum[k] = IF k < 2 THEN 0 ELSE Sum[k - 1] + matrix[<<tour[k - 1], tour[k]>>]
  <2> HIDE DEF Sum
  <2> QED
    BY <1>2
<1> HIDE DEF Sum, IsTotal
<1> DEFINE Bad == {k \in 0 .. Len(tour) : Sum[k] \notin Nat}
<1>4. CASE Bad = {}
  BY <1>1, <1>4
<1>5. CASE Bad # {}
  <2>1. PICK k \in Bad : \A j \in Bad : k <= j
    <3>1. Bad \in SUBSET Nat
      OBVIOUS
    <3> HIDE DEF Bad
    <3> QED
      BY <1>5, <3>1, LeastElement
  <2>2. k \in Nat /\ k <= Len(tour) /\ Sum[k] \notin Nat
    BY <2>1
  <2>3. ASSUME k < 2 PROVE FALSE
    <3>1. Sum[k] = 0
      BY <1>3, <2>2, <2>3
    <3> QED
      BY <2>2, <3>1
  <2>4. k - 1 \in 0 .. Len(tour) /\ k - 1 \notin Bad /\ k - 1 \in 1 .. Len(tour) - 1
    BY <2>1, <2>2, <2>3
  <2>5. Sum[k - 1] \in Nat
    BY <2>4
  <2>6. matrix[<<tour[k - 1], tour[k]>>] \in Nat
    <3>1. PICK j \in 1 .. Len(tour) - 1 : j = k - 1 /\ k = j + 1
      BY <2>2, <2>4
    <3> QED
      BY <3>1
  <2> QED
    BY <1>3, <2>2, <2>3, <2>5, <2>6
<1> QED
  BY <1>4, <1>5

LEMMA DistanceKept ==
    ASSUME UNCHANGED <<request, distance_matrix>>
    PROVE  /\ \A order : RouteDistance(order)' = RouteDistance(order)
           /\ \A order : CalculateRouteDistance(order)' = CalculateRouteDistance(order)
BY DEF CalculateRouteDistance, RouteDistance, Tour, Drivable, Reachable

\* The entries of a matrix, and that roads can be driven one after the other.
MatrixInv ==
    /\ distance_matrix \in [AllPairs -> Nat \cup {None, UNREACHABLE_DISTANCE}]
    /\ \A u, v, w \in Points(stop_count) :
          Reachable(u, v) /\ Reachable(v, w) => Reachable(u, w)

\* A route that is not refused has a length.
LEMMA DistanceNat ==
    ASSUME MatrixInv, stop_count \in Nat, NEW order, IndexOnce(stop_count, order),
           RouteDistance(order) # UNREACHABLE_DISTANCE
    PROVE  RouteDistance(order) \in Nat
<1> DEFINE tour == Tour(order)
           P == Points(stop_count)
<1>1. CASE order = <<>>
  BY <1>1 DEF RouteDistance
<1>2. CASE order # <<>>
  <2>1. Drivable(tour) /\ RouteDistance(order) = TourLength(distance_matrix, tour)
    BY <1>2 DEF RouteDistance
  <2>2. tour \in Seq(P)
    <3>1. order \in Seq(P) /\ <<0>> \in Seq(P) /\ <<>> \in Seq(P)
      BY DEF IndexOnce, Points
    <3>2. <<0>> \o order \in Seq(P)
      BY <3>1, ConcatProperties
    <3> HIDE DEF P
    <3> QED
      BY <3>1, <3>2, ConcatProperties DEF Tour
  <2> HIDE DEF tour
  <2>3. Len(tour) \in Nat /\ \A k \in 1 .. Len(tour) : tour[k] \in P
    BY <2>2
  <2>4. ASSUME NEW k \in 1 .. Len(tour) - 1
        PROVE  distance_matrix[<<tour[k], tour[k + 1]>>] \in Nat
    <3>1. k \in 1 .. Len(tour) /\ k + 1 \in 1 .. Len(tour)
      BY <2>3
    <3>2. tour[k] \in P /\ tour[k + 1] \in P
      BY <2>3, <3>1
    <3>3. distance_matrix[<<tour[k], tour[k + 1]>>] \in Nat \cup {None, UNREACHABLE_DISTANCE}
      BY <3>2 DEF MatrixInv, AllPairs
    <3>4. Reachable(tour[k], tour[k + 1])
      BY <2>1, <2>4 DEF Drivable
    <3> QED
      BY <3>3, <3>4 DEF Reachable
  <2> QED
    BY <2>1, <2>3, <2>4, TourLengthNat
<1> QED
  BY <1>1, <1>2

LEMMA CalculatedNat ==
    ASSUME MatrixInv, stop_count \in Nat, NEW order, Once(stop_count, order),
           CalculateRouteDistance(order) # UNREACHABLE_DISTANCE
    PROVE  CalculateRouteDistance(order) \in Nat
BY OnceToIndex, DistanceNat DEF CalculateRouteDistance

DistancesTyped ==
    /\ initial_distance \in Nat /\ best_distance \in Nat
    /\ candidate_distance \in Nat /\ lns_distance \in Nat

TwoOptDistances ==
    TwoOptRan =>
        /\ initial_distance = CalculateRouteDistance(greedy_order)
        /\ best_distance = CalculateRouteDistance(current_order)
        /\ candidate_distance = CalculateRouteDistance(candidate_order)
        /\ candidate_distance <= best_distance
        /\ best_distance <= initial_distance

\* The candidates before swap, in the order of the loops, do not beat the best
\* of this scan by more than the tolerance.
TriedSwaps ==
    TwoOptRan =>
        \A i, j \in 1 .. stop_count :
            i < j /\ (i < swap[1] \/ (i = swap[1] /\ j < swap[2])) =>
                candidate_distance - CalculateRouteDistance(TwoOptSwap(current_order, i, j))
                    <= request.tolerance

ConvergedInv ==
    /\ converged => TwoOptRan /\ two_opt_done
    /\ ConvergedIsLocalOptimum

LnsDistances ==
    LnsRan => /\ lns_distance = RouteDistance(best_order)
              /\ lns_distance <= best_distance

SuccessDriven ==
    status = 200 => CalculateRouteDistance(greedy_order) # UNREACHABLE_DISTANCE

DistancesInv ==
    /\ MatrixInv /\ DistancesTyped /\ TwoOptDistances /\ TriedSwaps /\ ConvergedInv
    /\ LnsDistances /\ SuccessDriven

LEMMA InitDistances == Init => DistancesInv
<1> SUFFICES ASSUME Init PROVE DistancesInv
  OBVIOUS
<1>1. PICK m \in Matrices : stop_count = m.stops /\ distance_matrix = m.distances
  BY DEF Init
<1>2. distance_matrix \in [AllPairs -> Nat \cup {None}]
  BY <1>1, MatricesAssumption DEF AllPairs
<1>3. \A u, v \in Points(stop_count) : Reachable(u, v) <=> distance_matrix[<<u, v>>] # None
  BY <1>2, MatricesAssumption DEF AllPairs, Reachable, UNREACHABLE_DISTANCE
<1>4. \A u, v, w \in Points(stop_count) :
         Reachable(u, v) /\ Reachable(v, w) => Reachable(u, w)
  <2>1. \A u, v, w \in Points(stop_count) :
           distance_matrix[<<u, v>>] # None /\ distance_matrix[<<v, w>>] # None =>
              distance_matrix[<<u, w>>] # None
    <3>1. \A u, v, w \in Points(m.stops) :
             m.distances[<<u, v>>] # None /\ m.distances[<<v, w>>] # None =>
                m.distances[<<u, w>>] # None
      BY RoadsAssumption, Zenon
    <3>2. Points(m.stops) = Points(stop_count) /\ m.distances = distance_matrix
      BY <1>1
    <3> QED
      BY <3>1, <3>2
  <2> QED
    BY <1>3, <2>1, Zenon
<1>5. MatrixInv
  BY <1>2, <1>4 DEF MatrixInv
<1>6. /\ current_order = <<>> /\ best_order = <<>> /\ status = 0 /\ converged = FALSE
      /\ best_distance = 0 /\ initial_distance = 0 /\ candidate_distance = 0 /\ lns_distance = 0
  BY DEF Init, TwoOptIdle, LnsIdle
<1> QED
  BY <1>5, <1>6 DEF DistancesInv, DistancesTyped, TwoOptDistances, TriedSwaps, ConvergedInv,
     ConvergedIsLocalOptimum, LnsDistances, SuccessDriven, TwoOptRan, LnsRan

LEMMA MatrixKept ==
    ASSUME DistancesInv, UNCHANGED <<stop_count, distance_matrix>>
    PROVE  MatrixInv'
BY DEF DistancesInv, MatrixInv, AllPairs, Points, Reachable

\* Steps that only answer.
LEMMA DistancesKept ==
    ASSUME DistancesInv, UNCHANGED <<given, distance_matrix, greedyVars, twoOptVars, lnsVars>>,
           status' = 200 => CalculateRouteDistance(greedy_order) # UNREACHABLE_DISTANCE
    PROVE  DistancesInv'
<1>1. UNCHANGED <<request, stop_count, distance_matrix, greedy_order>>
  BY DEF given, greedyVars
<1>2. /\ \A order : RouteDistance(order)' = RouteDistance(order)
      /\ \A order : CalculateRouteDistance(order)' = CalculateRouteDistance(order)
  BY <1>1, DistanceKept
<1>3. MatrixInv'
  BY <1>1, MatrixKept
<1>4. TwoOptDistances' /\ TriedSwaps' /\ ConvergedInv' /\ DistancesTyped'
  BY <1>1, <1>2 DEF DistancesInv, TwoOptDistances, TriedSwaps, ConvergedInv,
     ConvergedIsLocalOptimum, DistancesTyped, TwoOptRan, twoOptVars, lnsVars
<1>5. LnsDistances'
  BY <1>1, <1>2 DEF DistancesInv, LnsDistances, LnsRan, twoOptVars, lnsVars
<1>6. SuccessDriven'
  BY <1>1, <1>2 DEF SuccessDriven
<1> QED
  BY <1>3, <1>4, <1>5, <1>6 DEF DistancesInv

LEMMA TakeMatrixKeepsDistances ==
    ASSUME OrdersInv, DistancesInv, TakeMatrix
    PROVE  DistancesInv'
<1>1. /\ stage = "matrix" /\ UNCHANGED <<given, greedyVars, twoOptVars, lnsVars, status>>
      /\ distance_matrix' = Normalized \/ distance_matrix' = distance_matrix
  BY DEF TakeMatrix
<1>2. current_order = <<>> /\ best_order = <<>> /\ status = 0
  BY <1>1 DEF OrdersInv, StagesInOrder
<1>3. MatrixInv'
  <2>1. CASE distance_matrix' = distance_matrix
    BY <1>1, <2>1, MatrixKept DEF given
  <2>2. CASE distance_matrix' = Normalized
    <3>1. distance_matrix' \in [AllPairs -> Nat \cup {None, UNREACHABLE_DISTANCE}]
      BY <2>2 DEF Normalized, DistancesInv, MatrixInv
    <3>2. ASSUME NEW u \in Points(stop_count), NEW v \in Points(stop_count)
          PROVE  Reachable(u, v)' <=> Reachable(u, v)
      <4>1. <<u, v>> \in AllPairs
        BY DEF AllPairs
      <4>2. distance_matrix'[<<u, v>>] =
              IF distance_matrix[<<u, v>>] = None THEN UNREACHABLE_DISTANCE
                                                  ELSE distance_matrix[<<u, v>>]
        BY <2>2, <4>1 DEF Normalized
      <4> QED
        BY <4>2, MatricesAssumption DEF Reachable, UNREACHABLE_DISTANCE
    <3>3. UNCHANGED stop_count /\ UNCHANGED AllPairs
      BY <1>1 DEF given, AllPairs
    <3> QED
      BY <3>1, <3>2, <3>3 DEF MatrixInv, DistancesInv, Points
  <2> QED
    BY <1>1, <2>1, <2>2
<1> QED
  BY <1>1, <1>2, <1>3 DEF DistancesInv, DistancesTyped, TwoOptDistances, TriedSwaps, ConvergedInv,
     ConvergedIsLocalOptimum, LnsDistances, SuccessDriven, TwoOptRan, LnsRan, twoOptVars, lnsVars

LEMMA GreedyKeepsDistances ==
    ASSUME OrdersInv, DistancesInv, RunGreedy
    PROVE  DistancesInv'
<1>1. stage = "greedy" /\ UNCHANGED <<given, distance_matrix, twoOptVars, lnsVars, status>>
  BY DEF RunGreedy
<1>2. current_order = <<>> /\ best_order = <<>> /\ status = 0
  BY <1>1 DEF OrdersInv, StagesInOrder
<1>3. MatrixInv'
  BY <1>1, MatrixKept DEF given
<1> QED
  BY <1>1, <1>2, <1>3 DEF DistancesInv, DistancesTyped, TwoOptDistances, TriedSwaps, ConvergedInv,
     ConvergedIsLocalOptimum, LnsDistances, SuccessDriven, TwoOptRan, LnsRan, twoOptVars, lnsVars

LEMMA StartTwoOptKeepsDistances ==
    ASSUME OrdersInv, DistancesInv, StartTwoOpt
    PROVE  DistancesInv'
<1>1. /\ stage = "greedy" /\ GreedyDone
      /\ CalculateRouteDistance(greedy_order) # UNREACHABLE_DISTANCE
      /\ UNCHANGED <<request, stop_count, distance_matrix, greedy_order, best_order, lns_distance, status>>
      /\ current_order' = greedy_order /\ candidate_order' = greedy_order
      /\ best_distance' = CalculateRouteDistance(greedy_order)
      /\ initial_distance' = best_distance' /\ candidate_distance' = best_distance'
      /\ swap' = <<1, 2>> /\ converged' = FALSE
  BY DEF StartTwoOpt, GreedyDone, GreedyDistance, TwoOptStart, FirstSwap, given, greedyVars, lnsVars
<1>2. best_order = <<>> /\ status = 0 /\ stop_count \in Nat
  BY <1>1 DEF OrdersInv, StagesInOrder
<1>3. \A order : CalculateRouteDistance(order)' = CalculateRouteDistance(order)
  BY <1>1, DistanceKept
<1>4. best_distance' \in Nat
  BY <1>1, <1>2, GreedyDoneOnce, CalculatedNat DEF DistancesInv
<1>5. MatrixInv'
  BY <1>1, MatrixKept
<1>6. TwoOptDistances' /\ DistancesTyped'
  BY <1>1, <1>3, <1>4 DEF DistancesInv, TwoOptDistances, DistancesTyped
<1>7. TriedSwaps'
  BY <1>1, <1>2 DEF TriedSwaps
<1>8. ConvergedInv' /\ LnsDistances' /\ SuccessDriven'
  BY <1>1, <1>2 DEF ConvergedInv, ConvergedIsLocalOptimum, LnsDistances, LnsRan, SuccessDriven
<1> QED
  BY <1>5, <1>6, <1>7, <1>8 DEF DistancesInv

LEMMA TwoOptKeepsDistances ==
    ASSUME OrdersInv, OrdersInv', DistancesInv, RunTwoOpt
    PROVE  DistancesInv'
<1>1. /\ stage = "two_opt" /\ two_opt_done = FALSE
      /\ UNCHANGED <<request, stop_count, distance_matrix, greedy_order, best_order, lns_distance, status>>
  BY DEF RunTwoOpt, TwoOptNext, given, greedyVars, lnsVars
<1>2. /\ TwoOptRan /\ ~ LnsRan /\ status = 0 /\ converged # TRUE
      /\ stop_count \in Nat /\ request.tolerance \in Nat
      /\ Once(stop_count, current_order)
      /\ swap \in Nat \X Nat
      /\ 1 <= swap[1] /\ swap[1] < swap[2]
      /\ swap[2] <= stop_count \/ swap = <<stop_count, stop_count + 1>>
  BY <1>1, RequestsAssumption DEF OrdersInv, StagesInOrder, TwoOptInv, TwoOptRan, LnsRan,
     DistancesInv, ConvergedInv
<1>3. \A order : CalculateRouteDistance(order)' = CalculateRouteDistance(order)
  BY <1>1, DistanceKept
<1>4. MatrixInv' /\ SuccessDriven' /\ LnsDistances'
  BY <1>1, <1>2, MatrixKept DEF SuccessDriven, LnsDistances, LnsRan
<1>5. /\ DistancesTyped /\ candidate_distance <= best_distance /\ best_distance <= initial_distance
      /\ initial_distance = CalculateRouteDistance(greedy_order)
      /\ best_distance = CalculateRouteDistance(current_order)
      /\ candidate_distance = CalculateRouteDistance(candidate_order)
  BY <1>2 DEF DistancesInv, TwoOptDistances
<1>6. \A i, j \in 1 .. stop_count :
         i < j /\ (i < swap[1] \/ (i = swap[1] /\ j < swap[2])) =>
            candidate_distance - CalculateRouteDistance(TwoOptSwap(current_order, i, j))
                <= request.tolerance
  BY <1>2 DEF DistancesInv, TriedSwaps
<1>7. CASE TrySwap
  <2>1. /\ UNCHANGED <<current_order, best_distance, initial_distance, two_opt_done, converged>>
        /\ swap' = NextSwap /\ ~ ScanDone
        /\ candidate_order' = IF Better THEN Candidate ELSE candidate_order
        /\ candidate_distance' = IF Better THEN CalculateRouteDistance(Candidate)
                                           ELSE candidate_distance
    BY <1>7 DEF TrySwap
  <2>2. swap[1] \in 1 .. stop_count /\ swap[2] \in 1 .. stop_count
    BY <1>2, <2>1 DEF ScanDone
  <2>3. CalculateRouteDistance(Candidate) \in Nat
    <3>1. CalculateRouteDistance(Candidate) # UNREACHABLE_DISTANCE
      BY <1>1, <1>7, <2>1 DEF TrySwap, SwapRaises
    <3>2. Once(stop_count, Candidate)
      BY <1>2, <2>2, SwapOnce DEF Candidate
    <3> QED
      BY <1>2, <3>1, <3>2, CalculatedNat DEF DistancesInv
  <2>4. /\ candidate_distance' \in Nat /\ candidate_distance' <= candidate_distance
        /\ candidate_distance' - CalculateRouteDistance(Candidate) <= request.tolerance
    BY <1>2, <1>5, <2>1, <2>3 DEF Better, DistancesTyped
  <2>5. candidate_distance' = CalculateRouteDistance(candidate_order')
    BY <1>5, <2>1
  <2>6. DistancesTyped' /\ TwoOptDistances'
    BY <1>1, <1>3, <1>5, <2>1, <2>4, <2>5 DEF DistancesTyped, TwoOptDistances
  <2>7. TriedSwaps'
    <3>1. ASSUME NEW i \in 1 .. stop_count, NEW j \in 1 .. stop_count, i < j,
                 i < NextSwap[1] \/ (i = NextSwap[1] /\ j < NextSwap[2])
          PROVE  candidate_distance' - CalculateRouteDistance(TwoOptSwap(current_order, i, j))
                    <= request.tolerance
      <4>1. CASE i = swap[1] /\ j = swap[2]
        BY <2>4, <4>1 DEF Candidate
      <4>2. CASE i < swap[1] \/ (i = swap[1] /\ j < swap[2])
        <5>1. candidate_distance - CalculateRouteDistance(TwoOptSwap(current_order, i, j))
                 <= request.tolerance
          BY <1>6, <3>1, <4>2
        <5>2. CalculateRouteDistance(TwoOptSwap(current_order, i, j)) \in Int
          <6>1. Once(stop_count, TwoOptSwap(current_order, i, j))
            BY <1>2, SwapOnce
          <6> QED
            BY <1>2, <6>1, CalculatedNat DEF DistancesInv, UNREACHABLE_DISTANCE
        <5> QED
          BY <1>2, <1>5, <2>4, <5>1, <5>2 DEF DistancesTyped
      <4>3. (i = swap[1] /\ j = swap[2]) \/ i < swap[1] \/ (i = swap[1] /\ j < swap[2])
        BY <1>2, <2>2, <3>1 DEF NextSwap
      <4> QED
        BY <4>1, <4>2, <4>3
    <3> QED
      BY <1>1, <1>3, <2>1, <3>1 DEF TriedSwaps
  <2>8. ConvergedInv'
    BY <1>2, <2>1 DEF ConvergedInv, ConvergedIsLocalOptimum
  <2> QED
    BY <1>4, <2>6, <2>7, <2>8 DEF DistancesInv
<1>8. CASE Converge
  <2>1. /\ UNCHANGED <<current_order, best_distance, initial_distance, candidate_order,
                       candidate_distance, swap>>
        /\ ScanDone /\ candidate_distance = best_distance /\ two_opt_done' = TRUE
    BY <1>8 DEF Converge
  <2>2. swap = <<stop_count, stop_count + 1>>
    BY <1>2, <2>1 DEF ScanDone
  <2>3. \A i, j \in 1 .. stop_count : i < j =>
           CalculateRouteDistance(current_order)
             - CalculateRouteDistance(TwoOptSwap(current_order, i, j)) <= request.tolerance
    BY <1>2, <1>5, <1>6, <2>1, <2>2
  <2>4. ConvergedInv'
    BY <1>1, <1>2, <1>3, <2>1, <2>3 DEF ConvergedInv, ConvergedIsLocalOptimum, TwoOptRan
  <2>5. DistancesTyped' /\ TwoOptDistances' /\ TriedSwaps'
    BY <1>1, <1>3, <1>5, <1>6, <2>1 DEF DistancesTyped, TwoOptDistances, TriedSwaps
  <2> QED
    BY <1>4, <2>4, <2>5 DEF DistancesInv
<1>9. CASE ApplySwap
  <2>1. /\ UNCHANGED <<initial_distance, candidate_order, candidate_distance, converged>>
        /\ current_order' = candidate_order /\ best_distance' = candidate_distance
        /\ swap' = <<1, 2>>
    BY <1>9 DEF ApplySwap, FirstSwap
  <2>2. DistancesTyped' /\ TwoOptDistances'
    BY <1>1, <1>3, <1>5, <2>1 DEF DistancesTyped, TwoOptDistances
  <2>3. TriedSwaps'
    BY <1>1, <1>2, <2>1 DEF TriedSwaps
  <2>4. ConvergedInv'
    BY <1>2, <2>1 DEF ConvergedInv, ConvergedIsLocalOptimum
  <2> QED
    BY <1>4, <2>2, <2>3, <2>4 DEF DistancesInv
<1> QED
  BY <1>7, <1>8, <1>9 DEF RunTwoOpt, TwoOptNext

LEMMA StartLnsKeepsDistances ==
    ASSUME OrdersInv, DistancesInv, StartLns
    PROVE  DistancesInv'
<1>1. /\ stage = "two_opt" /\ UNCHANGED <<given, distance_matrix, greedyVars, twoOptVars>>
      /\ best_order' = PublicToMatrix(current_order) /\ lns_distance' = RouteDistance(best_order')
      /\ status' = status \/ status' # 200
  BY DEF StartLns, LnsStart, Answer
<1>2. UNCHANGED <<request, stop_count, distance_matrix, greedy_order>>
  BY <1>1 DEF given, greedyVars
<1>3. TwoOptRan /\ status = 0
  BY <1>1 DEF OrdersInv, StagesInOrder, TwoOptRan
<1>4. /\ \A order : RouteDistance(order)' = RouteDistance(order)
      /\ \A order : CalculateRouteDistance(order)' = CalculateRouteDistance(order)
  BY <1>2, DistanceKept
<1>5. lns_distance' = best_distance
  BY <1>1, <1>3 DEF DistancesInv, TwoOptDistances, CalculateRouteDistance
<1>6. MatrixInv'
  BY <1>2, MatrixKept
<1>7. TwoOptDistances' /\ TriedSwaps' /\ ConvergedInv' /\ DistancesTyped'
  BY <1>1, <1>2, <1>4, <1>5 DEF DistancesInv, TwoOptDistances, TriedSwaps, ConvergedInv,
     ConvergedIsLocalOptimum, DistancesTyped, TwoOptRan, twoOptVars
<1>8. LnsDistances'
  <2>1. lns_distance' = RouteDistance(best_order)'
    BY <1>1, <1>4
  <2>2. best_distance \in Nat /\ best_distance' = best_distance
    BY <1>1 DEF DistancesInv, DistancesTyped, twoOptVars
  <2>3. lns_distance' <= best_distance'
    BY <1>5, <2>2
  <2> QED
    BY <2>1, <2>3, Zenon DEF LnsDistances
<1>9. SuccessDriven'
  BY <1>1, <1>3 DEF SuccessDriven
<1> QED
  BY <1>6, <1>7, <1>8, <1>9 DEF DistancesInv

LEMMA LnsKeepsDistances ==
    ASSUME OrdersInv, DistancesInv, RunLns
    PROVE  DistancesInv'
<1>1. /\ stage = "lns" /\ UNCHANGED <<given, distance_matrix, greedyVars, twoOptVars, status>>
  BY DEF RunLns
<1>2. UNCHANGED <<request, stop_count, distance_matrix, greedy_order>>
  BY <1>1 DEF given, greedyVars
<1>3. LnsRan /\ status = 0 /\ stop_count \in Nat
  BY <1>1 DEF OrdersInv, StagesInOrder, LnsRan
<1>4. /\ \A order : RouteDistance(order)' = RouteDistance(order)
      /\ \A order : CalculateRouteDistance(order)' = CalculateRouteDistance(order)
  BY <1>2, DistanceKept
<1>5. MatrixInv'
  BY <1>2, MatrixKept
<1>6. lns_distance = RouteDistance(best_order) /\ lns_distance \in Nat /\ lns_distance <= best_distance
      /\ best_distance \in Nat
  BY <1>3 DEF DistancesInv, LnsDistances, DistancesTyped
<1>7. lns_distance' = RouteDistance(best_order') /\ lns_distance' \in Nat
      /\ lns_distance' <= best_distance
  <2>1. CASE Destroy \/ InsertStop
    BY <1>6, <2>1 DEF Destroy, InsertStop
  <2>2. CASE Judge
    <3>1. /\ lns = "repair" /\ removed_stops = <<>>
          /\ best_order' = IF Improved THEN repaired ELSE best_order
          /\ lns_distance' = IF Improved THEN RouteDistance(repaired) ELSE lns_distance
      BY <2>2 DEF Judge
    <3>2. CASE Improved
      <4>1. IndexOnce(stop_count, repaired)
        BY <1>3, <3>1, ConcatEmptySeq DEF OrdersInv, LnsInv
      <4>2. RouteDistance(repaired) \in Nat /\ RouteDistance(repaired) < lns_distance
        BY <1>3, <3>2, <4>1, DistanceNat DEF DistancesInv, Improved
      <4> QED
        BY <1>6, <3>1, <3>2, <4>2
    <3>3. CASE ~ Improved
      BY <1>6, <3>1, <3>3
    <3> QED
      BY <3>2, <3>3
  <2> QED
    BY <2>1, <2>2 DEF RunLns, LnsNext
<1>8. TwoOptDistances' /\ TriedSwaps' /\ ConvergedInv' /\ DistancesTyped'
  BY <1>1, <1>2, <1>4, <1>7 DEF DistancesInv, TwoOptDistances, TriedSwaps, ConvergedInv,
     ConvergedIsLocalOptimum, DistancesTyped, TwoOptRan, twoOptVars
<1>9. LnsDistances' /\ SuccessDriven'
  BY <1>1, <1>3, <1>4, <1>7 DEF LnsDistances, SuccessDriven, twoOptVars
<1> QED
  BY <1>5, <1>8, <1>9 DEF DistancesInv

LEMMA NextDistances ==
    ASSUME OrdersInv, OrdersInv', DistancesInv, [Next]_vars
    PROVE  DistancesInv'
<1>1. CASE RejectMatrix \/ GreedyFails \/ NoWayBack \/ TwoOptFails
  <2>1. UNCHANGED <<given, distance_matrix, greedyVars, twoOptVars, lnsVars>> /\ status' # 200
    BY <1>1 DEF RejectMatrix, GreedyFails, NoWayBack, TwoOptFails, Answer
  <2> QED
    BY <2>1, DistancesKept
<1>2. CASE TakeMatrix
  BY <1>2, TakeMatrixKeepsDistances
<1>3. CASE AnswerGreedy
  BY <1>3, DistancesKept DEF AnswerGreedy, GreedyDistance
<1>4. CASE AnswerCompare \/ AnswerAdvanced
  <2>1. /\ UNCHANGED <<given, distance_matrix, greedyVars, twoOptVars, lnsVars>>
        /\ stage \in {"two_opt", "lns"}
    BY <1>4 DEF AnswerCompare, AnswerAdvanced
  <2>2. CalculateRouteDistance(greedy_order) \in Nat
    BY <2>1 DEF OrdersInv, StagesInOrder, DistancesInv, TwoOptDistances, TwoOptRan, DistancesTyped
  <2> QED
    BY <2>1, <2>2, DistancesKept DEF UNREACHABLE_DISTANCE
<1>5. CASE RunGreedy
  BY <1>5, GreedyKeepsDistances
<1>6. CASE StartTwoOpt
  BY <1>6, StartTwoOptKeepsDistances
<1>7. CASE RunTwoOpt
  BY <1>7, TwoOptKeepsDistances
<1>8. CASE StartLns
  BY <1>8, StartLnsKeepsDistances
<1>9. CASE RunLns
  BY <1>9, LnsKeepsDistances
<1>10. CASE UNCHANGED vars
  BY <1>10, DistancesKept DEF vars, DistancesInv, SuccessDriven
<1> QED
  BY <1>1, <1>2, <1>3, <1>4, <1>5, <1>6, <1>7, <1>8, <1>9, <1>10 DEF Next, Answered

LEMMA DistancesAlways == Spec => [](OrdersInv /\ DistancesInv)
BY InitOrders, NextOrders, InitDistances, NextDistances, PTL DEF Spec

\* The distances that are kept and answered are those of the orders they stand
\* beside, and a successful answer only uses roads that exist.
THEOREM DistancesBelongToOrders == Spec => []DistancesOfOrders
<1>1. ASSUME OrdersInv, DistancesInv PROVE DistancesOfOrders
  <2>1. ASSUME status = 200 PROVE Drivable(Tour(PublicToMatrix(greedy_order)))
    <3>1. IndexOnce(stop_count, PublicToMatrix(greedy_order)) /\ stop_count \in Nat \ {0}
      BY <1>1, <2>1, OnceToIndex DEF OrdersInv, GreedyInv
    <3>2. PublicToMatrix(greedy_order) # <<>>
      BY <3>1 DEF IndexOnce
    <3>3. RouteDistance(PublicToMatrix(greedy_order)) # UNREACHABLE_DISTANCE
      BY <1>1, <2>1 DEF DistancesInv, SuccessDriven, CalculateRouteDistance
    <3> QED
      BY <3>2, <3>3 DEF RouteDistance
  <2> QED
    BY <1>1, <2>1 DEF DistancesInv, TwoOptDistances, LnsDistances, DistancesOfOrders
<1> QED
  BY <1>1, DistancesAlways, PTL

\* 2-opt never ends with a longer route than the baseline's, the large
\* neighbourhood search never with a longer one than 2-opt's.
THEOREM StagesNeverWorse == Spec => []NeverWorse
<1>1. ASSUME OrdersInv, DistancesInv PROVE NeverWorse
  BY <1>1 DEF DistancesInv, TwoOptDistances, LnsDistances, NeverWorse
<1> QED
  BY <1>1, DistancesAlways, PTL

\* A scan that compares each candidate only with the best before it still ends
\* with "converged" only where no reversal beats the tolerance.
THEOREM ConvergedAtLocalOptimum == Spec => []ConvergedIsLocalOptimum
<1>1. ASSUME DistancesInv PROVE ConvergedIsLocalOptimum
  BY <1>1 DEF DistancesInv, ConvergedInv
<1> QED
  BY <1>1, DistancesAlways, PTL

---------------------------------------------------------------------------
(***************************************************************************)
(* Roads one after the other.                                              *)
(***************************************************************************)

LEMMA ChainReachable ==
    ASSUME MatrixInv, NEW t, NEW m \in Nat,
           \A k \in 1 .. m : t[k] \in Points(stop_count),
           \A k \in 1 .. m - 1 : Reachable(t[k], t[k + 1])
    PROVE  \A i, j \in 1 .. m : i < j => Reachable(t[i], t[j])
<1> SUFFICES ASSUME NEW i \in 1 .. m
             PROVE  \A j \in 1 .. m : i < j => Reachable(t[i], t[j])
  OBVIOUS
<1> DEFINE Bad == {j \in 1 .. m : i < j /\ ~ Reachable(t[i], t[j])}
<1> SUFFICES ASSUME Bad # {} PROVE FALSE
  OBVIOUS
<1>1. PICK j \in Bad : \A k \in Bad : j <= k
  <2>1. Bad \in SUBSET Nat
    OBVIOUS
  <2> HIDE DEF Bad
  <2> QED
    BY <2>1, LeastElement
<1>2. PICK k \in 1 .. m - 1 : j = k + 1
  <2>1. j - 1 \in 1 .. m - 1 /\ j = j - 1 + 1
    BY <1>1
  <2> QED
    BY <2>1
<1>3. Reachable(t[k], t[j]) /\ ~ Reachable(t[i], t[j])
  BY <1>1, <1>2
<1>4. CASE k = i
  BY <1>3, <1>4
<1>5. CASE k # i
  <2>1. i < k /\ k \in 1 .. m /\ k < j
    BY <1>1, <1>2, <1>5
  <2>2. Reachable(t[i], t[k])
    <3>1. k \notin Bad
      BY <1>1, <2>1
    <3> QED
      BY <2>1, <3>1
  <2>3. t[i] \in Points(stop_count) /\ t[k] \in Points(stop_count) /\ t[j] \in Points(stop_count)
    BY <1>1, <2>1
  <2> QED
    BY <1>3, <2>2, <2>3, Zenon DEF MatrixInv
<1> QED
  BY <1>4, <1>5

\* The greedy loop, eager or lazy, stops only at dead ends.
LEMMA StuckIsDeadEnd ==
    ASSUME OrdersInv, DistancesInv PROVE StuckAtDeadEnd
<1> SUFFICES ASSUME stage = "greedy", Stuck, Unvisited # {},
                    NEW rest \in SetToSeqs(Unvisited),
                    Drivable(<<Current>> \o PublicToMatrix(rest))
             PROVE  FALSE
  BY DEF StuckAtDeadEnd
<1> DEFINE n == stop_count
           U == Unvisited
           t == <<Current>> \o PublicToMatrix(rest)
<1>1. n \in Nat /\ greedy_order \in Seq(0 .. n - 1)
  BY DEF OrdersInv, GreedyInv
<1>2. U \subseteq 0 .. n - 1
  BY DEF Unvisited, Stops
<1>3. PICK l \in Nat : rest \in [1 .. l -> U] /\ \A s \in U : \E k \in 1 .. l : rest[k] = s
  <2>1. IsFiniteSet(0 .. n - 1)
    <3>1. 0 \in Int /\ n - 1 \in Int
      BY <1>1
    <3> QED
      BY <3>1, FS_Interval
  <2>2. IsFiniteSet(U) /\ Cardinality(U) \in Nat
    BY <1>2, <2>1, FS_Subset, FS_CardinalityType
  <2> DEFINE l == Cardinality(U)
  <2>3. rest \in [1 .. l -> U] /\ IsInjective(rest)
    <3>1. /\ rest \in [1 .. l -> U]
          /\ \A i, j \in 1 .. l : i # j => rest[i] # rest[j]
      BY Zenon DEF SetToSeqs
    <3> QED
      BY <3>1 DEF IsInjective
  <2>4. rest \in Injection(1 .. l, U)
    BY <2>3 DEF Injection
  <2>5. Cardinality(1 .. l) = l
    BY <2>2, FS_Interval
  <2>6. rest \in Surjection(1 .. l, U)
    BY <2>2, <2>4, <2>5, FS_Injection
  <2> QED
    BY <2>2, <2>3, <2>6 DEF Surjection
<1>4. Current \in Points(n)
  BY <1>1 DEF Current, Points, Last
<1>5. /\ Len(t) = 1 + l /\ t[1] = Current
      /\ \A k \in 1 .. l : t[1 + k] = rest[k] + 1 /\ t[1 + k] \in Points(n)
  <2>1. ASSUME NEW k \in 1 .. l PROVE rest[k] + 1 \in Points(n)
    <3>1. rest[k] \in 0 .. n - 1
      BY <1>2, <1>3
    <3> HIDE DEF U
    <3> QED
      BY <1>1, <3>1 DEF Points
  <2>2. PublicToMatrix(rest) = [k \in 1 .. l |-> rest[k] + 1]
    BY <1>3 DEF PublicToMatrix
  <2>3. PublicToMatrix(rest) \in [1 .. l -> Points(n)]
    BY <2>1, <2>2
  <2>4. PublicToMatrix(rest) \in Seq(Points(n)) /\ Len(PublicToMatrix(rest)) = l
    BY <2>3, FunctionIsSeq
  <2>5. PICK c : c = <<Current>>
    OBVIOUS
  <2>6. c \in Seq(Points(n)) /\ Len(c) = 1 /\ c[1] = Current
    BY <1>4, <2>5
  <2>7. /\ Len(t) = Len(c) + Len(PublicToMatrix(rest))
        /\ \A k \in 1 .. Len(c) : t[k] = c[k]
        /\ \A k \in 1 .. Len(PublicToMatrix(rest)) : t[Len(c) + k] = PublicToMatrix(rest)[k]
    BY <2>4, <2>5, <2>6, ConcatAt
  <2>8. 1 \in 1 .. 1
    OBVIOUS
  <2> HIDE DEF t
  <2> QED
    BY <2>1, <2>2, <2>4, <2>6, <2>7, <2>8, Zenon
<1> HIDE DEF t
<1>6. ASSUME NEW k \in 1 .. 1 + l PROVE t[k] \in Points(n)
  <2>1. CASE k = 1
    BY <1>4, <1>5, <2>1
  <2>2. CASE k # 1
    <3>1. PICK i \in 1 .. l : k = 1 + i
      <4>1. k - 1 \in 1 .. l /\ k = 1 + (k - 1)
        BY <2>2
      <4> QED
        BY <4>1
    <3> QED
      BY <1>5, <3>1
  <2> QED
    BY <2>1, <2>2
<1>7. \A k \in 1 .. 1 + l - 1 : Reachable(t[k], t[k + 1])
  BY <1>5 DEF Drivable, t
<1>8. \A k \in 1 .. l : Reachable(Current, rest[k] + 1)
  <2>1. PICK m \in Nat : m = 1 + l
    OBVIOUS
  <2>2. \A i, j \in 1 .. m : i < j => Reachable(t[i], t[j])
    <3>1. \A k \in 1 .. m : t[k] \in Points(stop_count)
      BY <1>6, <2>1
    <3>2. \A k \in 1 .. m - 1 : Reachable(t[k], t[k + 1])
      BY <1>7, <2>1
    <3>3. MatrixInv
      BY DEF DistancesInv
    <3> QED
      BY <3>1, <3>2, <3>3, ChainReachable, Zenon
  <2>3. ASSUME NEW k \in 1 .. l PROVE Reachable(Current, rest[k] + 1)
    <3>1. 1 \in 1 .. m /\ 1 + k \in 1 .. m /\ 1 < 1 + k
      BY <2>1
    <3> QED
      BY <1>5, <2>2, <3>1
  <2> QED
    BY <2>3
<1>9. Candidates = U
  BY <1>3, <1>8 DEF Candidates
<1> QED
  BY <1>9 DEF Stuck

---------------------------------------------------------------------------
(***************************************************************************)
(* What the first scan of 2-opt shows of the matrix.                       *)
(***************************************************************************)

\* The points met on a tour.
LEMMA TourAt ==
    ASSUME stop_count \in Nat, NEW order, Once(stop_count, order)
    PROVE  /\ Len(Tour(PublicToMatrix(order))) =
                stop_count + (IF request.return_to_start THEN 2 ELSE 1)
           /\ Tour(PublicToMatrix(order))[1] = 0
           /\ \A k \in 1 .. stop_count : Tour(PublicToMatrix(order))[1 + k] = order[k] + 1
           /\ request.return_to_start => Tour(PublicToMatrix(order))[stop_count + 2] = 0
<1>1. PICK n \in Nat : n = stop_count
  OBVIOUS
<1>2. PICK P : P = Points(n)
  OBVIOUS
<1>3. PICK o : o = PublicToMatrix(order)
  OBVIOUS
<1>4. PICK a : a = <<0>>
  OBVIOUS
<1>5. PICK b : b = IF request.return_to_start THEN <<0>> ELSE <<>>
  OBVIOUS
<1>6. PICK c, t : c = a \o o /\ t = c \o b
  OBVIOUS
<1>7. t = Tour(PublicToMatrix(order))
  BY <1>3, <1>4, <1>5, <1>6 DEF Tour
<1>8. 0 \in P /\ a \in Seq(P) /\ Len(a) = 1 /\ a[1] = 0
  BY <1>1, <1>2, <1>4 DEF Points
<1>9. /\ b \in Seq(P) /\ Len(b) = IF request.return_to_start THEN 1 ELSE 0
      /\ request.return_to_start => b[1] = 0
  BY <1>5, <1>8
<1>10. o \in Seq(P) /\ Len(o) = n /\ \A k \in 1 .. n : o[k] = order[k] + 1
  <2>1. IndexOnce(n, o)
    BY <1>1, <1>3, OnceToIndex
  <2>2. o \in [1 .. n -> P]
    BY <1>2, <2>1 DEF IndexOnce, Points
  <2>3. DOMAIN order = 1 .. n
    BY <1>1 DEF Once
  <2>4. \A k \in 1 .. n : o[k] = order[k] + 1
    BY <1>3, <2>3 DEF PublicToMatrix
  <2> QED
    BY <1>1, <2>2, <2>4, FunctionIsSeq
<1>11. /\ c \in Seq(P) /\ Len(c) = 1 + n
       /\ \A k \in 1 .. 1 : c[k] = a[k]
       /\ \A k \in 1 .. n : c[1 + k] = o[k]
  <2>1. /\ c \in Seq(P) /\ Len(c) = Len(a) + Len(o)
        /\ \A k \in 1 .. Len(a) : c[k] = a[k]
        /\ \A k \in 1 .. Len(o) : c[Len(a) + k] = o[k]
    <3>1. c = a \o o /\ a \in Seq(P) /\ o \in Seq(P)
      BY <1>6, <1>8, <1>10
    <3> QED
      BY <3>1, ConcatAt
  <2> QED
    BY <1>8, <1>10, <2>1, Zenon
<1>12. /\ Len(t) = 1 + n + Len(b)
       /\ \A k \in 1 .. 1 + n : t[k] = c[k]
       /\ \A k \in 1 .. Len(b) : t[1 + n + k] = b[k]
  <2>1. /\ Len(t) = Len(c) + Len(b)
        /\ \A k \in 1 .. Len(c) : t[k] = c[k]
        /\ \A k \in 1 .. Len(b) : t[Len(c) + k] = b[k]
    <3>1. t = c \o b /\ c \in Seq(P) /\ b \in Seq(P)
      BY <1>6, <1>9, <1>11
    <3> QED
      BY <3>1, ConcatAt
  <2> QED
    BY <1>11, <2>1, Zenon
<1>13. t[1] = 0
  <2>1. 1 \in 1 .. 1 /\ 1 \in 1 .. 1 + n
    BY <1>1
  <2> QED
    BY <1>8, <1>11, <1>12, <2>1
<1>14. \A k \in 1 .. n : t[1 + k] = order[k] + 1
  <2>1. \A k \in 1 .. n : 1 + k \in 1 .. 1 + n
    BY <1>1
  <2> QED
    BY <1>10, <1>11, <1>12, <2>1, Zenon
<1>15. ASSUME request.return_to_start PROVE t[n + 2] = 0
  <2>1. 1 \in 1 .. Len(b) /\ 1 + n + 1 = n + 2
    BY <1>1, <1>9, <1>15
  <2>2. t[1 + n + 1] = b[1]
    BY <1>12, <2>1, Zenon
  <2> QED
    BY <1>9, <1>15, <2>1, <2>2
<1>16. Len(t) = n + (IF request.return_to_start THEN 2 ELSE 1)
  BY <1>1, <1>9, <1>12
<1> QED
  BY <1>1, <1>7, <1>13, <1>14, <1>15, <1>16

\* The way back between two neighbours of the baseline's order.
BackLeg(i) == Reachable(greedy_order[i + 1] + 1, greedy_order[i] + 1)

\* The first scan swaps the neighbours, too, and each swap needs the way back.
BackLegs ==
    /\ two_opt_done => TwoOptRan
    /\ TwoOptRan =>
          /\ iteration \in Nat \ {0}
          /\ iteration = 1 /\ ~ two_opt_done => current_order = greedy_order
          /\ \A i \in 1 .. stop_count - 1 :
                \/ iteration # 1 \/ two_opt_done
                \/ i < swap[1] \/ (i = swap[1] /\ swap[2] > i + 1)
                => BackLeg(i)

\* While 2-opt runs.
LEMMA TwoOptKeepsBackLegs ==
    ASSUME OrdersInv, OrdersInv', DistancesInv, BackLegs, RunTwoOpt
    PROVE  BackLegs'
<1>1. /\ stage = "two_opt" /\ two_opt_done = FALSE
      /\ UNCHANGED <<request, stop_count, distance_matrix, greedy_order>>
  BY DEF RunTwoOpt, TwoOptNext, given, greedyVars
<1>2. /\ TwoOptRan /\ stop_count \in Nat
      /\ Once(stop_count, current_order)
      /\ swap \in Nat \X Nat
      /\ 1 <= swap[1] /\ swap[1] < swap[2]
      /\ swap[2] <= stop_count \/ swap = <<stop_count, stop_count + 1>>
  BY <1>1 DEF OrdersInv, StagesInOrder, TwoOptInv, TwoOptRan
<1>0. TwoOptRan'
  BY DEF OrdersInv, StagesInOrder, TwoOptRan, RunTwoOpt
<1>3. \A i : BackLeg(i)' = BackLeg(i)
  BY <1>1 DEF BackLeg, Reachable
<1>4. /\ iteration \in Nat \ {0}
      /\ iteration = 1 => current_order = greedy_order
      /\ \A i \in 1 .. stop_count - 1 :
            iteration # 1 \/ i < swap[1] \/ (i = swap[1] /\ swap[2] > i + 1) => BackLeg(i)
  BY <1>1, <1>2 DEF BackLegs
<1>5. CASE TrySwap
  <2>1. /\ UNCHANGED <<current_order, iteration, two_opt_done>> /\ swap' = NextSwap
        /\ ~ ScanDone /\ ~ SwapRaises
    BY <1>5 DEF TrySwap
  <2>2. swap[1] \in 1 .. stop_count /\ swap[2] \in 1 .. stop_count
    BY <1>2, <2>1 DEF ScanDone
  <2>3. ASSUME iteration = 1, NEW i \in 1 .. stop_count - 1, i = swap[1], swap[2] = i + 1
        PROVE  BackLeg(i)
    <3> DEFINE tour == Tour(PublicToMatrix(Candidate))
    <3>1. Once(stop_count, Candidate)
      BY <1>2, <2>2, SwapOnce DEF Candidate
    <3>2. Drivable(tour)
      <4>1. RouteDistance(PublicToMatrix(Candidate)) # UNREACHABLE_DISTANCE
        BY <1>1, <2>1 DEF SwapRaises, CalculateRouteDistance
      <4>2. PublicToMatrix(Candidate) # <<>>
        BY <1>2, <2>2, <3>1, OnceToIndex DEF IndexOnce
      <4> QED
        BY <4>1, <4>2 DEF RouteDistance
    <3>3. Candidate[i] = greedy_order[i + 1] /\ Candidate[i + 1] = greedy_order[i]
      <4>1. Candidate = [k \in 1 .. stop_count |->
                           IF k \in i .. i + 1 THEN greedy_order[i + (i + 1) - k] ELSE greedy_order[k]]
        BY <1>2, <1>4, <2>3, LenOnce DEF Candidate, TwoOptSwap
      <4>2. /\ i \in 1 .. stop_count /\ i + 1 \in 1 .. stop_count
            /\ i \in i .. i + 1 /\ i + 1 \in i .. i + 1
            /\ i + (i + 1) - i = i + 1 /\ i + (i + 1) - (i + 1) = i
        BY <1>2
      <4> QED
        BY <4>1, <4>2
    <3>4. /\ tour[1 + i] = Candidate[i] + 1 /\ tour[1 + (i + 1)] = Candidate[i + 1] + 1
          /\ Len(tour) >= stop_count + 1
      <4>1. i \in 1 .. stop_count /\ i + 1 \in 1 .. stop_count
        BY <1>2
      <4>2. \A k \in 1 .. stop_count : tour[1 + k] = Candidate[k] + 1
        BY <1>2, <3>1, TourAt
      <4>3. Len(tour) >= stop_count + 1
        BY <1>2, <3>1, TourAt
      <4> QED
        BY <4>1, <4>2, <4>3
    <3> HIDE DEF tour
    <3>5. 1 + i \in 1 .. Len(tour) - 1 /\ 1 + i + 1 = 1 + (i + 1)
      <4>1. Len(tour) \in Nat
        BY <1>2, <3>1, TourAt DEF tour
      <4> QED
        BY <1>2, <3>4, <4>1
    <3>6. Reachable(tour[1 + i], tour[1 + i + 1])
      BY <3>2, <3>5 DEF Drivable
    <3> QED
      BY <3>3, <3>4, <3>5, <3>6 DEF BackLeg
  <2>4. ASSUME NEW i \in 1 .. stop_count - 1,
               iteration # 1 \/ i < NextSwap[1] \/ (i = NextSwap[1] /\ NextSwap[2] > i + 1)
        PROVE  BackLeg(i)
    <3>1. \/ iteration # 1 \/ i < swap[1] \/ (i = swap[1] /\ swap[2] > i + 1)
          \/ i = swap[1] /\ swap[2] = i + 1
      BY <1>2, <2>2, <2>4 DEF NextSwap
    <3> QED
      BY <1>4, <2>3, <3>1
  <2> QED
    BY <1>0, <1>1, <1>2, <1>3, <1>4, <2>1, <2>4 DEF BackLegs
<1>6. CASE Converge \/ ApplySwap
  <2>1. /\ ScanDone
        /\ \/ two_opt_done' = TRUE /\ iteration' = iteration
           \/ iteration' = iteration + 1
    BY <1>6 DEF Converge, ApplySwap
  <2>2. swap = <<stop_count, stop_count + 1>>
    BY <1>2, <2>1 DEF ScanDone
  <2>3. \A i \in 1 .. stop_count - 1 : BackLeg(i)
    BY <1>2, <1>4, <2>2
  <2> QED
    BY <1>0, <1>1, <1>3, <1>4, <2>1, <2>3 DEF BackLegs
<1> QED
  BY <1>5, <1>6 DEF RunTwoOpt, TwoOptNext

LEMMA NextBackLegs ==
    ASSUME OrdersInv, OrdersInv', DistancesInv, BackLegs, [Next]_vars
    PROVE  BackLegs'
<1>1. CASE TakeMatrix \/ RunGreedy
  <2>1. current_order' = <<>> /\ ~ two_opt_done'
    BY <1>1 DEF TakeMatrix, RunGreedy, OrdersInv, StagesInOrder, twoOptVars, BackLegs, TwoOptRan
  <2> QED
    BY <2>1 DEF BackLegs, TwoOptRan
<1>2. CASE StartTwoOpt
  <2>1. /\ UNCHANGED <<stop_count, greedy_order>> /\ current_order' = greedy_order
        /\ iteration' = 1 /\ swap' = <<1, 2>> /\ two_opt_done' = FALSE /\ stop_count \in Nat
    BY <1>2 DEF StartTwoOpt, TwoOptStart, FirstSwap, given, greedyVars, OrdersInv
  <2> QED
    BY <2>1 DEF BackLegs
<1>3. CASE RunTwoOpt
  BY <1>3, TwoOptKeepsBackLegs
<1>4. ASSUME UNCHANGED <<given, distance_matrix, greedyVars, twoOptVars>>
      PROVE  BackLegs'
  BY <1>4 DEF BackLegs, BackLeg, Reachable, TwoOptRan, given, greedyVars, twoOptVars
<1>5. CASE \/ RejectMatrix \/ GreedyFails \/ NoWayBack \/ AnswerGreedy \/ TwoOptFails
           \/ AnswerCompare \/ StartLns \/ RunLns \/ AnswerAdvanced \/ UNCHANGED vars
  <2>1. UNCHANGED <<given, distance_matrix, greedyVars, twoOptVars>>
    BY <1>5 DEF RejectMatrix, GreedyFails, NoWayBack, AnswerGreedy, TwoOptFails,
       AnswerCompare, StartLns, RunLns, AnswerAdvanced, vars
  <2> QED
    BY <1>4, <2>1
<1> QED
  BY <1>1, <1>2, <1>3, <1>5 DEF Next, Answered

LEMMA GapsShown ==
    ASSUME OrdersInv, DistancesInv, BackLegs PROVE NoGapAfterScan
<1> SUFFICES ASSUME two_opt_done, NEW e \in UsedPairs
             PROVE  Reachable(e[1], e[2])
  BY DEF NoGapAfterScan
<1> DEFINE g == greedy_order
           n == stop_count
           tour == Tour(PublicToMatrix(g))
           last == Len(tour)
           r == [k \in 1 .. n |-> g[n + 1 - k] + 1]
           P == Points(n)
<1>1. TwoOptRan /\ n \in Nat /\ Once(n, g) /\ MatrixInv
  BY DEF OrdersInv, GreedyInv, DistancesInv, BackLegs
<1>2. Drivable(tour)
  <2>1. RouteDistance(PublicToMatrix(g)) # UNREACHABLE_DISTANCE
    BY <1>1 DEF DistancesInv, TwoOptDistances, DistancesTyped, CalculateRouteDistance, UNREACHABLE_DISTANCE
  <2>2. PublicToMatrix(g) # <<>>
    BY <1>1, OnceToIndex DEF IndexOnce, OrdersInv
  <2> QED
    BY <2>1, <2>2 DEF RouteDistance
<1>3. /\ last = n + (IF request.return_to_start THEN 2 ELSE 1)
      /\ tour[1] = 0
      /\ \A k \in 1 .. n : tour[1 + k] = g[k] + 1
      /\ request.return_to_start => tour[n + 2] = 0
  BY <1>1, TourAt
<1> HIDE DEF tour
<1>4. \A k \in 1 .. n : g[k] + 1 \in P /\ g[k] + 1 # 0
  <2>1. \A k \in 1 .. n : g[k] \in 0 .. n - 1
    BY <1>1 DEF Once
  <2> QED
    BY <1>1, <2>1 DEF Points
<1>5. ASSUME NEW k \in 1 .. last PROVE tour[k] \in P
  <2>1. 0 \in P
    BY <1>1 DEF Points
  <2>2. CASE k = 1
    BY <1>3, <2>1, <2>2
  <2>3. CASE k \in 2 .. n + 1
    <3>1. PICK i \in 1 .. n : k = 1 + i
      <4>1. k - 1 \in 1 .. n /\ k = 1 + (k - 1)
        BY <1>1, <2>3
      <4> QED
        BY <4>1
    <3> QED
      BY <1>3, <1>4, <3>1
  <2>4. CASE k = n + 2 /\ request.return_to_start
    BY <1>3, <2>1, <2>4
  <2>5. k = 1 \/ k \in 2 .. n + 1 \/ (k = n + 2 /\ request.return_to_start)
    BY <1>1, <1>3
  <2> QED
    BY <2>2, <2>3, <2>4, <2>5
<1>6. \A i, j \in 1 .. last : i < j => Reachable(tour[i], tour[j])
  <2>1. last \in Nat
    BY <1>1, <1>3
  <2>2. \A k \in 1 .. last - 1 : Reachable(tour[k], tour[k + 1])
    BY <1>2 DEF Drivable
  <2> HIDE DEF last
  <2> QED
    BY <1>1, <1>5, <2>1, <2>2, ChainReachable
<1>7. ASSUME NEW i \in 1 .. n, NEW j \in 1 .. n, i < j
      PROVE  Reachable(g[j] + 1, g[i] + 1)
  <2>1. ASSUME NEW k \in 1 .. n PROVE n + 1 - k \in 1 .. n /\ r[k] = g[n + 1 - k] + 1 /\ r[k] \in P
    <3>1. n + 1 - k \in 1 .. n
      BY <1>1
    <3> QED
      BY <1>4, <3>1
  <2>2. ASSUME NEW k \in 1 .. n - 1 PROVE Reachable(r[k], r[k + 1])
    <3>1. n - k \in 1 .. n - 1 /\ k \in 1 .. n /\ k + 1 \in 1 .. n
          /\ n + 1 - k = n - k + 1 /\ n + 1 - (k + 1) = n - k
      BY <1>1
    <3>2. BackLeg(n - k)
      BY <1>1, <3>1 DEF BackLegs
    <3>3. r[k] = g[n - k + 1] + 1 /\ r[k + 1] = g[n - k] + 1
      BY <2>1, <3>1
    <3> QED
      BY <3>2, <3>3 DEF BackLeg
  <2> HIDE DEF r
  <2>3. \A k, l \in 1 .. n : k < l => Reachable(r[k], r[l])
    BY <1>1, <2>1, <2>2, ChainReachable
  <2>4. /\ n + 1 - j \in 1 .. n /\ n + 1 - i \in 1 .. n /\ n + 1 - j < n + 1 - i
        /\ n + 1 - (n + 1 - j) = j /\ n + 1 - (n + 1 - i) = i
    BY <1>1, <1>7
  <2>5. r[n + 1 - j] = g[j] + 1 /\ r[n + 1 - i] = g[i] + 1
    BY <2>1, <2>4
  <2> QED
    BY <2>3, <2>4, <2>5
<1>8. \A u \in 1 .. n : \E k \in 1 .. n : g[k] + 1 = u
  <2>1. ASSUME NEW u \in 1 .. n PROVE \E k \in 1 .. n : g[k] + 1 = u
    <3>1. u - 1 \in 0 .. n - 1 /\ u - 1 + 1 = u
      BY <1>1
    <3>2. PICK k \in 1 .. n : g[k] = u - 1
      BY <1>1, <3>1 DEF Once
    <3> QED
      BY <3>1, <3>2
  <2> QED
    BY <2>1
<1>9. /\ e[1] \in 0 .. n /\ e[2] \in 0 .. n /\ e[1] # e[2]
      /\ e[2] = 0 => request.return_to_start
  BY DEF UsedPairs, AllPairs, Points
<1>10. \A k \in 1 .. n : 1 + k \in 1 .. last /\ 1 < 1 + k /\ 1 \in 1 .. last
  BY <1>1, <1>3
<1> HIDE DEF last, r
<1>11. CASE e[1] = 0
  <2>1. PICK k \in 1 .. n : g[k] + 1 = e[2]
    BY <1>8, <1>9, <1>11
  <2> QED
    BY <1>3, <1>6, <1>10, <1>11, <2>1
<1>12. CASE e[1] # 0 /\ e[2] = 0
  <2>1. PICK k \in 1 .. n : g[k] + 1 = e[1]
    BY <1>8, <1>9, <1>12
  <2>2. request.return_to_start /\ last = n + 2
    BY <1>3, <1>9, <1>12
  <2>3. n + 2 \in 1 .. last /\ 1 + k < n + 2
    BY <1>1, <2>2
  <2>4. Reachable(tour[1 + k], tour[n + 2])
    BY <1>6, <1>10, <2>3
  <2> QED
    BY <1>3, <1>12, <2>1, <2>2, <2>4
<1>13. CASE e[1] # 0 /\ e[2] # 0
  <2>1. PICK i \in 1 .. n : g[i] + 1 = e[1]
    BY <1>8, <1>9, <1>13
  <2>2. PICK j \in 1 .. n : g[j] + 1 = e[2]
    BY <1>8, <1>9, <1>13
  <2>3. CASE i < j
    <3>1. 1 + i < 1 + j
      BY <2>3
    <3>2. Reachable(tour[1 + i], tour[1 + j])
      BY <1>6, <1>10, <3>1
    <3> QED
      BY <1>3, <2>1, <2>2, <3>2
  <2>4. CASE j < i
    BY <1>7, <2>1, <2>2, <2>4
  <2>5. i # j
    BY <1>9, <2>1, <2>2
  <2> QED
    BY <2>3, <2>4, <2>5
<1> QED
  BY <1>11, <1>12, <1>13

LEMMA BackLegsAlways == Spec => []BackLegs
<1>1. Init => BackLegs
  BY DEF Init, TwoOptIdle, BackLegs, TwoOptRan
<1> QED
  BY <1>1, NextBackLegs, DistancesAlways, PTL DEF Spec

\* When the greedy loop gives up, no order of the remaining stops could have
\* been driven: its three variants fail on the same requests.
THEOREM GreedyStuckAtDeadEnds == Spec => []StuckAtDeadEnd
BY StuckIsDeadEnd, DistancesAlways, PTL

\* A 2-opt run that ends has met a road for every pair a tour may use.
THEOREM NoGapAfterFirstScan == Spec => []NoGapAfterScan
BY GapsShown, BackLegsAlways, DistancesAlways, PTL

---------------------------------------------------------------------------
(***************************************************************************)
(* Types.                                                                  *)
(***************************************************************************)

\* The counters of 2-opt: before each scan one more has begun than swaps were made.
TwoOptCounters ==
    /\ iteration \in 0 .. request.two_opt_max_iterations
    /\ swaps_applied \in 0 .. iteration
    /\ TwoOptRan /\ ~ two_opt_done => swaps_applied < iteration

FlagsTyped == converged \in BOOLEAN /\ two_opt_done \in BOOLEAN

LnsCounters ==
    /\ iterations_run \in 0 .. request.lns_max_iterations
    /\ no_improvement_count \in 0 .. iterations_run
    /\ lns \in {"destroy", "repair", "returned"}
    /\ lns = "destroy" => iterations_run < request.lns_max_iterations
    /\ lns = "repair" => no_improvement_count < iterations_run

OrdersTyped ==
    /\ candidate_order \in Orders \cup {<<>>} /\ swap[1] \in 1 .. stop_count
    /\ swap[2] \in 2 .. stop_count + 1
    /\ {best_order, repaired, removed_stops} \subseteq Seq(1 .. stop_count)

CountersInv ==
    /\ TwoOptCounters /\ FlagsTyped /\ LnsCounters /\ OrdersTyped
    /\ status \in {0, 200, 404, 422, 503}

LEMMA InitCounters == Init => CountersInv
<1> SUFFICES ASSUME Init PROVE CountersInv
  OBVIOUS
<1>1. request \in Requests /\ stop_count \in Nat \ {0}
  BY MatricesAssumption DEF Init
<1>2. /\ request.two_opt_max_iterations \in Nat \ {0} /\ request.lns_max_iterations \in Nat \ {0}
  BY <1>1, RequestsAssumption
<1>3. TwoOptCounters
  BY <1>2 DEF Init, TwoOptIdle, TwoOptCounters, TwoOptRan
<1>4. LnsCounters
  BY <1>2 DEF Init, LnsIdle, LnsCounters
<1>5. OrdersTyped
  BY <1>1 DEF Init, TwoOptIdle, LnsIdle, FirstSwap, OrdersTyped
<1>6. FlagsTyped
  BY DEF Init, TwoOptIdle, FlagsTyped
<1> QED
  BY <1>3, <1>4, <1>5, <1>6 DEF CountersInv, Init

LEMMA NextCounters ==
    ASSUME OrdersInv, OrdersInv', CountersInv, [Next]_vars
    PROVE  CountersInv'
<1>1. /\ request \in Requests /\ stop_count \in Nat \ {0}
      /\ request.two_opt_max_iterations \in Nat \ {0} /\ request.lns_max_iterations \in Nat \ {0}
  BY RequestsAssumption DEF OrdersInv
<1>2. UNCHANGED <<request, stop_count>>
  BY DEF Next, Answered, vars, given, RejectMatrix, TakeMatrix, RunGreedy, GreedyFails, NoWayBack,
     AnswerGreedy, StartTwoOpt, RunTwoOpt, TwoOptFails, AnswerCompare, StartLns, RunLns, AnswerAdvanced
<1>3. status' \in {0, 200, 404, 422, 503}
  BY DEF CountersInv, Next, Answered, vars, Answer, RejectMatrix, TakeMatrix, RunGreedy, GreedyFails,
     NoWayBack, AnswerGreedy, StartTwoOpt, RunTwoOpt, TwoOptFails, AnswerCompare, StartLns, RunLns,
     AnswerAdvanced
<1>0. FlagsTyped'
  <2>1. ASSUME UNCHANGED twoOptVars PROVE FlagsTyped'
    BY <2>1, Zenon DEF CountersInv, FlagsTyped, twoOptVars
  <2>2. CASE StartTwoOpt
    BY <2>2, Zenon DEF StartTwoOpt, TwoOptStart, FlagsTyped
  <2>3. CASE RunTwoOpt
    <3>1. CASE TrySwap
      BY <3>1, Zenon DEF TrySwap, CountersInv, FlagsTyped
    <3>2. CASE Converge
      BY <3>2, Zenon DEF Converge, FlagsTyped
    <3>3. CASE ApplySwap
      BY <3>3, Zenon DEF ApplySwap, LastScan, CountersInv, FlagsTyped
    <3> QED
      BY <2>3, <3>1, <3>2, <3>3 DEF RunTwoOpt, TwoOptNext
  <2> QED
    BY <2>1, <2>2, <2>3 DEF Next, Answered, vars, RejectMatrix, TakeMatrix, RunGreedy, GreedyFails,
       NoWayBack, AnswerGreedy, TwoOptFails, AnswerCompare, StartLns, RunLns, AnswerAdvanced
<1>4. ASSUME UNCHANGED twoOptVars PROVE TwoOptCounters'
  BY <1>2, <1>4 DEF CountersInv, TwoOptCounters, TwoOptRan, twoOptVars
<1>5. ASSUME UNCHANGED lnsVars PROVE LnsCounters'
  BY <1>2, <1>5 DEF CountersInv, LnsCounters, lnsVars
<1>6. ASSUME UNCHANGED twoOptVars, UNCHANGED lnsVars PROVE OrdersTyped'
  BY <1>2, <1>6 DEF CountersInv, OrdersTyped, Orders, Stops, twoOptVars, lnsVars
<1>7. CASE \/ RejectMatrix \/ TakeMatrix \/ RunGreedy \/ GreedyFails \/ NoWayBack \/ AnswerGreedy
           \/ TwoOptFails \/ AnswerCompare \/ AnswerAdvanced \/ UNCHANGED vars
  <2>1. UNCHANGED twoOptVars /\ UNCHANGED lnsVars
    BY <1>7 DEF vars, RejectMatrix, TakeMatrix, RunGreedy, GreedyFails, NoWayBack, AnswerGreedy,
       TwoOptFails, AnswerCompare, AnswerAdvanced
  <2> QED
    BY <1>0, <1>3, <1>4, <1>5, <1>6, <2>1 DEF CountersInv
<1>8. ASSUME TwoOptInv', TwoOptRan', UNCHANGED lnsVars PROVE OrdersTyped'
  <2>1. candidate_order' \in Orders'
    BY <1>8 DEF TwoOptInv, Once, Orders, Stops
  <2>2. /\ swap' \in Nat \X Nat /\ 1 <= swap'[1] /\ swap'[1] < swap'[2]
        /\ swap'[2] <= stop_count \/ swap' = <<stop_count, stop_count + 1>>
    BY <1>2, <1>8 DEF TwoOptInv
  <2>3. swap'[1] \in 1 .. stop_count /\ swap'[2] \in 2 .. stop_count + 1
    BY <1>1, <2>2
  <2> QED
    BY <1>2, <1>8, <2>1, <2>3 DEF CountersInv, OrdersTyped, lnsVars
<1>9. CASE StartTwoOpt
  <2>1. UNCHANGED lnsVars /\ stage' = "two_opt"
    BY <1>9 DEF StartTwoOpt
  <2>2. TwoOptCounters'
    <3>1. iteration' = 1 /\ swaps_applied' = 0
      BY <1>9 DEF StartTwoOpt, TwoOptStart
    <3> QED
      BY <1>1, <1>2, <3>1 DEF TwoOptCounters
  <2>3. OrdersTyped'
    BY <1>8, <2>1 DEF OrdersInv, StagesInOrder, TwoOptRan
  <2> QED
    BY <1>0, <1>3, <1>5, <2>1, <2>2, <2>3 DEF CountersInv
<1>10. CASE RunTwoOpt
  <2>1. UNCHANGED lnsVars /\ stage = "two_opt" /\ stage' = "two_opt" /\ two_opt_done = FALSE
    BY <1>10, Zenon DEF RunTwoOpt, TwoOptNext, CountersInv, FlagsTyped
  <2>2. TwoOptCounters'
    <3>1. /\ iteration \in 0 .. request.two_opt_max_iterations
          /\ swaps_applied \in 0 .. iteration /\ swaps_applied < iteration
      BY <2>1 DEF OrdersInv, StagesInOrder, CountersInv, TwoOptCounters, TwoOptRan
    <3>2. CASE TrySwap
      BY <1>2, <3>1, <3>2 DEF TrySwap, TwoOptCounters
    <3>3. CASE Converge
      BY <1>2, <3>1, <3>3 DEF Converge, TwoOptCounters
    <3>4. CASE ApplySwap
      <4>1. /\ swaps_applied' = swaps_applied + 1 /\ UNCHANGED converged
            /\ \/ two_opt_done' = TRUE /\ iteration' = iteration
               \/ /\ two_opt_done' = FALSE /\ iteration' = iteration + 1
                  /\ iteration # request.two_opt_max_iterations
        BY <3>4, Zenon DEF ApplySwap, LastScan
      <4> QED
        BY <1>1, <1>2, <3>1, <4>1 DEF TwoOptCounters
    <3> QED
      BY <1>10, <3>2, <3>3, <3>4 DEF RunTwoOpt, TwoOptNext
  <2>3. OrdersTyped'
    BY <1>8, <2>1 DEF OrdersInv, StagesInOrder, TwoOptRan
  <2> QED
    BY <1>0, <1>3, <1>5, <2>1, <2>2, <2>3 DEF CountersInv
<1>11. ASSUME LnsInv', LnsRan', UNCHANGED twoOptVars,
              {repaired', removed_stops'} \subseteq Seq(1 .. stop_count)
       PROVE  OrdersTyped'
  <2>1. best_order' \in Seq(1 .. stop_count)
    <3>1. IndexOnce(stop_count, best_order')
      BY <1>2, <1>11 DEF LnsInv
    <3> QED
      BY <1>1, <3>1, FunctionIsSeq DEF IndexOnce
  <2> QED
    BY <1>2, <1>11, <2>1 DEF CountersInv, OrdersTyped, Orders, Stops, twoOptVars
<1>12. CASE StartLns
  <2>1. UNCHANGED twoOptVars /\ stage = "two_opt" /\ repaired' = <<>> /\ removed_stops' = <<>>
        /\ best_order' = PublicToMatrix(current_order)
    BY <1>12 DEF StartLns, LnsStart
  <2>2. LnsCounters'
    BY <1>1, <1>2, <1>12 DEF StartLns, LnsStart, LnsCounters
  <2>3. LnsRan'
    <3>1. Once(stop_count, current_order)
      BY <2>1 DEF OrdersInv, StagesInOrder, TwoOptInv, TwoOptRan
    <3>2. IndexOnce(stop_count, best_order')
      BY <1>1, <2>1, <3>1, OnceToIndex
    <3> QED
      BY <1>1, <3>2 DEF LnsRan, IndexOnce
  <2>4. OrdersTyped'
    BY <1>11, <2>1, <2>3 DEF OrdersInv
  <2> QED
    BY <1>0, <1>3, <1>4, <2>1, <2>2, <2>4 DEF CountersInv
<1>13. CASE RunLns
  <2>1. UNCHANGED twoOptVars /\ stage' = "lns" /\ LnsInv' /\ LnsRan'
    BY <1>13 DEF RunLns, OrdersInv, StagesInOrder, LnsRan
  <2>2. LnsCounters /\ OrdersTyped
    BY DEF CountersInv
  <2>3. LnsCounters' /\ {repaired', removed_stops'} \subseteq Seq(1 .. stop_count)
    <3>1. CASE Destroy
      <4>1. lns = "destroy" /\ lns' = "repair" /\ iterations_run' = iterations_run + 1
            /\ UNCHANGED no_improvement_count
        BY <3>1 DEF Destroy
      <4> QED
        BY <1>1, <1>2, <2>1, <2>2, <4>1 DEF LnsCounters, LnsInv
    <3>2. CASE InsertStop
      <4>1. lns = "repair" /\ UNCHANGED <<lns, iterations_run, no_improvement_count>>
        BY <3>2 DEF InsertStop
      <4> QED
        BY <1>1, <1>2, <2>1, <2>2, <4>1 DEF LnsCounters, LnsInv
    <3>3. CASE Judge
      <4>1. /\ lns = "repair" /\ UNCHANGED <<repaired, removed_stops, iterations_run>>
            /\ no_improvement_count' = 0 \/ no_improvement_count' = no_improvement_count + 1
            /\ \/ lns' = "returned"
               \/ lns' = "destroy" /\ iterations_run # request.lns_max_iterations
        BY <3>3 DEF Judge
      <4> QED
        BY <1>1, <1>2, <2>2, <4>1 DEF LnsCounters, OrdersTyped
    <3> QED
      BY <1>13, <3>1, <3>2, <3>3 DEF RunLns, LnsNext
  <2>4. OrdersTyped'
    BY <1>11, <2>1, <2>3
  <2> QED
    BY <1>0, <1>3, <1>4, <2>1, <2>3, <2>4 DEF CountersInv
<1> QED
  BY <1>7, <1>9, <1>10, <1>12, <1>13 DEF Next, Answered

LEMMA CountersAlways == Spec => []CountersInv
BY InitCounters, NextCounters, DistancesAlways, PTL DEF Spec

\* The values the three stages can have, the bounds of their counters included.
THEOREM AlwaysTyped == Spec => []TypeOK
<1>1. ASSUME OrdersInv, DistancesInv, CountersInv PROVE TypeOK
  <2>1. request \in Requests /\ stop_count \in Nat \ {0}
        /\ request.two_opt_max_iterations \in Nat
    BY <1>1, RequestsAssumption DEF OrdersInv
  <2>2. distance_matrix \in [AllPairs -> Int \cup {None}]
    BY <1>1 DEF DistancesInv, MatrixInv, UNREACHABLE_DISTANCE
  <2>3. greedy_order \in Seq(Stops)
    BY <1>1 DEF OrdersInv, GreedyInv, Stops
  <2>4. current_order \in Orders \cup {<<>>}
    BY <1>1 DEF OrdersInv, TwoOptInv, TwoOptRan, Once, Orders, Stops
  <2>5. /\ iteration \in 0 .. request.two_opt_max_iterations
        /\ swaps_applied \in 0 .. request.two_opt_max_iterations
    BY <1>1, <2>1 DEF CountersInv, TwoOptCounters
  <2>7. {converged, two_opt_done} \subseteq BOOLEAN
    BY <1>1, Zenon DEF CountersInv, FlagsTyped
  <2>6. /\ iterations_run \in 0 .. request.lns_max_iterations
        /\ no_improvement_count \in 0 .. iterations_run
        /\ lns \in {"destroy", "repair", "returned"}
    BY <1>1 DEF CountersInv, LnsCounters
  <2> QED
    BY <1>1, <2>1, <2>2, <2>3, <2>4, <2>5, <2>6, <2>7
       DEF TypeOK, DistancesInv, DistancesTyped, OrdersInv, StagesInOrder, CountersInv, OrdersTyped
<1> QED
  BY <1>1, DistancesAlways, CountersAlways, PTL

============================================================================
