--------------------------- MODULE DispatchProofs ---------------------------
(***************************************************************************)
(* Proofs about Dispatch, for any requests, roads and contents of the      *)
(* cache.                                                                  *)
(***************************************************************************)
EXTENDS Dispatch, HungarianProofs

---------------------------------------------------------------------------
(* The slots: the blocks of the drivers, one after the other.              *)

IsFlat(seqs, f) ==
    f = [i \in 1 .. Len(seqs) |-> IF i = 1 THEN seqs[i] ELSE f[i - 1] \o seqs[i]]

LEMMA FlattenIsLast ==
    ASSUME NEW seqs, Len(seqs) # 0
    PROVE  FlattenSeq(seqs) = (CHOOSE f : IsFlat(seqs, f))[Len(seqs)]
BY DEF FlattenSeq, IsFlat

Joins(seqs, f, n) ==
    \A i \in 1 .. n : f[i] = IF i = 1 THEN seqs[i] ELSE f[i - 1] \o seqs[i]

\* The recursive function behind FlattenSeq exists.
LEMMA FlatExists ==
    ASSUME NEW T, NEW seqs \in Seq(Seq(T))
    PROVE  \E f : IsFlat(seqs, f) /\ f \in [1 .. Len(seqs) -> Seq(T)]
<1> DEFINE N == Len(seqs)
           Good == {n \in 0 .. N : \E f \in [1 .. n -> Seq(T)] : Joins(seqs, f, n)}
<1>1. N \in Nat /\ \A i \in 1 .. N : seqs[i] \in Seq(T)
  OBVIOUS
<1>2. 0 \in Good
  <2> DEFINE e == [i \in 1 .. 0 |-> <<>>]
  <2>1. e \in [1 .. 0 -> Seq(T)]
    OBVIOUS
  <2>2. Joins(seqs, e, 0)
    BY DEF Joins
  <2> HIDE DEF e
  <2>3. \E f \in [1 .. 0 -> Seq(T)] : Joins(seqs, f, 0)
    BY <2>1, <2>2
  <2>4. 0 \in 0 .. N
    BY <1>1
  <2>. QED BY <2>3, <2>4
<1>3. ASSUME NEW n \in 1 .. N, n - 1 \in Good
      PROVE  n \in Good
  <2>1. PICK f \in [1 .. n - 1 -> Seq(T)] : Joins(seqs, f, n - 1)
    BY <1>3
  <2> DEFINE last == IF n = 1 THEN seqs[n] ELSE f[n - 1] \o seqs[n]
             g == [i \in 1 .. n |-> IF i = n THEN last ELSE f[i]]
  <2>2. n \in Nat /\ \A i \in 1 .. n : i = n \/ i \in 1 .. n - 1
    BY <1>1
  <2>3. n # 1 => n - 1 \in 1 .. n - 1
    BY <2>2
  <2>4. last \in Seq(T)
    <3>1. seqs[n] \in Seq(T)
      BY <1>1
    <3>2. CASE n = 1
      BY <3>1, <3>2
    <3>3. CASE n # 1
      <4>1. f[n - 1] \in Seq(T)
        BY <2>3, <3>3
      <4>2. f[n - 1] \o seqs[n] \in Seq(T)
        BY <3>1, <4>1
      <4>. QED BY <3>3, <4>2
    <3>. QED BY <3>2, <3>3
  <2>5. g[n] = last /\ \A i \in 1 .. n - 1 : g[i] = f[i]
    <3> HIDE DEF last
    <3>1. n \in 1 .. n /\ \A i \in 1 .. n - 1 : i \in 1 .. n /\ i # n
      BY <2>2
    <3>. QED BY <3>1
  <2>6. g \in [1 .. n -> Seq(T)]
    <3> HIDE DEF last
    <3>. QED BY <2>2, <2>4
  <2>7. ASSUME NEW i \in 1 .. n
        PROVE  g[i] = IF i = 1 THEN seqs[i] ELSE g[i - 1] \o seqs[i]
    <3> HIDE DEF g
    <3>1. CASE i = n
      BY <2>3, <2>5, <3>1
    <3>2. CASE i # n
      <4>1. i \in 1 .. n - 1 /\ (i # 1 => i - 1 \in 1 .. n - 1)
        BY <2>2, <3>2
      <4>. QED BY <2>1, <2>5, <4>1 DEF Joins
    <3>. QED BY <3>1, <3>2
  <2> HIDE DEF g
  <2>8. Joins(seqs, g, n)
    BY <2>7 DEF Joins
  <2>. QED BY <1>1, <2>6, <2>8
<1>4. N \in Good
  <2> HIDE DEF Good, N
  <2>1. \A n \in 0 .. N : n \in Good
    BY <1>1, <1>2, <1>3, CountUp
  <2>. QED BY <1>1, <2>1
<1>5. PICK f \in [1 .. N -> Seq(T)] : Joins(seqs, f, N)
  BY <1>4
<1>6. f = [i \in 1 .. N |-> f[i]]
  OBVIOUS
<1>. QED BY <1>5, <1>6 DEF Joins, IsFlat


\* Where the elements of each sequence are.
IsOffset(seqs, off) ==
    /\ off \in [0 .. Len(seqs) -> Nat]
    /\ off[0] = 0
    /\ \A i \in 1 .. Len(seqs) : off[i] = off[i - 1] + Len(seqs[i])

\* The first n of them, one after the other.
Laid(seqs, off, n, s) ==
    /\ Len(s) = off[n]
    /\ \A i \in 1 .. n : \A k \in 1 .. Len(seqs[i]) :
          off[i - 1] + k \in 1 .. off[n] /\ s[off[i - 1] + k] = seqs[i][k]
    /\ \A p \in 1 .. off[n] : \E i \in 1 .. n : \E k \in 1 .. Len(seqs[i]) : p = off[i - 1] + k

LEMMA ConcatAt ==
    ASSUME NEW T, NEW s \in Seq(T), NEW t \in Seq(T)
    PROVE  /\ \A j \in 1 .. Len(s) : (s \o t)[j] = s[j]
           /\ \A j \in 1 .. Len(t) : (s \o t)[Len(s) + j] = t[j]
OBVIOUS

\* The flattened sequence holds the sequences, one after the other.
LEMMA FlattenLays ==
    ASSUME NEW T, NEW seqs \in Seq(Seq(T)), Len(seqs) # 0
    PROVE  /\ FlattenSeq(seqs) \in Seq(T)
           /\ \E off : IsOffset(seqs, off) /\ Laid(seqs, off, Len(seqs), FlattenSeq(seqs))
<1> DEFINE N == Len(seqs)
<1>1. N \in Nat \ {0} /\ \A i \in 1 .. N : seqs[i] \in Seq(T) /\ Len(seqs[i]) \in Nat
  OBVIOUS
<1> DEFINE f == CHOOSE f : IsFlat(seqs, f)
<1>2. IsFlat(seqs, f)
  BY FlatExists
<1> HIDE DEF f
<1>3. \A i \in 1 .. N : f[i] = IF i = 1 THEN seqs[i] ELSE f[i - 1] \o seqs[i]
  BY <1>2 DEF IsFlat
<1>4. \A n \in 0 .. N : n \in {m \in 0 .. N : m # 0 => f[m] \in Seq(T)}
  <2> DEFINE Good == {m \in 0 .. N : m # 0 => f[m] \in Seq(T)}
  <2>1. 0 \in Good
    BY <1>1
  <2>2. ASSUME NEW n \in 1 .. N, n - 1 \in Good PROVE n \in Good
    <3>1. seqs[n] \in Seq(T) /\ (n # 1 => f[n - 1] \in Seq(T))
      BY <1>1, <2>2
    <3>2. f[n] \in Seq(T)
      <4>1. CASE n = 1
        BY <1>3, <3>1, <4>1
      <4>2. CASE n # 1
        <5>1. f[n] = f[n - 1] \o seqs[n]
          BY <1>3, <4>2
        <5>. QED BY <3>1, <4>2, <5>1
      <4>. QED BY <4>1, <4>2
    <3>. QED BY <3>2
  <2> HIDE DEF Good, N
  <2>3. \A n \in 0 .. N : n \in Good
    BY <1>1, <2>1, <2>2, CountUp
  <2>. QED BY <2>3 DEF Good
<1>5. \A n \in 1 .. N : f[n] \in Seq(T) /\ Len(f[n]) \in Nat
  BY <1>1, <1>4
<1> DEFINE off == [n \in 0 .. N |-> IF n = 0 THEN 0 ELSE Len(f[n])]
<1>6. IsOffset(seqs, off)
  <2>1. off \in [0 .. N -> Nat]
    BY <1>1, <1>5
  <2>2. off[0] = 0
    BY <1>1
  <2>3. ASSUME NEW i \in 1 .. N PROVE off[i] = off[i - 1] + Len(seqs[i])
    <3>1. CASE i = 1
      BY <1>1, <1>3, <3>1
    <3>2. CASE i # 1
      <4>1. i - 1 \in 1 .. N /\ i - 1 # 0 /\ i # 0
        BY <1>1, <3>2
      <4>2. f[i] = f[i - 1] \o seqs[i]
        BY <1>3, <3>2
      <4>3. Len(f[i]) = Len(f[i - 1]) + Len(seqs[i])
        BY <1>1, <1>5, <4>1, <4>2
      <4>4. off[i] = Len(f[i]) /\ off[i - 1] = Len(f[i - 1])
        BY <1>1, <4>1
      <4>. QED BY <4>3, <4>4
    <3>. QED BY <3>1, <3>2
  <2>. QED BY <2>1, <2>2, <2>3 DEF IsOffset
<1>7. \A n \in 1 .. N : off[n] = Len(f[n])
  OBVIOUS
<1> HIDE DEF off
<1>8. \A n \in 0 .. N : n \in {m \in 0 .. N : m # 0 => Laid(seqs, off, m, f[m])}
  <2> DEFINE Good == {m \in 0 .. N : m # 0 => Laid(seqs, off, m, f[m])}
  <2>1. 0 \in Good
    BY <1>1
  <2>2. ASSUME NEW n \in 1 .. N, n - 1 \in Good PROVE n \in Good
    <3>1. /\ off[n] = off[n - 1] + Len(seqs[n]) /\ off[n] \in Nat /\ off[n - 1] \in Nat
          /\ off[0] = 0 /\ Len(f[n]) = off[n] /\ seqs[n] \in Seq(T) /\ Len(seqs[n]) \in Nat
      BY <1>1, <1>6, <1>7 DEF IsOffset
    <3>2. CASE n = 1
      <4>1. f[1] = seqs[1]
        BY <1>3, <3>2
      <4>. QED BY <3>1, <3>2, <4>1 DEF Laid
    <3>3. CASE n # 1
      <4>1. /\ n - 1 \in 1 .. N /\ n \in Nat
            /\ \A i \in 1 .. n : i = n \/ i \in 1 .. n - 1
            /\ \A i \in 1 .. n - 1 : i \in 1 .. n
        BY <1>1, <3>3
      <4>2. Laid(seqs, off, n - 1, f[n - 1])
        BY <2>2, <4>1
      <4>3. f[n] = f[n - 1] \o seqs[n] /\ f[n - 1] \in Seq(T) /\ Len(f[n - 1]) = off[n - 1]
        BY <1>3, <1>5, <1>7, <3>3, <4>1
      <4>6. /\ \A j \in 1 .. off[n - 1] : f[n][j] = f[n - 1][j]
            /\ \A j \in 1 .. Len(seqs[n]) : f[n][off[n - 1] + j] = seqs[n][j]
        <5> DEFINE before == f[n - 1]
                   block == seqs[n]
        <5>1. /\ before \in Seq(T) /\ block \in Seq(T) /\ f[n] = before \o block
              /\ Len(before) = off[n - 1]
          BY <3>1, <4>3
        <5> HIDE DEF before, block
        <5>2. before \in Seq(T) /\ block \in Seq(T)
          BY <5>1
        <5>3. /\ \A j \in 1 .. Len(before) : (before \o block)[j] = before[j]
              /\ \A j \in 1 .. Len(block) : (before \o block)[Len(before) + j] = block[j]
          BY <5>2, ConcatAt, SMTT(60)
        <5>. QED BY <5>1, <5>3 DEF before, block
      <4>4. ASSUME NEW i \in 1 .. n, NEW k \in 1 .. Len(seqs[i])
            PROVE  off[i - 1] + k \in 1 .. off[n] /\ f[n][off[i - 1] + k] = seqs[i][k]
        <5>1. CASE i = n
          BY <3>1, <4>6, <5>1
        <5>2. CASE i # n
          <6>1. /\ off[i - 1] + k \in 1 .. off[n - 1]
                /\ f[n - 1][off[i - 1] + k] = seqs[i][k]
            BY <4>1, <4>2, <5>2 DEF Laid
          <6>2. f[n][off[i - 1] + k] = f[n - 1][off[i - 1] + k]
            BY <4>6, <6>1
          <6>3. off[i - 1] + k \in 1 .. off[n]
            BY <3>1, <6>1
          <6>. QED BY <6>1, <6>2, <6>3
        <5>. QED BY <5>1, <5>2
      <4>5. ASSUME NEW p \in 1 .. off[n]
            PROVE  \E i \in 1 .. n : \E k \in 1 .. Len(seqs[i]) : p = off[i - 1] + k
        <5>1. CASE p \in 1 .. off[n - 1]
          BY <4>1, <4>2, <5>1 DEF Laid
        <5>2. CASE p \notin 1 .. off[n - 1]
          <6>1. p - off[n - 1] \in 1 .. Len(seqs[n]) /\ p = off[n - 1] + (p - off[n - 1])
            BY <3>1, <5>2
          <6>. QED BY <4>1, <6>1
        <5>. QED BY <5>1, <5>2
      <4>. QED BY <3>1, <4>4, <4>5 DEF Laid
    <3>. QED BY <3>2, <3>3
  <2> HIDE DEF Good, N
  <2>3. \A n \in 0 .. N : n \in Good
    BY <1>1, <2>1, <2>2, CountUp
  <2>. QED BY <2>3 DEF Good
<1>9. FlattenSeq(seqs) = f[N]
  BY FlattenIsLast DEF f
<1>10. f[N] \in Seq(T) /\ Laid(seqs, off, N, f[N])
  BY <1>1, <1>5, <1>8
<1>. QED BY <1>6, <1>9, <1>10

SlotBlocks(ds) ==
    [d \in DOMAIN ds |-> [k \in 1 .. AvailableCapacity(ds[d]) |->
        [driver_index |-> d, driver_slot_index |-> k - 1]]]

SlotsOf(s, d) == {i \in DOMAIN s : s[i].driver_index = d}

\* Each driver's slots follow each other, counted from 0, and are as many as it
\* has room for.
InOrder(s) ==
    \A i \in DOMAIN s : s[i].driver_slot_index > 0 =>
        /\ i - 1 \in DOMAIN s
        /\ s[i - 1].driver_index = s[i].driver_index
        /\ s[i - 1].driver_slot_index = s[i].driver_slot_index - 1

RoomFilled(s, ds) ==
    \A d \in DOMAIN ds :
        /\ IsFiniteSet(SlotsOf(s, d))
        /\ Cardinality(SlotsOf(s, d)) = AvailableCapacity(ds[d])

\* _expand_driver_slots numbers each driver's slots and makes as many as fit.
LEMMA SlotsOrdered ==
    ASSUME NEW n \in Nat \ {0}, NEW ds, DOMAIN ds = 1 .. n,
           \A d \in 1 .. n : AvailableCapacity(ds[d]) \in Nat,
           NEW s, s = DriverSlots(ds)
    PROVE  /\ s \in Seq([driver_index : 1 .. n, driver_slot_index : Nat])
           /\ InOrder(s) /\ RoomFilled(s, ds)
<1> DEFINE T == [driver_index : 1 .. n, driver_slot_index : Nat]
           seqs == SlotBlocks(ds)
           Room(d) == AvailableCapacity(ds[d])
<1>1. \A d \in 1 .. n : Room(d) \in Nat
  OBVIOUS
<1>2. s = FlattenSeq(seqs)
  BY DEF DriverSlots, SlotBlocks
<1>3. \A d \in 1 .. n :
         seqs[d] = [k \in 1 .. Room(d) |-> [driver_index |-> d, driver_slot_index |-> k - 1]]
  BY DEF SlotBlocks
<1>4. DOMAIN seqs = 1 .. n /\ seqs = [d \in 1 .. n |-> seqs[d]]
  BY DEF SlotBlocks
<1> HIDE DEF seqs, Room
<1>5. ASSUME NEW d \in 1 .. n
      PROVE  /\ seqs[d] \in Seq(T) /\ Len(seqs[d]) = Room(d)
             /\ \A k \in 1 .. Room(d) :
                   seqs[d][k].driver_index = d /\ seqs[d][k].driver_slot_index = k - 1
  <2>1. \A k \in 1 .. Room(d) : k - 1 \in Nat
    BY <1>1
  <2>2. \A k \in 1 .. Room(d) : [driver_index |-> d, driver_slot_index |-> k - 1] \in T
    BY <2>1
  <2>3. seqs[d] \in [1 .. Room(d) -> T]
    <3> HIDE DEF T
    <3>. QED BY <1>3, <2>2
  <2>4. Room(d) \in Nat
    BY <1>1
  <2> HIDE DEF T
  <2>5. seqs[d] \in Seq(T) /\ Len(seqs[d]) = Room(d)
    BY <2>3, <2>4
  <2>6. \A k \in 1 .. Room(d) :
           seqs[d][k] = [driver_index |-> d, driver_slot_index |-> k - 1]
    BY <1>3
  <2>7. ASSUME NEW k \in 1 .. Room(d)
        PROVE  seqs[d][k].driver_index = d /\ seqs[d][k].driver_slot_index = k - 1
    <3> DEFINE slot == seqs[d][k]
    <3>1. slot = [driver_index |-> d, driver_slot_index |-> k - 1]
      BY <2>6
    <3> HIDE DEF slot
    <3>2. slot.driver_index = d /\ slot.driver_slot_index = k - 1
      BY <3>1
    <3>. QED BY <3>2 DEF slot
  <2>. QED BY <2>5, <2>7
<1> HIDE DEF T
<1>6. seqs \in Seq(Seq(T)) /\ Len(seqs) = n
  <2>1. seqs \in [1 .. n -> Seq(T)]
    BY <1>4, <1>5
  <2>. QED BY <2>1
<1>7. s \in Seq(T) /\ \E off : IsOffset(seqs, off) /\ Laid(seqs, off, n, s)
  BY <1>2, <1>6, FlattenLays
<1>8. PICK off : IsOffset(seqs, off) /\ Laid(seqs, off, n, s)
  BY <1>7
<1>9. \A d \in 1 .. n : off[d - 1] \in Nat /\ off[d] = off[d - 1] + Room(d) /\ off[d] \in Nat
  BY <1>5, <1>6, <1>8 DEF IsOffset
<1>15. \A d \in 1 .. n : Len(seqs[d]) = Room(d)
  BY <1>5
<1>16. /\ \A d \in 1 .. n : \A k \in 1 .. Len(seqs[d]) :
             off[d - 1] + k \in 1 .. off[n] /\ s[off[d - 1] + k] = seqs[d][k]
       /\ \A p \in 1 .. off[n] :
             \E d \in 1 .. n : \E k \in 1 .. Len(seqs[d]) : p = off[d - 1] + k
  BY <1>8 DEF Laid
<1>10. DOMAIN s = 1 .. off[n]
  <2>1. Len(s) = off[n]
    BY <1>8 DEF Laid
  <2>2. \E S : s \in Seq(S)
    BY <1>7
  <2>. QED BY <2>1, <2>2
<1>11. \A d \in 1 .. n : \A k \in 1 .. Room(d) :
          /\ off[d - 1] + k \in DOMAIN s
          /\ s[off[d - 1] + k].driver_index = d
          /\ s[off[d - 1] + k].driver_slot_index = k - 1
  <2>1. ASSUME NEW d \in 1 .. n, NEW k \in 1 .. Room(d)
        PROVE  /\ off[d - 1] + k \in DOMAIN s
               /\ s[off[d - 1] + k].driver_index = d
               /\ s[off[d - 1] + k].driver_slot_index = k - 1
    <3>1. k \in 1 .. Len(seqs[d])
      BY <1>15
    <3>2. off[d - 1] + k \in 1 .. off[n] /\ s[off[d - 1] + k] = seqs[d][k]
      BY <3>1, <1>16
    <3>3. seqs[d][k].driver_index = d /\ seqs[d][k].driver_slot_index = k - 1
      BY <1>5
    <3>. QED BY <1>10, <3>2, <3>3
  <2>. QED BY <2>1
<1>12. \A i \in DOMAIN s : \E d \in 1 .. n : \E k \in 1 .. Room(d) : i = off[d - 1] + k
  BY <1>10, <1>15, <1>16
<1>13. ASSUME NEW i \in DOMAIN s, s[i].driver_slot_index > 0
       PROVE  /\ i - 1 \in DOMAIN s
              /\ s[i - 1].driver_index = s[i].driver_index
              /\ s[i - 1].driver_slot_index = s[i].driver_slot_index - 1
  <2>1. PICK d \in 1 .. n : \E k \in 1 .. Room(d) : i = off[d - 1] + k
    BY <1>12
  <2>2. PICK k \in 1 .. Room(d) : i = off[d - 1] + k
    BY <2>1
  <2>3. Room(d) \in Nat /\ off[d - 1] \in Nat
    BY <1>1, <1>9
  <2>4. s[i].driver_index = d /\ s[i].driver_slot_index = k - 1
    BY <1>11, <2>2
  <2>5. k - 1 \in 1 .. Room(d) /\ i - 1 = off[d - 1] + (k - 1)
    <3>1. k - 1 > 0
      BY <1>13, <2>4
    <3> DEFINE before == off[d - 1]
               room == Room(d)
    <3>2. k \in 1 .. room /\ before \in Nat /\ room \in Nat /\ i = before + k
      BY <2>2, <2>3
    <3> HIDE DEF before, room
    <3>3. k - 1 \in 1 .. room /\ i - 1 = before + (k - 1)
      BY <3>1, <3>2
    <3>. QED BY <3>3 DEF before, room
  <2>. QED BY <1>11, <2>4, <2>5
<1>14. ASSUME NEW d \in 1 .. n
       PROVE  IsFiniteSet(SlotsOf(s, d)) /\ Cardinality(SlotsOf(s, d)) = Room(d)
  <2>1. SlotsOf(s, d) = off[d - 1] + 1 .. off[d]
    <3>1. ASSUME NEW i \in SlotsOf(s, d) PROVE i \in off[d - 1] + 1 .. off[d]
      <4>1. i \in DOMAIN s /\ s[i].driver_index = d
        BY DEF SlotsOf
      <4>2. PICK e \in 1 .. n : \E k \in 1 .. Room(e) : i = off[e - 1] + k
        BY <1>12, <4>1
      <4>3. PICK k \in 1 .. Room(e) : i = off[e - 1] + k
        BY <4>2
      <4>4. e = d
        BY <1>11, <4>1, <4>3
      <4>5. /\ Room(d) \in Nat /\ off[d - 1] \in Nat /\ off[d] = off[d - 1] + Room(d)
            /\ k \in 1 .. Room(d) /\ i = off[d - 1] + k
        BY <1>1, <1>9, <4>3, <4>4
      <4>. QED BY <4>5
    <3>2. ASSUME NEW i \in off[d - 1] + 1 .. off[d] PROVE i \in SlotsOf(s, d)
      <4>2. Room(d) \in Nat /\ off[d - 1] \in Nat /\ off[d] = off[d - 1] + Room(d)
        BY <1>1, <1>9
      <4>1. i - off[d - 1] \in 1 .. Room(d) /\ i = off[d - 1] + (i - off[d - 1])
        BY <4>2
      <4>. QED BY <1>11, <4>1 DEF SlotsOf
    <3>. QED BY <3>1, <3>2
  <2>2. off[d - 1] + 1 \in Int /\ off[d] \in Int /\ Room(d) \in Nat /\ off[d - 1] \in Nat
        /\ off[d] = off[d - 1] + Room(d)
    BY <1>1, <1>9
  <2>3. /\ IsFiniteSet(off[d - 1] + 1 .. off[d])
        /\ Cardinality(off[d - 1] + 1 .. off[d]) =
              IF off[d - 1] + 1 > off[d] THEN 0 ELSE off[d] - (off[d - 1] + 1) + 1
    BY <2>2, FS_Interval
  <2>. QED BY <2>1, <2>2, <2>3
<1>. QED BY <1>7, <1>13, <1>14 DEF T, Room, InOrder, RoomFilled

---------------------------------------------------------------------------
(* Requests and distances.                                                 *)

\* What the schema lets through, once the ids are stripped.
LEMMA RequestShape ==
    ASSUME NEW r \in Requests
    PROVE  /\ Len(r.drivers) \in Nat \ {0} /\ Len(r.orders) \in Nat \ {0}
           /\ DOMAIN Stripped(r.drivers) = 1 .. Len(r.drivers)
           /\ DOMAIN Stripped(r.orders) = 1 .. Len(r.orders)
           /\ \A d \in 1 .. Len(r.drivers) :
                 /\ Stripped(r.drivers)[d] \in Drivers
                 /\ Stripped(r.drivers)[d].at \in Points
                 /\ Stripped(r.drivers)[d].current_load \in Nat
                 /\ Stripped(r.drivers)[d].max_capacity \in Nat
           /\ \A o \in 1 .. Len(r.orders) :
                 Stripped(r.orders)[o] \in Orders /\ Stripped(r.orders)[o].at \in Points
           /\ r.load_penalty_m \in Nat /\ r.slot_penalty_m \in Nat
           /\ r.matrix_algorithm \in {"haversine", "source_dijkstra"}
<1>1. r \in CompareRequests
  BY DispatchRequestsAssumption
<1>2. /\ r.drivers \in Seq(Drivers) /\ r.drivers # <<>>
      /\ r.orders \in Seq(Orders) /\ r.orders # <<>>
      /\ r.load_penalty_m \in Nat /\ r.slot_penalty_m \in Nat
      /\ r.matrix_algorithm \in {"haversine", "source_dijkstra"}
  BY <1>1 DEF CompareRequests
<1>3. /\ Len(r.drivers) \in Nat \ {0} /\ DOMAIN r.drivers = 1 .. Len(r.drivers)
      /\ \A d \in 1 .. Len(r.drivers) : r.drivers[d] \in Drivers
  BY <1>2
<1>4. /\ Len(r.orders) \in Nat \ {0} /\ DOMAIN r.orders = 1 .. Len(r.orders)
      /\ \A o \in 1 .. Len(r.orders) : r.orders[o] \in Orders
  BY <1>2
<1>5. ASSUME NEW d \in 1 .. Len(r.drivers)
      PROVE  /\ Stripped(r.drivers)[d] \in Drivers
             /\ Stripped(r.drivers)[d].at \in Points
             /\ Stripped(r.drivers)[d].current_load \in Nat
             /\ Stripped(r.drivers)[d].max_capacity \in Nat
  <2> DEFINE driver == r.drivers[d]
  <2>1. driver \in Drivers
    BY <1>3
  <2>2. Stripped(r.drivers)[d] = [driver EXCEPT !.id = Strip[@]]
    BY <1>3 DEF Stripped
  <2> HIDE DEF driver
  <2>3. Stripped(r.drivers)[d] \in Drivers
    BY <2>1, <2>2, DispatchDataAssumption DEF Drivers
  <2>. QED BY <2>3 DEF Drivers
<1>6. ASSUME NEW o \in 1 .. Len(r.orders)
      PROVE  Stripped(r.orders)[o] \in Orders /\ Stripped(r.orders)[o].at \in Points
  <2> DEFINE order == r.orders[o]
  <2>1. order \in Orders
    BY <1>4
  <2>2. Stripped(r.orders)[o] = [order EXCEPT !.id = Strip[@]]
    BY <1>4 DEF Stripped
  <2> HIDE DEF order
  <2>3. Stripped(r.orders)[o] \in Orders
    BY <2>1, <2>2, DispatchDataAssumption DEF Orders
  <2>. QED BY <2>3 DEF Orders
<1>7. /\ DOMAIN Stripped(r.drivers) = 1 .. Len(r.drivers)
      /\ DOMAIN Stripped(r.orders) = 1 .. Len(r.orders)
  BY <1>3, <1>4 DEF Stripped
<1>. QED BY <1>2, <1>3, <1>4, <1>5, <1>6, <1>7

\* A matrix of distances between points that round to those of r.
FitsTable(matrix, r, table) ==
    \A d \in DOMAIN Stripped(r.drivers) : \A o \in DOMAIN Stripped(r.orders) :
        \E p, q \in Points :
            /\ Round7[p] = Round7[Stripped(r.drivers)[d].at]
            /\ Round7[q] = Round7[Stripped(r.orders)[o].at]
            /\ matrix[d][o] = NormalizeDistance(table[<<p, q>>])

Fits(matrix, r) ==
    /\ matrix \in [DOMAIN Stripped(r.drivers) -> [DOMAIN Stripped(r.orders) -> Nat]]
    /\ \E table \in Sources(r) : FitsTable(matrix, r, table)

LEMMA NormalTyped ==
    ASSUME NEW r, NEW table \in Sources(r), NEW p \in Points, NEW q \in Points
    PROVE  NormalizeDistance(table[<<p, q>>]) \in Nat
<1>1. table \in [Points \X Points -> Nat \cup {None}]
  BY DispatchDataAssumption DEF Sources
<1>2. table[<<p, q>>] \in Nat \cup {None}
  BY <1>1
<1>. QED BY <1>2, DispatchDataAssumption DEF NormalizeDistance

\* What a call measures fits its request.
LEMMA MeasuredFits ==
    ASSUME NEW r \in Requests, NEW matrix \in Matrices(r)
    PROVE  Fits(matrix, r)
<1> DEFINE ds == Stripped(r.drivers)
           os == Stripped(r.orders)
<1>1. PICK table \in Sources(r) : matrix = DistanceMatrix(table, ds, os)
  BY DEF Matrices
<1>2. /\ \A d \in DOMAIN ds : ds[d].at \in Points
      /\ \A o \in DOMAIN os : os[o].at \in Points
  BY RequestShape
<1>3. \A d \in DOMAIN ds : \A o \in DOMAIN os :
         matrix[d][o] = NormalizeDistance(table[<<ds[d].at, os[o].at>>])
  BY <1>1 DEF DistanceMatrix
<1>4. \A d \in DOMAIN ds : \A o \in DOMAIN os :
         NormalizeDistance(table[<<ds[d].at, os[o].at>>]) \in Nat
  BY <1>2, NormalTyped
<1>5. matrix \in [DOMAIN ds -> [DOMAIN os -> Nat]]
  BY <1>1, <1>4 DEF DistanceMatrix
<1>6. FitsTable(matrix, r, table)
  BY <1>2, <1>3 DEF FitsTable
<1>. QED BY <1>5, <1>6 DEF Fits

\* Equal parts of a key come from places that round alike.
LEMMA SameRounded ==
    ASSUME NEW items, NEW others, Rounded(items) = Rounded(others),
           \/ \A i \in DOMAIN items : items[i] \in Drivers
           \/ \A i \in DOMAIN items : items[i] \in Orders,
           \/ \A i \in DOMAIN others : others[i] \in Drivers
           \/ \A i \in DOMAIN others : others[i] \in Orders
    PROVE  /\ DOMAIN items = DOMAIN others
           /\ \A i \in DOMAIN items : Round7[items[i].at] = Round7[others[i].at]
<1>1. DOMAIN items = DOMAIN others
  <2>1. DOMAIN Rounded(items) = DOMAIN items /\ DOMAIN Rounded(others) = DOMAIN others
    BY DEF Rounded
  <2>. QED BY <2>1
<1>2. ASSUME NEW i \in DOMAIN items
      PROVE  Round7[items[i].at] = Round7[others[i].at]
  <2> DEFINE x == items[i]
             y == others[i]
  <2>1. [x EXCEPT !.at = Round7[@]] = [y EXCEPT !.at = Round7[@]]
    <3>1. Rounded(items)[i] = [x EXCEPT !.at = Round7[@]]
      BY DEF Rounded
    <3>2. Rounded(others)[i] = [y EXCEPT !.at = Round7[@]]
      BY <1>1 DEF Rounded
    <3>. QED BY <3>1, <3>2
  <2>2. (x \in Drivers \/ x \in Orders) /\ (y \in Drivers \/ y \in Orders)
    BY <1>1
  <2> HIDE DEF x, y
  <2>3. [x EXCEPT !.at = Round7[@]].at = Round7[x.at]
    BY <2>2 DEF Drivers, Orders
  <2>4. [y EXCEPT !.at = Round7[@]].at = Round7[y.at]
    BY <2>2 DEF Drivers, Orders
  <2>5. Round7[x.at] = Round7[y.at]
    BY <2>1, <2>3, <2>4
  <2>. QED BY <2>5 DEF x, y
<1>. QED BY <1>1, <1>2

\* Requests of one key need the same distances.
LEMMA SameKeyFits ==
    ASSUME NEW r \in Requests, NEW s \in Requests, KeyOf[r] = KeyOf[s],
           NEW matrix, Fits(matrix, r)
    PROVE  Fits(matrix, s)
<1> DEFINE rd == Stripped(r.drivers)
           ro == Stripped(r.orders)
           sd == Stripped(s.drivers)
           so == Stripped(s.orders)
<1>1. CacheKey(r.matrix_algorithm, rd, ro) = CacheKey(s.matrix_algorithm, sd, so)
  BY DEF KeyOf
<1>2. /\ r.matrix_algorithm = s.matrix_algorithm
      /\ Rounded(rd) = Rounded(sd) /\ Rounded(ro) = Rounded(so)
  <2> HIDE DEF rd, ro, sd, so
  <2>. QED BY <1>1 DEF CacheKey
<1>3. /\ \A d \in DOMAIN rd : rd[d] \in Drivers
      /\ \A d \in DOMAIN sd : sd[d] \in Drivers
      /\ \A o \in DOMAIN ro : ro[o] \in Orders
      /\ \A o \in DOMAIN so : so[o] \in Orders
  BY RequestShape
<1>4. /\ DOMAIN rd = DOMAIN sd
      /\ \A d \in DOMAIN rd : Round7[rd[d].at] = Round7[sd[d].at]
  <2> HIDE DEF rd, ro, sd, so
  <2>. QED BY <1>2, <1>3, SameRounded
<1>5. /\ DOMAIN ro = DOMAIN so
      /\ \A o \in DOMAIN ro : Round7[ro[o].at] = Round7[so[o].at]
  <2> HIDE DEF rd, ro, sd, so
  <2>. QED BY <1>2, <1>3, SameRounded
<1>6. PICK table \in Sources(r) : FitsTable(matrix, r, table)
  BY DEF Fits
<1>7. Sources(s) = Sources(r)
  BY <1>2 DEF Sources
<1>8. FitsTable(matrix, s, table)
  <2>1. ASSUME NEW d \in DOMAIN sd, NEW o \in DOMAIN so
        PROVE  \E p, q \in Points :
                  /\ Round7[p] = Round7[sd[d].at]
                  /\ Round7[q] = Round7[so[o].at]
                  /\ matrix[d][o] = NormalizeDistance(table[<<p, q>>])
    <3>3. d \in DOMAIN rd /\ o \in DOMAIN ro
      BY <1>4, <1>5
    <3>1. PICK p, q \in Points :
              /\ Round7[p] = Round7[rd[d].at]
              /\ Round7[q] = Round7[ro[o].at]
              /\ matrix[d][o] = NormalizeDistance(table[<<p, q>>])
      BY <1>6, <3>3 DEF FitsTable
    <3>2. Round7[p] = Round7[sd[d].at] /\ Round7[q] = Round7[so[o].at]
      BY <1>4, <1>5, <3>1
    <3>. QED BY <3>1, <3>2
  <2>. QED BY <2>1 DEF FitsTable
<1>9. matrix \in [DOMAIN sd -> [DOMAIN so -> Nat]]
  BY <1>4, <1>5 DEF Fits
<1>. QED BY <1>6, <1>7, <1>8, <1>9 DEF Fits

---------------------------------------------------------------------------
(* The inductive invariant.                                                *)

\* The stages of a call: its distances are known, its costs are made, greedy's
\* assignments are complete.
Measured == stage \in {"store", "costs", "greedy", "hungarian"} \/ status = 200
Costed == stage \in {"greedy", "hungarian"} \/ status = 200
Solving == stage = "hungarian" \/ status = 200

StageInv ==
    /\ stage \in {"idle", "lookup", "measure", "store", "costs", "greedy", "hungarian",
                  "answered"}
    /\ request \in IF stage = "idle" THEN {NoRequest} ELSE Requests
    /\ injected \subseteq {"cache_backend", "source_dijkstra_matrix_builder"}
    /\ status \in {0, 200, 400, 500}
    /\ stage # "answered" => status = 0
    /\ stage \in {"lookup", "store"} => CacheUsed

\* What the cache holds under a key, unless it is foreign, fits every request
\* with that key.
CacheInv ==
    /\ DOMAIN cache = Keys
    /\ \A r \in Requests : r.use_cache =>
          cache[KeyOf[r]] \in Foreign \cup {Absent} \/ Fits(cache[KeyOf[r]], r)

DistancesInv ==
    /\ CacheInv
    /\ stage \in {"idle", "lookup", "measure"} => distances = NoMatrix /\ ~cache_hit
    /\ distances # NoMatrix => Fits(distances, request)
    /\ Measured \/ cache_hit => distances # NoMatrix

CostsInv ==
    /\ ~Costed => cost = <<>> /\ greedy = {}
    /\ Costed =>
          /\ \A d \in DOMAIN drivers : drivers[d].current_load <= drivers[d].max_capacity
          /\ slots # <<>>
          /\ cost = CostMatrix(drivers, slots, distances,
                               request.load_penalty_m, request.slot_penalty_m)

GreedyInOrder ==
    \A pair \in greedy : slots[pair[1]].driver_slot_index > 0 =>
        \E other \in greedy : other[1] = pair[1] - 1

GreedyInv ==
    Costed =>
        /\ greedy \subseteq (DOMAIN slots) \X (DOMAIN orders)
        /\ OneToOne(greedy)
        /\ GreedyInOrder
        /\ Cardinality(greedy) <= target_assignment_count
        /\ Solving => Cardinality(greedy) = target_assignment_count

SolvingInv ==
    /\ ~Solving => used_col = {} /\ current_row = 0 /\ current_col = 0 /\ pc = "rest"
    /\ Solving => SolverInv /\ AllEntered
    /\ status = 200 => pc = "done"

DispatchInv == StageInv /\ DistancesInv /\ CostsInv /\ GreedyInv /\ SolvingInv

Given == SUBSET {"cache_backend", "source_dijkstra_matrix_builder"}

LEMMA StageInit == Init => StageInv
BY DEF Init, StageInv

LEMMA StageStep ==
    ASSUME StageInv, [Next]_vars
    PROVE  StageInv'
<1>1. ASSUME NEW r \in Requests, NEW given \in Given, Submit(r, given)
      PROVE  StageInv'
  <2>1. stage = "idle" /\ request' = r /\ injected' = given /\ status = 0
    BY <1>1 DEF Submit, StageInv
  <2>2. CASE Answer(400)
    BY <2>1, <2>2 DEF Answer, StageInv, Given
  <2>3. CASE Continue(IF CacheUsed' THEN "lookup" ELSE "measure")
    BY <2>1, <2>3 DEF Continue, StageInv, Given
  <2>. QED BY <1>1, <2>2, <2>3 DEF Submit
<1>2. CASE LookupHit
  BY <1>2 DEF LookupHit, StageInv, CacheUsed, Continue, CallKept
<1>3. CASE LookupMiss
  BY <1>3 DEF LookupMiss, StageInv, CacheUsed, Continue, CallKept
<1>4. CASE LookupRaises
  BY <1>4 DEF LookupRaises, StageInv, CacheUsed, Answer, CallKept
<1>5. CASE Measure
  BY <1>5 DEF Measure, StageInv, CacheUsed, Continue, CallKept
<1>6. CASE MeasureFails
  BY <1>6 DEF MeasureFails, StageInv, CacheUsed, Answer, CallKept
<1>7. CASE Store
  BY <1>7 DEF Store, StageInv, CacheUsed, Continue, CallKept
<1>8. CASE StoreFails
  BY <1>8 DEF StoreFails, StageInv, CacheUsed, Continue, Answer, CallKept
<1>9. CASE BuildCosts
  BY <1>9 DEF BuildCosts, StageInv, CacheUsed, Continue, Answer
<1>10. CASE GreedyPick
  BY <1>10 DEF GreedyPick, StageInv, CacheUsed, callVars
<1>11. CASE StartHungarian
  BY <1>11 DEF StartHungarian, StageInv, CacheUsed, Continue
<1>12. CASE RunHungarian
  BY <1>12 DEF RunHungarian, StageInv, CacheUsed, callVars
<1>13. CASE AnswerCompare
  BY <1>13 DEF AnswerCompare, StageInv, CacheUsed, Answer, CallKept
<1>14. CASE Return
  BY <1>14 DEF Return, StageInv, CacheUsed
<1>15. CASE Environment
  BY <1>15 DEF Environment, StageInv, CacheUsed, callVars
<1>16. CASE UNCHANGED vars
  BY <1>16 DEF vars, StageInv, CacheUsed, callVars
<1>. QED
  BY <1>1, <1>2, <1>3, <1>4, <1>5, <1>6, <1>7, <1>8, <1>9, <1>10, <1>11, <1>12, <1>13,
     <1>14, <1>15, <1>16 DEF Next, Step, Given

\* Nothing but the request and the distances changes before the costs are made.
Early ==
    /\ UNCHANGED <<greedy, cost, solverVars>>
    /\ ~Costed /\ ~Costed' /\ ~Solving /\ ~Solving' /\ status' # 200

EarlyStep ==
    \/ \E r \in Requests : \E given \in Given : Submit(r, given)
    \/ LookupHit \/ LookupMiss \/ LookupRaises
    \/ Measure \/ MeasureFails \/ Store \/ StoreFails \/ Environment

\* Neither matrix nor assignments change before the costs are made.
LEMMA EarlySteps ==
    ASSUME StageInv, EarlyStep
    PROVE  Early
<1>1. ASSUME NEW r \in Requests, NEW given \in Given, Submit(r, given)
      PROVE  Early
  <2>1. stage = "idle" /\ status = 0 /\ UNCHANGED <<greedy, cost, solverVars>>
    BY <1>1 DEF Submit, StageInv, Continue, Answer
  <2>2. stage' \in {"answered", "lookup", "measure"} /\ status' # 200
    BY <1>1, <2>1 DEF Submit, Continue, Answer
  <2>. QED BY <2>1, <2>2 DEF Early, Costed, Solving
<1>2. CASE LookupHit
  BY <1>2 DEF LookupHit, StageInv, Continue, CallKept, Early, Costed, Solving
<1>3. CASE LookupMiss
  BY <1>3 DEF LookupMiss, StageInv, Continue, CallKept, Early, Costed, Solving
<1>4. CASE LookupRaises
  BY <1>4 DEF LookupRaises, StageInv, Answer, CallKept, Early, Costed, Solving
<1>5. CASE Measure
  BY <1>5 DEF Measure, StageInv, Continue, CallKept, Early, Costed, Solving
<1>6. CASE MeasureFails
  BY <1>6 DEF MeasureFails, StageInv, Answer, CallKept, Early, Costed, Solving
<1>7. CASE Store
  BY <1>7 DEF Store, StageInv, Continue, CallKept, Early, Costed, Solving
<1>8. CASE StoreFails
  BY <1>8 DEF StoreFails, StageInv, Continue, Answer, CallKept, Early, Costed, Solving
<1>9. CASE Environment
  BY <1>9 DEF Environment, StageInv, callVars, Early, Costed, Solving
<1>. QED
  BY <1>1, <1>2, <1>3, <1>4, <1>5, <1>6, <1>7, <1>8, <1>9 DEF EarlyStep

\* Storing what fits one request of a key keeps the cache fitting for all.
LEMMA StoredFits ==
    ASSUME CacheInv, NEW s \in Requests, s.use_cache, NEW matrix, Fits(matrix, s),
           cache' = [cache EXCEPT ![KeyOf[s]] = matrix]
    PROVE  CacheInv'
<1>1. DOMAIN cache' = Keys
  BY DEF CacheInv
<1>2. ASSUME NEW r \in Requests, r.use_cache
      PROVE  cache'[KeyOf[r]] \in Foreign \cup {Absent} \/ Fits(cache'[KeyOf[r]], r)
  <2>1. KeyOf[r] \in DOMAIN cache
    BY <1>2 DEF CacheInv, Keys
  <2>2. CASE KeyOf[r] = KeyOf[s]
    <3>1. cache'[KeyOf[r]] = matrix
      BY <2>1, <2>2
    <3>. QED BY <2>2, <3>1, SameKeyFits
  <2>3. CASE KeyOf[r] # KeyOf[s]
    <3>1. cache'[KeyOf[r]] = cache[KeyOf[r]]
      BY <2>1, <2>3
    <3>. QED BY <1>2, <3>1 DEF CacheInv
  <2>. QED BY <2>2, <2>3
<1>. QED BY <1>1, <1>2 DEF CacheInv

LEMMA ForeignFits ==
    ASSUME CacheInv, NEW k, NEW junk \in Foreign \cup {Absent},
           cache' = [cache EXCEPT ![k] = junk]
    PROVE  CacheInv'
<1>1. DOMAIN cache' = Keys
  BY DEF CacheInv
<1>2. ASSUME NEW r \in Requests, r.use_cache
      PROVE  cache'[KeyOf[r]] \in Foreign \cup {Absent} \/ Fits(cache'[KeyOf[r]], r)
  <2>1. KeyOf[r] \in DOMAIN cache
    BY <1>2 DEF CacheInv, Keys
  <2>2. cache'[KeyOf[r]] = junk \/ cache'[KeyOf[r]] = cache[KeyOf[r]]
    BY <2>1
  <2>. QED BY <1>2, <2>2 DEF CacheInv
<1>. QED BY <1>1, <1>2 DEF CacheInv

LEMMA SameCache == CacheInv /\ UNCHANGED cache => CacheInv'
BY DEF CacheInv

LEMMA FittingIsMatrix ==
    ASSUME NEW r \in Requests, NEW matrix, Fits(matrix, r)
    PROVE  matrix # NoMatrix
<1>1. matrix \in [1 .. Len(r.drivers) -> [1 .. Len(r.orders) -> Nat]]
  BY RequestShape DEF Fits
<1>2. Len(r.drivers) \in Nat /\ Len(r.orders) \in Nat
  BY RequestShape
<1>3. \A d \in 1 .. Len(r.drivers) : matrix[d] \in Seq(Nat)
  BY <1>1, <1>2
<1>4. matrix \in [1 .. Len(r.drivers) -> Seq(Nat)]
  BY <1>1, <1>3
<1>5. matrix \in Seq(Seq(Nat))
  BY <1>2, <1>4
<1>. QED BY <1>5, DispatchSentinelsAssumption

LEMMA DistancesInit == Init => DistancesInv
<1> SUFFICES ASSUME Init PROVE DistancesInv
  OBVIOUS
<1>1. /\ cache = [k \in Keys |-> Absent] /\ stage = "idle" /\ distances = NoMatrix
      /\ cache_hit = FALSE /\ status = 0
  BY DEF Init
<1>2. CacheInv
  BY <1>1 DEF CacheInv, Keys
<1>. QED BY <1>1, <1>2 DEF DistancesInv, Measured

LEMMA DistancesStep ==
    ASSUME StageInv, DistancesInv, [Next]_vars
    PROVE  DistancesInv'
<1>1. ASSUME NEW r \in Requests, NEW given \in Given, Submit(r, given)
      PROVE  DistancesInv'
  <2>1. /\ stage = "idle" /\ distances' = NoMatrix /\ ~cache_hit'
        /\ stage' \in {"answered", "lookup", "measure"} /\ status' # 200 /\ UNCHANGED cache
    BY <1>1 DEF Submit, StageInv, Continue, Answer, DistancesInv
  <2>. QED BY <2>1, SameCache DEF DistancesInv, Measured
<1>2. CASE LookupHit
  <2>1. /\ stage = "lookup" /\ request \in Requests /\ request.use_cache
        /\ request' = request /\ status' # 200 /\ distances' = cache[KeyOf[request]]
        /\ cache[KeyOf[request]] \notin Foreign \cup {Absent} /\ stage' = "costs" /\ UNCHANGED cache
    BY <1>2 DEF LookupHit, StageInv, CacheUsed, Continue, CallKept, Value
  <2>2. Fits(distances', request')
    BY <2>1 DEF DistancesInv, CacheInv
  <2>3. distances' # NoMatrix
    BY <2>1, <2>2, FittingIsMatrix
  <2>. QED BY <2>1, <2>2, <2>3, SameCache DEF DistancesInv
<1>3. CASE LookupMiss
  <2>1. /\ UNCHANGED <<distances, cache_hit, cache>> /\ stage' = "measure" /\ status' # 200
        /\ distances = NoMatrix /\ ~cache_hit
    BY <1>3 DEF LookupMiss, StageInv, DistancesInv, Continue, CallKept
  <2>. QED BY <2>1, SameCache DEF DistancesInv, Measured
<1>4. CASE LookupRaises
  <2>1. /\ UNCHANGED <<distances, cache_hit, cache>> /\ stage' = "answered" /\ status' # 200
        /\ distances = NoMatrix /\ ~cache_hit
    BY <1>4 DEF LookupRaises, StageInv, DistancesInv, Answer, CallKept
  <2>. QED BY <2>1, SameCache DEF DistancesInv, Measured
<1>5. CASE Measure
  <2>1. /\ request \in Requests /\ request' = request /\ distances' \in Matrices(request)
        /\ stage' \in {"store", "costs"} /\ UNCHANGED cache
    BY <1>5 DEF Measure, StageInv, Continue, CallKept
  <2>2. Fits(distances', request')
    BY <2>1, MeasuredFits
  <2>3. distances' # NoMatrix
    BY <2>1, <2>2, FittingIsMatrix
  <2>. QED BY <2>1, <2>2, <2>3, SameCache DEF DistancesInv
<1>6. CASE MeasureFails
  <2>1. /\ UNCHANGED <<distances, cache_hit, cache>> /\ stage' = "answered" /\ status' # 200
        /\ distances = NoMatrix /\ ~cache_hit
    BY <1>6 DEF MeasureFails, StageInv, DistancesInv, Answer, CallKept
  <2>. QED BY <2>1, SameCache DEF DistancesInv, Measured
<1>7. CASE Store
  <2>1. /\ request \in Requests /\ request.use_cache /\ UNCHANGED <<distances, cache_hit, request>>
        /\ stage' = "costs" /\ cache' = [cache EXCEPT ![KeyOf[request]] = distances]
        /\ distances # NoMatrix
    BY <1>7 DEF Store, StageInv, CacheUsed, Continue, CallKept, DistancesInv, Measured
  <2>2. Fits(distances, request) /\ CacheInv
    BY <2>1 DEF DistancesInv
  <2>3. CacheInv'
    BY <2>1, <2>2, StoredFits
  <2>. QED BY <2>1, <2>2, <2>3 DEF DistancesInv
<1>8. ASSUME UNCHANGED <<distances, cache_hit, cache, request>>, Measured,
             stage' \notin {"idle", "lookup", "measure"}
      PROVE  DistancesInv'
  BY <1>8, SameCache DEF DistancesInv
<1>9. CASE StoreFails
  BY <1>8, <1>9 DEF StoreFails, Measured, Continue, Answer, CallKept
<1>10. CASE BuildCosts
  BY <1>8, <1>10 DEF BuildCosts, Measured, Continue, Answer
<1>11. CASE GreedyPick
  BY <1>8, <1>11 DEF GreedyPick, Measured, callVars
<1>12. CASE StartHungarian
  BY <1>8, <1>12 DEF StartHungarian, Measured, Continue
<1>13. CASE RunHungarian
  BY <1>8, <1>13 DEF RunHungarian, Measured, callVars
<1>14. CASE AnswerCompare
  BY <1>8, <1>14 DEF AnswerCompare, Measured, Answer, CallKept
<1>15. CASE Return
  BY <1>15, SameCache DEF Return, DistancesInv, Measured
<1>16. CASE Environment
  <2>1. UNCHANGED callVars
    BY <1>16 DEF Environment
  <2>2. CacheInv'
    <3>1. CacheInv
      BY DEF DistancesInv
    <3>2. ASSUME NEW k \in Keys, Forget(k) PROVE CacheInv'
      BY <3>1, <3>2, ForeignFits DEF Forget
    <3>3. ASSUME NEW k \in Keys, NEW junk \in Foreign, Pollute(k, junk) PROVE CacheInv'
      BY <3>1, <3>3, ForeignFits DEF Pollute
    <3>4. ASSUME NEW r \in Requests, StoreOther(r) PROVE CacheInv'
      <4>1. PICK matrix \in Matrices(r) : cache' = [cache EXCEPT ![KeyOf[r]] = matrix]
        BY <3>4 DEF StoreOther
      <4>2. r.use_cache /\ Fits(matrix, r)
        BY <3>4, <4>1, MeasuredFits DEF StoreOther
      <4>. QED BY <3>1, <4>1, <4>2, StoredFits
    <3>. QED BY <1>16, <3>2, <3>3, <3>4 DEF Environment
  <2>. QED BY <2>1, <2>2 DEF DistancesInv, Measured, callVars
<1>17. CASE UNCHANGED vars
  BY <1>17, SameCache DEF vars, callVars, DistancesInv, Measured
<1>. QED
  BY <1>1, <1>2, <1>3, <1>4, <1>5, <1>6, <1>7, <1>9, <1>10, <1>11, <1>12, <1>13,
     <1>14, <1>15, <1>16, <1>17 DEF Next, Step, Given

---------------------------------------------------------------------------
(* Slots and costs of the call at hand.                                    *)

\* The drivers, orders and slots of the call at hand.
LEMMA CallShape ==
    ASSUME request \in Requests
    PROVE  /\ Len(orders) \in Nat \ {0} /\ DOMAIN orders = 1 .. Len(orders)
           /\ Len(slots) \in Nat /\ DOMAIN slots = 1 .. Len(slots)
           /\ \A d \in DOMAIN drivers :
                 /\ drivers[d].current_load \in Nat /\ drivers[d].max_capacity \in Nat
                 /\ AvailableCapacity(drivers[d]) \in Nat
                 /\ IsFiniteSet(SlotsOf(slots, d))
                 /\ Cardinality(SlotsOf(slots, d)) = AvailableCapacity(drivers[d])
           /\ \A i \in DOMAIN slots :
                 slots[i].driver_index \in DOMAIN drivers /\ slots[i].driver_slot_index \in Nat
           /\ \A i \in DOMAIN slots : slots[i].driver_slot_index > 0 =>
                 /\ i - 1 \in DOMAIN slots
                 /\ slots[i - 1].driver_index = slots[i].driver_index
                 /\ slots[i - 1].driver_slot_index = slots[i].driver_slot_index - 1
           /\ request.load_penalty_m \in Nat /\ request.slot_penalty_m \in Nat
<1> DEFINE n == Len(request.drivers)
           m == Len(request.orders)
<1>1. /\ n \in Nat \ {0} /\ m \in Nat \ {0}
      /\ DOMAIN drivers = 1 .. n /\ DOMAIN orders = 1 .. m
      /\ \A d \in 1 .. n :
            drivers[d].current_load \in Nat /\ drivers[d].max_capacity \in Nat
      /\ request.load_penalty_m \in Nat /\ request.slot_penalty_m \in Nat
  BY RequestShape DEF drivers, orders
<1>2. \E S : orders \in Seq(S)
  <2>1. request.orders \in Seq(Orders)
    BY DispatchRequestsAssumption DEF CompareRequests
  <2>2. \A o \in 1 .. m : orders[o] \in Orders
    BY RequestShape DEF orders
  <2>3. orders = [o \in 1 .. m |-> orders[o]]
    BY <1>1 DEF orders, Stripped
  <2>4. orders \in [1 .. m -> Orders]
    BY <2>2, <2>3
  <2>5. orders \in Seq(Orders)
    BY <1>1, <2>4
  <2>. QED BY <2>5
<1>3. \A d \in 1 .. n : AvailableCapacity(drivers[d]) \in Nat
  BY <1>1 DEF AvailableCapacity
<1> DEFINE T == [driver_index : 1 .. n, driver_slot_index : Nat]
<1> HIDE DEF n, m
<1>4. /\ slots \in Seq(T)
      /\ \A i \in DOMAIN slots : slots[i].driver_slot_index > 0 =>
            /\ i - 1 \in DOMAIN slots
            /\ slots[i - 1].driver_index = slots[i].driver_index
            /\ slots[i - 1].driver_slot_index = slots[i].driver_slot_index - 1
      /\ \A d \in 1 .. n :
            /\ IsFiniteSet(SlotsOf(slots, d))
            /\ Cardinality(SlotsOf(slots, d)) = AvailableCapacity(drivers[d])
  <2> DEFINE ds == drivers
             s == slots
  <2>1. s = DriverSlots(ds)
    BY DEF slots
  <2>2. n \in Nat \ {0} /\ DOMAIN ds = 1 .. n /\ \A d \in 1 .. n : AvailableCapacity(ds[d]) \in Nat
    BY <1>1, <1>3
  <2> HIDE DEF ds, s
  <2>3. s \in Seq(T)
    BY <2>1, <2>2, SlotsOrdered
  <2>4. InOrder(s) /\ RoomFilled(s, ds)
    BY <2>1, <2>2, SlotsOrdered
  <2>5. \A d \in 1 .. n :
           /\ IsFiniteSet(SlotsOf(s, d))
           /\ Cardinality(SlotsOf(s, d)) = AvailableCapacity(ds[d])
    BY <2>2, <2>4 DEF RoomFilled
  <2>. QED BY <2>3, <2>4, <2>5 DEF ds, s, InOrder
<1>5. Len(orders) = m
  BY <1>1, <1>2
<1>6. Len(slots) \in Nat /\ DOMAIN slots = 1 .. Len(slots)
  BY <1>4
<1>7. \A i \in DOMAIN slots :
         slots[i].driver_index \in 1 .. n /\ slots[i].driver_slot_index \in Nat
  <2>1. \A slot \in T : slot.driver_index \in 1 .. n /\ slot.driver_slot_index \in Nat
    OBVIOUS
  <2>2. \A i \in DOMAIN slots : slots[i] \in T
    <3> HIDE DEF T
    <3>. QED BY <1>4
  <2>. QED BY <2>1, <2>2
<1>. QED BY <1>1, <1>3, <1>4, <1>5, <1>6, <1>7

\* What slot i costs an order, whichever it is.
SlotCost(i) ==
    drivers[slots[i].driver_index].current_load * request.load_penalty_m
        + slots[i].driver_slot_index * request.slot_penalty_m

\* CostMatrix is a matrix of natural numbers, one row per slot.
LEMMA CostShape ==
    ASSUME request \in Requests, Fits(distances, request), slots # <<>>,
           NEW matrix,
           matrix = CostMatrix(drivers, slots, distances,
                               request.load_penalty_m, request.slot_penalty_m)
    PROVE  /\ matrix \in [DOMAIN slots -> [DOMAIN orders -> Nat]]
           /\ matrix \in Seq(Seq(Nat) \ {<<>>}) \ {<<>>}
           /\ Len(matrix) = Len(slots)
           /\ \A i \in DOMAIN slots : Len(matrix[i]) = Len(orders)
           /\ \A i \in DOMAIN slots : \A o \in DOMAIN orders :
                 /\ distances[slots[i].driver_index][o] \in Nat /\ SlotCost(i) \in Nat
                 /\ matrix[i][o] = distances[slots[i].driver_index][o] + SlotCost(i)
<1>1. distances \in [DOMAIN drivers -> [DOMAIN orders -> Nat]]
  BY DEF Fits, drivers, orders
<1>2. ASSUME NEW i \in DOMAIN slots
      PROVE  /\ SlotCost(i) \in Nat
             /\ matrix[i] = [o \in DOMAIN orders |->
                                distances[slots[i].driver_index][o] + SlotCost(i)]
             /\ \A o \in DOMAIN orders : distances[slots[i].driver_index][o] \in Nat
  <2> DEFINE d == slots[i].driver_index
             load == drivers[d].current_load * request.load_penalty_m
             slot == slots[i].driver_slot_index * request.slot_penalty_m
  <2>1. d \in DOMAIN drivers
    BY CallShape
  <2>2. load \in Nat /\ slot \in Nat
    BY <2>1, CallShape, ProductNat
  <2>3. \A o \in DOMAIN orders : distances[d][o] \in Nat
    BY <1>1, <2>1
  <2>4. DOMAIN distances[d] = DOMAIN orders
    BY <1>1, <2>1
  <2>5. matrix[i] = [o \in DOMAIN orders |-> distances[d][o] + load + slot]
    BY <2>4 DEF CostMatrix
  <2>6. \A o \in DOMAIN orders : distances[d][o] + load + slot = distances[d][o] + (load + slot)
    <3> HIDE DEF load, slot
    <3>1. \A x \in Nat : x + load + slot = x + (load + slot)
      BY <2>2
    <3>. QED BY <2>3, <3>1
  <2>7. SlotCost(i) = load + slot
    BY DEF SlotCost
  <2> HIDE DEF load, slot
  <2>8. SlotCost(i) \in Nat
    BY <2>2, <2>7
  <2>. QED BY <2>3, <2>5, <2>6, <2>7, <2>8
<1>3. ASSUME NEW i \in DOMAIN slots PROVE matrix[i] \in [DOMAIN orders -> Nat]
  <2> DEFINE row == distances[slots[i].driver_index]
  <2>1. /\ SlotCost(i) \in Nat /\ \A o \in DOMAIN orders : row[o] \in Nat
        /\ matrix[i] = [o \in DOMAIN orders |-> row[o] + SlotCost(i)]
    BY <1>2
  <2> HIDE DEF row
  <2>2. \A o \in DOMAIN orders : row[o] + SlotCost(i) \in Nat
    BY <2>1
  <2>. QED BY <2>1, <2>2
<1>4. matrix \in [DOMAIN slots -> [DOMAIN orders -> Nat]]
  <2>1. matrix = [i \in DOMAIN slots |-> matrix[i]]
    BY DEF CostMatrix
  <2>. QED BY <1>3, <2>1
<1>5. /\ Len(orders) \in Nat \ {0} /\ DOMAIN orders = 1 .. Len(orders)
      /\ Len(slots) \in Nat /\ DOMAIN slots = 1 .. Len(slots)
  BY CallShape
<1>6. \A i \in DOMAIN slots : matrix[i] \in Seq(Nat) \ {<<>>} /\ Len(matrix[i]) = Len(orders)
  BY <1>3, <1>5
<1>7. matrix \in Seq(Seq(Nat) \ {<<>>}) /\ Len(matrix) = Len(slots)
  <2>1. matrix \in [1 .. Len(slots) -> Seq(Nat) \ {<<>>}]
    BY <1>4, <1>5, <1>6
  <2>. QED BY <1>5, <2>1
<1>8. matrix # <<>>
  <2>1. Len(slots) # 0
    BY CallShape
  <2>. QED BY <1>7, <2>1
<1>. QED BY <1>2, <1>4, <1>6, <1>7, <1>8

---------------------------------------------------------------------------
(* The invariant is kept.                                                  *)

LEMMA Steps ==
    ASSUME [Next]_vars
    PROVE  \/ EarlyStep \/ BuildCosts \/ GreedyPick \/ StartHungarian \/ RunHungarian
           \/ AnswerCompare \/ Return \/ UNCHANGED vars
BY DEF Next, Step, EarlyStep, Given

LEMMA SameRequest ==
    ASSUME UNCHANGED request
    PROVE  drivers' = drivers /\ orders' = orders /\ slots' = slots
BY DEF drivers, orders, slots

LEMMA SameCall ==
    ASSUME UNCHANGED callVars
    PROVE  /\ drivers' = drivers /\ orders' = orders /\ slots' = slots
           /\ (Costed' <=> Costed) /\ (Solving' <=> Solving)
           /\ UNCHANGED <<stage, request, distances, status>>
BY DEF callVars, drivers, orders, slots, Costed, Solving

LEMMA LaterInit == Init => CostsInv /\ GreedyInv /\ SolvingInv
BY DEF Init, CostsInv, GreedyInv, SolvingInv, Costed, Solving

LEMMA SolverKeepsCost == StartRow \/ GrowTree \/ Augment \/ Finish => UNCHANGED cost
BY DEF StartRow, GrowTree, Augment, Finish

LEMMA CostsStep ==
    ASSUME StageInv, CostsInv, [Next]_vars
    PROVE  CostsInv'
<1>1. CASE EarlyStep
  BY <1>1, EarlySteps DEF Early, CostsInv
<1>2. CASE BuildCosts
  <2>1. /\ stage = "costs" /\ status = 0 /\ greedy = {} /\ cost = <<>>
        /\ UNCHANGED <<request, distances, greedy>>
    BY <1>2 DEF BuildCosts, StageInv, CostsInv, Costed
  <2>2. drivers' = drivers /\ slots' = slots
    BY <2>1, SameRequest
  <2>3. CASE Answer(400) /\ UNCHANGED cost
    BY <2>1, <2>3 DEF Answer, CostsInv, Costed
  <2>4. CASE /\ \A d \in DOMAIN drivers : drivers[d].current_load <= drivers[d].max_capacity
             /\ slots # <<>>
             /\ cost' = CostMatrix(drivers, slots, distances,
                                   request.load_penalty_m, request.slot_penalty_m)
             /\ Continue("greedy")
    <3>1. Costed'
      BY <2>4 DEF Continue, Costed
    <3>. QED BY <2>1, <2>2, <2>4, <3>1 DEF CostsInv
  <2>. QED BY <1>2, <2>3, <2>4 DEF BuildCosts
<1>3. ASSUME Costed, UNCHANGED <<request, distances, cost>>, Costed'
      PROVE  CostsInv'
  <2>1. drivers' = drivers /\ slots' = slots
    BY <1>3, SameRequest
  <2>. QED BY <1>3, <2>1 DEF CostsInv
<1>4. CASE GreedyPick
  BY <1>3, <1>4 DEF GreedyPick, callVars, Costed
<1>5. CASE StartHungarian
  BY <1>3, <1>5 DEF StartHungarian, Continue, Costed
<1>6. CASE RunHungarian
  BY <1>3, <1>6, SolverKeepsCost DEF RunHungarian, callVars, Costed
<1>7. CASE AnswerCompare
  BY <1>3, <1>7 DEF AnswerCompare, CallKept, Answer, Costed
<1>8. CASE Return
  BY <1>8 DEF Return, CostsInv, Costed
<1>9. CASE UNCHANGED vars
  <2>1. UNCHANGED callVars /\ UNCHANGED <<greedy, cost>>
    BY <1>9 DEF vars
  <2>. QED BY <2>1, SameCall DEF CostsInv
<1>. QED BY <1>1, <1>2, <1>4, <1>5, <1>6, <1>7, <1>8, <1>9, Steps

LEMMA StillSolving ==
    ASSUME SolverInv, AllEntered, UNCHANGED <<cost, solverVars>>
    PROVE  SolverInv' /\ AllEntered'
<1>1. UNCHANGED hungarianVars
  BY DEF hungarianVars, solverVars
<1>2. SolverInv'
  BY <1>1, StutterSolver
<1>3. row_count' = row_count
  BY <1>1, SameSizes DEF hungarianVars
<1>. QED BY <1>1, <1>2, <1>3 DEF AllEntered, hungarianVars

\* The matrix dispatch builds is one the solver accepts.
LEMMA DispatchMatrixValid ==
    ASSUME StageInv, DistancesInv, CostsInv, Costed
    PROVE  /\ ValidMatrix /\ RowCount = Len(slots) /\ ColCount = Len(orders)
           /\ request \in Requests
           /\ cost \in [DOMAIN slots -> [DOMAIN orders -> Nat]]
           /\ \A i \in DOMAIN slots : \A o \in DOMAIN orders :
                 /\ distances[slots[i].driver_index][o] \in Nat /\ SlotCost(i) \in Nat
                 /\ cost[i][o] = distances[slots[i].driver_index][o] + SlotCost(i)
<1>1. request \in Requests
  BY DEF StageInv, Costed
<1>2. /\ slots # <<>>
      /\ cost = CostMatrix(drivers, slots, distances,
                           request.load_penalty_m, request.slot_penalty_m)
  BY DEF CostsInv
<1>3. Fits(distances, request)
  BY DEF DistancesInv, Measured, Costed
<1>4. /\ cost \in [DOMAIN slots -> [DOMAIN orders -> Nat]]
      /\ cost \in Seq(Seq(Nat) \ {<<>>}) \ {<<>>}
      /\ Len(cost) = Len(slots)
      /\ \A i \in DOMAIN slots : Len(cost[i]) = Len(orders)
      /\ \A i \in DOMAIN slots : \A o \in DOMAIN orders :
            /\ distances[slots[i].driver_index][o] \in Nat /\ SlotCost(i) \in Nat
            /\ cost[i][o] = distances[slots[i].driver_index][o] + SlotCost(i)
  BY <1>1, <1>2, <1>3, CostShape
<1>5. DOMAIN cost = DOMAIN slots /\ 1 \in DOMAIN slots
  BY <1>2, <1>4, CallShape, <1>1
<1>. QED BY <1>1, <1>4, <1>5 DEF ValidMatrix, RowCount, ColCount

LEMMA SolvingStep ==
    ASSUME StageInv, DistancesInv, CostsInv, SolvingInv, [Next]_vars
    PROVE  SolvingInv'
<1>1. CASE EarlyStep
  BY <1>1, EarlySteps DEF Early, SolvingInv, solverVars
<1>2. CASE BuildCosts
  <2>1. /\ stage = "costs" /\ status = 0 /\ UNCHANGED solverVars
        /\ stage' # "hungarian" /\ status' # 200
    BY <1>2 DEF BuildCosts, StageInv, Continue, Answer
  <2>. QED BY <2>1 DEF SolvingInv, Solving, solverVars
<1>3. CASE GreedyPick
  <2>1. stage = "greedy" /\ status = 0 /\ UNCHANGED <<solverVars, callVars>>
    BY <1>3 DEF GreedyPick, StageInv
  <2>. QED BY <2>1, SameCall DEF SolvingInv, Solving, solverVars
<1>4. CASE StartHungarian
  <2>1. /\ stage = "greedy" /\ status = 0 /\ stage' = "hungarian" /\ status' = 0
        /\ UNCHANGED <<used_col, current_row, current_col, cost>>
        /\ row_potential' = [i \in Rows |-> 0]
        /\ col_potential' = [j \in ColsAndRoot |-> 0]
        /\ matching_row_for_col' = [j \in ColsAndRoot |-> 0]
        /\ previous_col' = [j \in Cols |-> 0]
        /\ min_slack' = [j \in Cols |-> Infinity]
        /\ pc' = "row"
    BY <1>4 DEF StartHungarian, StageInv, Continue
  <2>2. used_col = {} /\ current_row = 0 /\ current_col = 0
    BY <2>1 DEF SolvingInv, Solving
  <2>3. ValidMatrix
    BY <2>1, DispatchMatrixValid DEF Costed
  <2>4. HungarianInit'
    BY <2>1, <2>2, <2>3, SameSizes DEF HungarianInit
  <2>5. SolverInv'
    BY <2>4, InitSolver, PTL
  <2>6. AllEntered' /\ status' # 200
    BY <2>1 DEF AllEntered
  <2>7. Solving'
    BY <2>1 DEF Solving
  <2>. QED BY <2>5, <2>6, <2>7 DEF SolvingInv
<1>5. CASE RunHungarian
  <2>1. /\ stage = "hungarian" /\ status = 0 /\ UNCHANGED callVars
        /\ SolverInv /\ AllEntered
    BY <1>5 DEF RunHungarian, StageInv, SolvingInv, Solving
  <2>2. Solving' /\ status' # 200
    BY <2>1, SameCall DEF Solving
  <2>3. CASE StartRow
    <3>1. SolverInv'
      BY <2>1, <2>3, StartRowSolver
    <3>2. AllEntered'
      BY <2>3 DEF StartRow, AllEntered
    <3>. QED BY <2>2, <3>1, <3>2 DEF SolvingInv
  <2>4. CASE GrowTree
    <3>1. SolverInv'
      BY <2>1, <2>4, GrowTreeSolver
    <3>2. AllEntered'
      BY <2>4 DEF GrowTree, Move, AllEntered
    <3>. QED BY <2>2, <3>1, <3>2 DEF SolvingInv
  <2>5. CASE Augment
    <3>1. SolverInv'
      BY <2>1, <2>5, AugmentSolver
    <3>2. AllEntered'
      BY <2>5 DEF Augment, AllEntered
    <3>. QED BY <2>2, <3>1, <3>2 DEF SolvingInv
  <2>6. CASE Finish
    <3>1. SolverInv'
      BY <2>1, <2>6, FinishSolver
    <3>2. AllEntered'
      BY <2>6, SameSizes DEF Finish, AllEntered
    <3>. QED BY <2>2, <3>1, <3>2 DEF SolvingInv
  <2>. QED BY <1>5, <2>3, <2>4, <2>5, <2>6 DEF RunHungarian
<1>6. CASE AnswerCompare
  <2>1. /\ stage = "hungarian" /\ pc = "done" /\ UNCHANGED <<cost, solverVars>>
        /\ status' = 200
    BY <1>6 DEF AnswerCompare, Answer, CallKept
  <2>2. SolverInv' /\ AllEntered'
    BY <2>1, StillSolving DEF SolvingInv, Solving
  <2>. QED BY <2>1, <2>2 DEF SolvingInv, Solving, solverVars
<1>7. CASE Return
  BY <1>7 DEF Return, SolvingInv, Solving
<1>8. CASE UNCHANGED vars
  <2>1. UNCHANGED callVars /\ UNCHANGED <<cost, solverVars>>
    BY <1>8 DEF vars
  <2>2. SolverInv /\ AllEntered => SolverInv' /\ AllEntered'
    BY <2>1, StillSolving
  <2>. QED BY <2>1, <2>2, SameCall DEF SolvingInv, solverVars
<1>. QED BY <1>1, <1>2, <1>3, <1>4, <1>5, <1>6, <1>7, <1>8, Steps

\* min(row_count, col_count)
LEMMA TargetIs ==
    ASSUME request \in Requests
    PROVE  target_assignment_count =
               IF Len(slots) <= Len(orders) THEN Len(slots) ELSE Len(orders)
<1> DEFINE a == Len(slots)
           b == Len(orders)
<1>1. a \in Nat /\ b \in Nat
  BY CallShape
<1> HIDE DEF a, b
<1>2. \A x \in {a, b} : (\A y \in {a, b} : x <= y) => x = IF a <= b THEN a ELSE b
  BY <1>1
<1>3. \E x \in {a, b} : \A y \in {a, b} : x <= y
  BY <1>1
<1>4. Min({a, b}) = IF a <= b THEN a ELSE b
  BY <1>2, <1>3 DEF Min
<1>. QED BY <1>4 DEF a, b, target_assignment_count

LEMMA GridFinite ==
    ASSUME request \in Requests, NEW pairs \in SUBSET ((DOMAIN slots) \X (DOMAIN orders))
    PROVE  /\ IsFiniteSet(pairs) /\ Cardinality(pairs) \in Nat
           /\ IsFiniteSet(DOMAIN slots) /\ Cardinality(DOMAIN slots) = Len(slots)
           /\ IsFiniteSet(DOMAIN orders) /\ Cardinality(DOMAIN orders) = Len(orders)
<1> DEFINE a == Len(slots)
           b == Len(orders)
<1>1. a \in Nat /\ b \in Nat /\ DOMAIN slots = 1 .. a /\ DOMAIN orders = 1 .. b
  BY CallShape
<1> HIDE DEF a, b
<1>2. /\ IsFiniteSet(1 .. a) /\ IsFiniteSet(1 .. b)
      /\ Cardinality(1 .. a) = a /\ Cardinality(1 .. b) = b
  BY <1>1, FS_Interval
<1>3. IsFiniteSet((1 .. a) \X (1 .. b))
  BY <1>2, FS_Product
<1>4. IsFiniteSet(pairs)
  BY <1>1, <1>3, FS_Subset
<1>5. Cardinality(pairs) \in Nat
  BY <1>4, FS_CardinalityType
<1>. QED BY <1>1, <1>2, <1>4, <1>5 DEF a, b

\* A pair that sorts first uses the first slot its driver has left: the slot
\* before it would cost no more and sort earlier.
LEMMA CheapestInOrder ==
    ASSUME StageInv, DistancesInv, CostsInv, GreedyInv, Costed,
           NEW pair \in Candidates,
           \A other \in Candidates \ {pair} : Before(pair, other),
           slots[pair[1]].driver_slot_index > 0
    PROVE  \E other \in greedy : other[1] = pair[1] - 1
<1> DEFINE i == pair[1]
           o == pair[2]
           earlier == <<i - 1, o>>
<1>1. i \in DOMAIN slots /\ o \in DOMAIN orders /\ pair = <<i, o>>
  BY DEF Candidates
<1>2. \A taken \in greedy : taken[2] # o
  BY DEF Candidates
<1>3. request \in Requests
  BY DispatchMatrixValid
<1>4. /\ i - 1 \in DOMAIN slots
      /\ slots[i - 1].driver_index = slots[i].driver_index
      /\ slots[i - 1].driver_slot_index = slots[i].driver_slot_index - 1
      /\ i \in Int
      /\ slots[i].driver_slot_index \in Nat
      /\ slots[i].driver_index \in DOMAIN drivers
      /\ request.load_penalty_m \in Nat /\ request.slot_penalty_m \in Nat
      /\ drivers[slots[i].driver_index].current_load \in Nat
  BY <1>1, <1>3, CallShape
<1>5. SUFFICES ASSUME \A other \in greedy : other[1] # i - 1
               PROVE  FALSE
  OBVIOUS
<1>6. earlier \in Candidates \ {pair}
  <2>1. earlier \in (DOMAIN slots) \X (DOMAIN orders) /\ earlier[1] = i - 1 /\ earlier[2] = o
    BY <1>1, <1>4
  <2>2. earlier # pair
    BY <1>1, <1>4
  <2> HIDE DEF earlier, i, o
  <2>. QED BY <1>2, <1>5, <2>1, <2>2 DEF Candidates
<1>7. Before(pair, earlier)
  BY <1>6
<1>8. CostOf(earlier) <= CostOf(pair) /\ CostOf(earlier) \in Int /\ CostOf(pair) \in Int
  <2> DEFINE far == distances[slots[i].driver_index][o]
             load == drivers[slots[i].driver_index].current_load * request.load_penalty_m
             k == slots[i].driver_slot_index
             s == request.slot_penalty_m
  <2>1. CostOf(pair) = far + SlotCost(i) /\ far \in Nat
    BY <1>1, DispatchMatrixValid DEF CostOf
  <2>2. CostOf(earlier) = far + SlotCost(i - 1)
    BY <1>1, <1>4, DispatchMatrixValid DEF CostOf
  <2>3. SlotCost(i) = load + k * s /\ SlotCost(i - 1) = load + (k - 1) * s
    BY <1>4 DEF SlotCost
  <2>4. load \in Nat /\ k \in Nat /\ s \in Nat
    BY <1>4, ProductNat
  <2> HIDE DEF far, load, k, s
  <2>5. k * s \in Int /\ (k - 1) * s = k * s - s
    BY <2>4
  <2>. QED BY <2>1, <2>2, <2>3, <2>4, <2>5
<1>9. earlier[1] = pair[1] - 1
  OBVIOUS
<1> HIDE DEF earlier
<1>. QED BY <1>4, <1>7, <1>8, <1>9 DEF Before

LEMMA GreedyPickKeeps ==
    ASSUME StageInv, DistancesInv, CostsInv, GreedyInv, GreedyPick
    PROVE  GreedyInv'
<1>1. /\ stage = "greedy" /\ UNCHANGED callVars /\ Costed
      /\ Cardinality(greedy) < target_assignment_count /\ status = 0
  BY DEF GreedyPick, Costed, StageInv
<1>2. /\ drivers' = drivers /\ orders' = orders /\ slots' = slots
      /\ ~Solving'
  BY <1>1, SameCall DEF Solving
<1>3. PICK pair \in Candidates :
          /\ \A other \in Candidates \ {pair} : Before(pair, other)
          /\ greedy' = greedy \cup {pair}
  BY DEF GreedyPick
<1>4. /\ greedy \subseteq (DOMAIN slots) \X (DOMAIN orders)
      /\ OneToOne(greedy) /\ GreedyInOrder
  BY <1>1 DEF GreedyInv
<1>5. /\ pair \in (DOMAIN slots) \X (DOMAIN orders)
      /\ \A taken \in greedy : pair[1] # taken[1] /\ pair[2] # taken[2]
  BY DEF Candidates
<1>6. OneToOne(greedy')
  BY <1>3, <1>4, <1>5 DEF OneToOne
<1>7. GreedyInOrder'
  <2>1. ASSUME NEW p \in greedy', slots[p[1]].driver_slot_index > 0
        PROVE  \E other \in greedy' : other[1] = p[1] - 1
    <3>1. CASE p \in greedy
      BY <1>3, <1>4, <2>1, <3>1 DEF GreedyInOrder
    <3>2. CASE p = pair
      BY <1>1, <1>3, <2>1, <3>2, CheapestInOrder
    <3>. QED BY <1>3, <3>1, <3>2
  <2>. QED BY <1>2, <2>1 DEF GreedyInOrder
<1>8. Cardinality(greedy') <= target_assignment_count'
  <2>1. request \in Requests
    BY <1>1 DEF StageInv
  <2>2. IsFiniteSet(greedy) /\ Cardinality(greedy) \in Nat
    BY <1>4, <2>1, GridFinite
  <2>3. pair \notin greedy
    BY <1>5
  <2>4. Cardinality(greedy') = Cardinality(greedy) + 1
    BY <1>3, <2>2, <2>3, FS_AddElement
  <2>5. target_assignment_count \in Nat
    BY <2>1, TargetIs, CallShape
  <2>6. target_assignment_count' = target_assignment_count
    BY <1>2 DEF target_assignment_count
  <2>. QED BY <1>1, <2>2, <2>4, <2>5, <2>6
<1>9. greedy' \subseteq (DOMAIN slots) \X (DOMAIN orders)
  BY <1>3, <1>4, <1>5
<1>. QED BY <1>2, <1>6, <1>7, <1>8, <1>9 DEF GreedyInv, OneToOne

LEMMA GreedyStep ==
    ASSUME StageInv, DistancesInv, CostsInv, GreedyInv, [Next]_vars
    PROVE  GreedyInv'
<1>1. CASE EarlyStep
  BY <1>1, EarlySteps DEF Early, GreedyInv
<1>2. CASE BuildCosts
  <2>1. /\ stage = "costs" /\ status = 0 /\ greedy' = {} /\ request \in Requests
        /\ UNCHANGED request /\ ~Solving'
    BY <1>2 DEF BuildCosts, StageInv, CostsInv, Costed, Solving, Continue, Answer
  <2>2. orders' = orders /\ slots' = slots
    BY <2>1, SameRequest
  <2>3. target_assignment_count \in Nat
    BY <2>1, TargetIs, CallShape
  <2>4. target_assignment_count' = target_assignment_count
    BY <2>2 DEF target_assignment_count
  <2>5. Cardinality(greedy') <= target_assignment_count'
    BY <2>1, <2>3, <2>4, FS_EmptySet
  <2>. QED BY <2>1, <2>5 DEF GreedyInv, OneToOne, GreedyInOrder
<1>3. CASE GreedyPick
  BY <1>3, GreedyPickKeeps
<1>4. ASSUME Costed, UNCHANGED <<request, greedy>>,
             Solving' => Cardinality(greedy) = target_assignment_count
      PROVE  GreedyInv'
  <2>1. orders' = orders /\ slots' = slots
    BY <1>4, SameRequest
  <2>2. target_assignment_count' = target_assignment_count
    BY <2>1 DEF target_assignment_count
  <2>. QED BY <1>4, <2>1, <2>2 DEF GreedyInv, GreedyInOrder, OneToOne
<1>5. CASE StartHungarian
  BY <1>4, <1>5 DEF StartHungarian, Costed
<1>6. CASE RunHungarian
  BY <1>4, <1>6 DEF RunHungarian, callVars, Costed, Solving, GreedyInv
<1>7. CASE AnswerCompare
  BY <1>4, <1>7 DEF AnswerCompare, CallKept, Costed, Solving, GreedyInv
<1>8. CASE Return
  BY <1>8 DEF Return, GreedyInv, Costed
<1>9. CASE UNCHANGED vars
  <2>1. UNCHANGED callVars /\ UNCHANGED greedy
    BY <1>9 DEF vars
  <2>2. target_assignment_count' = target_assignment_count
    BY <2>1, SameCall DEF target_assignment_count
  <2>. QED BY <2>1, <2>2, SameCall DEF GreedyInv, GreedyInOrder, OneToOne
<1>. QED BY <1>1, <1>2, <1>3, <1>5, <1>6, <1>7, <1>8, <1>9, Steps

\* Every call keeps the invariant, whatever is in the cache and whoever writes
\* there meanwhile (dispatch_service.py:48).
THEOREM DispatchCorrect == Spec => []DispatchInv
<1>1. Init => DispatchInv
  BY StageInit, DistancesInit, LaterInit DEF DispatchInv
<1>2. DispatchInv /\ [Next]_vars => DispatchInv'
  <2>1. SUFFICES ASSUME DispatchInv, [Next]_vars PROVE DispatchInv'
    OBVIOUS
  <2>2. StageInv /\ DistancesInv /\ CostsInv /\ GreedyInv /\ SolvingInv
    BY <2>1 DEF DispatchInv
  <2>3. StageInv'
    BY <2>1, <2>2, StageStep
  <2>4. DistancesInv'
    BY <2>1, <2>2, DistancesStep
  <2>5. CostsInv'
    BY <2>1, <2>2, CostsStep
  <2>6. GreedyInv'
    BY <2>1, <2>2, GreedyStep
  <2>7. SolvingInv'
    BY <2>1, <2>2, SolvingStep
  <2>. QED BY <2>3, <2>4, <2>5, <2>6, <2>7 DEF DispatchInv
<1>. QED BY <1>1, <1>2, PTL DEF Spec

---------------------------------------------------------------------------
(* Types and distances.                                                    *)

\* Every state of a call is of its type (dispatch_service.py:48).
THEOREM DispatchTyped == Spec => []TypeOK
<1>1. ASSUME DispatchInv PROVE TypeOK
  <2>1. StageInv /\ DistancesInv /\ CostsInv /\ GreedyInv
    BY <1>1 DEF DispatchInv
  <2>2. distances # NoMatrix => distances \in [DOMAIN drivers -> [DOMAIN orders -> Nat]]
    BY <2>1 DEF DistancesInv, Fits, drivers, orders
  <2>3. cost # <<>> => cost \in [DOMAIN slots -> [DOMAIN orders -> Nat]]
    <3>1. cost # <<>> => Costed
      BY <2>1 DEF CostsInv
    <3>. QED BY <2>1, <3>1, DispatchMatrixValid
  <2>4. greedy # {} => greedy \subseteq (DOMAIN slots) \X (DOMAIN orders)
    BY <2>1 DEF CostsInv, GreedyInv
  <2>. QED BY <2>1, <2>2, <2>3, <2>4 DEF TypeOK, StageInv, DistancesInv
<1>. QED BY <1>1, DispatchCorrect, PTL

\* However the distances of a call came about, they belong to its drivers and
\* orders, one by one, and come from one state of the roads
\* (dispatch_distance_service.py:276).
THEOREM DistancesAlwaysFit == Spec => []DistancesFitRequest
<1>1. ASSUME DispatchInv PROVE DistancesFitRequest
  <2>1. distances # NoMatrix => Fits(distances, request)
    BY <1>1 DEF DispatchInv, DistancesInv
  <2>2. ASSUME NEW table, FitsTable(distances, request, table)
        PROVE  DistancesOf(distances, table)
    BY <2>2 DEF FitsTable, DistancesOf, drivers, orders
  <2>. QED BY <2>1, <2>2 DEF Fits, DistancesFitRequest
<1>. QED BY <1>1, DispatchCorrect, PTL

---------------------------------------------------------------------------
(* Assignments of slots and orders.                                        *)

Assigns(pairs) ==
    /\ pairs \in SUBSET ((DOMAIN slots) \X (DOMAIN orders))
    /\ OneToOne(pairs)

RowsOf(pairs) == {p[1] : p \in pairs}

\* Pairs that share nothing have as many slots and as many orders as pairs.
LEMMA SidesCounted ==
    ASSUME request \in Requests, NEW pairs, Assigns(pairs)
    PROVE  /\ IsFiniteSet(pairs) /\ Cardinality(pairs) \in Nat
           /\ IsFiniteSet(RowsOf(pairs)) /\ Cardinality(RowsOf(pairs)) = Cardinality(pairs)
           /\ IsFiniteSet(ColsOf(pairs)) /\ Cardinality(ColsOf(pairs)) = Cardinality(pairs)
           /\ RowsOf(pairs) \subseteq DOMAIN slots /\ ColsOf(pairs) \subseteq DOMAIN orders
           /\ Cardinality(pairs) <= Len(slots) /\ Cardinality(pairs) <= Len(orders)
           /\ Cardinality(pairs) = Len(slots) <=> RowsOf(pairs) = DOMAIN slots
           /\ Cardinality(pairs) = Len(orders) <=> ColsOf(pairs) = DOMAIN orders
<1> DEFINE row == [p \in pairs |-> p[1]]
           col == [p \in pairs |-> p[2]]
<1>1. /\ IsFiniteSet(pairs) /\ Cardinality(pairs) \in Nat
      /\ IsFiniteSet(DOMAIN slots) /\ Cardinality(DOMAIN slots) = Len(slots)
      /\ IsFiniteSet(DOMAIN orders) /\ Cardinality(DOMAIN orders) = Len(orders)
  BY GridFinite DEF Assigns
<1>2. row \in Bijection(pairs, RowsOf(pairs))
  BY DEF Bijection, Injection, Surjection, IsInjective, OneToOne, Assigns, RowsOf
<1>3. col \in Bijection(pairs, ColsOf(pairs))
  BY DEF Bijection, Injection, Surjection, IsInjective, OneToOne, Assigns, ColsOf
<1>4. RowsOf(pairs) \subseteq DOMAIN slots /\ ColsOf(pairs) \subseteq DOMAIN orders
  BY DEF RowsOf, ColsOf, Assigns
<1> HIDE DEF row, col
<1>5. IsFiniteSet(RowsOf(pairs)) /\ Cardinality(RowsOf(pairs)) = Cardinality(pairs)
  BY <1>1, <1>2, FS_Bijection DEF ExistsBijection
<1>6. IsFiniteSet(ColsOf(pairs)) /\ Cardinality(ColsOf(pairs)) = Cardinality(pairs)
  BY <1>1, <1>3, FS_Bijection DEF ExistsBijection
<1>7. /\ Cardinality(RowsOf(pairs)) <= Cardinality(DOMAIN slots)
      /\ Cardinality(DOMAIN slots) = Cardinality(RowsOf(pairs)) => DOMAIN slots = RowsOf(pairs)
  BY <1>1, <1>4, FS_Subset
<1>8. /\ Cardinality(ColsOf(pairs)) <= Cardinality(DOMAIN orders)
      /\ Cardinality(DOMAIN orders) = Cardinality(ColsOf(pairs)) => DOMAIN orders = ColsOf(pairs)
  BY <1>1, <1>4, FS_Subset
<1>. QED BY <1>1, <1>4, <1>5, <1>6, <1>7, <1>8

\* As many pairs as there can be are a perfect pairing, and the other way round.
LEMMA FullIsPerfect ==
    ASSUME StageInv, DistancesInv, CostsInv, Costed, NEW pairs
    PROVE  pairs \in PerfectPairings <=>
               Assigns(pairs) /\ Cardinality(pairs) = target_assignment_count
<1>1. /\ request \in Requests /\ RowCount = Len(slots) /\ ColCount = Len(orders)
  BY DispatchMatrixValid
<1>2. /\ DOMAIN slots = 1 .. RowCount /\ DOMAIN orders = 1 .. ColCount
      /\ RowCount \in Nat /\ ColCount \in Nat
  BY <1>1, CallShape
<1>3. pairs \in PerfectPairings <=>
          /\ Assigns(pairs)
          /\ RowsOf(pairs) = DOMAIN slots \/ ColsOf(pairs) = DOMAIN orders
  <2>1. Assigns(pairs) <=> pairs \in SUBSET Grid /\ OneToOne(pairs)
    BY <1>2 DEF Assigns, Grid
  <2>2. ASSUME Assigns(pairs)
        PROVE  RowsOf(pairs) = DOMAIN slots <=> \A i \in 1 .. RowCount : \E p \in pairs : p[1] = i
    BY <1>1, <1>2, <2>2, SidesCounted DEF RowsOf
  <2>3. ASSUME Assigns(pairs)
        PROVE  ColsOf(pairs) = DOMAIN orders <=> \A j \in 1 .. ColCount : \E p \in pairs : p[2] = j
    BY <1>1, <1>2, <2>3, SidesCounted DEF ColsOf
  <2>. QED BY <2>1, <2>2, <2>3, PerfectMeans
<1>4. ASSUME Assigns(pairs)
      PROVE  RowsOf(pairs) = DOMAIN slots \/ ColsOf(pairs) = DOMAIN orders
                 <=> Cardinality(pairs) = target_assignment_count
  BY <1>1, <1>2, <1>4, SidesCounted, TargetIs
<1>. QED BY <1>3, <1>4

\* Nobody is given more orders than there are slots.
LEMMA DriverCounts ==
    ASSUME request \in Requests, NEW pairs, Assigns(pairs), NEW d \in DOMAIN drivers
    PROVE  /\ Cardinality({p \in pairs : DriverOf(p) = d}) \in Nat
           /\ Cardinality({p \in pairs : DriverOf(p) = d}) <= AvailableCapacity(drivers[d])
<1> DEFINE mine == {p \in pairs : DriverOf(p) = d}
           row == [p \in mine |-> p[1]]
<1>1. row \in Injection(mine, SlotsOf(slots, d))
  BY DEF Injection, IsInjective, OneToOne, Assigns, SlotsOf, DriverOf
<1>2. IsFiniteSet(mine)
  BY SidesCounted, FS_Subset
<1>3. /\ IsFiniteSet(SlotsOf(slots, d))
      /\ Cardinality(SlotsOf(slots, d)) = AvailableCapacity(drivers[d])
  BY CallShape
<1> HIDE DEF mine, row
<1>4. Cardinality(mine) <= Cardinality(SlotsOf(slots, d))
  BY <1>1, <1>3, FS_Injection
<1>5. Cardinality(mine) \in Nat
  BY <1>2, FS_CardinalityType
<1>. QED BY <1>3, <1>4, <1>5 DEF mine

LEMMA DriversFinite ==
    ASSUME request \in Requests
    PROVE  IsFiniteSet(DriversWithSlots) /\ DriversWithSlots \subseteq DOMAIN drivers
<1>1. DriversWithSlots \subseteq DOMAIN drivers
  BY CallShape DEF DriversWithSlots
<1> DEFINE n == Len(request.drivers)
<1>2. DOMAIN drivers = 1 .. n /\ n \in Nat
  BY RequestShape DEF drivers
<1> HIDE DEF n
<1>3. IsFiniteSet(DOMAIN drivers)
  BY <1>2, FS_Interval
<1>. QED BY <1>1, <1>3, FS_Subset

\* The metrics of the drivers add up to the pairs and to the slots.
LEMMA MetricsAddUp ==
    ASSUME request \in Requests, NEW pairs, Assigns(pairs)
    PROVE  /\ Sum(pairs, "assigned_orders") = Cardinality(pairs)
           /\ Sum(pairs, "available_slots") = Len(slots)
<1>1. IsFiniteSet(DriversWithSlots)
  BY DriversFinite
<1>2. Sum(pairs, "assigned_orders") = Cardinality(pairs)
  <2> DEFINE key == [p \in pairs |-> DriverOf(p)]
             metric == [d \in DriversWithSlots |-> DriverMetric(pairs, d)["assigned_orders"]]
  <2>1. \A p \in pairs : key[p] \in DriversWithSlots
    BY DEF DriverOf, DriversWithSlots, Assigns
  <2>2. IsFiniteSet(pairs)
    BY SidesCounted
  <2>3. metric = KeyCounts(pairs, DriversWithSlots, key)
    <3>1. ASSUME NEW d \in DriversWithSlots
          PROVE  DriverMetric(pairs, d)["assigned_orders"] = Cardinality({p \in pairs : key[p] = d})
      <4>1. {p \in pairs : key[p] = d} = {p \in pairs : DriverOf(p) = d}
        OBVIOUS
      <4>. QED BY <4>1 DEF DriverMetric
    <3>. QED BY <3>1 DEF KeyCounts
  <2>4. Sum(pairs, "assigned_orders") = SumFunctionOnSet(metric, DriversWithSlots)
    BY DEF Sum, SumFunction
  <2> HIDE DEF key, metric
  <2>. QED BY <1>1, <2>1, <2>2, <2>3, <2>4, CountByKey
<1>3. Sum(pairs, "available_slots") = Len(slots)
  <2> DEFINE key == [i \in DOMAIN slots |-> slots[i].driver_index]
             metric == [d \in DriversWithSlots |-> DriverMetric(pairs, d)["available_slots"]]
  <2>1. \A i \in DOMAIN slots : key[i] \in DriversWithSlots
    BY DEF DriversWithSlots
  <2>2. IsFiniteSet(DOMAIN slots) /\ Cardinality(DOMAIN slots) = Len(slots)
    BY GridFinite DEF Assigns
  <2>3. metric = KeyCounts(DOMAIN slots, DriversWithSlots, key)
    <3>1. ASSUME NEW d \in DriversWithSlots
          PROVE  DriverMetric(pairs, d)["available_slots"] =
                     Cardinality({i \in DOMAIN slots : key[i] = d})
      <4>1. {i \in DOMAIN slots : key[i] = d} = SlotsOf(slots, d)
        BY DEF SlotsOf
      <4>2. Cardinality(SlotsOf(slots, d)) = AvailableCapacity(drivers[d])
        BY CallShape, DriversFinite
      <4>. QED BY <4>1, <4>2 DEF DriverMetric
    <3>. QED BY <3>1 DEF KeyCounts
  <2>4. Sum(pairs, "available_slots") = SumFunctionOnSet(metric, DriversWithSlots)
    BY DEF Sum, SumFunction
  <2> HIDE DEF key, metric
  <2>. QED BY <1>1, <2>1, <2>2, <2>3, <2>4, CountByKey
<1>. QED BY <1>2, <1>3

\* Every order is assigned or unassigned, and one is left only for want of slots.
LEMMA OrdersCounted ==
    ASSUME StageInv, DistancesInv, CostsInv, Costed, NEW pairs, Assigns(pairs),
           Cardinality(pairs) = target_assignment_count
    PROVE  /\ Cardinality(pairs) + Cardinality(unassigned_cols(pairs)) = Len(orders)
           /\ unassigned_cols(pairs) = {} \/ Cardinality(pairs) = Len(slots)
<1>1. request \in Requests /\ ColCount = Len(orders)
  BY DispatchMatrixValid
<1>2. DOMAIN orders = 1 .. ColCount
  BY <1>1, CallShape
<1>3. /\ Cardinality(pairs) \in Nat /\ IsFiniteSet(ColsOf(pairs))
      /\ Cardinality(ColsOf(pairs)) = Cardinality(pairs)
      /\ ColsOf(pairs) \subseteq DOMAIN orders
      /\ Cardinality(pairs) = Len(orders) => ColsOf(pairs) = DOMAIN orders
  BY <1>1, SidesCounted
<1>4. unassigned_cols(pairs) = DOMAIN orders \ ColsOf(pairs)
  BY <1>2 DEF unassigned_cols, ColsOf
<1>5. IsFiniteSet(DOMAIN orders) /\ Cardinality(DOMAIN orders) = Len(orders)
  BY <1>1, GridFinite DEF Assigns
<1>6. Cardinality(unassigned_cols(pairs)) = Len(orders) - Cardinality(pairs)
  <2> DEFINE A == DOMAIN orders
             B == ColsOf(pairs)
  <2>1. IsFiniteSet(A) /\ IsFiniteSet(B) /\ B \subseteq A
    BY <1>3, <1>5
  <2> HIDE DEF A, B
  <2>2. A \cap B = B
    BY <2>1
  <2>3. Cardinality(A \ B) = Cardinality(A) - Cardinality(A \cap B)
    BY <2>1, FS_Difference
  <2>. QED BY <1>3, <1>4, <1>5, <2>2, <2>3 DEF A, B
<1>7. Len(orders) \in Nat
  BY <1>1, CallShape
<1>8. Cardinality(pairs) # Len(slots) => unassigned_cols(pairs) = {}
  BY <1>1, <1>3, <1>4, TargetIs
<1>. QED BY <1>3, <1>6, <1>7, <1>8

\* No driver is loaded beyond capacity, and the full ones are left out.
LEMMA LoadsConsistent ==
    ASSUME StageInv, DistancesInv, CostsInv, Costed, NEW pairs, Assigns(pairs),
           NEW d \in DOMAIN drivers
    PROVE  IF d \in DriversWithSlots
           THEN /\ DriverMetric(pairs, d).projected_load <= drivers[d].max_capacity
                /\ DriverMetric(pairs, d).remaining_capacity =
                       DriverMetric(pairs, d).available_slots
                           - DriverMetric(pairs, d).assigned_orders
           ELSE drivers[d].current_load = drivers[d].max_capacity
<1> DEFINE load == drivers[d].current_load
           most == drivers[d].max_capacity
           free == AvailableCapacity(drivers[d])
           mine == Cardinality({p \in pairs : DriverOf(p) = d})
<1>1. request \in Requests
  BY DispatchMatrixValid
<1>2. load \in Nat /\ most \in Nat /\ load <= most
  BY <1>1, CallShape DEF CostsInv
<1>3. free = most - load
  <2>1. free = IF load < most THEN most - load ELSE 0
    BY DEF AvailableCapacity
  <2> HIDE DEF free, load, most
  <2>. QED BY <1>2, <2>1
<1>4. mine \in Nat /\ mine <= free
  BY <1>1, DriverCounts
<1>5. /\ DriverMetric(pairs, d).projected_load = load + mine
      /\ DriverMetric(pairs, d).remaining_capacity = most - (load + mine)
      /\ DriverMetric(pairs, d).available_slots = free
      /\ DriverMetric(pairs, d).assigned_orders = mine
  BY DEF DriverMetric
<1>6. d \notin DriversWithSlots => free = 0
  <2>1. d \notin DriversWithSlots => SlotsOf(slots, d) = {}
    BY DEF SlotsOf, DriversWithSlots
  <2>2. Cardinality(SlotsOf(slots, d)) = free
    BY <1>1, CallShape
  <2>. QED BY <2>1, <2>2, FS_EmptySet
<1> HIDE DEF load, most, free, mine
<1>7. load + mine <= most /\ most - (load + mine) = free - mine
  BY <1>2, <1>3, <1>4
<1>8. d \notin DriversWithSlots => load = most
  BY <1>2, <1>3, <1>6
<1>. QED BY <1>5, <1>7, <1>8 DEF load, most

Answered == DispatchInv /\ status = 200

\* Once a call has answered, both answers pair off the smaller side, and the
\* solver's at the least cost.
LEMMA BothPerfect ==
    ASSUME Answered
    PROVE  /\ StageInv /\ DistancesInv /\ CostsInv /\ Costed
           /\ \A pairs \in {greedy, hungarian} :
                 /\ pairs \in PerfectPairings /\ Assigns(pairs)
                 /\ Cardinality(pairs) = target_assignment_count
           /\ \A pairs \in PerfectPairings : total_cost(hungarian) <= total_cost(pairs)
<1>1. StageInv /\ DistancesInv /\ CostsInv /\ GreedyInv /\ SolvingInv
  BY DEF Answered, DispatchInv
<1>2. Costed /\ Solving /\ status = 200
  BY DEF Answered, Costed, Solving
<1>3. Assigns(greedy) /\ Cardinality(greedy) = target_assignment_count
  BY <1>1, <1>2 DEF GreedyInv, Assigns
<1>4. OptimalAssignment /\ pc = "done"
  <2>1. Found
    BY <1>1, <1>2 DEF SolvingInv, Found
  <2>. QED BY <2>1, FoundOptimal DEF Found
<1>5. /\ hungarian \in PerfectPairings
      /\ \A pairs \in PerfectPairings : total_cost(hungarian) <= total_cost(pairs)
  BY <1>4 DEF OptimalAssignment, hungarian
<1>6. greedy \in PerfectPairings
  BY <1>1, <1>2, <1>3, FullIsPerfect
<1>7. Assigns(hungarian) /\ Cardinality(hungarian) = target_assignment_count
  BY <1>1, <1>2, <1>5, FullIsPerfect
<1>. QED BY <1>1, <1>2, <1>3, <1>5, <1>6, <1>7

\* In both answers, every order goes to one slot or is reported unassigned, as
\* many as possible are assigned, nobody is loaded beyond capacity, and the
\* fairness metrics add up to the same (dispatch_service.py:84).
THEOREM AnswersAlwaysConsistent == Spec => []AnswersConsistent
<1>1. ASSUME DispatchInv PROVE AnswersConsistent
  <2>1. SUFFICES ASSUME status = 200, NEW pairs \in {greedy, hungarian}
                 PROVE  /\ \A p, q \in pairs : p # q => p[1] # q[1] /\ p[2] # q[2]
                        /\ Cardinality(pairs) + Cardinality(unassigned_cols(pairs)) = Len(orders)
                        /\ unassigned_cols(pairs) = {} \/ Cardinality(pairs) = Len(slots)
                        /\ \A d \in DOMAIN drivers :
                              IF d \in DriversWithSlots
                              THEN /\ DriverMetric(pairs, d).projected_load
                                          <= drivers[d].max_capacity
                                   /\ DriverMetric(pairs, d).remaining_capacity =
                                          DriverMetric(pairs, d).available_slots
                                              - DriverMetric(pairs, d).assigned_orders
                              ELSE drivers[d].current_load = drivers[d].max_capacity
                        /\ Sum(pairs, "assigned_orders") = Cardinality(pairs)
                        /\ Sum(pairs, "available_slots") = Len(slots)
    BY DEF AnswersConsistent
  <2>2. /\ StageInv /\ DistancesInv /\ CostsInv /\ Costed /\ Assigns(pairs)
        /\ Cardinality(pairs) = target_assignment_count
    BY <1>1, <2>1, BothPerfect DEF Answered
  <2>3. request \in Requests
    BY <2>2, DispatchMatrixValid
  <2>4. \A p, q \in pairs : p # q => p[1] # q[1] /\ p[2] # q[2]
    BY <2>2 DEF Assigns, OneToOne
  <2>5. /\ Cardinality(pairs) + Cardinality(unassigned_cols(pairs)) = Len(orders)
        /\ unassigned_cols(pairs) = {} \/ Cardinality(pairs) = Len(slots)
    BY <2>2, OrdersCounted
  <2>6. /\ Sum(pairs, "assigned_orders") = Cardinality(pairs)
        /\ Sum(pairs, "available_slots") = Len(slots)
    BY <2>2, <2>3, MetricsAddUp
  <2>. QED BY <2>2, <2>4, <2>5, <2>6, LoadsConsistent
<1>. QED BY <1>1, DispatchCorrect, PTL

---------------------------------------------------------------------------
(* What answers cost.                                                      *)

GridCosts == [pair \in (DOMAIN slots) \X (DOMAIN orders) |-> CostOf(pair)]

LEMMA CostsOfPairs ==
    ASSUME StageInv, DistancesInv, CostsInv, Costed,
           NEW pairs \in SUBSET ((DOMAIN slots) \X (DOMAIN orders))
    PROVE  /\ IsFiniteSet(pairs) /\ \A p \in pairs : GridCosts[p] = CostOf(p) /\ CostOf(p) \in Nat
           /\ total_cost(pairs) = SumFunctionOnSet(GridCosts, pairs)
           /\ total_cost(pairs) \in Int
<1>1. request \in Requests /\ cost \in [DOMAIN slots -> [DOMAIN orders -> Nat]]
  BY DispatchMatrixValid
<1>2. IsFiniteSet(pairs)
  BY <1>1, GridFinite
<1>3. \A p \in pairs : GridCosts[p] = CostOf(p) /\ CostOf(p) \in Nat
  BY <1>1 DEF GridCosts, CostOf
<1> DEFINE f == [pair \in pairs |-> cost[pair[1]][pair[2]]]
<1>4. total_cost(pairs) = SumFunctionOnSet(f, pairs)
  BY DEF total_cost, SumFunction
<1>5. \A p \in pairs : f[p] = GridCosts[p]
  BY <1>3 DEF CostOf
<1> HIDE DEF f
<1>6. \A p \in pairs : GridCosts[p] \in Int
  BY <1>3
<1>7. SumFunctionOnSet(f, pairs) = SumFunctionOnSet(GridCosts, pairs)
  BY <1>2, <1>5, <1>6, SumEqual
<1>8. SumFunctionOnSet(GridCosts, pairs) \in Int
  BY <1>2, <1>6, SumInt
<1>. QED BY <1>2, <1>3, <1>4, <1>7, <1>8

\* Replacing one pair changes the cost by the difference of the two.
LEMMA CostOfSwap ==
    ASSUME StageInv, DistancesInv, CostsInv, Costed,
           NEW pairs \in SUBSET ((DOMAIN slots) \X (DOMAIN orders)), NEW p \in pairs,
           NEW q \in (DOMAIN slots) \X (DOMAIN orders), q \notin pairs
    PROVE  total_cost((pairs \ {p}) \cup {q}) = total_cost(pairs) - CostOf(p) + CostOf(q)
<1> DEFINE rest == pairs \ {p}
           swapped == rest \cup {q}
<1>1. /\ pairs \in SUBSET ((DOMAIN slots) \X (DOMAIN orders))
      /\ rest \in SUBSET ((DOMAIN slots) \X (DOMAIN orders))
      /\ swapped \in SUBSET ((DOMAIN slots) \X (DOMAIN orders))
  OBVIOUS
<1>2. p \in pairs /\ q \in swapped /\ rest = pairs \ {p} /\ swapped \ {q} = rest
  OBVIOUS
<1> HIDE DEF rest, swapped
<1>3. /\ IsFiniteSet(pairs) /\ IsFiniteSet(swapped)
      /\ \A x \in pairs : GridCosts[x] \in Int
      /\ \A x \in swapped : GridCosts[x] \in Int
      /\ GridCosts[p] = CostOf(p) /\ GridCosts[q] = CostOf(q)
      /\ CostOf(p) \in Int /\ CostOf(q) \in Int
  BY <1>1, <1>2, CostsOfPairs
<1>4. /\ total_cost(pairs) = SumFunctionOnSet(GridCosts, pairs)
      /\ total_cost(rest) = SumFunctionOnSet(GridCosts, rest)
      /\ total_cost(swapped) = SumFunctionOnSet(GridCosts, swapped)
      /\ total_cost(rest) \in Int
  BY <1>1, CostsOfPairs
<1>5. SumFunctionOnSet(GridCosts, pairs) = GridCosts[p] + SumFunctionOnSet(GridCosts, rest)
  BY <1>2, <1>3, SumRemove
<1>6. SumFunctionOnSet(GridCosts, swapped) = GridCosts[q] + SumFunctionOnSet(GridCosts, rest)
  <2>1. SumFunctionOnSet(GridCosts, swapped) =
            GridCosts[q] + SumFunctionOnSet(GridCosts, swapped \ {q})
    BY <1>2, <1>3, SumRemove
  <2>. QED BY <1>2, <2>1
<1>7. total_cost(swapped) = total_cost(pairs) - CostOf(p) + CostOf(q)
  BY <1>3, <1>4, <1>5, <1>6
<1>. QED BY <1>7 DEF swapped, rest

\* When slots cost something, taking the slot before is cheaper.
LEMMA SolverInOrder ==
    ASSUME Answered, request.slot_penalty_m > 0, NEW pair \in hungarian,
           slots[pair[1]].driver_slot_index > 0
    PROVE  \E other \in hungarian : other[1] = pair[1] - 1
<1> DEFINE i == pair[1]
           o == pair[2]
           earlier == <<i - 1, o>>
           swapped == (hungarian \ {pair}) \cup {earlier}
<1>1. /\ StageInv /\ DistancesInv /\ CostsInv /\ Costed /\ Assigns(hungarian)
      /\ Cardinality(hungarian) = target_assignment_count
      /\ \A pairs \in PerfectPairings : total_cost(hungarian) <= total_cost(pairs)
  BY BothPerfect
<1>2. i \in DOMAIN slots /\ o \in DOMAIN orders /\ pair = <<i, o>>
  BY <1>1 DEF Assigns
<1>3. request \in Requests
  BY <1>1, DispatchMatrixValid
<1>4. /\ i - 1 \in DOMAIN slots
      /\ slots[i - 1].driver_index = slots[i].driver_index
      /\ slots[i - 1].driver_slot_index = slots[i].driver_slot_index - 1
      /\ i \in Int
      /\ slots[i].driver_slot_index \in Nat
      /\ slots[i].driver_index \in DOMAIN drivers
      /\ request.load_penalty_m \in Nat /\ request.slot_penalty_m \in Nat
      /\ drivers[slots[i].driver_index].current_load \in Nat
  BY <1>2, <1>3, CallShape
<1>5. SUFFICES ASSUME \A other \in hungarian : other[1] # i - 1
               PROVE  FALSE
  OBVIOUS
<1>6. /\ earlier \in (DOMAIN slots) \X (DOMAIN orders) /\ earlier[1] = i - 1 /\ earlier[2] = o
      /\ earlier \notin hungarian
  BY <1>2, <1>4, <1>5
<1>7. CostOf(earlier) < CostOf(pair) /\ CostOf(earlier) \in Int /\ CostOf(pair) \in Int
  <2> DEFINE far == distances[slots[i].driver_index][o]
             load == drivers[slots[i].driver_index].current_load * request.load_penalty_m
             k == slots[i].driver_slot_index
             s == request.slot_penalty_m
  <2>1. CostOf(pair) = far + SlotCost(i) /\ far \in Nat
    BY <1>1, <1>2, DispatchMatrixValid DEF CostOf
  <2>2. CostOf(earlier) = far + SlotCost(i - 1)
    BY <1>1, <1>2, <1>4, DispatchMatrixValid DEF CostOf
  <2>3. SlotCost(i) = load + k * s /\ SlotCost(i - 1) = load + (k - 1) * s
    BY <1>4 DEF SlotCost
  <2>4. load \in Nat /\ k \in Nat /\ s \in Nat /\ s > 0
    BY <1>4, ProductNat
  <2> HIDE DEF far, load, k, s
  <2>5. k * s \in Int /\ (k - 1) * s = k * s - s
    BY <2>4
  <2>. QED BY <2>1, <2>2, <2>3, <2>4, <2>5
<1>8. total_cost(swapped) = total_cost(hungarian) - CostOf(pair) + CostOf(earlier)
  <2> HIDE DEF earlier
  <2>. QED BY <1>1, <1>6, CostOfSwap DEF Assigns
<1>9. Assigns(swapped)
  <2>1. swapped \in SUBSET ((DOMAIN slots) \X (DOMAIN orders))
    BY <1>1, <1>6 DEF Assigns
  <2>2. \A other \in hungarian \ {pair} : other[1] # i - 1 /\ other[2] # o
    BY <1>1, <1>5 DEF Assigns, OneToOne
  <2> HIDE DEF earlier, i, o
  <2>3. OneToOne(swapped)
    BY <1>1, <1>6, <2>2 DEF Assigns, OneToOne
  <2>. QED BY <2>1, <2>3 DEF Assigns
<1>10. Cardinality(swapped) = target_assignment_count
  <2> DEFINE rest == hungarian \ {pair}
  <2>1. IsFiniteSet(hungarian) /\ Cardinality(hungarian) \in Nat
    BY <1>1, <1>3, SidesCounted
  <2>2. IsFiniteSet(rest) /\ Cardinality(rest) = Cardinality(hungarian) - 1
    BY <2>1, FS_RemoveElement
  <2>3. earlier \notin rest
    BY <1>6
  <2> HIDE DEF rest, earlier
  <2>4. Cardinality(rest \cup {earlier}) = Cardinality(rest) + 1
    BY <2>2, <2>3, FS_AddElement
  <2>5. Cardinality(rest \cup {earlier}) = Cardinality(hungarian)
    BY <2>1, <2>2, <2>4
  <2>. QED BY <1>1, <2>5 DEF rest
<1> HIDE DEF earlier, swapped
<1>11. swapped \in PerfectPairings
  BY <1>1, <1>9, <1>10, FullIsPerfect
<1>12. total_cost(hungarian) <= total_cost(swapped)
  BY <1>1, <1>11
<1>13. total_cost(hungarian) \in Int
  BY <1>1, CostsOfPairs DEF Assigns
<1>. QED BY <1>7, <1>8, <1>12, <1>13

\* No slot is used before the ones that precede it, by greedy ever and by the
\* solver when slots cost something (dispatch_cost_matrix.py:138).
THEOREM SlotsAlwaysInOrder == Spec => []SlotsFilledInOrder
<1>1. ASSUME DispatchInv PROVE SlotsFilledInOrder
  <2>1. SUFFICES ASSUME status = 200
                 PROVE  \A pairs \in {greedy} \cup
                               (IF request.slot_penalty_m > 0 THEN {hungarian} ELSE {}) :
                            \A pair \in pairs : slots[pair[1]].driver_slot_index > 0 =>
                                \E other \in pairs : other[1] = pair[1] - 1
    BY DEF SlotsFilledInOrder
  <2>2. GreedyInOrder
    BY <1>1, <2>1 DEF DispatchInv, GreedyInv, Costed
  <2>3. request.slot_penalty_m > 0 =>
            \A pair \in hungarian : slots[pair[1]].driver_slot_index > 0 =>
                \E other \in hungarian : other[1] = pair[1] - 1
    BY <1>1, <2>1, SolverInOrder DEF Answered
  <2>. QED BY <2>2, <2>3 DEF GreedyInOrder
<1>. QED BY <1>1, DispatchCorrect, PTL

\* Every order no road leads to costs UNREACHABLE_DISPATCH_COST_M at least.
LEMMA UnreachableCost ==
    ASSUME StageInv, DistancesInv, CostsInv, Costed, NEW pairs, Assigns(pairs)
    PROVE  /\ Cardinality(Unreachable(pairs)) \in Nat
           /\ Cardinality(Unreachable(pairs)) * UNREACHABLE_DISPATCH_COST_M
                  <= total_cost(pairs)
<1> DEFINE far == Unreachable(pairs)
           U == UNREACHABLE_DISPATCH_COST_M
           least == [p \in pairs |-> IF p \in far THEN U ELSE 0]
<1>1. U \in Nat
  BY DispatchDataAssumption
<1>2. far \in SUBSET pairs /\ pairs \in SUBSET ((DOMAIN slots) \X (DOMAIN orders))
  BY DEF Unreachable, Assigns
<1>3. /\ IsFiniteSet(pairs) /\ \A p \in pairs : GridCosts[p] = CostOf(p) /\ CostOf(p) \in Nat
      /\ total_cost(pairs) = SumFunctionOnSet(GridCosts, pairs)
  BY <1>2, CostsOfPairs
<1>4. IsFiniteSet(far) /\ Cardinality(far) \in Nat
  BY <1>2, <1>3, FS_Subset, FS_CardinalityType
<1>5. ASSUME NEW p \in far PROVE U <= CostOf(p)
  <2>1. /\ p[1] \in DOMAIN slots /\ p[2] \in DOMAIN orders
        /\ distances[slots[p[1]].driver_index][p[2]] = U
    BY <1>2 DEF Unreachable, DriverOf
  <2>2. CostOf(p) = U + SlotCost(p[1]) /\ SlotCost(p[1]) \in Nat
    BY <2>1, DispatchMatrixValid DEF CostOf
  <2>. QED BY <1>1, <2>2
<1>6. /\ \A p \in far : least[p] = U
      /\ \A p \in pairs \ far : least[p] = 0
  BY <1>2
<1> HIDE DEF far, U, least
<1>7. \A p \in pairs : least[p] \in Int /\ GridCosts[p] \in Int /\ least[p] <= GridCosts[p]
  BY <1>1, <1>3, <1>5, <1>6
<1>8. SumFunctionOnSet(least, pairs) <= SumFunctionOnSet(GridCosts, pairs)
  BY <1>3, <1>7, SumMonotone
<1>9. SumFunctionOnSet(least, pairs) = SumFunctionOnSet(least, far)
  BY <1>2, <1>3, <1>6, <1>7, SumZeros
<1>10. SumFunctionOnSet(least, far) = Cardinality(far) * U
  BY <1>1, <1>4, <1>6, SumOfSame
<1>. QED BY <1>3, <1>4, <1>8, <1>9, <1>10 DEF far, U

\* Each unreachable order weighs more than everything else.
LEMMA FewerUnreachable ==
    ASSUME NEW a \in Nat, NEW b \in Nat, NEW u \in Nat, NEW h \in Int, NEW g \in Int,
           a * u <= h, h <= g, g - b * u < u
    PROVE  a <= b
<1>1. SUFFICES ASSUME a > b PROVE FALSE
  OBVIOUS
<1> DEFINE c == a - b - 1
<1>2. c \in Nat /\ a = c + b + 1
  BY <1>1
<1> HIDE DEF c
<1>3. (c + b + 1) * u = c * u + b * u + u
  BY <1>2
<1>4. c * u \in Nat /\ b * u \in Nat
  BY <1>2, ProductNat
<1>. QED BY <1>2, <1>3, <1>4

\* The solver's answer is never dearer than greedy's, and it gives no driver an
\* order no road leads to that greedy could avoid, as long as what greedy's
\* answer costs besides adds up to less than UNREACHABLE_DISPATCH_COST_M
\* (dispatch_service.py:241).
THEOREM SolverNeverWorse == Spec => []SolverNotWorse
<1>1. ASSUME DispatchInv PROVE SolverNotWorse
  <2>1. SUFFICES ASSUME status = 200
                 PROVE  /\ hungarian_non_regression
                        /\ total_cost(greedy)
                              - Cardinality(Unreachable(greedy)) * UNREACHABLE_DISPATCH_COST_M
                                  < UNREACHABLE_DISPATCH_COST_M =>
                              Cardinality(Unreachable(hungarian))
                                  <= Cardinality(Unreachable(greedy))
    BY DEF SolverNotWorse
  <2>2. /\ StageInv /\ DistancesInv /\ CostsInv /\ Costed
        /\ Assigns(greedy) /\ Assigns(hungarian)
        /\ total_cost(hungarian) <= total_cost(greedy)
    BY <1>1, <2>1, BothPerfect DEF Answered
  <2>3. total_cost(hungarian) \in Int /\ total_cost(greedy) \in Int
    BY <2>2, CostsOfPairs DEF Assigns
  <2>4. /\ Cardinality(Unreachable(hungarian)) \in Nat
        /\ Cardinality(Unreachable(greedy)) \in Nat
        /\ Cardinality(Unreachable(hungarian)) * UNREACHABLE_DISPATCH_COST_M
              <= total_cost(hungarian)
    BY <2>2, UnreachableCost
  <2>5. UNREACHABLE_DISPATCH_COST_M \in Nat
    BY DispatchDataAssumption
  <2>. QED BY <2>2, <2>3, <2>4, <2>5, FewerUnreachable DEF hungarian_non_regression
<1>. QED BY <1>1, DispatchCorrect, PTL
============================================================================
