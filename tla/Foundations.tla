---------------------------- MODULE Foundations ----------------------------
(***************************************************************************)
(* Mathematics that the proofs rest on: the least number principle,        *)
(* inductions up to a number and over the subsets of a finite set,         *)
(* iteration, and the laws of sums over finite sets (SumFunctionOnSet of   *)
(* the module Functions).                                                  *)
(***************************************************************************)
EXTENDS Integers, FiniteSets, Functions, FiniteSetTheorems, WellFoundedInduction, TLAPS

\* A non-empty set of natural numbers has a least element: of the intervals
\* 0 .. n with n in the set one is included in no other.
LEMMA LeastElement ==
  ASSUME NEW S \in SUBSET Nat, S # {}
  PROVE  \E m \in S : \A k \in S : m <= k
  <1> DEFINE T == {0 .. n : n \in S}
             R == StrictSubsetOrdering(Nat)
  <1>1. T \subseteq FiniteSubsetsOf(Nat)
    <2>1. \A n \in S : n \in Nat /\ 0 .. n \subseteq Nat
      OBVIOUS
    <2>2. \A n \in S : IsFiniteSet(0 .. n)
      BY <2>1, FS_Interval
    <2> QED BY <2>1, <2>2 DEF FiniteSubsetsOf
  <1>2. T # {}
    OBVIOUS
  <1>3. IsWellFoundedOn(R, FiniteSubsetsOf(Nat))
    BY FS_StrictSubsetOrderingWellFounded
  <1>4. PICK x \in T : \A y \in T : ~ (<<y, x>> \in R)
    <2> HIDE DEF T, R
    <2> QED BY <1>1, <1>2, <1>3, WFMin
  <1>5. PICK m \in S : x = 0 .. m
    OBVIOUS
  <1>6. ASSUME NEW k \in S, ~(m <= k) PROVE FALSE
    <2>1. k < m /\ k \in Nat /\ m \in Nat
      BY <1>6
    <2>2. 0 .. k \subseteq 0 .. m /\ m \in 0 .. m /\ m \notin 0 .. k
      BY <2>1
    <2>3. 0 .. k \in SUBSET Nat /\ 0 .. m \in SUBSET Nat
      BY <2>1
    <2>4. <<0 .. k, 0 .. m>> \in R
      BY <2>2, <2>3 DEF StrictSubsetOrdering
    <2> QED BY <1>4, <1>5, <2>4
  <1> QED BY <1>6

\* Induction up to a bound, the claim given as the set of the numbers it holds for.
THEOREM CountUp ==
  ASSUME NEW N \in Nat, NEW Good, 0 \in Good,
         \A n \in 1 .. N : n - 1 \in Good => n \in Good
  PROVE  \A n \in 0 .. N : n \in Good
<1> DEFINE Bad == {n \in 0 .. N : n \notin Good}
<1> SUFFICES ASSUME Bad # {} PROVE FALSE
  OBVIOUS
<1>1. Bad \in SUBSET Nat
  OBVIOUS
<1>2. PICK n \in Bad : \A k \in Bad : n <= k
  <2> HIDE DEF Bad
  <2>. QED BY <1>1, LeastElement
<1>3. n \in 1 .. N /\ n \notin Good
  OBVIOUS
<1>4. n - 1 \notin Good
  BY <1>3
<1>5. n - 1 \in Bad /\ ~(n <= n - 1)
  BY <1>3, <1>4
<1>. QED BY <1>2, <1>5

Iterates(f, X, first, step, N) ==
    /\ f \in [0 .. N -> X]
    /\ f[0] = first
    /\ \A n \in 1 .. N : f[n] = step[f[n - 1]]

\* A function may be applied again and again: the recursive definitions that do
\* so define something.
LEMMA Iteration ==
  ASSUME NEW X, NEW first \in X, NEW step \in [X -> X], NEW N \in Nat
  PROVE  \E f : Iterates(f, X, first, step, N)
<1> DEFINE IsIteration(f, n) ==
              f = [i \in 0 .. n |-> IF i = 0 THEN first ELSE step[f[i - 1]]]
           Good == {n \in 0 .. N : \E f \in [0 .. n -> X] : IsIteration(f, n)}
<1>1. 0 \in Good
  <2> DEFINE f == [i \in 0 .. 0 |-> first]
  <2>1. f \in [0 .. 0 -> X] /\ IsIteration(f, 0)
    OBVIOUS
  <2> HIDE DEF f, IsIteration
  <2>. QED BY <2>1
<1>2. ASSUME NEW n \in 1 .. N, n - 1 \in Good
      PROVE  n \in Good
  <2>1. PICK f \in [0 .. n - 1 -> X] : IsIteration(f, n - 1)
    BY <1>2
  <2> DEFINE g == [i \in 0 .. n |-> IF i = n THEN step[f[n - 1]] ELSE f[i]]
  <2>2. /\ n - 1 \in 0 .. n - 1 /\ n # 0
        /\ \A i \in 0 .. n : i = n \/ i \in 0 .. n - 1
        /\ \A i \in 0 .. n - 1 : i # n /\ i \in 0 .. n
        /\ \A i \in 1 .. n : i - 1 \in 0 .. n - 1
    OBVIOUS
  <2>3. f[n - 1] \in X
    BY <2>1, <2>2
  <2>4. g \in [0 .. n -> X]
    BY <2>1, <2>2, <2>3
  <2>5. \A i \in 0 .. n - 1 : g[i] = f[i]
    BY <2>2
  <2>6. \A i \in 0 .. n - 1 : f[i] = IF i = 0 THEN first ELSE step[f[i - 1]]
    BY <2>1
  <2>7. \A i \in 0 .. n : g[i] = IF i = 0 THEN first ELSE step[g[i - 1]]
    <3>1. g[n] = step[g[n - 1]]
      BY <2>2, <2>5
    <3>2. \A i \in 0 .. n - 1 : i # 0 => i - 1 \in 0 .. n - 1
      OBVIOUS
    <3>3. \A i \in 0 .. n - 1 : g[i] = IF i = 0 THEN first ELSE step[g[i - 1]]
      <4> HIDE DEF g
      <4>. QED BY <2>5, <2>6, <3>2
    <3> HIDE DEF g
    <3>. QED BY <2>2, <3>1, <3>3
  <2> HIDE DEF g
  <2>8. IsIteration(g, n)
    BY <2>4, <2>7
  <2>. QED BY <2>4, <2>8
<1>3. N \in Good
  <2> HIDE DEF Good
  <2>. QED BY <1>1, <1>2, CountUp
<1>4. PICK f \in [0 .. N -> X] : IsIteration(f, N)
  BY <1>3
<1>5. \A n \in 0 .. N : f[n] = IF n = 0 THEN first ELSE step[f[n - 1]]
  BY <1>4
<1>6. 0 \in 0 .. N /\ \A n \in 1 .. N : n \in 0 .. N /\ n # 0
  OBVIOUS
<1> HIDE DEF IsIteration
<1>. QED BY <1>4, <1>5, <1>6 DEF Iterates

\* Induction over the subsets of a finite set.  The claim is the set of the
\* subsets it holds for, so that it can be given at every use.
THEOREM SubsetInduction ==
  ASSUME NEW S, IsFiniteSet(S), NEW Good,
         \A T \in SUBSET S : (\A x \in T : T \ {x} \in Good) => T \in Good
  PROVE  \A T \in SUBSET S : T \in Good
<1> DEFINE Sizes == {Cardinality(T) : T \in {T \in SUBSET S : T \notin Good}}
<1> SUFFICES ASSUME NEW T \in SUBSET S, T \notin Good PROVE FALSE
  OBVIOUS
<1>1. \A U \in SUBSET S : IsFiniteSet(U) /\ Cardinality(U) \in Nat
  BY FS_Subset, FS_CardinalityType
<1>2. Sizes \in SUBSET Nat /\ Sizes # {}
  BY <1>1
<1>3. PICK n \in Sizes : \A k \in Sizes : n <= k
  <2> HIDE DEF Sizes
  <2>. QED BY <1>2, LeastElement
<1>4. PICK U \in SUBSET S : U \notin Good /\ n = Cardinality(U)
  OBVIOUS
<1>5. PICK x \in U : U \ {x} \notin Good
  BY <1>4
<1>6. Cardinality(U \ {x}) = n - 1 /\ U \ {x} \in SUBSET S
  BY <1>1, <1>4, FS_RemoveElement
<1>7. n <= n - 1 /\ n \in Nat
  BY <1>1, <1>3, <1>4, <1>5, <1>6
<1>. QED BY <1>7

---------------------------------------------------------------------------
(* Sums over finite sets.  SumFunctionOnSet takes the elements out in an   *)
(* order of its own (CHOOSE); any element may be taken out (SumRemove).    *)

Some(T) == CHOOSE x \in T : TRUE

Summed(f, g, T) == IF T = {} THEN 0 ELSE f[Some(T)] + g[T \ {Some(T)}]

IsSum(f, S, g) == g = [T \in SUBSET S |-> Summed(f, g, T)]

SumOf(f, S) == CHOOSE g : IsSum(f, S, g)

LEMMA SumIsLast ==
  ASSUME NEW f, NEW S
  PROVE  SumFunctionOnSet(f, S) = SumOf(f, S)[S]
BY DEF SumFunctionOnSet, FoldFunctionOnSet, MapThenFoldSet, SumOf, IsSum, Summed, Some

LEMMA SomeElement == ASSUME NEW T, T # {} PROVE Some(T) \in T
BY DEF Some

\* The recursive function behind a sum exists, size by size.
LEMMA SumFunctionExists ==
  ASSUME NEW S, IsFiniteSet(S), NEW f
  PROVE  \E g : IsSum(f, S, g)
<1> DEFINE UpTo(n) == {T \in SUBSET S : Cardinality(T) <= n}
           Fits(n, g) == g = [T \in UpTo(n) |-> Summed(f, g, T)]
           Bad == {n \in Nat : ~ \E g : Fits(n, g)}
<1>1. \A T \in SUBSET S : IsFiniteSet(T) /\ Cardinality(T) \in Nat
  BY FS_Subset, FS_CardinalityType
<1>2. ASSUME NEW n \in Nat, NEW g, Fits(n, g)
      PROVE  \E h : Fits(n + 1, h)
  <2> DEFINE h == [T \in UpTo(n + 1) |-> Summed(f, g, T)]
  <2>1. ASSUME NEW T \in UpTo(n + 1)
        PROVE  h[T] = Summed(f, h, T)
    <3>1. h[T] = Summed(f, g, T)
      OBVIOUS
    <3>2. CASE T = {}
      BY <3>1, <3>2 DEF Summed
    <3>3. CASE T # {}
      <4> DEFINE U == T \ {Some(T)}
      <4>1. Some(T) \in T /\ Cardinality(T) <= n + 1 /\ T \in SUBSET S
        BY <3>3, SomeElement
      <4>2. Cardinality(U) = Cardinality(T) - 1
        BY <1>1, <4>1, FS_RemoveElement
      <4>3. U \in UpTo(n) /\ U \in UpTo(n + 1)
        BY <1>1, <4>1, <4>2
      <4>4. g[U] = Summed(f, g, U) /\ h[U] = Summed(f, g, U)
        BY <1>2, <4>3
      <4>. QED BY <3>1, <3>3, <4>4 DEF Summed
    <3>. QED BY <3>2, <3>3
  <2>2. h = [T \in UpTo(n + 1) |-> h[T]]
    OBVIOUS
  <2> HIDE DEF h
  <2>3. Fits(n + 1, h)
    BY <2>1, <2>2
  <2>. QED BY <2>3
<1>3. Bad = {}
  <2>1. SUFFICES ASSUME Bad # {} PROVE FALSE
    OBVIOUS
  <2>2. PICK n \in Bad : \A k \in Bad : n <= k
    <3>1. Bad \in SUBSET Nat
      OBVIOUS
    <3> HIDE DEF Bad
    <3>. QED BY <2>1, <3>1, LeastElement
  <2>3. CASE n = 0
    <3> DEFINE g == [T \in UpTo(0) |-> 0]
    <3>1. \A T \in UpTo(0) : T = {}
      BY <1>1, FS_EmptySet
    <3>2. g = [T \in UpTo(0) |-> Summed(f, g, T)]
      BY <3>1 DEF Summed
    <3>3. Fits(0, g)
      BY <3>2
    <3>. QED BY <2>2, <2>3, <3>3
  <2>4. CASE n # 0
    <3>1. n - 1 \in Nat /\ n - 1 \notin Bad
      <4>1. n \in Nat /\ n - 1 \in Nat /\ ~(n <= n - 1)
        BY <2>2, <2>4
      <4>. QED BY <2>2, <4>1
    <3>2. PICK g : Fits(n - 1, g)
      BY <3>1
    <3>3. \E h : Fits((n - 1) + 1, h)
      <4> HIDE DEF Fits
      <4>. QED BY <1>2, <3>1, <3>2
    <3>4. (n - 1) + 1 = n
      BY <2>2
    <3>5. \E h : Fits(n, h)
      BY <3>3, <3>4
    <3>. QED BY <2>2, <3>5
  <2>. QED BY <2>3, <2>4
<1>4. UpTo(Cardinality(S)) = SUBSET S
  BY <1>1, FS_Subset
<1>5. PICK g : Fits(Cardinality(S), g)
  BY <1>1, <1>3
<1>6. IsSum(f, S, g)
  BY <1>4, <1>5 DEF IsSum
<1>. QED BY <1>6

LEMMA SumOfIsSum ==
  ASSUME NEW S, IsFiniteSet(S), NEW f
  PROVE  \A T \in SUBSET S : SumOf(f, S)[T] = Summed(f, SumOf(f, S), T)
<1>1. IsSum(f, S, SumOf(f, S))
  BY SumFunctionExists DEF SumOf
<1>. QED BY <1>1 DEF IsSum

\* The sum over a subset does not depend on the set it is taken in.
LEMMA SumOfPart ==
  ASSUME NEW S, IsFiniteSet(S), NEW f, NEW T \in SUBSET S
  PROVE  SumOf(f, S)[T] = SumFunctionOnSet(f, T)
<1> DEFINE Good == {U \in SUBSET T : SumOf(f, S)[U] = SumOf(f, T)[U]}
<1>1. IsFiniteSet(T)
  BY FS_Subset
<1>2. ASSUME NEW U \in SUBSET T, \A x \in U : U \ {x} \in Good
      PROVE  U \in Good
  <2>1. /\ SumOf(f, S)[U] = Summed(f, SumOf(f, S), U)
        /\ SumOf(f, T)[U] = Summed(f, SumOf(f, T), U)
    BY <1>1, SumOfIsSum
  <2>2. U # {} => SumOf(f, S)[U \ {Some(U)}] = SumOf(f, T)[U \ {Some(U)}]
    BY <1>2, SomeElement
  <2>. QED BY <2>1, <2>2 DEF Summed
<1>3. T \in Good
  <2> HIDE DEF Good
  <2>. QED BY <1>1, <1>2, SubsetInduction
<1>. QED BY <1>3, SumIsLast

LEMMA SumStep ==
  ASSUME NEW S, IsFiniteSet(S), NEW f
  PROVE  /\ S = {} => SumFunctionOnSet(f, S) = 0
         /\ S # {} => /\ Some(S) \in S
                      /\ SumFunctionOnSet(f, S) =
                            f[Some(S)] + SumFunctionOnSet(f, S \ {Some(S)})
<1>1. SumFunctionOnSet(f, S) = Summed(f, SumOf(f, S), S)
  BY SumIsLast, SumOfIsSum
<1>2. SumOf(f, S)[S \ {Some(S)}] = SumFunctionOnSet(f, S \ {Some(S)})
  BY SumOfPart
<1>. QED BY <1>1, <1>2, SomeElement DEF Summed

THEOREM SumEmpty == ASSUME NEW f PROVE SumFunctionOnSet(f, {}) = 0
BY SumStep, FS_EmptySet

THEOREM SumInt ==
  ASSUME NEW S, IsFiniteSet(S), NEW f, \A x \in S : f[x] \in Int
  PROVE  SumFunctionOnSet(f, S) \in Int
<1> DEFINE Good == {T \in SUBSET S : SumFunctionOnSet(f, T) \in Int}
<1>1. ASSUME NEW T \in SUBSET S, \A x \in T : T \ {x} \in Good
      PROVE  T \in Good
  <2>1. IsFiniteSet(T)
    BY FS_Subset
  <2>2. CASE T = {}
    BY <2>2, SumEmpty
  <2>3. CASE T # {}
    <3>1. /\ Some(T) \in T
          /\ SumFunctionOnSet(f, T) = f[Some(T)] + SumFunctionOnSet(f, T \ {Some(T)})
      BY <2>1, <2>3, SumStep
    <3>2. f[Some(T)] \in Int /\ SumFunctionOnSet(f, T \ {Some(T)}) \in Int
      BY <1>1, <3>1
    <3>. QED BY <3>1, <3>2
  <2>. QED BY <2>2, <2>3
<1>2. S \in Good
  <2>1. \A T \in SUBSET S : (\A x \in T : T \ {x} \in Good) => T \in Good
    BY <1>1
  <2> HIDE DEF Good
  <2>2. \A T \in SUBSET S : T \in Good
    BY <2>1, SubsetInduction
  <2>. QED BY <2>2
<1>. QED BY <1>2

\* Any element may be taken out of a sum.
THEOREM SumRemove ==
  ASSUME NEW S, IsFiniteSet(S), NEW f, \A y \in S : f[y] \in Int, NEW x \in S
  PROVE  SumFunctionOnSet(f, S) = f[x] + SumFunctionOnSet(f, S \ {x})
<1> DEFINE Sum(T) == SumFunctionOnSet(f, T)
           Good == {T \in SUBSET S : \A y \in T : Sum(T) = f[y] + Sum(T \ {y})}
<1>1. ASSUME NEW T \in SUBSET S, \A y \in T : T \ {y} \in Good
      PROVE  T \in Good
  <2>1. \A U \in SUBSET T : IsFiniteSet(U) /\ Sum(U) \in Int
    BY FS_Subset, SumInt
  <2>2. ASSUME NEW y \in T PROVE Sum(T) = f[y] + Sum(T \ {y})
    <3> DEFINE z == Some(T)
    <3>1. z \in T /\ Sum(T) = f[z] + Sum(T \ {z})
      BY <2>1, SumStep
    <3> HIDE DEF z
    <3>2. CASE y # z
      <4>1. Sum(T \ {z}) = f[y] + Sum((T \ {z}) \ {y})
        BY <1>1, <3>1, <3>2
      <4>2. Sum(T \ {y}) = f[z] + Sum((T \ {y}) \ {z})
        BY <1>1, <3>1, <3>2
      <4>3. (T \ {z}) \ {y} = (T \ {y}) \ {z}
        OBVIOUS
      <4>4. /\ f[y] \in Int /\ f[z] \in Int
            /\ Sum(T) \in Int /\ Sum(T \ {y}) \in Int /\ Sum(T \ {z}) \in Int
            /\ Sum((T \ {y}) \ {z}) \in Int
        BY <2>1, <3>1
      <4>5. Sum((T \ {z}) \ {y}) = Sum((T \ {y}) \ {z})
        BY <4>3
      <4>6. \A fy, fz, sum, sumy, sumz, rest \in Int :
               sumz = fy + rest /\ sumy = fz + rest /\ sum = fz + sumz
               => sum = fy + sumy
        OBVIOUS
      <4> HIDE DEF Sum
      <4>. QED BY <3>1, <4>1, <4>2, <4>4, <4>5, <4>6
    <3>. QED BY <3>1, <3>2
  <2>. QED BY <2>2
<1>2. S \in Good
  <2>1. \A T \in SUBSET S : (\A y \in T : T \ {y} \in Good) => T \in Good
    BY <1>1
  <2> HIDE DEF Good
  <2>2. \A T \in SUBSET S : T \in Good
    BY <2>1, SubsetInduction
  <2>. QED BY <2>2
<1>. QED BY <1>2

---------------------------------------------------------------------------
(* Sums of related functions over related sets.                            *)

THEOREM SumMonotone ==
  ASSUME NEW S, IsFiniteSet(S), NEW f, NEW g,
         \A x \in S : f[x] \in Int /\ g[x] \in Int /\ f[x] <= g[x]
  PROVE  SumFunctionOnSet(f, S) <= SumFunctionOnSet(g, S)
<1> DEFINE Good == {T \in SUBSET S : SumFunctionOnSet(f, T) <= SumFunctionOnSet(g, T)}
<1>1. ASSUME NEW T \in SUBSET S, \A x \in T : T \ {x} \in Good
      PROVE  T \in Good
  <2>1. CASE T = {}
    BY <2>1, SumEmpty
  <2>2. CASE T # {}
    <3>1. PICK x \in T : TRUE
      BY <2>2
    <3>2. \A U \in SUBSET T : /\ SumFunctionOnSet(f, U) \in Int
                             /\ SumFunctionOnSet(g, U) \in Int
      BY FS_Subset, SumInt
    <3>3. /\ SumFunctionOnSet(f, T) = f[x] + SumFunctionOnSet(f, T \ {x})
          /\ SumFunctionOnSet(g, T) = g[x] + SumFunctionOnSet(g, T \ {x})
      BY FS_Subset, SumRemove
    <3>4. SumFunctionOnSet(f, T \ {x}) <= SumFunctionOnSet(g, T \ {x})
      BY <1>1
    <3>5. T \ {x} \in SUBSET T /\ f[x] \in Int /\ g[x] \in Int /\ f[x] <= g[x]
      OBVIOUS
    <3>. QED BY <3>2, <3>3, <3>4, <3>5
  <2>. QED BY <2>1, <2>2
<1>2. S \in Good
  <2>1. \A T \in SUBSET S : (\A x \in T : T \ {x} \in Good) => T \in Good
    BY <1>1
  <2> HIDE DEF Good
  <2>2. \A T \in SUBSET S : T \in Good
    BY <2>1, SubsetInduction
  <2>. QED BY <2>2
<1>. QED BY <1>2

THEOREM SumEqual ==
  ASSUME NEW S, IsFiniteSet(S), NEW f, NEW g,
         \A x \in S : f[x] \in Int /\ g[x] = f[x]
  PROVE  SumFunctionOnSet(g, S) = SumFunctionOnSet(f, S)
<1>1. /\ SumFunctionOnSet(f, S) <= SumFunctionOnSet(g, S)
      /\ SumFunctionOnSet(g, S) <= SumFunctionOnSet(f, S)
  BY SumMonotone
<1>2. SumFunctionOnSet(f, S) \in Int /\ SumFunctionOnSet(g, S) \in Int
  BY SumInt
<1>. QED BY <1>1, <1>2

THEOREM SumPlus ==
  ASSUME NEW S, IsFiniteSet(S), NEW f, NEW g, NEW h,
         \A x \in S : f[x] \in Int /\ g[x] \in Int /\ h[x] = f[x] + g[x]
  PROVE  SumFunctionOnSet(h, S) = SumFunctionOnSet(f, S) + SumFunctionOnSet(g, S)
<1> DEFINE Good == {T \in SUBSET S : SumFunctionOnSet(h, T) =
                       SumFunctionOnSet(f, T) + SumFunctionOnSet(g, T)}
<1>1. ASSUME NEW T \in SUBSET S, \A x \in T : T \ {x} \in Good
      PROVE  T \in Good
  <2>1. CASE T = {}
    BY <2>1, SumEmpty
  <2>2. CASE T # {}
    <3>1. PICK x \in T : TRUE
      BY <2>2
    <3>2. \A U \in SUBSET T : /\ SumFunctionOnSet(f, U) \in Int
                             /\ SumFunctionOnSet(g, U) \in Int
      BY FS_Subset, SumInt
    <3>3. /\ SumFunctionOnSet(f, T) = f[x] + SumFunctionOnSet(f, T \ {x})
          /\ SumFunctionOnSet(g, T) = g[x] + SumFunctionOnSet(g, T \ {x})
          /\ SumFunctionOnSet(h, T) = h[x] + SumFunctionOnSet(h, T \ {x})
      <4>1. /\ IsFiniteSet(T)
            /\ \A y \in T : f[y] \in Int /\ g[y] \in Int /\ h[y] \in Int
        BY FS_Subset
      <4>. QED BY <4>1, SumRemove
    <3>4. SumFunctionOnSet(h, T \ {x}) =
             SumFunctionOnSet(f, T \ {x}) + SumFunctionOnSet(g, T \ {x})
      BY <1>1
    <3>5. T \ {x} \in SUBSET T /\ f[x] \in Int /\ g[x] \in Int /\ h[x] = f[x] + g[x]
      OBVIOUS
    <3>. QED BY <3>2, <3>3, <3>4, <3>5
  <2>. QED BY <2>1, <2>2
<1>2. S \in Good
  <2>1. \A T \in SUBSET S : (\A x \in T : T \ {x} \in Good) => T \in Good
    BY <1>1
  <2> HIDE DEF Good
  <2>2. \A T \in SUBSET S : T \in Good
    BY <2>1, SubsetInduction
  <2>. QED BY <2>2
<1>. QED BY <1>2

\* The terms may be indexed by another set, one to one.
THEOREM SumReindex ==
  ASSUME NEW S, IsFiniteSet(S), NEW m,
         \A x, y \in S : m[x] = m[y] => x = y,
         NEW f, \A x \in S : f[m[x]] \in Int,
         NEW g, \A x \in S : g[x] = f[m[x]]
  PROVE  SumFunctionOnSet(f, {m[x] : x \in S}) = SumFunctionOnSet(g, S)
<1> DEFINE Image(T) == {m[x] : x \in T}
           Good == {T \in SUBSET S :
                       SumFunctionOnSet(f, Image(T)) = SumFunctionOnSet(g, T)}
<1>1. ASSUME NEW T \in SUBSET S, \A x \in T : T \ {x} \in Good
      PROVE  T \in Good
  <2>1. CASE T = {}
    <3>1. Image(T) = {}
      BY <2>1
    <3>. QED BY <2>1, <3>1, SumEmpty
  <2>2. CASE T # {}
    <3>1. PICK x \in T : TRUE
      BY <2>2
    <3>2. IsFiniteSet(T)
      BY FS_Subset
    <3>3. IsFiniteSet(Image(T))
      <4>1. [y \in T |-> m[y]] \in Surjection(T, Image(T))
        BY DEF Surjection
      <4> HIDE DEF Image
      <4>. QED BY <3>2, <4>1, FS_Surjection
    <3>4. SumFunctionOnSet(g, T) = g[x] + SumFunctionOnSet(g, T \ {x})
      BY <3>2, SumRemove
    <3>5. m[x] \in Image(T) /\ \A y \in Image(T) : f[y] \in Int
      OBVIOUS
    <3>6. SumFunctionOnSet(f, Image(T)) = f[m[x]] + SumFunctionOnSet(f, Image(T) \ {m[x]})
      <4> HIDE DEF Image
      <4>. QED BY <3>3, <3>5, SumRemove
    <3>7. Image(T) \ {m[x]} = Image(T \ {x})
      OBVIOUS
    <3>8. SumFunctionOnSet(f, Image(T \ {x})) = SumFunctionOnSet(g, T \ {x})
      BY <1>1
    <3>9. SumFunctionOnSet(f, Image(T) \ {m[x]}) = SumFunctionOnSet(g, T \ {x})
      <4> HIDE DEF Image
      <4>. QED BY <3>7, <3>8
    <3>10. g[x] = f[m[x]]
      OBVIOUS
    <3>11. SumFunctionOnSet(f, Image(T)) = SumFunctionOnSet(g, T)
      <4> HIDE DEF Image
      <4>. QED BY <3>4, <3>6, <3>9, <3>10
    <3>. QED BY <3>11
  <2>. QED BY <2>1, <2>2
<1>2. S \in Good
  <2>1. \A T \in SUBSET S : (\A x \in T : T \ {x} \in Good) => T \in Good
    BY <1>1
  <2> HIDE DEF Good
  <2>2. \A T \in SUBSET S : T \in Good
    BY <2>1, SubsetInduction
  <2>. QED BY <2>2
<1>. QED BY <1>2

\* Leaving out zeros does not change a sum.
THEOREM SumZeros ==
  ASSUME NEW S, IsFiniteSet(S), NEW f, \A x \in S : f[x] \in Int,
         NEW T \in SUBSET S, \A x \in S \ T : f[x] = 0
  PROVE  SumFunctionOnSet(f, S) = SumFunctionOnSet(f, T)
<1> DEFINE Good == {R \in SUBSET (S \ T) :
                       SumFunctionOnSet(f, T \cup R) = SumFunctionOnSet(f, T)}
<1>1. \A U \in SUBSET S : IsFiniteSet(U) /\ SumFunctionOnSet(f, U) \in Int
  BY FS_Subset, SumInt
<1>2. ASSUME NEW R \in SUBSET (S \ T), \A x \in R : R \ {x} \in Good
      PROVE  R \in Good
  <2>1. CASE R = {}
    <3>1. T \cup R = T /\ SumFunctionOnSet(f, T) \in Int
      BY <1>1, <2>1
    <3>. QED BY <3>1
  <2>2. CASE R # {}
    <3>1. PICK x \in R : TRUE
      BY <2>2
    <3>2. /\ T \cup R \in SUBSET S /\ x \in T \cup R /\ f[x] \in Int /\ f[x] = 0
          /\ (T \cup R) \ {x} = T \cup (R \ {x})
      OBVIOUS
    <3>3. SumFunctionOnSet(f, T \cup R) = f[x] + SumFunctionOnSet(f, (T \cup R) \ {x})
      BY <1>1, <3>2, SumRemove
    <3>4. SumFunctionOnSet(f, T \cup (R \ {x})) = SumFunctionOnSet(f, T)
      BY <1>2
    <3>5. /\ SumFunctionOnSet(f, T \cup R) \in Int /\ SumFunctionOnSet(f, T) \in Int
          /\ SumFunctionOnSet(f, T \cup (R \ {x})) \in Int
      BY <1>1
    <3>6. SumFunctionOnSet(f, (T \cup R) \ {x}) = SumFunctionOnSet(f, T \cup (R \ {x}))
      BY <3>2
    <3>7. SumFunctionOnSet(f, T \cup R) = SumFunctionOnSet(f, T)
      BY <3>2, <3>3, <3>4, <3>5, <3>6
    <3>. QED BY <3>7
  <2>. QED BY <2>1, <2>2
<1>3. S \ T \in Good
  <2>1. \A R \in SUBSET (S \ T) : (\A x \in R : R \ {x} \in Good) => R \in Good
    BY <1>2
  <2>2. IsFiniteSet(S \ T)
    BY <1>1
  <2> HIDE DEF Good
  <2>3. \A R \in SUBSET (S \ T) : R \in Good
    BY <2>1, <2>2, SubsetInduction
  <2>. QED BY <2>3
<1>4. T \cup (S \ T) = S
  OBVIOUS
<1>. QED BY <1>3, <1>4

\* Leaving out terms that are not positive does not lower a sum.
THEOREM SumPart ==
  ASSUME NEW S, IsFiniteSet(S), NEW f, \A x \in S : f[x] \in Int,
         NEW T \in SUBSET S, \A x \in S \ T : f[x] <= 0
  PROVE  SumFunctionOnSet(f, S) <= SumFunctionOnSet(f, T)
<1> DEFINE g == [x \in S |-> IF x \in T THEN f[x] ELSE 0]
<1>1. /\ \A x \in S : g[x] \in Int /\ f[x] <= g[x]
      /\ \A x \in S \ T : g[x] = 0
      /\ \A x \in T : g[x] = f[x]
  OBVIOUS
<1> HIDE DEF g
<1>2. SumFunctionOnSet(f, S) <= SumFunctionOnSet(g, S)
  BY <1>1, SumMonotone
<1>3. SumFunctionOnSet(g, S) = SumFunctionOnSet(g, T)
  BY <1>1, SumZeros
<1>4. SumFunctionOnSet(g, T) = SumFunctionOnSet(f, T)
  BY <1>1, FS_Subset, SumEqual
<1>. QED BY <1>2, <1>3, <1>4

\* Equal terms add up to a multiple.
THEOREM SumOfSame ==
    ASSUME NEW S, IsFiniteSet(S), NEW f, NEW c \in Nat, \A x \in S : f[x] = c
    PROVE  SumFunctionOnSet(f, S) = Cardinality(S) * c
<1> DEFINE Good == {T \in SUBSET S : SumFunctionOnSet(f, T) = Cardinality(T) * c}
<1>1. ASSUME NEW T \in SUBSET S, \A x \in T : T \ {x} \in Good
      PROVE  T \in Good
  <2>1. CASE T = {}
    BY <2>1, SumEmpty, FS_EmptySet
  <2>2. CASE T # {}
    <3>1. PICK x \in T : TRUE
      BY <2>2
    <3> DEFINE rest == T \ {x}
    <3>2. IsFiniteSet(T) /\ \A y \in T : f[y] \in Int
      BY FS_Subset
    <3>3. SumFunctionOnSet(f, T) = f[x] + SumFunctionOnSet(f, rest)
      BY <3>2, SumRemove
    <3>4. /\ IsFiniteSet(rest) /\ Cardinality(rest) = Cardinality(T) - 1
          /\ Cardinality(rest) \in Nat /\ Cardinality(T) \in Nat
      BY <3>2, FS_RemoveElement, FS_CardinalityType
    <3>5. SumFunctionOnSet(f, rest) = Cardinality(rest) * c /\ f[x] = c
      BY <1>1
    <3> HIDE DEF rest
    <3>6. \A n \in Nat : c + n * c = (n + 1) * c
      OBVIOUS
    <3>7. SumFunctionOnSet(f, T) = (Cardinality(rest) + 1) * c
      BY <3>3, <3>4, <3>5, <3>6
    <3>8. Cardinality(rest) + 1 = Cardinality(T)
      BY <3>4
    <3>. QED BY <3>7, <3>8
  <2>. QED BY <2>1, <2>2
<1>2. S \in Good
  <2>1. \A T \in SUBSET S : (\A x \in T : T \ {x} \in Good) => T \in Good
    BY <1>1
  <2> HIDE DEF Good
  <2>2. \A T \in SUBSET S : T \in Good
    BY <2>1, SubsetInduction
  <2>. QED BY <2>2
<1>. QED BY <1>2

\* The elements of a set, counted key by key.
KeyCounts(S, D, key) == [d \in D |-> Cardinality({x \in S : key[x] = d})]

THEOREM CountByKey ==
    ASSUME NEW S, IsFiniteSet(S), NEW D, IsFiniteSet(D), NEW key, \A x \in S : key[x] \in D
    PROVE  SumFunctionOnSet(KeyCounts(S, D, key), D) = Cardinality(S)
<1> DEFINE Good == {T \in SUBSET S :
                       SumFunctionOnSet(KeyCounts(T, D, key), D) = Cardinality(T)}
<1>0. ASSUME NEW T \in SUBSET S, NEW d \in D
      PROVE  /\ IsFiniteSet(T) /\ IsFiniteSet({x \in T : key[x] = d})
             /\ KeyCounts(T, D, key)[d] = Cardinality({x \in T : key[x] = d})
             /\ KeyCounts(T, D, key)[d] \in Nat
  <2>1. IsFiniteSet(T) /\ IsFiniteSet({x \in T : key[x] = d})
    BY FS_Subset
  <2>2. KeyCounts(T, D, key)[d] = Cardinality({x \in T : key[x] = d})
    BY DEF KeyCounts
  <2>. QED BY <2>1, <2>2, FS_CardinalityType
<1>1. ASSUME NEW T \in SUBSET S, \A x \in T : T \ {x} \in Good
      PROVE  T \in Good
  <2>1. CASE T = {}
    <3>1. \A d \in D : KeyCounts(T, D, key)[d] = 0
      <4>1. \A d \in D : {x \in T : key[x] = d} = {}
        BY <2>1
      <4>. QED BY <1>0, <4>1, FS_EmptySet
    <3>2. {} \in SUBSET D
      OBVIOUS
    <3>3. SumFunctionOnSet(KeyCounts(T, D, key), D) = SumFunctionOnSet(KeyCounts(T, D, key), {})
      BY <3>1, <3>2, SumZeros
    <3>. QED BY <2>1, <3>3, SumEmpty, FS_EmptySet
  <2>2. CASE T # {}
    <3>1. PICK x \in T : TRUE
      BY <2>2
    <3> DEFINE k == key[x]
               rest == T \ {x}
               f == KeyCounts(T, D, key)
               g == KeyCounts(rest, D, key)
    <3>2. k \in D /\ rest \in SUBSET S /\ rest \in Good
      BY <1>1
    <3>13. \A d \in D : f[d] \in Nat
      BY <1>0
    <3>14. \A d \in D : g[d] \in Nat
      BY <1>0, <3>2
    <3>3. \A d \in D : f[d] \in Int /\ g[d] \in Int
      BY <3>13, <3>14
    <3>4. f[k] = g[k] + 1
      <4>1. {y \in T : key[y] = k} = {y \in rest : key[y] = k} \cup {x}
        OBVIOUS
      <4>2. x \notin {y \in rest : key[y] = k}
        OBVIOUS
      <4>3. IsFiniteSet({y \in rest : key[y] = k})
        BY <1>0, <3>2
      <4>4. Cardinality({y \in T : key[y] = k}) = Cardinality({y \in rest : key[y] = k}) + 1
        <5> DEFINE A == {y \in rest : key[y] = k}
        <5>1. Cardinality(A \cup {x}) = Cardinality(A) + 1
          <6> HIDE DEF A
          <6>. QED BY <4>2, <4>3, FS_AddElement DEF A
        <5>. QED BY <4>1, <5>1
      <4>. QED BY <1>0, <3>2, <4>4
    <3>5. \A d \in D \ {k} : f[d] = g[d]
      <4>1. ASSUME NEW d \in D \ {k} PROVE {y \in T : key[y] = d} = {y \in rest : key[y] = d}
        OBVIOUS
      <4>. QED BY <1>0, <3>2, <4>1
    <3>6. Cardinality(T) = Cardinality(rest) + 1
      <4>1. IsFiniteSet(rest) /\ x \notin rest /\ T = rest \cup {x}
        BY <3>2, FS_Subset
      <4>. QED BY <4>1, FS_AddElement
    <3>7. SumFunctionOnSet(g, D) = Cardinality(rest) /\ Cardinality(rest) \in Nat
      BY <3>2, FS_Subset, FS_CardinalityType
    <3> HIDE DEF f, g, k, rest
    <3>8. /\ SumFunctionOnSet(f, D) = f[k] + SumFunctionOnSet(f, D \ {k})
          /\ SumFunctionOnSet(g, D) = g[k] + SumFunctionOnSet(g, D \ {k})
      BY <3>2, <3>3, SumRemove
    <3>9. IsFiniteSet(D \ {k})
      BY FS_Subset
    <3>10. SumFunctionOnSet(f, D \ {k}) = SumFunctionOnSet(g, D \ {k})
      BY <3>3, <3>5, <3>9, SumEqual
    <3>11. SumFunctionOnSet(g, D \ {k}) \in Int
      BY <3>3, <3>9, SumInt
    <3>12. SumFunctionOnSet(f, D) = Cardinality(T)
      BY <3>2, <3>3, <3>4, <3>6, <3>7, <3>8, <3>10, <3>11
    <3>. QED BY <3>12 DEF f
  <2>. QED BY <2>1, <2>2
<1>2. S \in Good
  <2>1. \A T \in SUBSET S : (\A x \in T : T \ {x} \in Good) => T \in Good
    BY <1>1
  <2> HIDE DEF Good
  <2>2. \A T \in SUBSET S : T \in Good
    BY <2>1, SubsetInduction
  <2>. QED BY <2>2
<1>. QED BY <1>2

LEMMA ProductNat == \A a, b \in Nat : a * b \in Nat
OBVIOUS

=============================================================================
