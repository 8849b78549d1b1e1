---------------------------- MODULE NumberProofs ----------------------------
(***************************************************************************)
(* Facts about numbers, sequences, functions defined by recursion, sums    *)
(* over finite sets and the counting of labels.                            *)
(***************************************************************************)
EXTENDS Integers, Functions, FiniteSetTheorems, SequenceTheorems, TLAPS

(* Division: quotient and remainder. *)

LEMMA Divide ==
    ASSUME NEW m \in Nat \ {0}, NEW x \in Int
    PROVE  x \div m \in Int /\ x % m \in 0 .. m - 1 /\ x = (x \div m) * m + (x % m)
  BY SMT

\* The remainder of a number is the only one it can be written with.
LEMMA RemainderUnique ==
    ASSUME NEW m \in Nat \ {0}, NEW q \in Int, NEW r \in 0 .. m - 1
    PROVE  (q * m + r) % m = r
  BY SMT

-----------------------------------------------------------------------------
(* Sequences. *)

LEMMA Slice ==
    ASSUME NEW S, NEW s \in Seq(S), NEW m \in Nat \ {0}, NEW n \in Nat, n <= Len(s), m <= n + 1
    PROVE  /\ SubSeq(s, m, n) \in Seq(S) /\ Len(SubSeq(s, m, n)) = n - m + 1
           /\ \A i \in 1 .. n - m + 1 : SubSeq(s, m, n)[i] = s[m + i - 1]
<1>1. \A i \in m .. n : s[i] \in S
  OBVIOUS
<1>2. /\ SubSeq(s, m, n) \in Seq(S)
      /\ Len(SubSeq(s, m, n)) = IF m <= n THEN n - m + 1 ELSE 0
      /\ \A i \in 1 .. n - m + 1 : SubSeq(s, m, n)[i] = s[m + i - 1]
  BY <1>1, SubSeqProperties
<1> QED  BY <1>2

LEMMA Prefix ==
    ASSUME NEW S, NEW s \in Seq(S), NEW n \in 0 .. Len(s)
    PROVE  /\ SubSeq(s, 1, n) \in Seq(S) /\ Len(SubSeq(s, 1, n)) = n
           /\ \A i \in 1 .. n : SubSeq(s, 1, n)[i] = s[i]
<1> DEFINE m == 1
<1>1. m \in Nat \ {0} /\ n \in Nat /\ n <= Len(s) /\ m <= n + 1
  OBVIOUS
<1>2. n - m + 1 = n /\ \A i \in 1 .. n : m + i - 1 = i
  OBVIOUS
<1> HIDE DEF m
<1>3. /\ SubSeq(s, m, n) \in Seq(S) /\ Len(SubSeq(s, m, n)) = n - m + 1
      /\ \A i \in 1 .. n - m + 1 : SubSeq(s, m, n)[i] = s[m + i - 1]
  BY <1>1, Slice
<1>4. /\ SubSeq(s, m, n) \in Seq(S) /\ Len(SubSeq(s, m, n)) = n
      /\ \A i \in 1 .. n : SubSeq(s, m, n)[i] = s[i]
  BY <1>2, <1>3
<1> QED  BY <1>4 DEF m

LEMMA WholeSequence ==
    ASSUME NEW S, NEW s \in Seq(S)
    PROVE  SubSeq(s, 1, Len(s)) = s
<1> DEFINE n == Len(s)
           w == SubSeq(s, 1, n)
<1>1. n \in 0 .. Len(s) /\ n \in Nat
  OBVIOUS
<1>2. w \in Seq(S) /\ Len(w) = n /\ \A i \in 1 .. n : w[i] = s[i]
  BY <1>1, Prefix
<1> HIDE DEF w
<1>3. w = s
  BY <1>2, SeqEqual
<1> QED  BY <1>3 DEF w

LEMMA Joined ==
    ASSUME NEW S, NEW s \in Seq(S), NEW t \in Seq(S)
    PROVE  /\ s \o t \in Seq(S) /\ Len(s \o t) = Len(s) + Len(t)
           /\ Len(s) \in Nat /\ Len(t) \in Nat
           /\ \A i \in 1 .. Len(s) : (s \o t)[i] = s[i]
           /\ \A i \in 1 .. Len(t) : (s \o t)[Len(s) + i] = t[i]
BY ConcatProperties

-----------------------------------------------------------------------------
(* The smallest of some numbers. *)

LEMMA SmallestNumber ==
    ASSUME NEW T \in SUBSET Nat, T # {}
    PROVE  \E n \in T : \A m \in T : n <= m
<1>1. PICK n \in T : \A m \in T : ~(<<m, n>> \in OpToRel(<, Nat))
  BY NatLessThanWellFounded, WFMin
<1>2. \A m \in T : ~(m < n)
  BY <1>1 DEF OpToRel
<1> QED  BY <1>2

-----------------------------------------------------------------------------
(***************************************************************************)
(* A function on 0 .. N defined by recursion, each value from the one      *)
(* before: it exists and is the only one.                                  *)
(***************************************************************************)

Recursion(g, first, step, N) == g[0] = first /\ \A n \in 1 .. N : g[n] = step[n][g[n - 1]]

LEMMA RecursionExists ==
    ASSUME NEW S, NEW first \in S, NEW N \in Nat, NEW step \in [1 .. N -> [S -> S]]
    PROVE  \E g \in [0 .. N -> S] : Recursion(g, first, step, N)
<1> DEFINE T == {k \in 0 .. N : ~ \E g \in [0 .. k -> S] : Recursion(g, first, step, k)}
<1>1. T = {}
  <2> SUFFICES ASSUME T # {} PROVE FALSE
    OBVIOUS
  <2>1. PICK k \in T : \A m \in T : k <= m
    <3>1. T \in SUBSET Nat
      OBVIOUS
    <3> HIDE DEF T
    <3> QED  BY <3>1, SmallestNumber
  <2>2. CASE k = 0
    <3> DEFINE h == [n \in 0 .. 0 |-> first]
    <3>1. h \in [0 .. 0 -> S] /\ h[0] = first
      OBVIOUS
    <3>2. Recursion(h, first, step, 0)
      BY <3>1 DEF Recursion
    <3> QED  BY <2>1, <2>2, <3>1, <3>2
  <2>3. CASE k # 0
    <3>1. k \in Nat /\ k - 1 \in 0 .. N /\ k \in 1 .. N /\ k - 1 \notin T /\ k - 1 \in 0 .. k - 1
      BY <2>1, <2>3
    <3>2. PICK g \in [0 .. k - 1 -> S] : Recursion(g, first, step, k - 1)
      BY <3>1
    <3> DEFINE h == [n \in 0 .. k |-> IF n = k THEN step[k][g[k - 1]] ELSE g[n]]
    <3>3. g[0] = first /\ \A n \in 1 .. k - 1 : g[n] = step[n][g[n - 1]]
      BY <3>2 DEF Recursion
    <3>4. step[k][g[k - 1]] \in S
      <4>1. g[k - 1] \in S /\ step[k] \in [S -> S]
        BY <3>1, <3>2
      <4> QED  BY <4>1
    <3>5. h \in [0 .. k -> S]
      BY <3>1, <3>2, <3>4
    <3>6. h[k] = step[k][g[k - 1]] /\ \A n \in 0 .. k - 1 : h[n] = g[n]
      BY <3>1
    <3> HIDE DEF h, T
    <3>7. \A n \in 1 .. k : h[n] = step[n][h[n - 1]]
      <4> TAKE n \in 1 .. k
      <4>1. CASE n = k
        BY <3>1, <3>6, <4>1
      <4>2. CASE n # k
        <5>1. n \in 1 .. k - 1 /\ n \in 0 .. k - 1 /\ n - 1 \in 0 .. k - 1
          BY <3>1, <4>2
        <5> QED  BY <3>3, <3>6, <5>1
      <4> QED  BY <4>1, <4>2
    <3>8. h[0] = first
      <4>1. 0 \in 0 .. k - 1
        BY <3>1
      <4> QED  BY <3>3, <3>6, <4>1
    <3>9. Recursion(h, first, step, k)
      BY <3>7, <3>8 DEF Recursion
    <3> QED  BY <2>1, <3>5, <3>9 DEF T
  <2> QED  BY <2>2, <2>3
<1>2. N \in 0 .. N /\ N \notin T
  <2> HIDE DEF T
  <2> QED  BY <1>1
<1> QED  BY <1>2

\* What follows the recursion as long as its own values allow, has the values of one that does.
Follows(h, g, S, first, step, N) ==
    /\ first \in S /\ N \in Nat /\ step \in [1 .. N -> [S -> S]]
    /\ g \in [0 .. N -> S] /\ Recursion(g, first, step, N)
    /\ h[0] = first /\ \A n \in 1 .. N : h[n - 1] \in S => h[n] = step[n][h[n - 1]]

LEMMA RecursionFollowed ==
    ASSUME NEW S, NEW first, NEW N, NEW step, NEW g, NEW h, Follows(h, g, S, first, step, N)
    PROVE  \A n \in 0 .. N : h[n] = g[n]
<1> DEFINE T == {n \in 0 .. N : h[n] # g[n]}
<1>0. N \in Nat /\ g \in [0 .. N -> S]
  BY DEF Follows
<1>1. /\ g[0] = first /\ \A n \in 1 .. N : g[n] = step[n][g[n - 1]]
      /\ h[0] = first /\ \A n \in 1 .. N : h[n - 1] \in S => h[n] = step[n][h[n - 1]]
  BY DEF Recursion, Follows
<1>2. T = {}
  <2> SUFFICES ASSUME T # {} PROVE FALSE
    OBVIOUS
  <2>1. PICK n \in T : \A m \in T : n <= m
    <3>1. T \in SUBSET Nat
      BY <1>0
    <3> HIDE DEF T
    <3> QED  BY <3>1, SmallestNumber
  <2>2. n \in 1 .. N /\ n - 1 \in 0 .. N /\ n - 1 \notin T
    BY <1>0, <1>1, <2>1
  <2>3. h[n - 1] = g[n - 1] /\ g[n - 1] \in S
    BY <1>0, <2>2
  <2>4. h[n] = g[n]
    BY <1>1, <2>2, <2>3
  <2> QED  BY <2>1, <2>4
<1> QED  BY <1>2

\* Numbers none of which is less than the one before.
LEMMA Rises ==
    ASSUME NEW N \in Nat, NEW at \in [0 .. N -> Nat], \A n \in 1 .. N : at[n - 1] <= at[n]
    PROVE  \A m, n \in 0 .. N : m <= n => at[m] <= at[n]
<1> SUFFICES ASSUME NEW m \in 0 .. N PROVE \A n \in 0 .. N : m <= n => at[m] <= at[n]
  OBVIOUS
<1> DEFINE T == {n \in 0 .. N : m <= n /\ ~(at[m] <= at[n])}
<1>1. T = {}
  <2> SUFFICES ASSUME T # {} PROVE FALSE
    OBVIOUS
  <2>1. PICK n \in T : \A k \in T : n <= k
    <3>1. T \in SUBSET Nat
      OBVIOUS
    <3> HIDE DEF T
    <3> QED  BY <3>1, SmallestNumber
  <2>2. n \in 0 .. N /\ m <= n /\ ~(at[m] <= at[n]) /\ at[m] \in Nat /\ at[n] \in Nat
    BY <2>1
  <2>3. n # m
    BY <2>2
  <2>4. n \in 1 .. N /\ n - 1 \in 0 .. N /\ m <= n - 1 /\ n - 1 \notin T
    BY <2>1, <2>2, <2>3
  <2>5. at[m] <= at[n - 1] /\ at[n - 1] \in Nat /\ at[n - 1] <= at[n]
    BY <2>4
  <2> QED  BY <2>2, <2>5
<1> QED  BY <1>1

-----------------------------------------------------------------------------
(***************************************************************************)
(* Sums over a finite set.  The community modules define SumFunction by a  *)
(* recursive function on the subsets of the set; what it returns is found  *)
(* by counting: f[x] units for each x, as pairs.                           *)
(***************************************************************************)

\* A family of subsets of a finite set, if not empty, has a member that contains no other.
LEMMA SmallestSubset ==
    ASSUME NEW S, IsFiniteSet(S), NEW T, T \subseteq SUBSET S, T # {}
    PROVE  \E s \in T : \A r \in T : r \subseteq s => r = s
<1>1. IsWellFoundedOn(StrictSubsetOrdering(S), FiniteSubsetsOf(S))
  BY FS_StrictSubsetOrderingWellFounded
<1>2. T \subseteq FiniteSubsetsOf(S)
  BY FS_Subset DEF FiniteSubsetsOf
<1>3. PICK s \in T : \A r \in T : ~(<<r, s>> \in StrictSubsetOrdering(S))
  BY <1>1, <1>2, WFMin
<1> QED
  BY <1>3 DEF StrictSubsetOrdering

Units(f, s) == {u \in s \X Nat : 1 <= u[2] /\ u[2] <= f[u[1]]}

\* One element more brings as many units as the function says.
LEMMA UnitsAdd ==
    ASSUME NEW S, NEW f \in [S -> Nat], NEW s \in SUBSET S, NEW x \in s,
           IsFiniteSet(Units(f, s \ {x}))
    PROVE  /\ IsFiniteSet(Units(f, s))
           /\ Cardinality(Units(f, s)) = f[x] + Cardinality(Units(f, s \ {x}))
<1> DEFINE new == {x} \X (1 .. f[x])
           old == Units(f, s \ {x})
<1>1. f[x] \in Nat
  OBVIOUS
<1>2. IsFiniteSet(1 .. f[x]) /\ Cardinality(1 .. f[x]) = f[x]
  BY <1>1, FS_Interval
<1>3. IsFiniteSet({x}) /\ Cardinality({x}) = 1
  BY FS_Singleton
<1>4. IsFiniteSet(new) /\ Cardinality(new) = f[x]
  <2>1. IsFiniteSet(new) /\ Cardinality(new) = Cardinality({x}) * Cardinality(1 .. f[x])
    BY <1>2, <1>3, FS_Product
  <2> QED
    BY <1>1, <1>2, <1>3, <2>1
<1>5. Units(f, s) = old \union new
  <2>1. \A u \in Units(f, s) : u \in old \union new
    BY <1>1 DEF Units
  <2>2. \A u \in old \union new : u \in Units(f, s)
    BY <1>1 DEF Units
  <2> QED
    BY <2>1, <2>2
<1>6. old \intersect new = {}
  BY DEF Units
<1> HIDE DEF old, new
<1>7. Cardinality(old \intersect new) = 0
  BY <1>6, FS_EmptySet
<1>8. /\ IsFiniteSet(old \union new)
      /\ Cardinality(old \union new)
            = Cardinality(old) + Cardinality(new) - Cardinality(old \intersect new)
  BY <1>4, FS_Union DEF old
<1>9. Cardinality(old) \in Nat
  BY FS_CardinalityType DEF old
<1> QED
  BY <1>1, <1>4, <1>5, <1>7, <1>8, <1>9 DEF old

\* The units of a finite set are finitely many.
LEMMA UnitsFinite ==
    ASSUME NEW S, IsFiniteSet(S), NEW f \in [S -> Nat], NEW s \in SUBSET S
    PROVE  IsFiniteSet(Units(f, s)) /\ Cardinality(Units(f, s)) \in Nat
<1> DEFINE bad == {r \in SUBSET S : ~IsFiniteSet(Units(f, r))}
<1>1. bad = {}
  <2> SUFFICES ASSUME bad # {} PROVE FALSE
    OBVIOUS
  <2>1. PICK r \in bad : \A q \in bad : q \subseteq r => q = r
    <3>1. bad \subseteq SUBSET S
      OBVIOUS
    <3> HIDE DEF bad
    <3> QED
      BY <3>1, SmallestSubset
  <2>2. CASE r = {}
    <3>1. Units(f, r) = {}
      BY <2>2 DEF Units
    <3> QED
      BY <3>1, FS_EmptySet
  <2>3. CASE r # {}
    <3>1. PICK x \in r : TRUE
      BY <2>3
    <3>2. IsFiniteSet(Units(f, r \ {x}))
      BY <2>1, <3>1
    <3> QED
      BY <3>1, <3>2, UnitsAdd
  <2> QED
    BY <2>2, <2>3
<1> QED
  BY <1>1, FS_CardinalityType

SumStep(f, S, g) ==
    [s \in SUBSET S |-> IF s = {} THEN 0
                        ELSE f[CHOOSE x \in s : TRUE] + g[s \ {CHOOSE x \in s : TRUE}]]

\* The sum is the number of units.
LEMMA SumIsUnits ==
    ASSUME NEW S, IsFiniteSet(S), NEW f \in [S -> Nat]
    PROVE  SumFunction(f) = Cardinality(Units(f, S))
<1> DEFINE count == [s \in SUBSET S |-> Cardinality(Units(f, s))]
           iter == CHOOSE g : g = SumStep(f, S, g)
           First(s) == CHOOSE x \in s : TRUE
<1>1. SumFunction(f) = iter[S]
  BY DEF SumFunction, SumFunctionOnSet, FoldFunctionOnSet, MapThenFoldSet, SumStep
<1>2. \A s \in SUBSET S : s # {} => First(s) \in s
  OBVIOUS
<1>3. \A s \in SUBSET S : s # {} => count[s] = f[First(s)] + count[s \ {First(s)}]
  <2> SUFFICES ASSUME NEW s \in SUBSET S, s # {}
               PROVE  count[s] = f[First(s)] + count[s \ {First(s)}]
    OBVIOUS
  <2>1. First(s) \in s
    BY <1>2
  <2> HIDE DEF First
  <2>2. IsFiniteSet(Units(f, s \ {First(s)}))
    BY UnitsFinite
  <2>3. Cardinality(Units(f, s)) = f[First(s)] + Cardinality(Units(f, s \ {First(s)}))
    BY <2>1, <2>2, UnitsAdd
  <2>4. s \ {First(s)} \in SUBSET S
    OBVIOUS
  <2> QED
    BY <2>3, <2>4
<1>4. count[{}] = 0
  <2>1. Units(f, {}) = {}
    BY DEF Units
  <2> QED
    BY <2>1, FS_EmptySet
<1>5. count = SumStep(f, S, count)
  <2>1. \A s \in SUBSET S : count[s] = SumStep(f, S, count)[s]
    <3> HIDE DEF count
    <3> QED
      BY <1>3, <1>4 DEF SumStep
  <2> QED
    BY <2>1 DEF SumStep
<1>6. iter = SumStep(f, S, iter)
  <2> HIDE DEF count
  <2> QED
    BY <1>5
<1> HIDE DEF iter
<1>7. \A s \in SUBSET S : iter[s] = IF s = {} THEN 0 ELSE f[First(s)] + iter[s \ {First(s)}]
  BY <1>6 DEF SumStep
<1> DEFINE bad == {s \in SUBSET S : iter[s] # count[s]}
<1> HIDE DEF count
<1>8. bad = {}
  <2> SUFFICES ASSUME bad # {} PROVE FALSE
    OBVIOUS
  <2>1. PICK s \in bad : \A r \in bad : r \subseteq s => r = s
    <3>1. bad \subseteq SUBSET S
      OBVIOUS
    <3> HIDE DEF bad
    <3> QED
      BY <3>1, SmallestSubset
  <2>2. CASE s = {}
    BY <1>4, <1>7, <2>2
  <2>3. CASE s # {}
    <3>1. First(s) \in s
      BY <1>2, <2>3
    <3> HIDE DEF First
    <3>2. s \ {First(s)} \in SUBSET S /\ s \ {First(s)} # s
      BY <3>1
    <3>3. iter[s \ {First(s)}] = count[s \ {First(s)}]
      BY <2>1, <3>2
    <3>4. iter[s] = count[s]
      BY <1>3, <1>7, <2>3, <3>3
    <3> QED
      BY <3>4
  <2> QED
    BY <2>2, <2>3
<1> QED
  BY <1>1, <1>8 DEF count

\* A sum of natural numbers is one, and is zero when all are.
LEMMA SumType ==
    ASSUME NEW S, IsFiniteSet(S), NEW f \in [S -> Nat]
    PROVE  /\ SumFunction(f) \in Nat
           /\ (\A x \in S : f[x] = 0) => SumFunction(f) = 0
<1>1. SumFunction(f) = Cardinality(Units(f, S)) /\ Cardinality(Units(f, S)) \in Nat
  BY SumIsUnits, UnitsFinite
<1>2. ASSUME \A x \in S : f[x] = 0 PROVE SumFunction(f) = 0
  <2>1. Units(f, S) = {}
    BY <1>2 DEF Units
  <2> QED
    BY <1>1, <2>1, FS_EmptySet
<1> QED
  BY <1>1, <1>2

\* A sum over one number more.
LEMMA SumAppend ==
    ASSUME NEW k \in Nat, NEW f \in [1 .. k -> Nat], NEW g \in [1 .. k + 1 -> Nat],
           \A i \in 1 .. k : g[i] = f[i]
    PROVE  /\ SumFunction(g) = SumFunction(f) + g[k + 1]
           /\ SumFunction(f) \in Nat /\ (k = 0 => SumFunction(f) = 0)
<1>1. IsFiniteSet(1 .. k) /\ IsFiniteSet(1 .. k + 1)
  BY FS_Interval
<1>2. /\ SumFunction(f) = Cardinality(Units(f, 1 .. k))
      /\ SumFunction(g) = Cardinality(Units(g, 1 .. k + 1))
  BY <1>1, SumIsUnits
<1>3. SumFunction(f) \in Nat /\ (k = 0 => SumFunction(f) = 0)
  BY <1>1, SumType
<1>4. (1 .. k + 1) \ {k + 1} = 1 .. k /\ k + 1 \in 1 .. k + 1
  OBVIOUS
<1>5. Units(g, 1 .. k) = Units(f, 1 .. k)
  BY DEF Units
<1>6. IsFiniteSet(Units(g, (1 .. k + 1) \ {k + 1}))
  BY <1>1, <1>4, UnitsFinite
<1>7. Cardinality(Units(g, 1 .. k + 1)) = g[k + 1] + Cardinality(Units(g, (1 .. k + 1) \ {k + 1}))
  BY <1>4, <1>6, UnitsAdd
<1>8. g[k + 1] \in Nat
  BY <1>4
<1>9. Cardinality(Units(g, 1 .. k + 1)) = g[k + 1] + Cardinality(Units(f, 1 .. k))
  BY <1>4, <1>5, <1>7
<1>10. SumFunction(g) = g[k + 1] + SumFunction(f)
  BY <1>2, <1>9
<1> QED  BY <1>3, <1>8, <1>10

\* Changing the function at one point changes the sum by as much.
LEMMA SumChange ==
    ASSUME NEW S, IsFiniteSet(S), NEW f \in [S -> Nat], NEW g \in [S -> Nat], NEW x \in S,
           \A y \in S \ {x} : g[y] = f[y]
    PROVE  SumFunction(g) + f[x] = SumFunction(f) + g[x]
<1> DEFINE others == Units(f, S \ {x})
<1>1. Units(g, S \ {x}) = others
  BY DEF Units
<1>2. IsFiniteSet(others) /\ Cardinality(others) \in Nat
  BY UnitsFinite
<1> HIDE DEF others
<1>3. Cardinality(Units(f, S)) = f[x] + Cardinality(others)
  BY <1>2, UnitsAdd DEF others
<1>4. Cardinality(Units(g, S)) = g[x] + Cardinality(others)
  <2>1. IsFiniteSet(Units(g, S \ {x}))
    BY <1>1, <1>2
  <2>2. Cardinality(Units(g, S)) = g[x] + Cardinality(Units(g, S \ {x}))
    BY <2>1, UnitsAdd
  <2> QED
    BY <1>1, <2>2
<1>5. SumFunction(f) = Cardinality(Units(f, S)) /\ SumFunction(g) = Cardinality(Units(g, S))
  BY SumIsUnits
<1>6. f[x] \in Nat /\ g[x] \in Nat
  OBVIOUS
<1> QED
  BY <1>2, <1>3, <1>4, <1>5, <1>6

\* A sum is no smaller than one of smaller numbers.
LEMMA SumMonotone ==
    ASSUME NEW S, IsFiniteSet(S), NEW f \in [S -> Nat], NEW g \in [S -> Nat],
           \A x \in S : f[x] <= g[x]
    PROVE  SumFunction(f) <= SumFunction(g)
<1>1. Units(f, S) \subseteq Units(g, S)
  <2> SUFFICES ASSUME NEW u \in Units(f, S) PROVE u \in Units(g, S)
    OBVIOUS
  <2>1. /\ u \in S \X Nat /\ 1 <= u[2] /\ u[2] <= f[u[1]]
        /\ f[u[1]] \in Nat /\ g[u[1]] \in Nat /\ u[2] \in Nat
    BY DEF Units
  <2>2. u[2] <= g[u[1]]
    <3>1. f[u[1]] <= g[u[1]]
      BY <2>1
    <3> QED
      BY <2>1, <3>1
  <2> QED
    BY <2>1, <2>2 DEF Units
<1>2. IsFiniteSet(Units(g, S))
  BY UnitsFinite
<1>3. Cardinality(Units(f, S)) <= Cardinality(Units(g, S))
  BY <1>1, <1>2, FS_Subset
<1> QED
  BY <1>3, SumIsUnits

Pairs(A, s) == {p \in s \X UNION {A[x] : x \in s} : p[2] \in A[p[1]]}

\* One element more brings its own pairs.
LEMMA PairsAdd ==
    ASSUME NEW S, NEW U, NEW A \in [S -> SUBSET U], NEW s \in SUBSET S, NEW x \in s,
           IsFiniteSet(Pairs(A, s \ {x})), IsFiniteSet(A[x])
    PROVE  /\ IsFiniteSet(Pairs(A, s))
           /\ Cardinality(Pairs(A, s)) = Cardinality(A[x]) + Cardinality(Pairs(A, s \ {x}))
<1> DEFINE new == {x} \X A[x]
           old == Pairs(A, s \ {x})
<1>1. IsFiniteSet({x}) /\ Cardinality({x}) = 1
  BY FS_Singleton
<1>2. IsFiniteSet(new) /\ Cardinality(new) = Cardinality(A[x]) /\ Cardinality(A[x]) \in Nat
  <2>1. IsFiniteSet(new) /\ Cardinality(new) = Cardinality({x}) * Cardinality(A[x])
    BY <1>1, FS_Product
  <2>2. Cardinality(A[x]) \in Nat
    BY FS_CardinalityType
  <2> QED
    BY <1>1, <2>1, <2>2
<1>3. Pairs(A, s) = old \union new
  <2>1. \A p \in Pairs(A, s) : p \in old \union new
    BY DEF Pairs
  <2>2. \A p \in old \union new : p \in Pairs(A, s)
    BY DEF Pairs
  <2> QED
    BY <2>1, <2>2
<1>4. old \intersect new = {}
  BY DEF Pairs
<1>5. Cardinality(old) \in Nat /\ IsFiniteSet(old)
  BY FS_CardinalityType
<1> HIDE DEF old, new
<1>6. Cardinality(old \intersect new) = 0
  BY <1>4, FS_EmptySet
<1>7. /\ IsFiniteSet(old \union new)
      /\ Cardinality(old \union new)
            = Cardinality(old) + Cardinality(new) - Cardinality(old \intersect new)
  BY <1>2, <1>5, FS_Union
<1> QED
  BY <1>2, <1>3, <1>5, <1>6, <1>7 DEF old

\* A sum of numbers that are at most the sizes of finite sets is at most the number of pairs.
LEMMA SumAtMostPairs ==
    ASSUME NEW S, IsFiniteSet(S), NEW f \in [S -> Nat], NEW U, NEW A \in [S -> SUBSET U],
           \A x \in S : IsFiniteSet(A[x]) /\ f[x] <= Cardinality(A[x])
    PROVE  /\ IsFiniteSet(Pairs(A, S))
           /\ SumFunction(f) <= Cardinality(Pairs(A, S))
<1> DEFINE Fine(s) == /\ IsFiniteSet(Pairs(A, s))
                      /\ Cardinality(Units(f, s)) <= Cardinality(Pairs(A, s))
           bad == {s \in SUBSET S : ~Fine(s)}
<1>1. bad = {}
  <2> SUFFICES ASSUME bad # {} PROVE FALSE
    OBVIOUS
  <2>1. PICK s \in bad : \A r \in bad : r \subseteq s => r = s
    <3>1. bad \subseteq SUBSET S
      OBVIOUS
    <3> HIDE DEF bad
    <3> QED
      BY <3>1, SmallestSubset
  <2>2. CASE s = {}
    <3>1. Units(f, s) = {} /\ Pairs(A, s) = {}
      BY <2>2 DEF Units, Pairs
    <3>2. Cardinality({}) = 0 /\ IsFiniteSet({})
      BY FS_EmptySet
    <3> QED
      BY <3>1, <3>2
  <2>3. CASE s # {}
    <3>1. PICK x \in s : TRUE
      BY <2>3
    <3>2. s \in SUBSET S /\ s \ {x} \in SUBSET S /\ s \ {x} # s
      BY <3>1
    <3>3. Fine(s \ {x})
      <4> HIDE DEF Fine
      <4> QED
        BY <2>1, <3>2
    <3>4. /\ IsFiniteSet(Units(f, s \ {x}))
          /\ Cardinality(Units(f, s \ {x})) \in Nat
      BY <3>2, UnitsFinite
    <3>5. Cardinality(Units(f, s)) = f[x] + Cardinality(Units(f, s \ {x}))
      BY <3>1, <3>2, <3>4, UnitsAdd
    <3>6. /\ IsFiniteSet(Pairs(A, s))
          /\ Cardinality(Pairs(A, s)) = Cardinality(A[x]) + Cardinality(Pairs(A, s \ {x}))
      <4>1. IsFiniteSet(Pairs(A, s \ {x})) /\ IsFiniteSet(A[x])
        BY <3>1, <3>2, <3>3
      <4> HIDE DEF Fine, bad
      <4> QED
        BY <3>1, <3>2, <4>1, PairsAdd
    <3>7. /\ f[x] \in Nat /\ f[x] <= Cardinality(A[x]) /\ Cardinality(A[x]) \in Nat
          /\ Cardinality(Pairs(A, s \ {x})) \in Nat
      BY <3>1, <3>2, <3>3, FS_CardinalityType
    <3>8. Cardinality(Units(f, s \ {x})) <= Cardinality(Pairs(A, s \ {x}))
      BY <3>3
    <3>9. Cardinality(Units(f, s)) <= Cardinality(Pairs(A, s))
      BY <3>4, <3>5, <3>6, <3>7, <3>8
    <3> QED
      BY <3>2, <3>6, <3>9
  <2> QED
    BY <2>2, <2>3
<1>2. Fine(S)
  BY <1>1
<1> QED
  BY <1>2, SumIsUnits

\* A sum of the sizes of finite sets is the number of pairs.
LEMMA SumIsPairs ==
    ASSUME NEW S, IsFiniteSet(S), NEW f \in [S -> Nat], NEW U, NEW A \in [S -> SUBSET U],
           \A x \in S : IsFiniteSet(A[x]) /\ f[x] = Cardinality(A[x])
    PROVE  SumFunction(f) = Cardinality(Pairs(A, S))
<1> DEFINE Fine(s) == Cardinality(Units(f, s)) = Cardinality(Pairs(A, s))
           bad == {s \in SUBSET S : ~Fine(s)}
<1>1. bad = {}
  <2> SUFFICES ASSUME bad # {} PROVE FALSE
    OBVIOUS
  <2>1. PICK s \in bad : \A r \in bad : r \subseteq s => r = s
    <3>1. bad \subseteq SUBSET S
      OBVIOUS
    <3> HIDE DEF bad
    <3> QED
      BY <3>1, SmallestSubset
  <2>2. CASE s = {}
    <3>1. Units(f, s) = {} /\ Pairs(A, s) = {}
      BY <2>2 DEF Units, Pairs
    <3> QED
      BY <3>1
  <2>3. CASE s # {}
    <3>1. PICK x \in s : TRUE
      BY <2>3
    <3>2. s \in SUBSET S /\ s \ {x} \in SUBSET S /\ s \ {x} # s
      BY <3>1
    <3>3. Fine(s \ {x})
      <4> HIDE DEF Fine
      <4> QED
        BY <2>1, <3>2
    <3>4. /\ IsFiniteSet(Units(f, s \ {x}))
          /\ Cardinality(Units(f, s \ {x})) \in Nat
      BY <3>2, UnitsFinite
    <3>5. Cardinality(Units(f, s)) = f[x] + Cardinality(Units(f, s \ {x}))
      BY <3>1, <3>2, <3>4, UnitsAdd
    <3>6. Cardinality(Pairs(A, s)) = Cardinality(A[x]) + Cardinality(Pairs(A, s \ {x}))
      <4>1. IsFiniteSet(Pairs(A, s \ {x})) /\ IsFiniteSet(A[x])
        <5>1. Pairs(A, s \ {x}) \in SUBSET Pairs(A, S)
          BY <3>2 DEF Pairs
        <5>2. IsFiniteSet(Pairs(A, S))
          <6>1. \A y \in S : f[y] <= Cardinality(A[y])
            OBVIOUS
          <6> HIDE DEF Fine, bad
          <6> QED
            BY <6>1, SumAtMostPairs
        <5>3. IsFiniteSet(Pairs(A, s \ {x}))
          <6> HIDE DEF Fine, bad
          <6> QED
            BY <5>1, <5>2, FS_Subset
        <5> QED
          BY <3>1, <3>2, <5>3
      <4> HIDE DEF Fine, bad
      <4> QED
        BY <3>1, <3>2, <4>1, PairsAdd
    <3>7. f[x] = Cardinality(A[x])
      BY <3>1, <3>2
    <3>8. Fine(s)
      BY <3>3, <3>5, <3>6, <3>7
    <3> QED
      BY <3>2, <3>8
  <2> QED
    BY <2>2, <2>3
<1>2. Fine(S)
  BY <1>1
<1> QED
  BY <1>2, SumIsUnits

\* Three elements of a set of at most two are not all different.
LEMMA NoThird ==
    ASSUME NEW A, IsFiniteSet(A), Cardinality(A) <= 2, NEW i \in A, NEW j \in A, NEW l \in A
    PROVE  i = j \/ j = l \/ i = l
<1> SUFFICES ASSUME i # j, j # l, i # l PROVE FALSE
  OBVIOUS
<1>1. IsFiniteSet({i, j}) /\ Cardinality({i, j}) = 2
  <2>1. IsFiniteSet({i}) /\ Cardinality({i}) = 1 /\ {i} \union {j} = {i, j}
    BY FS_Singleton
  <2>2. /\ IsFiniteSet({i} \union {j})
        /\ Cardinality({i} \union {j})
              = IF j \in {i} THEN Cardinality({i}) ELSE Cardinality({i}) + 1
    BY <2>1, FS_AddElement
  <2> QED
    BY <2>1, <2>2
<1>2. Cardinality({i, j} \union {l}) = 3
  <2>1. Cardinality({i, j} \union {l})
          = IF l \in {i, j} THEN Cardinality({i, j}) ELSE Cardinality({i, j}) + 1
    BY <1>1, FS_AddElement
  <2> QED
    BY <1>1, <2>1
<1>3. {i, j} \union {l} \in SUBSET A
  OBVIOUS
<1>4. Cardinality({i, j} \union {l}) <= Cardinality(A) /\ Cardinality(A) \in Nat
  BY <1>3, FS_Subset, FS_CardinalityType
<1> QED
  BY <1>2, <1>4

\* A finite set has two elements if it has two different ones.
LEMMA TwoOf ==
    ASSUME NEW A, IsFiniteSet(A)
    PROVE  (\E i, j \in A : i # j) <=> Cardinality(A) >= 2
<1>1. Cardinality(A) \in Nat
  BY FS_CardinalityType
<1>2. ASSUME NEW i \in A, NEW j \in A, i # j PROVE Cardinality(A) >= 2
  <2>1. Cardinality(A \ {i}) = Cardinality(A) - 1 /\ IsFiniteSet(A \ {i})
    BY FS_RemoveElement
  <2>2. j \in A \ {i}
    BY <1>2
  <2>3. Cardinality(A \ {i}) # 0 /\ Cardinality(A \ {i}) \in Nat
    BY <2>1, <2>2, FS_EmptySet, FS_CardinalityType
  <2> QED
    BY <1>1, <2>1, <2>3
<1>3. ASSUME Cardinality(A) >= 2 PROVE \E i, j \in A : i # j
  <2>1. A # {}
    BY <1>1, <1>3, FS_EmptySet
  <2>2. PICK i \in A : TRUE
    BY <2>1
  <2>3. Cardinality(A \ {i}) = Cardinality(A) - 1 /\ IsFiniteSet(A \ {i})
    BY FS_RemoveElement
  <2>4. Cardinality(A \ {i}) # 0
    BY <1>1, <1>3, <2>3
  <2>5. A \ {i} # {}
    BY <2>4, FS_EmptySet
  <2> QED
    BY <2>5
<1> QED
  BY <1>2, <1>3

\* The labels that the places in X have, and those that two of them have.
Labels(g, X) == {g[i] : i \in X}
TwiceLabels(g, X) == {g[i] : i \in {k \in X : \E j \in X : j # k /\ g[j] = g[k]}}

\* If no label is in three places, there are as many places as labels, and one more for each
\* label in two places.
LEMMA LabelsCounted ==
    ASSUME NEW X \in SUBSET Nat, IsFiniteSet(X), NEW g,
           \A i, j, l \in X : g[i] = g[j] /\ g[j] = g[l] => i = j \/ j = l \/ i = l
    PROVE  /\ IsFiniteSet(Labels(g, X)) /\ IsFiniteSet(TwiceLabels(g, X))
           /\ Cardinality(Labels(g, X)) \in Nat /\ Cardinality(TwiceLabels(g, X)) \in Nat
           /\ Cardinality(X) = Cardinality(Labels(g, X)) + Cardinality(TwiceLabels(g, X))
<1> DEFINE F == {i \in X : \A j \in X : g[j] = g[i] => i <= j}
           L == X \ F
           first == [i \in F |-> g[i]]
           last == [i \in L |-> g[i]]
           A == Labels(g, X)
           B == TwiceLabels(g, X)
<1>1. \A i \in L : i \in X /\ \E j \in X : g[j] = g[i] /\ j < i
  OBVIOUS
<1>2. \A i, j \in F : g[i] = g[j] => i = j
  OBVIOUS
<1>3. \A i, j \in L : g[i] = g[j] => i = j
  <2> SUFFICES ASSUME NEW i \in L, NEW j \in L, g[i] = g[j], i # j PROVE FALSE
    OBVIOUS
  <2>1. PICK k \in X : g[k] = g[i] /\ k < i
    BY <1>1
  <2>2. PICK m \in X : g[m] = g[j] /\ m < j
    BY <1>1
  <2>3. i \in X /\ j \in X /\ i \in Nat /\ j \in Nat /\ k \in Nat /\ m \in Nat
    OBVIOUS
  <2> HIDE DEF F, L
  <2>4. k = j
    BY <2>1, <2>3
  <2>5. m = i
    BY <2>2, <2>3
  <2> QED
    BY <2>1, <2>2, <2>3, <2>4, <2>5
<1>4. \A y \in A : \E i \in F : g[i] = y
  <2> SUFFICES ASSUME NEW i \in X PROVE \E k \in F : g[k] = g[i]
    BY DEF Labels
  <2>1. CASE i \notin F
    <3>1. PICK k \in X : g[k] = g[i] /\ k < i
      BY <2>1
    <3>2. k \in F
      <4> SUFFICES ASSUME NEW j \in X, g[j] = g[k], ~(k <= j) PROVE FALSE
        OBVIOUS
      <4>1. j \in Nat /\ k \in Nat /\ i \in Nat /\ j < k
        OBVIOUS
      <4>2. j = k \/ k = i \/ j = i
        BY <3>1
      <4> QED
        BY <3>1, <4>1, <4>2
    <3> QED
      BY <3>1, <3>2
  <2> QED
    BY <2>1
<1>5. \A i \in L : g[i] \in B
  <2> SUFFICES ASSUME NEW i \in L PROVE g[i] \in B
    OBVIOUS
  <2>1. PICK k \in X : g[k] = g[i] /\ k < i
    BY <1>1
  <2>2. k # i /\ i \in X
    BY <2>1
  <2> HIDE DEF L, F
  <2> QED
    BY <2>1, <2>2 DEF TwiceLabels
<1>6. \A y \in B : \E i \in L : g[i] = y
  <2> SUFFICES ASSUME NEW i \in X, NEW j \in X, j # i, g[j] = g[i]
               PROVE  \E k \in L : g[k] = g[i]
    BY DEF TwiceLabels
  <2>1. i \in Nat /\ j \in Nat
    OBVIOUS
  <2>2. CASE i < j
    <3>1. j \in L
      BY <2>1, <2>2
    <3> QED
      BY <3>1
  <2>3. CASE j < i
    <3>1. i \in L
      BY <2>1, <2>3
    <3> QED
      BY <3>1
  <2> QED
    BY <2>1, <2>2, <2>3
<1>7. \A i \in F : g[i] \in A
  BY DEF Labels
<1>8. F \in SUBSET X /\ L \in SUBSET X /\ X = F \union L /\ F \intersect L = {}
  OBVIOUS
<1> HIDE DEF F, L, A, B
<1>9. /\ IsFiniteSet(F) /\ IsFiniteSet(L)
      /\ Cardinality(F) \in Nat /\ Cardinality(L) \in Nat
  BY <1>8, FS_Subset, FS_CardinalityType
<1>10. first \in Bijection(F, A)
  BY <1>2, <1>4, <1>7 DEF Bijection, Injection, Surjection, IsInjective
<1>11. last \in Bijection(L, B)
  BY <1>3, <1>5, <1>6 DEF Bijection, Injection, Surjection, IsInjective
<1>12. IsFiniteSet(A) /\ Cardinality(A) = Cardinality(F)
  <2>1. ExistsBijection(F, A)
    BY <1>10 DEF ExistsBijection
  <2> QED
    BY <1>9, <2>1, FS_Bijection
<1>13. IsFiniteSet(B) /\ Cardinality(B) = Cardinality(L)
  <2>1. ExistsBijection(L, B)
    BY <1>11 DEF ExistsBijection
  <2> QED
    BY <1>9, <2>1, FS_Bijection
<1>14. Cardinality(X) = Cardinality(F) + Cardinality(L)
  <2>1. Cardinality(F \union L) = Cardinality(F) + Cardinality(L) - Cardinality(F \intersect L)
    BY <1>9, FS_Union
  <2>2. Cardinality(F \intersect L) = 0
    BY <1>8, FS_EmptySet
  <2> QED
    BY <1>8, <1>9, <2>1, <2>2
<1> QED
  BY <1>9, <1>12, <1>13, <1>14 DEF A, B
=============================================================================
