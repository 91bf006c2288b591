------------------------ MODULE AnytimeMonitorProofs ------------------------
(***************************************************************************)
(* Theorems about the streams of AnytimeMonitor, for every set of laws,    *)
(* ledgers, partitions and schedules of checkpoints and for all functions  *)
(* that are entropies and interval roots.  The lemmas come first: least    *)
(* numbers and sums over finite sets, which the models take from the       *)
(* community modules as folds; the two partitions; what the envelope of a  *)
(* region and the bounds of a projection keep of a point the region has.   *)
(***************************************************************************)
EXTENDS AnytimeMonitor, FiniteSetTheorems, WellFoundedInduction, TLAPS

\* A set of numbers that is not empty has a least one.
LEMMA LeastNumber ==
  ASSUME NEW T, T \subseteq Nat, T # {}
  PROVE  \E n \in T : \A k \in T : n =< k
<1> DEFINE less == OpToRel(<, Nat)
<1>1. IsWellFoundedOn(less, Nat)
  BY NatLessThanWellFounded
<1>2. ASSUME NEW k \in Nat, NEW n \in Nat, k < n
      PROVE  <<k, n>> \in less
  <2>1. <<k, n>> \in Nat \X Nat
    OBVIOUS
  <2>2. <<k, n>>[1] < <<k, n>>[2]
    BY <1>2
  <2>3. QED
    BY <2>1, <2>2, Zenon DEF OpToRel
<1> HIDE DEF less
<1>3. PICK n \in T : \A k \in T : ~ (<<k, n>> \in less)
  BY <1>1, WFMin
<1>4. ASSUME NEW k \in T
      PROVE  n =< k
  <2>1. ~ (k < n)
    BY <1>2, <1>3
  <2>2. QED
    BY <2>1
<1>5. QED
  BY <1>4

\* Induction over a set: what holds of a number when of all before it.
LEMMA CountUp ==
  ASSUME NEW total \in Nat, NEW S,
         \A n \in 0..total : (\A k \in 0..total : k < n => k \in S) => n \in S
  PROVE  0..total \subseteq S
<1> DEFINE bad == (0..total) \ S
<1>1. SUFFICES ASSUME bad # {} PROVE FALSE
  OBVIOUS
<1>2. PICK n \in bad : \A k \in bad : n =< k
  <2>1. bad \subseteq Nat
    OBVIOUS
  <2> HIDE DEF bad
  <2>2. QED
    BY <1>1, <2>1, LeastNumber
<1>3. ASSUME NEW k \in 0..total, k < n PROVE k \in S
  BY <1>2, <1>3
<1>4. QED
  BY <1>2, <1>3

\* A set of integers that is bounded below has a least element, and Min picks it.
LEMMA LeastOf ==
  ASSUME NEW T, T \subseteq Int, T # {}, NEW low \in Int, \A t \in T : low =< t
  PROVE  Min(T) \in T /\ \A t \in T : Min(T) =< t
<1> DEFINE shifted == {t - low : t \in T}
<1>1. \A t \in T : t - low \in Nat
  OBVIOUS
<1>2. shifted \subseteq Nat /\ shifted # {}
  BY <1>1
<1>3. PICK n \in shifted : \A m \in shifted : n =< m
  <2> HIDE DEF shifted
  <2>1. QED
    BY <1>2, LeastNumber
<1>4. PICK x \in T : n = x - low
  BY <1>3
<1>5. \A y \in T : x =< y
  <2>1. TAKE y \in T
  <2>2. y - low \in shifted
    OBVIOUS
  <2>3. x - low =< y - low
    BY <1>3, <1>4, <2>2
  <2>4. QED
    BY <2>3
<1>6. QED
  BY <1>5 DEF Min

\* A set of integers that is bounded above has a greatest element, and Max picks it.
LEMMA MostOf ==
  ASSUME NEW T, T \subseteq Int, T # {}, NEW high \in Int, \A t \in T : t =< high
  PROVE  Max(T) \in T /\ \A t \in T : t =< Max(T)
<1> DEFINE shifted == {high - t : t \in T}
<1>1. \A t \in T : high - t \in Nat
  OBVIOUS
<1>2. shifted \subseteq Nat /\ shifted # {}
  BY <1>1
<1>3. PICK n \in shifted : \A m \in shifted : n =< m
  <2> HIDE DEF shifted
  <2>1. QED
    BY <1>2, LeastNumber
<1>4. PICK x \in T : n = high - x
  BY <1>3
<1>5. \A y \in T : x >= y
  <2>1. TAKE y \in T
  <2>2. high - y \in shifted
    OBVIOUS
  <2>3. high - x =< high - y
    BY <1>3, <1>4, <2>2
  <2>4. QED
    BY <2>3
<1>6. Max(T) \in T /\ \A t \in T : Max(T) >= t
  BY <1>5 DEF Max
<1>7. QED
  BY <1>6

-----------------------------------------------------------------------------
(* Sums                                                                    *)

Pick(T) == CHOOSE x \in T : TRUE

\* One step of a sum over a set, the rest of which has been added up.
AddUp(f, T, rest) == IF T = {} THEN 0 ELSE f[Pick(T)] + rest[T \ {Pick(T)}]

\* What is left of a set is smaller.
LEMMA PickSmaller ==
  ASSUME NEW S, IsFiniteSet(S), NEW T \in SUBSET S, T # {}
  PROVE  /\ Pick(T) \in T /\ T \ {Pick(T)} \in SUBSET S
         /\ Cardinality(T) \in Nat /\ Cardinality(T) \in 0..Cardinality(S)
         /\ Cardinality(T \ {Pick(T)}) \in 0..Cardinality(S)
         /\ Cardinality(T \ {Pick(T)}) < Cardinality(T)
<1>1. Pick(T) \in T
  BY DEF Pick
<1>2. IsFiniteSet(T) /\ Cardinality(T) =< Cardinality(S)
  BY FS_Subset
<1>3. Cardinality(T) \in Nat /\ Cardinality(S) \in Nat
  BY <1>2, FS_CardinalityType
<1>4. Cardinality(T \ {Pick(T)}) = Cardinality(T) - 1 /\ IsFiniteSet(T \ {Pick(T)})
  BY <1>1, <1>2, FS_RemoveElement
<1>5. Cardinality(T \ {Pick(T)}) \in Nat
  BY <1>4, FS_CardinalityType
<1>6. QED
  BY <1>1, <1>2, <1>3, <1>4, <1>5

\* Induction over the subsets of a finite set.
LEMMA SubsetsUp ==
  ASSUME NEW S, IsFiniteSet(S), NEW G,
         {} \in G,
         \A T \in SUBSET S : T # {} /\ T \ {Pick(T)} \in G => T \in G
  PROVE  \A T \in SUBSET S : T \in G
<1> DEFINE total == Cardinality(S)
           done == {n \in 0..total : \A T \in SUBSET S : Cardinality(T) = n => T \in G}
<1>1. total \in Nat
  BY FS_CardinalityType
<1> HIDE DEF total
<1>2. ASSUME NEW n \in 0..total, \A k \in 0..total : k < n => k \in done,
             NEW T \in SUBSET S, Cardinality(T) = n
      PROVE  T \in G
  <2>1. CASE T # {}
    <3> DEFINE U == T \ {Pick(T)}
    <3>1. U \in SUBSET S /\ Cardinality(U) \in 0..total /\ Cardinality(U) < n
      BY <1>2, <2>1, PickSmaller DEF total
    <3> HIDE DEF U
    <3>2. U \in G
      BY <1>2, <3>1
    <3>3. QED
      BY <2>1, <3>2 DEF U
  <2>2. QED
    BY <2>1
<1>3. \A n \in 0..total : (\A k \in 0..total : k < n => k \in done) => n \in done
  BY <1>2
<1> HIDE DEF done
<1>4. 0..total \subseteq done
  BY <1>1, <1>3, CountUp
<1>5. SUFFICES ASSUME NEW T \in SUBSET S PROVE T \in G
  OBVIOUS
<1>6. Cardinality(T) \in 0..total
  <2>1. CASE T = {}
    BY <2>1, <1>1, FS_EmptySet
  <2>2. CASE T # {}
    BY <2>2, PickSmaller DEF total
  <2>3. QED
    BY <2>1, <2>2
<1>7. Cardinality(T) \in done
  BY <1>4, <1>6
<1>8. QED
  BY <1>7 DEF done

\* The recursion over the subsets of a finite set has a solution.
LEMMA SumsExist ==
  ASSUME NEW S, IsFiniteSet(S), NEW f
  PROVE  \E iter : iter = [T \in SUBSET S |-> AddUp(f, T, iter)]
<1> DEFINE total == Cardinality(S)
           upTo(n) == {T \in SUBSET S : Cardinality(T) \in 0..n}
           fits(g, n) == g = [T \in upTo(n) |-> AddUp(f, T, g)]
           built == {n \in 0..total : \E g : fits(g, n)}
<1>1. total \in Nat
  BY FS_CardinalityType
<1>2. \A T \in SUBSET S : Cardinality(T) \in 0..total
  <2>1. TAKE T \in SUBSET S
  <2>2. CASE T = {}
    BY <2>2, <1>1, FS_EmptySet
  <2>3. CASE T # {}
    BY <2>3, PickSmaller
  <2>4. QED
    BY <2>2, <2>3
<1>3. \A T \in SUBSET S : T # {} => /\ T \ {Pick(T)} \in SUBSET S
                                    /\ Cardinality(T \ {Pick(T)}) \in 0..total
                                    /\ Cardinality(T \ {Pick(T)}) < Cardinality(T)
  BY PickSmaller
<1> HIDE DEF total
<1>4. ASSUME NEW n \in 0..total, \A k \in 0..total : k < n => k \in built
      PROVE  \E g : fits(g, n)
  <2>1. CASE n = 0
    <3>1. \A T \in upTo(0) : T = {}
      <4>1. ASSUME NEW T \in SUBSET S, Cardinality(T) \in 0..0 PROVE T = {}
        <5>1. IsFiniteSet(T) /\ Cardinality(T) = 0
          BY <4>1, FS_Subset
        <5>2. QED
          BY <5>1, FS_EmptySet
      <4>2. TAKE T \in upTo(0)
      <4>3. T \in SUBSET S /\ Cardinality(T) \in 0..0
        OBVIOUS
      <4>4. QED
        BY <4>1, <4>3
    <3>2. \A T \in upTo(0) : AddUp(f, T, [U \in upTo(0) |-> 0]) = 0
      BY <3>1 DEF AddUp
    <3>3. fits([T \in upTo(0) |-> 0], 0)
      <4> HIDE DEF upTo
      <4>1. QED
        BY <3>2
    <3> HIDE DEF fits
    <3>4. QED
      BY <2>1, <3>3
  <2>2. CASE n # 0
    <3>1. n - 1 \in 0..total /\ n - 1 < n
      BY <1>1, <2>2
    <3>2. PICK g : fits(g, n - 1)
      <4> HIDE DEF fits
      <4>1. QED
        BY <1>4, <3>1
    <3> DEFINE h == [T \in upTo(n) |-> AddUp(f, T, g)]
    <3>3. \A T \in upTo(n) : T # {} => T \ {Pick(T)} \in upTo(n - 1) /\ T \ {Pick(T)} \in upTo(n)
      <4>1. TAKE T \in upTo(n)
      <4>2. HAVE T # {}
      <4>3. /\ T \ {Pick(T)} \in SUBSET S
            /\ Cardinality(T \ {Pick(T)}) \in 0..total
            /\ Cardinality(T \ {Pick(T)}) < Cardinality(T)
            /\ Cardinality(T) \in 0..n
        BY <4>2, <1>3
      <4>4. QED
        BY <1>1, <4>3
    <3>4. \A T \in upTo(n - 1) : g[T] = AddUp(f, T, g) /\ T \in upTo(n)
      <4>1. \A T \in upTo(n - 1) : g[T] = AddUp(f, T, g)
        <5> HIDE DEF upTo
        <5>1. QED
          BY <3>2
      <4>2. QED
        BY <4>1
    <3> HIDE DEF upTo
    <3>5. \A T \in upTo(n) : h[T] = AddUp(f, T, g)
      OBVIOUS
    <3>6. h = [T \in upTo(n) |-> h[T]]
      OBVIOUS
    <3> HIDE DEF h
    <3>7. \A T \in upTo(n) : AddUp(f, T, g) = AddUp(f, T, h)
      <4>1. TAKE T \in upTo(n)
      <4>2. T # {} => g[T \ {Pick(T)}] = h[T \ {Pick(T)}]
        BY <3>3, <3>4, <3>5
      <4>3. QED
        BY <4>2 DEF AddUp
    <3>8. fits(h, n)
      BY <3>5, <3>6, <3>7
    <3> HIDE DEF fits
    <3>9. QED
      BY <3>8
  <2>3. QED
    BY <2>1, <2>2
<1>5. \E g : fits(g, total)
  <2> HIDE DEF fits
  <2>1. \A n \in 0..total : (\A k \in 0..total : k < n => k \in built) => n \in built
    BY <1>4
  <2> HIDE DEF built
  <2>2. total \in built
    BY <1>1, <2>1, CountUp
  <2>3. QED
    BY <2>2 DEF built
<1>6. upTo(total) = SUBSET S
  BY <1>2
<1>7. QED
  BY <1>5, <1>6

Sums(g, f, S) == \A T \in SUBSET S : g[T] = AddUp(f, T, g)

\* Two partial sums of functions that agree on a set agree on its subsets.
LEMMA SumsAgree ==
  ASSUME NEW S, IsFiniteSet(S), NEW f, NEW e, \A x \in S : f[x] = e[x],
         NEW g, Sums(g, f, S), NEW h, Sums(h, e, S)
  PROVE  \A T \in SUBSET S : g[T] = h[T]
<1> DEFINE G == {T \in SUBSET S : g[T] = h[T]}
<1>1. {} \in G
  BY DEF Sums, AddUp
<1>2. ASSUME NEW T \in SUBSET S, T # {}, T \ {Pick(T)} \in G PROVE T \in G
  <2>1. Pick(T) \in S
    BY <1>2, PickSmaller
  <2>2. g[T] = f[Pick(T)] + g[T \ {Pick(T)}] /\ h[T] = e[Pick(T)] + h[T \ {Pick(T)}]
    BY <1>2 DEF Sums, AddUp
  <2>3. QED
    BY <1>2, <2>1, <2>2
<1> HIDE DEF G
<1>3. \A T \in SUBSET S : T \in G
  BY <1>1, <1>2, SubsetsUp
<1>4. QED
  BY <1>3 DEF G

\* The recursive function that adds up a finite set exists, and it is SumFunctionOnSet.
LEMMA SumsAreUnique ==
  ASSUME NEW S, IsFiniteSet(S), NEW f
  PROVE  \E g : Sums(g, f, S) /\ \A T \in SUBSET S : g[T] = SumFunctionOnSet(f, T)
<1>1. \A R : IsFiniteSet(R) =>
        \E g : Sums(g, f, R) /\ g[R] = SumFunctionOnSet(f, R)
  <2>1. TAKE R
  <2>2. HAVE IsFiniteSet(R)
  <2> DEFINE g == CHOOSE g : g = [T \in SUBSET R |-> AddUp(f, T, g)]
  <2>3. g = [T \in SUBSET R |-> AddUp(f, T, g)]
    BY <2>2, SumsExist
  <2>4. g[R] = SumFunctionOnSet(f, R)
    BY DEF SumFunctionOnSet, FoldFunctionOnSet, MapThenFoldSet, AddUp, Pick
  <2> HIDE DEF g
  <2>5. QED
    BY <2>3, <2>4 DEF Sums
<1>2. PICK g : Sums(g, f, S)
  BY <1>1
<1>3. ASSUME NEW T \in SUBSET S
      PROVE  g[T] = SumFunctionOnSet(f, T)
  <2>1. IsFiniteSet(T)
    BY FS_Subset
  <2>2. PICK h : Sums(h, f, T) /\ h[T] = SumFunctionOnSet(f, T)
    BY <1>1, <2>1
  <2>3. Sums(g, f, T)
    BY <1>2 DEF Sums
  <2>4. \A x \in T : f[x] = f[x]
    OBVIOUS
  <2>5. QED
    BY <2>1, <2>2, <2>3, <2>4, SumsAgree
<1>4. QED
  BY <1>2, <1>3

\* One summand and the rest.
LEMMA SumSteps ==
  ASSUME NEW S, IsFiniteSet(S), NEW f
  PROVE  /\ SumFunctionOnSet(f, {}) = 0
         /\ S # {} => SumFunctionOnSet(f, S) = f[Pick(S)] + SumFunctionOnSet(f, S \ {Pick(S)})
<1>1. PICK g : Sums(g, f, S) /\ \A T \in SUBSET S : g[T] = SumFunctionOnSet(f, T)
  BY SumsAreUnique
<1>2. QED
  BY <1>1 DEF Sums, AddUp

\* Whatever adds up the values of a function gives its total.
LEMMA SolutionIsSum ==
  ASSUME NEW S, IsFiniteSet(S), NEW f, NEW e, \A x \in S : f[x] = e[x], NEW g, Sums(g, f, S)
  PROVE  g[S] = SumFunctionOnSet(e, S)
<1>1. PICK h : Sums(h, e, S) /\ \A T \in SUBSET S : h[T] = SumFunctionOnSet(e, T)
  BY SumsAreUnique
<1>2. QED
  BY <1>1, SumsAgree

\* Functions that agree on a finite set have one total there.
LEMMA SumsEqual ==
  ASSUME NEW S, IsFiniteSet(S), NEW f, NEW e, \A x \in S : f[x] = e[x]
  PROVE  SumFunctionOnSet(f, S) = SumFunctionOnSet(e, S)
<1>1. PICK g : Sums(g, f, S) /\ \A T \in SUBSET S : g[T] = SumFunctionOnSet(f, T)
  BY SumsAreUnique
<1>2. QED
  BY <1>1, SolutionIsSum

\* The total of integers, and of naturals.
LEMMA SumType ==
  ASSUME NEW S, IsFiniteSet(S), NEW f, \A x \in S : f[x] \in Int
  PROVE  /\ SumFunctionOnSet(f, S) \in Int
         /\ (\A x \in S : f[x] >= 0) => SumFunctionOnSet(f, S) >= 0
<1> DEFINE G == {T \in SUBSET S : /\ SumFunctionOnSet(f, T) \in Int
                                  /\ (\A x \in S : f[x] >= 0) => SumFunctionOnSet(f, T) >= 0}
<1>1. {} \in G
  <2>1. SumFunctionOnSet(f, {}) = 0
    BY SumSteps
  <2>2. QED
    BY <2>1
<1>2. ASSUME NEW T \in SUBSET S, T # {}, T \ {Pick(T)} \in G PROVE T \in G
  <2>1. Pick(T) \in S /\ IsFiniteSet(T)
    BY <1>2, PickSmaller, FS_Subset
  <2>2. SumFunctionOnSet(f, T) = f[Pick(T)] + SumFunctionOnSet(f, T \ {Pick(T)})
    BY <1>2, <2>1, SumSteps
  <2>3. QED
    BY <1>2, <2>1, <2>2
<1> HIDE DEF G
<1>3. S \in G
  BY <1>1, <1>2, SubsetsUp
<1>4. QED
  BY <1>3 DEF G

\* Whichever summand is taken first.
LEMMA SumTakes ==
  ASSUME NEW S, IsFiniteSet(S), NEW f, \A x \in S : f[x] \in Int, NEW x \in S
  PROVE  SumFunctionOnSet(f, S) = f[x] + SumFunctionOnSet(f, S \ {x})
<1> DEFINE G == {T \in SUBSET S : \A y \in T : SumFunctionOnSet(f, T) = f[y] + SumFunctionOnSet(f, T \ {y})}
           total == Cardinality(S)
           done == {n \in 0..total : \A T \in SUBSET S : Cardinality(T) = n => T \in G}
<1>1. total \in Nat
  BY FS_CardinalityType
<1>2. \A T \in SUBSET S : IsFiniteSet(T) /\ Cardinality(T) \in 0..total /\ SumFunctionOnSet(f, T) \in Int
  <2>1. TAKE T \in SUBSET S
  <2>2. IsFiniteSet(T) /\ Cardinality(T) =< total
    BY FS_Subset
  <2>3. Cardinality(T) \in Nat
    BY <2>2, FS_CardinalityType
  <2>4. SumFunctionOnSet(f, T) \in Int
    BY <2>2, SumType
  <2>5. QED
    BY <1>1, <2>2, <2>3, <2>4
<1> HIDE DEF total
<1>3. ASSUME NEW n \in 0..total, \A k \in 0..total : k < n => k \in done,
             NEW T \in SUBSET S, Cardinality(T) = n, NEW y \in T
      PROVE  SumFunctionOnSet(f, T) = f[y] + SumFunctionOnSet(f, T \ {y})
  <2> DEFINE p == Pick(T)
             rest == T \ {p}
             others == T \ {y}
             neither == T \ {p, y}
  <2>1. p \in T /\ SumFunctionOnSet(f, T) = f[p] + SumFunctionOnSet(f, rest)
    BY <1>2, PickSmaller, SumSteps
  <2>2. CASE y = p
    BY <2>1, <2>2
  <2>3. CASE y # p
    <3>1. /\ rest \in SUBSET S /\ others \in SUBSET S /\ neither \in SUBSET S
          /\ y \in rest /\ p \in others
          /\ rest \ {y} = neither /\ others \ {p} = neither
      BY <2>1, <2>3
    <3>2. Cardinality(rest) < n /\ Cardinality(others) < n
      BY <1>2, <1>3, <2>1, FS_RemoveElement
    <3>3. rest \in G /\ others \in G
      <4>1. Cardinality(rest) \in done /\ Cardinality(others) \in done
        BY <1>2, <1>3, <3>1, <3>2
      <4> HIDE DEF G, rest, others
      <4>2. QED
        BY <3>1, <4>1
    <3>4. SumFunctionOnSet(f, rest) = f[y] + SumFunctionOnSet(f, neither) /\ SumFunctionOnSet(f, others) = f[p] + SumFunctionOnSet(f, neither)
      BY <3>1, <3>3
    <3>5. f[y] \in Int /\ f[p] \in Int /\ SumFunctionOnSet(f, neither) \in Int
      BY <1>2, <2>1, <3>1
    <3> HIDE DEF rest, others, neither, p
    <3>6. SumFunctionOnSet(f, T) = f[y] + SumFunctionOnSet(f, others)
      BY <2>1, <3>4, <3>5
    <3>7. QED
      BY <3>6 DEF others
  <2>4. QED
    BY <2>2, <2>3
<1>4. \A n \in 0..total : (\A k \in 0..total : k < n => k \in done) => n \in done
  BY <1>3
<1> HIDE DEF done, G
<1>5. 0..total \subseteq done
  BY <1>1, <1>4, CountUp
<1>6. S \in G
  BY <1>2, <1>5 DEF done
<1>7. QED
  BY <1>6 DEF G

\* An element that is added to the set adds its value to the total.
LEMMA SumAdds ==
  ASSUME NEW S, IsFiniteSet(S), NEW f, \A x \in S : f[x] \in Int, NEW T \in SUBSET S, NEW x \in S \ T
  PROVE  SumFunctionOnSet(f, T \cup {x}) = SumFunctionOnSet(f, T) + f[x]
<1>1. T \cup {x} \in SUBSET S /\ x \in T \cup {x} /\ (T \cup {x}) \ {x} = T
  OBVIOUS
<1>2. IsFiniteSet(T \cup {x}) /\ IsFiniteSet(T)
  BY <1>1, FS_Subset
<1>3. \A y \in T \cup {x} : f[y] \in Int
  BY <1>1
<1>4. SumFunctionOnSet(f, T \cup {x}) = f[x] + SumFunctionOnSet(f, T)
  <2>1. SumFunctionOnSet(f, T \cup {x}) = f[x] + SumFunctionOnSet(f, (T \cup {x}) \ {x})
    BY <1>1, <1>2, <1>3, SumTakes
  <2>2. QED
    BY <1>1, <2>1
<1>5. SumFunctionOnSet(f, T) \in Int /\ f[x] \in Int
  BY <1>2, SumType
<1>6. QED
  BY <1>4, <1>5

\* Two parts that have nothing in common.
LEMMA SumJoins ==
  ASSUME NEW S, IsFiniteSet(S), NEW f, \A x \in S : f[x] \in Int,
         NEW A \in SUBSET S, NEW B \in SUBSET S, A \cap B = {}
  PROVE  SumFunctionOnSet(f, A \cup B) = SumFunctionOnSet(f, A) + SumFunctionOnSet(f, B)
<1> DEFINE G == {T \in SUBSET B : SumFunctionOnSet(f, A \cup T) = SumFunctionOnSet(f, A) + SumFunctionOnSet(f, T)}
<1>1. IsFiniteSet(A) /\ IsFiniteSet(B) /\ SumFunctionOnSet(f, A) \in Int
  <2>1. IsFiniteSet(A) /\ IsFiniteSet(B) /\ \A x \in A : f[x] \in Int
    BY FS_Subset
  <2>2. QED
    BY <2>1, SumType
<1>2. {} \in G
  <2>1. SumFunctionOnSet(f, {}) = 0 /\ A \cup {} = A
    BY SumSteps, FS_EmptySet
  <2>2. QED
    BY <1>1, <2>1
<1>3. ASSUME NEW T \in SUBSET B, T # {}, T \ {Pick(T)} \in G PROVE T \in G
  <2> DEFINE p == Pick(T)
             U == T \ {p}
  <2>1. p \in T /\ U \in SUBSET B /\ T = U \cup {p}
    <3>1. p \in T
      BY <1>3 DEF Pick
    <3>2. QED
      BY <3>1
  <2>2. p \in S \ U /\ p \in S \ (A \cup U) /\ A \cup U \in SUBSET S /\ U \in SUBSET S
    BY <2>1
  <2>3. SumFunctionOnSet(f, A \cup U) = SumFunctionOnSet(f, A) + SumFunctionOnSet(f, U)
    BY <1>3
  <2>4. A \cup T = (A \cup U) \cup {p}
    BY <2>1
  <2> HIDE DEF p, U
  <2>5. SumFunctionOnSet(f, T) = SumFunctionOnSet(f, U) + f[p] /\ SumFunctionOnSet(f, A \cup T) = SumFunctionOnSet(f, A \cup U) + f[p]
    BY <2>1, <2>2, <2>4, SumAdds
  <2>6. SumFunctionOnSet(f, U) \in Int /\ f[p] \in Int
    BY <2>2, FS_Subset, SumType
  <2>7. SumFunctionOnSet(f, A \cup T) = SumFunctionOnSet(f, A) + SumFunctionOnSet(f, T)
    BY <1>1, <2>3, <2>5, <2>6
  <2>8. QED
    BY <2>7
<1> HIDE DEF G
<1>4. B \in G
  BY <1>1, <1>2, <1>3, SubsetsUp
<1>5. QED
  BY <1>4 DEF G

\* Of larger summands the total is no smaller.
LEMMA SumRises ==
  ASSUME NEW S, IsFiniteSet(S), NEW f, NEW e,
         \A x \in S : f[x] \in Int /\ e[x] \in Int /\ f[x] =< e[x]
  PROVE  SumFunctionOnSet(f, S) =< SumFunctionOnSet(e, S)
<1> DEFINE G == {T \in SUBSET S : SumFunctionOnSet(f, T) =< SumFunctionOnSet(e, T)}
<1>1. {} \in G
  <2>1. SumFunctionOnSet(f, {}) = 0 /\ SumFunctionOnSet(e, {}) = 0
    BY SumSteps
  <2>2. QED
    BY <2>1
<1>2. ASSUME NEW T \in SUBSET S, T # {}, T \ {Pick(T)} \in G PROVE T \in G
  <2> DEFINE U == T \ {Pick(T)}
  <2>1. Pick(T) \in S /\ IsFiniteSet(T) /\ U \in SUBSET S
    BY <1>2, PickSmaller, FS_Subset
  <2>2. SumFunctionOnSet(f, T) = f[Pick(T)] + SumFunctionOnSet(f, U) /\ SumFunctionOnSet(e, T) = e[Pick(T)] + SumFunctionOnSet(e, U)
    BY <1>2, <2>1, SumSteps
  <2>3. SumFunctionOnSet(f, U) =< SumFunctionOnSet(e, U)
    BY <1>2
  <2>4. SumFunctionOnSet(f, U) \in Int /\ SumFunctionOnSet(e, U) \in Int
    <3>1. IsFiniteSet(U)
      BY <2>1, FS_Subset
    <3> HIDE DEF U
    <3>2. QED
      BY <2>1, <3>1, SumType
  <2> HIDE DEF U
  <2>5. SumFunctionOnSet(f, T) =< SumFunctionOnSet(e, T)
    BY <2>1, <2>2, <2>3, <2>4
  <2>6. QED
    BY <2>5
<1> HIDE DEF G
<1>3. S \in G
  BY <1>1, <1>2, SubsetsUp
<1>4. QED
  BY <1>3 DEF G

Class(S, k, c) == {x \in S : k[x] = c}

\* A sum taken class by class.
LEMMA SumByClass ==
  ASSUME NEW S, IsFiniteSet(S), NEW f, \A x \in S : f[x] \in Int,
         NEW C, IsFiniteSet(C), NEW k \in [S -> C],
         NEW h, \A c \in C : h[c] = SumFunctionOnSet(f, Class(S, k, c))
  PROVE  SumFunctionOnSet(h, C) = SumFunctionOnSet(f, S)
<1> DEFINE within(D) == {x \in S : k[x] \in D}
           class(c) == Class(S, k, c)
           G == {D \in SUBSET C : SumFunctionOnSet(h, D) = SumFunctionOnSet(f, within(D))}
<1>1. {} \in G
  <2>1. within({}) = {} /\ SumFunctionOnSet(h, {}) = 0
    BY FS_EmptySet, SumSteps
  <2>2. SumFunctionOnSet(f, {}) = 0
    BY FS_EmptySet, SumSteps
  <2> HIDE DEF within
  <2>3. QED
    BY <2>1, <2>2
<1>2. ASSUME NEW D \in SUBSET C, D # {}, D \ {Pick(D)} \in G PROVE D \in G
  <2> DEFINE c == Pick(D)
             E == D \ {c}
  <2>1. c \in D /\ E \in SUBSET C /\ IsFiniteSet(D)
    BY <1>2, PickSmaller, FS_Subset
  <2>2. /\ within(D) = within(E) \cup class(c) /\ within(E) \cap class(c) = {}
        /\ within(E) \in SUBSET S /\ class(c) \in SUBSET S
    BY <2>1 DEF Class
  <2>3. SumFunctionOnSet(h, E) = SumFunctionOnSet(f, within(E))
    BY <1>2
  <2>4. SumFunctionOnSet(h, D) = h[c] + SumFunctionOnSet(h, E)
    BY <1>2, <2>1, SumSteps
  <2>5. h[c] = SumFunctionOnSet(f, class(c))
    BY <2>1
  <2> HIDE DEF c, E, within, class
  <2>6. SumFunctionOnSet(f, within(D)) = SumFunctionOnSet(f, within(E)) + SumFunctionOnSet(f, class(c))
    BY <2>2, SumJoins
  <2>7. SumFunctionOnSet(f, within(E)) \in Int /\ SumFunctionOnSet(f, class(c)) \in Int
    <3>1. IsFiniteSet(within(E)) /\ IsFiniteSet(class(c))
      BY <2>2, FS_Subset
    <3>2. QED
      BY <2>2, <3>1, SumType
  <2>8. SumFunctionOnSet(h, D) = SumFunctionOnSet(f, within(D))
    BY <2>3, <2>4, <2>5, <2>6, <2>7
  <2>9. QED
    BY <2>8
<1>3. within(C) = S
  OBVIOUS
<1> HIDE DEF G, within
<1>4. C \in G
  BY <1>1, <1>2, SubsetsUp
<1>5. QED
  BY <1>3, <1>4 DEF G

\* What belongs to some of the classes, counted class by class.
LEMMA CountByClass ==
  ASSUME NEW S, IsFiniteSet(S), NEW C, IsFiniteSet(C), NEW k \in [S -> C],
         NEW h, \A c \in C : h[c] = Cardinality(Class(S, k, c))
  PROVE  SumFunctionOnSet(h, C) = Cardinality(S)
<1> DEFINE f == [x \in S |-> 1]
           G == {T \in SUBSET S : SumFunctionOnSet(f, T) = Cardinality(T)}
<1>1. {} \in G
  <2>1. SumFunctionOnSet(f, {}) = 0 /\ Cardinality({}) = 0
    BY FS_EmptySet, SumSteps
  <2>2. QED
    BY <2>1
<1>2. ASSUME NEW T \in SUBSET S, T # {}, T \ {Pick(T)} \in G PROVE T \in G
  <2>1. Pick(T) \in T /\ IsFiniteSet(T) /\ Cardinality(T) \in Nat
    BY <1>2, PickSmaller, FS_Subset
  <2>2. SumFunctionOnSet(f, T) = f[Pick(T)] + SumFunctionOnSet(f, T \ {Pick(T)})
    BY <1>2, <2>1, SumSteps
  <2>3. Cardinality(T \ {Pick(T)}) = Cardinality(T) - 1
    BY <2>1, FS_RemoveElement
  <2>4. QED
    BY <1>2, <2>1, <2>2, <2>3
<1> HIDE DEF G
<1>3. \A T \in SUBSET S : T \in G
  BY <1>1, <1>2, SubsetsUp
<1>4. \A T \in SUBSET S : SumFunctionOnSet(f, T) = Cardinality(T)
  BY <1>3 DEF G
<1>5. \A x \in S : f[x] \in Int
  OBVIOUS
<1> HIDE DEF f
<1>6. \A c \in C : h[c] = SumFunctionOnSet(f, Class(S, k, c))
  <2>1. \A c : Class(S, k, c) \in SUBSET S
    BY DEF Class
  <2>2. QED
    BY <1>4, <2>1
<1>7. SumFunctionOnSet(h, C) = SumFunctionOnSet(f, S)
  BY <1>5, <1>6, SumByClass
<1>8. QED
  BY <1>4, <1>7

\* The same sum under other indices.
LEMMA SumRenamed ==
  ASSUME NEW S, IsFiniteSet(S), NEW f, \A x \in S : f[x] \in Int,
         NEW C, IsFiniteSet(C), NEW k \in [S -> C], NEW m \in [C -> S],
         \A c \in C : k[m[c]] = c, \A x \in S : m[k[x]] = x,
         NEW h, \A c \in C : h[c] = f[m[c]]
  PROVE  SumFunctionOnSet(h, C) = SumFunctionOnSet(f, S)
<1>1. ASSUME NEW c \in C PROVE h[c] = SumFunctionOnSet(f, Class(S, k, c))
  <2>1. Class(S, k, c) = {m[c]} /\ m[c] \in S
    BY DEF Class
  <2>2. SumFunctionOnSet(f, {m[c]}) = f[m[c]] + SumFunctionOnSet(f, {})
    <3>1. IsFiniteSet({m[c]}) /\ (\A x \in {m[c]} : f[x] \in Int) /\ m[c] \in {m[c]}
      BY <2>1, FS_Singleton
    <3>2. SumFunctionOnSet(f, {m[c]}) = f[m[c]] + SumFunctionOnSet(f, {m[c]} \ {m[c]})
      BY <3>1, SumTakes
    <3>3. {m[c]} \ {m[c]} = {}
      OBVIOUS
    <3>4. QED
      BY <3>2, <3>3
  <2>3. SumFunctionOnSet(f, {}) = 0
    BY SumSteps
  <2>4. f[m[c]] \in Int
    BY <2>1
  <2>5. QED
    BY <2>1, <2>2, <2>3, <2>4
<1>2. QED
  BY <1>1, SumByClass

\* A part of a total of naturals is no more than the total.
LEMMA SumOfPart ==
  ASSUME NEW S, IsFiniteSet(S), NEW f, \A x \in S : f[x] \in Nat, NEW T \in SUBSET S
  PROVE  /\ SumFunctionOnSet(f, T) \in Nat /\ SumFunctionOnSet(f, S \ T) \in Nat
         /\ SumFunctionOnSet(f, S) \in Nat
         /\ SumFunctionOnSet(f, T) + SumFunctionOnSet(f, S \ T) = SumFunctionOnSet(f, S)
         /\ SumFunctionOnSet(f, T) =< SumFunctionOnSet(f, S)
<1>1. \A U \in SUBSET S : SumFunctionOnSet(f, U) \in Nat
  <2>1. TAKE U \in SUBSET S
  <2>2. IsFiniteSet(U) /\ \A x \in U : f[x] \in Int /\ f[x] >= 0
    BY FS_Subset
  <2>3. SumFunctionOnSet(f, U) \in Int /\ SumFunctionOnSet(f, U) >= 0
    BY <2>2, SumType
  <2>4. QED
    BY <2>3
<1>2. \A x \in S : f[x] \in Int
  OBVIOUS
<1>3. T \cap (S \ T) = {} /\ S \ T \in SUBSET S /\ T \cup (S \ T) = S
  OBVIOUS
<1>4. SumFunctionOnSet(f, T \cup (S \ T)) = SumFunctionOnSet(f, T) + SumFunctionOnSet(f, S \ T)
  BY <1>2, <1>3, SumJoins
<1>5. QED
  BY <1>1, <1>3, <1>4

\* Of a function without counts.
LEMMA SumOfNothing ==
  ASSUME NEW D, IsFiniteSet(D), NEW f, DOMAIN f = D, \A x \in D : f[x] = 0
  PROVE  SumFunction(f) = 0
<1> DEFINE G == {T \in SUBSET D : SumFunctionOnSet(f, T) = 0}
<1>1. {} \in G
  BY SumSteps, FS_EmptySet
<1>2. ASSUME NEW T \in SUBSET D, T # {}, T \ {Pick(T)} \in G PROVE T \in G
  <2>1. Pick(T) \in T /\ IsFiniteSet(T)
    BY <1>2, PickSmaller, FS_Subset
  <2>2. SumFunctionOnSet(f, T) = f[Pick(T)] + SumFunctionOnSet(f, T \ {Pick(T)})
    BY <1>2, <2>1, SumSteps
  <2>3. QED
    BY <1>2, <2>1, <2>2
<1> HIDE DEF G
<1>3. D \in G
  BY <1>1, <1>2, SubsetsUp
<1>4. SumFunctionOnSet(f, D) = 0
  BY <1>3 DEF G
<1>5. QED
  BY <1>4 DEF SumFunction, SumFunctionOnSet, FoldFunction

\* One more in one place is one more in the sum.
LEMMA SumBumped ==
  ASSUME NEW D, IsFiniteSet(D), NEW f \in [D -> Nat], NEW c \in D
  PROVE  /\ SumFunction(f) \in Nat
         /\ SumFunction([f EXCEPT ![c] = @ + 1]) = SumFunction(f) + 1
<1> DEFINE g == [f EXCEPT ![c] = @ + 1]
<1>1. DOMAIN f = D /\ DOMAIN g = D
  OBVIOUS
<1>2. /\ \A x \in D : f[x] \in Nat /\ f[x] \in Int /\ g[x] \in Int
      /\ g[c] = f[c] + 1 /\ \A x \in D \ {c} : g[x] = f[x]
  OBVIOUS
<1>3. SumFunction(f) = SumFunctionOnSet(f, D) /\ SumFunction(g) = SumFunctionOnSet(g, D)
  BY <1>1 DEF SumFunction, SumFunctionOnSet, FoldFunction
<1> HIDE DEF g
<1>4. SumFunctionOnSet(f, D) = f[c] + SumFunctionOnSet(f, D \ {c})
  BY <1>2, SumTakes
<1>5. SumFunctionOnSet(g, D) = g[c] + SumFunctionOnSet(g, D \ {c})
  BY <1>2, SumTakes
<1>6. SumFunctionOnSet(g, D \ {c}) = SumFunctionOnSet(f, D \ {c})
  <2>1. IsFiniteSet(D \ {c})
    BY FS_Subset
  <2>2. QED
    BY <1>2, <2>1, SumsEqual
<1>7. D \ {c} \in SUBSET D
  OBVIOUS
<1>8. SumFunctionOnSet(f, D) \in Nat /\ SumFunctionOnSet(f, D \ {c}) \in Nat
  BY <1>2, <1>7, SumOfPart
<1>9. SumFunction(f) \in Nat /\ SumFunction(g) = SumFunction(f) + 1
  BY <1>2, <1>3, <1>4, <1>5, <1>6, <1>8
<1>10. QED
  BY <1>9, Zenon DEF g

-----------------------------------------------------------------------------
(* Coarsening                                                              *)

Ratio == FinestBands \div Bands

\* Ratio is the number of finest bands in each of the bands (TrajectoryPartition).
LEMMA Partitions ==
  /\ Bands \in Nat \ {0} /\ FinestBands \in Nat \ {0} /\ Horizon \in Nat \ {0}
  /\ Ratio \in Nat \ {0} /\ FinestBands = Ratio * Bands
<1>1. Bands \in Nat \ {0} /\ FinestBands \in Nat \ {0} /\ Horizon \in Nat \ {0}
      /\ Bands =< FinestBands /\ FinestBands % Bands = 0
  BY PartitionAssumption
<1>2. Ratio \in Nat /\ FinestBands = Ratio * Bands
  BY <1>1 DEF Ratio
<1>3. Ratio # 0
  BY <1>1, <1>2
<1>4. QED
  BY <1>1, <1>2, <1>3

\* The quotient is the one number with its product in reach of the dividend.
LEMMA Quotient ==
  ASSUME NEW n \in Nat, NEW d \in Nat \ {0}
  PROVE  /\ n \div d \in Nat /\ (n \div d) * d =< n /\ n < (n \div d) * d + d
         /\ \A q \in Nat : q * d =< n /\ n < q * d + d => n \div d = q
OBVIOUS

\* The coarse band of a fine one, and the coarse category.
BandAbove(b) == (b - 1) \div Ratio + 1
CoarseOf(f) ==
  IF f = Unresolved(FinestBands) THEN Unresolved(Bands)
  ELSE IF f % 2 = 1 THEN 2 * BandAbove((f + 1) \div 2) - 1 ELSE 2 * BandAbove((f + 1) \div 2)

\* A finest band is in one band of the partition, and that is its CoarseBand.
LEMMA BandAboveIs ==
  ASSUME NEW b \in 1..FinestBands
  PROVE  /\ BandAbove(b) \in 1..Bands
         /\ (BandAbove(b) - 1) * Ratio < b /\ b =< BandAbove(b) * Ratio
         /\ \A q \in 1..Bands : (q - 1) * Ratio < b /\ b =< q * Ratio => q = BandAbove(b)
         /\ CoarseBand(b) = BandAbove(b)
<1> DEFINE n == b - 1
           q == n \div Ratio
<1>1. /\ Bands \in Nat \ {0} /\ Ratio \in Nat \ {0} /\ FinestBands = Ratio * Bands
      /\ FinestBands \in Nat \ {0}
  BY Partitions
<1>2. n \in Nat /\ b \in Nat /\ b =< Ratio * Bands
  BY <1>1
<1>3. /\ q \in Nat /\ q * Ratio =< n /\ n < q * Ratio + Ratio
      /\ \A p \in Nat : p * Ratio =< n /\ n < p * Ratio + Ratio => q = p
  BY <1>1, <1>2, Quotient
<1>4. BandAbove(b) = q + 1
  BY DEF BandAbove
<1>5. n = b - 1
  OBVIOUS
<1> HIDE DEF n, q
<1>6. q + 1 =< Bands
  <2>1. SUFFICES ASSUME Bands =< q PROVE FALSE
    BY <1>1, <1>3
  <2>2. Bands * Ratio =< q * Ratio
    BY <1>1, <1>3, <2>1
  <2>3. QED
    BY <1>1, <1>2, <1>3, <1>5, <2>2
<1>7. (q + 1) * Ratio = q * Ratio + Ratio /\ q * Ratio \in Nat
  BY <1>1, <1>3
<1>8. q * Ratio < b /\ b =< (q + 1) * Ratio
  BY <1>1, <1>2, <1>3, <1>5, <1>7
<1>9. ASSUME NEW p \in 1..Bands, (p - 1) * Ratio < b, b =< p * Ratio
      PROVE  p = q + 1
  <2>1. p - 1 \in Nat /\ p * Ratio = (p - 1) * Ratio + Ratio /\ (p - 1) * Ratio \in Nat
    BY <1>1
  <2>2. (p - 1) * Ratio =< n /\ n < (p - 1) * Ratio + Ratio
    BY <1>1, <1>2, <1>5, <1>9, <2>1
  <2>3. q = p - 1
    BY <1>3, <2>1, <2>2
  <2>4. QED
    BY <2>3
<1>10. CoarseBand(b) = q + 1
  <2> DEFINE m == b * Bands - 1
  <2>1. m \in Nat /\ b * Bands \in Nat /\ q * FinestBands \in Nat
    BY <1>1, <1>2, <1>3, <1>8
  <2>2. q * FinestBands =< m
    <3>1. q * Ratio + 1 =< b
      BY <1>2, <1>7, <1>8
    <3>2. (q * Ratio + 1) * Bands =< b * Bands
      BY <1>1, <1>2, <1>7, <3>1
    <3>3. (q * Ratio + 1) * Bands = q * FinestBands + Bands
      BY <1>1, <1>3
    <3>4. QED
      BY <1>1, <2>1, <3>2, <3>3
  <2>3. m < q * FinestBands + FinestBands
    <3>1. b * Bands =< ((q + 1) * Ratio) * Bands
      BY <1>1, <1>2, <1>3, <1>7, <1>8
    <3>2. ((q + 1) * Ratio) * Bands = q * FinestBands + FinestBands
      BY <1>1, <1>3
    <3>3. QED
      BY <1>1, <2>1, <3>1, <3>2
  <2>4. m \div FinestBands = q
    <3> HIDE DEF m
    <3>1. QED
      BY <1>1, <1>3, <2>1, <2>2, <2>3, Quotient
  <2>5. QED
    BY <2>4 DEF CoarseBand
<1>11. QED
  BY <1>3, <1>4, <1>6, <1>8, <1>9, <1>10

\* The categories that coarsening adds up are those of the bands it merges.
LEMMA FineIsClass ==
  /\ \A f \in Categories(FinestBands) : CoarseOf(f) \in Categories(Bands)
  /\ \A c \in Categories(Bands) :
       FineCategories(c) = {f \in Categories(FinestBands) : CoarseOf(f) = c}
<1>1. /\ Bands \in Nat \ {0} /\ Ratio \in Nat \ {0} /\ FinestBands = Ratio * Bands
      /\ FinestBands \in Nat \ {0}
  BY Partitions
<1>2. ASSUME NEW f \in Categories(FinestBands), f # Unresolved(FinestBands)
      PROVE  /\ (f + 1) \div 2 \in 1..FinestBands
             /\ f % 2 = 1 => f = 2 * ((f + 1) \div 2) - 1
             /\ f % 2 # 1 => f = 2 * ((f + 1) \div 2)
  BY <1>1, <1>2 DEF Categories, Unresolved
<1>3. \A f \in Categories(FinestBands) : CoarseOf(f) \in Categories(Bands)
  <2>1. TAKE f \in Categories(FinestBands)
  <2>2. CASE f = Unresolved(FinestBands)
    BY <1>1, <2>2 DEF CoarseOf, Categories, Unresolved
  <2>3. CASE f # Unresolved(FinestBands)
    <3>1. BandAbove((f + 1) \div 2) \in 1..Bands
      BY <1>2, <2>3, BandAboveIs
    <3>2. QED
      BY <1>1, <2>3, <3>1 DEF CoarseOf, Categories
  <2>4. QED
    BY <2>2, <2>3
<1>4. ASSUME NEW c \in Categories(Bands), c # Unresolved(Bands),
             NEW f \in Categories(FinestBands), CoarseOf(f) = c
      PROVE  f \in FineCategories(c)
  <2> DEFINE b == (f + 1) \div 2
             q == (c + 1) \div 2
  <2>1. f # Unresolved(FinestBands)
    BY <1>4 DEF CoarseOf
  <2>2. b \in 1..FinestBands /\ f = IF f % 2 = 1 THEN 2 * b - 1 ELSE 2 * b
    BY <1>2, <2>1
  <2>3. BandAbove(b) \in 1..Bands /\ (BandAbove(b) - 1) * Ratio < b /\ b =< BandAbove(b) * Ratio
    BY <2>2, BandAboveIs
  <2>4. c = IF f % 2 = 1 THEN 2 * BandAbove(b) - 1 ELSE 2 * BandAbove(b)
    BY <1>4, <2>1 DEF CoarseOf
  <2>5. q = BandAbove(b) /\ (c % 2 = 1 <=> f % 2 = 1)
    BY <1>1, <2>3, <2>4
  <2>6. f = IF c % 2 = 1 THEN 2 * b - 1 ELSE 2 * b
    BY <2>2, <2>5
  <2> HIDE DEF b, q
  <2>7. b \in ((q - 1) * Ratio + 1)..(q * Ratio)
    <3>1. (q - 1) * Ratio \in Nat /\ q * Ratio \in Nat /\ b \in Nat
      BY <1>1, <2>2, <2>3, <2>5
    <3>2. QED
      BY <2>3, <2>5, <3>1
  <2>8. QED
    BY <1>4, <2>6, <2>7 DEF FineCategories, q, Ratio
<1>5. ASSUME NEW c \in Categories(Bands), c # Unresolved(Bands), NEW f \in FineCategories(c)
      PROVE  f \in Categories(FinestBands) /\ CoarseOf(f) = c
  <2> DEFINE q == (c + 1) \div 2
  <2>1. PICK b \in ((q - 1) * Ratio + 1)..(q * Ratio) :
          f = IF c % 2 = 1 THEN 2 * b - 1 ELSE 2 * b
    BY <1>5 DEF FineCategories, Ratio
  <2>2. /\ q \in 1..Bands
        /\ c % 2 = 1 => c = 2 * q - 1
        /\ c % 2 # 1 => c = 2 * q
    BY <1>1, <1>5 DEF Categories, Unresolved
  <2> HIDE DEF q
  <2>3. b \in 1..FinestBands
    <3>1. /\ (q - 1) * Ratio \in Nat /\ q * Ratio \in Nat /\ q * Ratio =< Bands * Ratio
          /\ Bands * Ratio = FinestBands
      BY <1>1, <2>2
    <3>2. QED
      BY <1>1, <2>1, <3>1
  <2>4. BandAbove(b) = q
    <3>1. (q - 1) * Ratio \in Nat /\ q * Ratio \in Nat /\ b \in Nat
      BY <1>1, <2>2, <2>3
    <3>2. (q - 1) * Ratio < b /\ b =< q * Ratio
      BY <2>1, <3>1
    <3>3. QED
      BY <2>2, <2>3, <3>2, BandAboveIs
  <2>5. /\ (f + 1) \div 2 = b /\ (f % 2 = 1 <=> c % 2 = 1)
        /\ f \in Categories(FinestBands) /\ f # Unresolved(FinestBands)
    BY <1>1, <2>1, <2>3 DEF Categories, Unresolved
  <2>6. QED
    BY <2>2, <2>4, <2>5 DEF CoarseOf
<1>6. ASSUME NEW f \in Categories(FinestBands)
      PROVE  CoarseOf(f) = Unresolved(Bands) <=> f = Unresolved(FinestBands)
  <2>1. ASSUME f # Unresolved(FinestBands) PROVE CoarseOf(f) # Unresolved(Bands)
    <3>1. BandAbove((f + 1) \div 2) \in 1..Bands
      BY <1>2, <2>1, BandAboveIs
    <3>2. QED
      BY <1>1, <2>1, <3>1 DEF CoarseOf, Unresolved
  <2>2. QED
    BY <2>1 DEF CoarseOf
<1>7. FineCategories(Unresolved(Bands))
        = {f \in Categories(FinestBands) : CoarseOf(f) = Unresolved(Bands)}
  <2>1. Unresolved(FinestBands) \in Categories(FinestBands)
    BY <1>1 DEF Unresolved, Categories
  <2>2. FineCategories(Unresolved(Bands)) = {Unresolved(FinestBands)}
    BY DEF FineCategories
  <2>3. QED
    BY <1>6, <2>1, <2>2
<1>8. QED
  BY <1>3, <1>4, <1>5, <1>7

CoarseMap == [f \in Categories(FinestBands) |-> CoarseOf(f)]

\* Coarsening is a function of finite sets whose classes are FineCategories.
LEMMA CategoriesFinite ==
  /\ IsFiniteSet(Categories(Bands)) /\ IsFiniteSet(Categories(FinestBands))
  /\ CoarseMap \in [Categories(FinestBands) -> Categories(Bands)]
  /\ \A c \in Categories(Bands) : FineCategories(c) = Class(Categories(FinestBands), CoarseMap, c)
<1>1. IsFiniteSet(Categories(Bands)) /\ IsFiniteSet(Categories(FinestBands))
  BY Partitions, FS_Interval DEF Categories
<1>2. CoarseMap \in [Categories(FinestBands) -> Categories(Bands)]
  BY FineIsClass DEF CoarseMap
<1>3. \A c \in Categories(Bands) : FineCategories(c) = Class(Categories(FinestBands), CoarseMap, c)
  BY FineIsClass DEF Class, CoarseMap
<1>4. QED
  BY <1>1, <1>2, <1>3

\* Coarsening keeps the sum.
LEMMA CoarseningSums ==
  ASSUME NEW v \in [Categories(FinestBands) -> Int]
  PROVE  SumFunctionOnSet(Coarsened(v), Categories(Bands)) = SumFunctionOnSet(v, Categories(FinestBands))
<1>1. \A c \in Categories(Bands) :
        Coarsened(v)[c] = SumFunctionOnSet(v, Class(Categories(FinestBands), CoarseMap, c))
  BY CategoriesFinite DEF Coarsened
<1>2. \A f \in Categories(FinestBands) : v[f] \in Int
  OBVIOUS
<1>3. QED
  BY <1>1, <1>2, CategoriesFinite, SumByClass

\* The band of an age is the first whose boundary is not below it.
LEMMA BandIs ==
  ASSUME NEW n \in Nat \ {0}, NEW age \in 0..Horizon
  PROVE  /\ Band(age, n) \in 1..n
         /\ Horizon * (Band(age, n) - 1) < age * n \/ Band(age, n) = 1
         /\ age * n =< Horizon * Band(age, n)
         /\ \A k \in 1..n : (Horizon * (k - 1) < age * n \/ k = 1) /\ age * n =< Horizon * k
                              => k = Band(age, n)
<1>1. Horizon \in Nat \ {0} /\ age \in Nat /\ age =< Horizon
  BY Partitions
<1> DEFINE reached == {k \in Nat : k > 0 /\ age * n =< Horizon * k}
<1>2. PICK k \in reached : \A i \in reached : k =< i
  <2>1. n \in reached
    BY <1>1
  <2>2. reached \subseteq Nat /\ reached # {}
    BY <2>1
  <2> HIDE DEF reached
  <2>3. QED
    BY <2>2, LeastNumber
<1>3. k \in 1..n /\ age * n =< Horizon * k
  <2>1. n \in reached
    BY <1>1
  <2>2. QED
    BY <1>2, <2>1
<1>4. \A i \in 1..n : i < k => Horizon * i < age * n
  <2>1. TAKE i \in 1..n
  <2>2. Horizon * i \in Nat /\ age * n \in Nat
    BY <1>1
  <2>3. QED
    BY <1>2, <2>2
<1>5. \A i \in 1..n : k =< i => age * n =< Horizon * i
  <2>1. TAKE i \in 1..n
  <2>2. HAVE k =< i
  <2>3. Horizon * k =< Horizon * i /\ Horizon * i \in Nat /\ age * n \in Nat /\ Horizon * k \in Nat
    BY <1>1, <1>3, <2>2
  <2>4. QED
    BY <1>3, <2>3
<1>6. {i \in 1..n : Horizon * i < age * n} = 1..(k - 1)
  <2>1. \A i \in 1..n : Horizon * i \in Nat /\ age * n \in Nat
    BY <1>1
  <2>2. QED
    BY <1>3, <1>4, <1>5, <2>1
<1>7. Cardinality(1..(k - 1)) = k - 1
  BY <1>3, FS_Interval
<1>8. Band(age, n) = k
  <2>1. Band(age, n) = 1 + Cardinality({i \in 1..n : Horizon * i < age * n})
    BY DEF Band
  <2>2. Band(age, n) = 1 + Cardinality(1..(k - 1))
    BY <1>6, <2>1, Zenon
  <2>3. QED
    BY <1>3, <1>7, <2>2
<1>9. Horizon * (k - 1) < age * n \/ k = 1
  BY <1>3, <1>4
<1>10. ASSUME NEW i \in 1..n, Horizon * (i - 1) < age * n \/ i = 1, age * n =< Horizon * i
       PROVE  i = k
  <2>1. ~ (i < k)
    <3>1. Horizon * i \in Nat /\ age * n \in Nat
      BY <1>1
    <3>2. QED
      BY <1>4, <1>10, <3>1
  <2>2. ~ (k < i)
    <3>1. SUFFICES ASSUME k < i PROVE FALSE
      OBVIOUS
    <3>2. i - 1 \in 1..n /\ k =< i - 1
      BY <1>3, <3>1
    <3>3. age * n =< Horizon * (i - 1)
      BY <1>5, <3>2
    <3>4. Horizon * (i - 1) \in Nat /\ age * n \in Nat
      BY <1>1, <3>2
    <3>5. QED
      BY <1>3, <1>10, <3>1, <3>3, <3>4
  <2>3. QED
    BY <1>3, <2>1, <2>2
<1>11. QED
  BY <1>3, <1>8, <1>9, <1>10

\* An age is in the coarse band of its fine band.
LEMMA BandCoarsens ==
  ASSUME NEW age \in 0..Horizon
  PROVE  /\ Band(age, FinestBands) \in 1..FinestBands
         /\ Band(age, Bands) = BandAbove(Band(age, FinestBands))
<1> DEFINE k == Band(age, FinestBands)
           q == BandAbove(k)
<1>1. /\ Bands \in Nat \ {0} /\ Ratio \in Nat \ {0} /\ FinestBands = Ratio * Bands
      /\ FinestBands \in Nat \ {0} /\ Horizon \in Nat \ {0} /\ age \in Nat
  BY Partitions
<1>2. /\ k \in 1..FinestBands /\ (Horizon * (k - 1) < age * FinestBands \/ k = 1)
      /\ age * FinestBands =< Horizon * k
  BY <1>1, BandIs
<1>3. q \in 1..Bands /\ (q - 1) * Ratio < k /\ k =< q * Ratio
  BY <1>2, BandAboveIs
<1> HIDE DEF k, q
<1>4. age * FinestBands = (age * Bands) * Ratio /\ age * Bands \in Nat
  BY <1>1
<1>5. age * Bands =< Horizon * q
  <2>1. Horizon * k =< Horizon * (q * Ratio)
    BY <1>1, <1>2, <1>3
  <2>2. Horizon * (q * Ratio) = (Horizon * q) * Ratio /\ Horizon * q \in Nat
    BY <1>1, <1>3
  <2>3. Horizon * k \in Nat /\ (Horizon * q) * Ratio \in Nat /\ (age * Bands) * Ratio \in Nat
    BY <1>1, <1>2, <1>3
  <2>4. (age * Bands) * Ratio =< (Horizon * q) * Ratio
    BY <1>2, <1>4, <2>1, <2>2, <2>3
  <2>5. QED
    BY <1>1, <1>4, <2>2, <2>4
<1>6. Horizon * (q - 1) < age * Bands \/ q = 1
  <2>1. SUFFICES ASSUME q # 1 PROVE Horizon * (q - 1) < age * Bands
    OBVIOUS
  <2>2. q - 1 \in Nat /\ (q - 1) * Ratio \in Nat /\ (q - 1) * Ratio >= 1
    BY <1>1, <1>3, <2>1
  <2>3. k # 1 /\ k - 1 >= (q - 1) * Ratio /\ k - 1 \in Nat
    BY <1>2, <1>3, <2>2
  <2>4. Horizon * ((q - 1) * Ratio) =< Horizon * (k - 1)
    BY <1>1, <2>2, <2>3
  <2>5. Horizon * ((q - 1) * Ratio) = (Horizon * (q - 1)) * Ratio /\ Horizon * (q - 1) \in Nat
    BY <1>1, <2>2
  <2>6. (Horizon * (q - 1)) * Ratio < (age * Bands) * Ratio
    <3>1. Horizon * (k - 1) \in Nat /\ (Horizon * (q - 1)) * Ratio \in Nat /\ (age * Bands) * Ratio \in Nat
      BY <1>1, <1>4, <2>3, <2>5
    <3>2. QED
      BY <1>2, <1>4, <2>3, <2>4, <2>5, <3>1
  <2>7. QED
    BY <1>1, <1>4, <2>5, <2>6
<1>7. Band(age, Bands) = q
  BY <1>1, <1>3, <1>5, <1>6, BandIs
<1>8. QED
  BY <1>2, <1>7 DEF k, q

\* An event matures, and its category is that of its fine category.
LEMMA CategoryCoarsens ==
  ASSUME NEW e \in Event, ValidEvent(e)
  PROVE  /\ Matures(e, Bands)
         /\ MaturedCategory(e, FinestBands) \in Categories(FinestBands)
         /\ MaturedCategory(e, Bands) = CoarseOf(MaturedCategory(e, FinestBands))
         /\ e.completion # Never =>
              Band(e.completion - e.issue, Bands) = CoarseBand(Band(e.completion - e.issue, FinestBands))
<1>1. Bands \in Nat \ {0} /\ FinestBands \in Nat \ {0} /\ Horizon \in Nat \ {0}
  BY Partitions
<1>2. CASE e.completion = Never
  BY <1>1, <1>2 DEF Matures, MaturedCategory, CoarseOf, Categories, Unresolved
<1>3. CASE e.completion # Never
  <2> DEFINE age == e.completion - e.issue
             k == Band(age, FinestBands)
             q == Band(age, Bands)
  <2>1. e.label \in {"HARMFUL", "CORRECT"} /\ age \in 0..Horizon
    BY <1>1, <1>3 DEF ValidEvent, Event
  <2>2. /\ k \in 1..FinestBands /\ q = BandAbove(k) /\ q \in 1..Bands /\ q = CoarseBand(k)
    <3> HIDE DEF age
    <3>1. k \in 1..FinestBands /\ q = BandAbove(k)
      BY <2>1, BandCoarsens
    <3>2. BandAbove(k) \in 1..Bands /\ CoarseBand(k) = BandAbove(k)
      BY <3>1, BandAboveIs
    <3>3. QED
      BY <3>1, <3>2
  <2>3. /\ MaturedCategory(e, FinestBands) = IF e.label = "HARMFUL" THEN 2 * k - 1 ELSE 2 * k
        /\ MaturedCategory(e, Bands) = IF e.label = "HARMFUL" THEN 2 * q - 1 ELSE 2 * q
        /\ Matures(e, Bands) <=> q =< Bands
    BY <1>3 DEF MaturedCategory, CategoryOf, Matures
  <2> HIDE DEF k, q
  <2>4. Matures(e, Bands)
    BY <1>1, <2>2, <2>3
  <2> DEFINE f == MaturedCategory(e, FinestBands)
  <2>5. /\ f \in Categories(FinestBands) /\ f # Unresolved(FinestBands) /\ (f + 1) \div 2 = k
        /\ f % 2 = 1 <=> e.label = "HARMFUL"
    BY <1>1, <2>2, <2>3 DEF Categories, Unresolved
  <2> HIDE DEF f
  <2>6. MaturedCategory(e, Bands) = CoarseOf(f)
    BY <2>2, <2>3, <2>5 DEF CoarseOf
  <2>7. QED
    BY <2>2, <2>4, <2>5, <2>6 DEF f, k, q
<1>4. QED
  BY <1>2, <1>3

\* The counts of some events on the finest partition.
FineCounts(seen) ==
  [c \in Categories(FinestBands) |->
     Cardinality({e \in seen : MaturedCategory(e, FinestBands) = c})]

\* Counting on the coarse partition is coarsening the counts on the fine one.
LEMMA CountingCommutes ==
  ASSUME NEW seen \in SUBSET Event, IsFiniteSet(seen), \A e \in seen : ValidEvent(e)
  PROVE  Coarsened(FineCounts(seen)) =
           [c \in Categories(Bands) |-> Cardinality({e \in seen : MaturedCategory(e, Bands) = c})]
<1> DEFINE fine == FineCounts(seen)
<1>1. ASSUME NEW c \in Categories(Bands)
      PROVE  SumFunctionOnSet(fine, FineCategories(c))
               = Cardinality({e \in seen : MaturedCategory(e, Bands) = c})
  <2> DEFINE S == {e \in seen : MaturedCategory(e, Bands) = c}
             C == FineCategories(c)
             k == [e \in S |-> MaturedCategory(e, FinestBands)]
  <2>1. C \in SUBSET Categories(FinestBands) /\ \A f \in C : CoarseOf(f) = c
    BY FineIsClass
  <2>2. IsFiniteSet(S) /\ IsFiniteSet(C)
    <3>1. S \in SUBSET seen
      OBVIOUS
    <3> HIDE DEF S, C
    <3>2. QED
      BY <2>1, <3>1, CategoriesFinite, FS_Subset
  <2>3. k \in [S -> C]
    <3>1. \A e \in S : MaturedCategory(e, FinestBands) \in C
      BY FineIsClass, CategoryCoarsens
    <3>2. QED
      BY <3>1
  <2>4. \A f \in C : {e \in seen : MaturedCategory(e, FinestBands) = f} = Class(S, k, f)
    <3>1. TAKE f \in C
    <3>2. \A e \in seen : MaturedCategory(e, FinestBands) = f => e \in S
      BY <2>1, CategoryCoarsens
    <3>3. QED
      BY <3>2 DEF Class
  <2>5. \A f \in C : fine[f] = Cardinality(Class(S, k, f))
    <3>1. \A f \in C :
            fine[f] = Cardinality({e \in seen : MaturedCategory(e, FinestBands) = f})
      BY <2>1 DEF FineCounts
    <3>2. QED
      BY <2>4, <3>1
  <2> HIDE DEF C, k, S, fine
  <2>6. SumFunctionOnSet(fine, C) = Cardinality(S)
    BY <2>2, <2>3, <2>5, CountByClass
  <2>7. QED
    BY <2>6 DEF S, C, fine
<1>2. QED
  BY <1>1 DEF Coarsened

-----------------------------------------------------------------------------
(* What a region that has the truth says                                   *)

Bounds == [lower : Mass, upper : Mass]

\* The entropy of two masses is within that of none and that of two wholes.
LEMMA EntropyOfMasses ==
  ASSUME NEW x \in Mass, NEW y \in Mass
  PROVE  /\ MassEntropy(x, y) \in Int /\ MassEntropy(x, y) >= 0
         /\ MassEntropy(x, y) =< MassEntropy(Unit, Unit) /\ MassEntropy(Unit, Unit) \in Int
<1>1. 0 \in Mass /\ Unit \in Mass /\ 0 =< x /\ x =< Unit /\ 0 =< y /\ y =< Unit
  BY UnitAssumption DEF Mass
<1>2. MassEntropy(0, 0) =< MassEntropy(x, y) /\ MassEntropy(x, y) =< MassEntropy(Unit, Unit)
  BY <1>1, EntropyGrows
<1>3. MassEntropy(x, y) \in Int /\ MassEntropy(Unit, Unit) \in Int /\ MassEntropy(0, 0) = 0
  BY <1>1, EntropyBounds, EntropyGrows
<1>4. QED
  BY <1>2, <1>3

\* What a projection reads of an envelope.
Readable(e) ==
  /\ e.harmful \in Interval /\ e.correct \in Interval /\ e.unresolved \in Interval
  /\ e.entropyUpper \in Int

\* The masses and the information of a plausible point.
LEMMA PointIsTyped ==
  ASSUME NEW e, Readable(e), NEW p \in PlausiblePoints(e)
  PROVE  /\ p["harmful"] \in Mass /\ p["correct"] \in Mass /\ p["hidden"] \in Mass
         /\ p["harmful"] =< e.harmful.upper /\ p["hidden"] =< e.unresolved.upper
         /\ Plausible(p, e) /\ Risk(p) \in Mass
         /\ InformationLower(p, e) \in Int
         /\ - e.entropyUpper - MassEntropy(Unit, Unit) =< InformationLower(p, e)
<1>1. /\ Unit \in Nat \ {0}
      /\ \A i \in Interval : i.lower \in 0..Unit /\ i.upper \in 0..Unit
  BY UnitAssumption DEF Interval, Mass
<1>2. /\ e.harmful.lower \in 0..Unit /\ e.harmful.upper \in 0..Unit
      /\ e.correct.lower \in 0..Unit /\ e.correct.upper \in 0..Unit
      /\ e.unresolved.upper \in 0..Unit /\ e.unresolved.lower \in 0..Unit
      /\ e.entropyUpper \in Int
  BY <1>1 DEF Readable
<1>3. /\ p["harmful"] \in e.harmful.lower..e.harmful.upper
      /\ p["correct"] \in e.correct.lower..e.correct.upper
      /\ p["hidden"] \in 0..e.unresolved.upper
      /\ Plausible(p, e)
  BY DEF PlausiblePoints
<1>4. /\ p["harmful"] \in Mass /\ p["correct"] \in Mass /\ p["hidden"] \in Mass
      /\ p["harmful"] =< e.harmful.upper /\ p["hidden"] =< e.unresolved.upper
  BY <1>1, <1>2, <1>3 DEF Mass
<1>5. Risk(p) \in Mass /\ Unit - Risk(p) \in Mass
      /\ Unit - p["harmful"] - p["correct"] - p["hidden"] \in Mass
  BY <1>1, <1>2, <1>3, <1>4 DEF Mass, Plausible, Risk
<1>6. /\ MassEntropy(Risk(p), Unit - Risk(p)) \in Int
      /\ MassEntropy(Risk(p), Unit - Risk(p)) >= 0
      /\ MassEntropy(p["hidden"], Unit - p["harmful"] - p["correct"] - p["hidden"]) \in Int
      /\ MassEntropy(p["hidden"], Unit - p["harmful"] - p["correct"] - p["hidden"])
           =< MassEntropy(Unit, Unit)
      /\ MassEntropy(Unit, Unit) \in Int
  BY <1>4, <1>5, EntropyOfMasses
<1>7. InformationLower(p, e) \in Int
      /\ - e.entropyUpper - MassEntropy(Unit, Unit) =< InformationLower(p, e)
  BY <1>2, <1>6 DEF InformationLower
<1>8. QED
  BY <1>3, <1>4, <1>5, <1>7

\* Whatever upper bound the projection returns, no feasible risk is above it.
LEMMA UpperSound ==
  ASSUME NEW e, Readable(e), NEW rho \in Nat, NEW p \in FeasiblePoints(e, rho),
         NEW u \in UpperBounds(e, rho)
  PROVE  u \in Int /\ Risk(p) =< u
<1> DEFINE risks == {Risk(q) : q \in FeasiblePoints(e, rho)}
           trivial == ObjectiveUpper(InitialBox(e))
<1>1. Unit \in Int /\ \A q \in Mass : q \in 0..Unit
  BY UnitAssumption DEF Mass
<1>2. \A q \in FeasiblePoints(e, rho) : q \in PlausiblePoints(e) /\ Risk(q) \in 0..Unit
  BY <1>1, PointIsTyped DEF FeasiblePoints
<1>3. risks \subseteq Int /\ risks # {} /\ (\A r \in risks : r =< Unit) /\ Risk(p) \in risks
  BY <1>1, <1>2
<1>4. u \in {trivial, IF risks = {} THEN trivial ELSE Max(risks)}
  BY DEF UpperBounds
<1>5. trivial \in Int /\ Risk(p) =< trivial
  <2>1. trivial = Smaller(Unit, e.harmful.upper + e.unresolved.upper)
    BY DEF ObjectiveUpper, InitialBox, Dimension
  <2>2. p["harmful"] =< e.harmful.upper /\ p["hidden"] =< e.unresolved.upper
        /\ p["harmful"] \in 0..Unit /\ p["hidden"] \in 0..Unit
    BY <1>1, <1>2, PointIsTyped
  <2>3. e.harmful.upper \in 0..Unit /\ e.unresolved.upper \in 0..Unit
    BY <1>1 DEF Readable, Interval
  <2>4. Risk(p) \in 0..Unit
    BY <1>2
  <2> HIDE DEF trivial
  <2>5. QED
    BY <1>1, <2>1, <2>2, <2>3, <2>4 DEF Smaller, Risk
<1> HIDE DEF risks, trivial
<1>6. Max(risks) \in risks /\ \A r \in risks : r =< Max(risks)
  BY <1>1, <1>3, MostOf
<1>7. QED
  BY <1>3, <1>4, <1>5, <1>6

\* Where a point is feasible no lower bound on the information exceeds the budget.
LEMMA CompatibilitySound ==
  ASSUME NEW e, Readable(e), NEW rho \in Nat, NEW p \in FeasiblePoints(e, rho),
         NEW c \in CompatibilityBounds(e)
  PROVE  c \in Int /\ c =< rho
<1> DEFINE infos == {InformationLower(q, e) : q \in PlausiblePoints(e)}
           low == - e.entropyUpper - MassEntropy(Unit, Unit)
<1>1. /\ p \in PlausiblePoints(e) /\ InformationLower(p, e) =< rho
      /\ c \in {0, IF infos = {} THEN 0 ELSE Larger(0, Min(infos))}
  BY DEF FeasiblePoints, CompatibilityBounds
<1>2. \A q \in PlausiblePoints(e) : InformationLower(q, e) \in Int /\ low =< InformationLower(q, e)
  BY PointIsTyped
<1>3. low \in Int
  <2>1. Unit \in Mass
    BY UnitAssumption DEF Mass
  <2>2. MassEntropy(Unit, Unit) \in Int
    BY <2>1, EntropyOfMasses
  <2>3. QED
    BY <2>2 DEF Readable
<1> HIDE DEF low
<1>4. /\ infos \subseteq Int /\ infos # {} /\ (\A t \in infos : low =< t)
      /\ InformationLower(p, e) \in infos
  BY <1>1, <1>2
<1> HIDE DEF infos
<1>5. Min(infos) \in infos /\ \A t \in infos : Min(infos) =< t
  BY <1>3, <1>4, LeastOf
<1>6. Min(infos) \in Int /\ Min(infos) =< InformationLower(p, e) /\ InformationLower(p, e) \in Int
  BY <1>4, <1>5
<1>7. QED
  BY <1>1, <1>4, <1>6 DEF Larger

\* The latent risk of a point is an integer quotient.
LEMMA LatentIsQuotient ==
  ASSUME NEW e, Readable(e), NEW p \in PlausiblePoints(e), p["harmful"] + p["correct"] > 0
  PROVE  /\ LatentRisk(p) \in Nat
         /\ LatentRisk(p) * (p["harmful"] + p["correct"]) =< Unit * p["harmful"]
<1> DEFINE r == p["harmful"] + p["correct"]
           n == Unit * p["harmful"]
<1>1. p["harmful"] \in Nat /\ p["correct"] \in Nat /\ Unit \in Nat
  BY PointIsTyped, UnitAssumption DEF Mass
<1>2. r \in Nat \ {0} /\ n \in Nat
  BY <1>1
<1> HIDE DEF r, n
<1>3. n \div r \in Nat /\ (n \div r) * r =< n
  BY <1>2, Quotient
<1>4. QED
  BY <1>3 DEF LatentRisk, r, n

\* A lower bound on the latent risk, where one is returned, bounds every feasible point.
LEMMA IntrinsicSound ==
  ASSUME NEW e, Readable(e), NEW rho \in Nat, NEW p \in FeasiblePoints(e, rho),
         NEW i \in IntrinsicBounds(e, rho), i # None
  PROVE  \/ i = 0
         \/ /\ i \in Nat /\ p["harmful"] + p["correct"] > 0
            /\ i * (p["harmful"] + p["correct"]) =< Unit * p["harmful"]
<1> DEFINE latent == {LatentRisk(q) : q \in Resolving(e, rho)}
           r == p["harmful"] + p["correct"]
<1>1. /\ p \in PlausiblePoints(e) /\ Plausible(p, e)
      /\ p["harmful"] \in Nat /\ p["correct"] \in Nat /\ Unit \in Nat
  BY PointIsTyped, UnitAssumption DEF FeasiblePoints, Mass
<1>2. /\ ~ZeroResolvedPlausible(e)
      /\ i = 0 \/ (latent # {} /\ i = Min(latent))
  BY DEF IntrinsicBounds
<1>3. r > 0
  <2>1. SUFFICES ASSUME p["harmful"] = 0, p["correct"] = 0 PROVE FALSE
    BY <1>1
  <2>2. /\ e.harmful.lower \in 0..Unit /\ e.correct.lower \in 0..Unit
        /\ e.unresolved.upper \in 0..Unit
    BY DEF Readable, Interval, Mass
  <2>3. /\ e.harmful.lower =< 0 /\ e.correct.lower =< 0 /\ Unit - 0 - 0 =< e.unresolved.upper
    BY <1>1, <2>1 DEF Plausible, Within
  <2>4. QED
    BY <1>1, <1>2, <2>2, <2>3 DEF ZeroResolvedPlausible
<1>4. \A q \in Resolving(e, rho) : LatentRisk(q) \in Nat
  BY LatentIsQuotient DEF Resolving, FeasiblePoints
<1>5. latent \subseteq Int /\ (\A t \in latent : 0 =< t) /\ latent \subseteq Nat
  BY <1>4
<1>6. LatentRisk(p) \in latent
  BY <1>3 DEF Resolving
<1>7. LatentRisk(p) \in Nat /\ LatentRisk(p) * r =< Unit * p["harmful"]
  BY <1>1, <1>3, LatentIsQuotient
<1> HIDE DEF latent
<1>8. Min(latent) \in latent /\ \A t \in latent : Min(latent) =< t
  <2>1. 0 \in Int /\ latent # {}
    BY <1>6
  <2>2. QED
    BY <1>5, <2>1, LeastOf
<1>9. Min(latent) \in Nat /\ Min(latent) =< LatentRisk(p) /\ r \in Nat
  <2>1. r \in Nat
    BY <1>1
  <2>2. QED
    BY <1>5, <1>6, <1>8, <2>1
<1> HIDE DEF r
<1>10. Min(latent) * r =< LatentRisk(p) * r
  BY <1>7, <1>9
<1>11. Min(latent) * r \in Nat /\ LatentRisk(p) * r \in Nat /\ Unit * p["harmful"] \in Nat
  BY <1>1, <1>7, <1>9
<1>12. Min(latent) * r =< Unit * p["harmful"]
  BY <1>7, <1>10, <1>11
<1>13. QED
  BY <1>2, <1>3, <1>9, <1>12 DEF r

\* No bound of a projection is on the wrong side of a feasible point.
LEMMA ProjectionSound ==
  ASSUME NEW e, Readable(e), NEW rho \in Nat, NEW p \in FeasiblePoints(e, rho),
         NEW b \in ProjectionBounds(e, rho)
  PROVE  /\ b.upper \in Int /\ Risk(p) =< b.upper
         /\ b.compatibility \in Int /\ b.compatibility =< rho
         /\ b.intrinsic # None =>
              \/ b.intrinsic = 0
              \/ /\ b.intrinsic \in Nat /\ p["harmful"] + p["correct"] > 0
                 /\ b.intrinsic * (p["harmful"] + p["correct"]) =< Unit * p["harmful"]
<1>1. /\ b.upper \in UpperBounds(e, rho) /\ b.compatibility \in CompatibilityBounds(e)
      /\ b.intrinsic \in IntrinsicBounds(e, rho)
  BY DEF ProjectionBounds
<1>2. b.upper \in Int /\ Risk(p) =< b.upper
  BY <1>1, UpperSound
<1>3. b.compatibility \in Int /\ b.compatibility =< rho
  BY <1>1, CompatibilitySound
<1>4. b.intrinsic # None =>
        \/ b.intrinsic = 0
        \/ /\ b.intrinsic \in Nat /\ p["harmful"] + p["correct"] > 0
           /\ b.intrinsic * (p["harmful"] + p["correct"]) =< Unit * p["harmful"]
  BY <1>1, IntrinsicSound
<1>5. QED
  BY <1>2, <1>3, <1>4

Simplex == {v \in [Categories(Bands) -> Mass] : SumFunctionOnSet(v, Categories(Bands)) = Unit}
Regions == [Categories(Bands) -> Bounds]
Has(region, v) == \A c \in Categories(Bands) : Within(v[c], region[c])

\* A law gives a set of categories and its complement masses that add to one.
LEMMA MassesAdd ==
  ASSUME NEW v \in Simplex, NEW S \in SUBSET Categories(Bands)
  PROVE  /\ SumFunctionOnSet(v, S) \in Mass /\ SumFunctionOnSet(v, Categories(Bands) \ S) \in Mass
         /\ SumFunctionOnSet(v, S) + SumFunctionOnSet(v, Categories(Bands) \ S) = Unit
<1>1. IsFiniteSet(Categories(Bands)) /\ \A c \in Categories(Bands) : v[c] \in Nat
  BY CategoriesFinite, UnitAssumption DEF Simplex, Mass
<1>2. SumFunctionOnSet(v, Categories(Bands)) = Unit /\ Unit \in Nat
  BY UnitAssumption DEF Simplex
<1>3. /\ SumFunctionOnSet(v, S) \in Nat /\ SumFunctionOnSet(v, Categories(Bands) \ S) \in Nat
      /\ SumFunctionOnSet(v, S) + SumFunctionOnSet(v, Categories(Bands) \ S) = Unit
  BY <1>1, <1>2, SumOfPart
<1>4. QED
  BY <1>2, <1>3 DEF Mass

\* The sums of the ends of the intervals are around that of the masses.
LEMMA EndsAround ==
  ASSUME NEW region \in Regions, NEW v \in Simplex, Has(region, v),
         NEW S \in SUBSET Categories(Bands)
  PROVE  /\ LowerSum(region, S) \in Nat /\ UpperSum(region, S) \in Nat
         /\ LowerSum(region, S) =< SumFunctionOnSet(v, S)
         /\ SumFunctionOnSet(v, S) =< UpperSum(region, S)
<1> DEFINE low == [c \in S |-> region[c].lower]
           high == [c \in S |-> region[c].upper]
<1>1. IsFiniteSet(S)
  BY CategoriesFinite, FS_Subset
<1>2. \A c \in S : /\ low[c] \in Int /\ low[c] >= 0 /\ v[c] \in Int /\ high[c] \in Int
                   /\ high[c] >= 0 /\ low[c] =< v[c] /\ v[c] =< high[c]
  <2>1. TAKE c \in S
  <2>2. region[c] \in Bounds /\ v[c] \in Mass /\ Within(v[c], region[c])
    BY DEF Regions, Simplex, Has
  <2>3. region[c].lower \in 0..Unit /\ region[c].upper \in 0..Unit /\ v[c] \in 0..Unit
    BY <2>2 DEF Bounds, Mass
  <2>4. low[c] = region[c].lower /\ high[c] = region[c].upper
    OBVIOUS
  <2>5. QED
    BY <2>2, <2>3, <2>4, UnitAssumption DEF Within
<1>3. LowerSum(region, S) = SumFunctionOnSet(low, S) /\ UpperSum(region, S) = SumFunctionOnSet(high, S)
  BY DEF LowerSum, UpperSum, SumFunction, SumFunctionOnSet, FoldFunction
<1> HIDE DEF low, high
<1>4. SumFunctionOnSet(low, S) \in Int /\ SumFunctionOnSet(low, S) >= 0
  BY <1>1, <1>2, SumType
<1>5. SumFunctionOnSet(high, S) \in Int /\ SumFunctionOnSet(high, S) >= 0
  BY <1>1, <1>2, SumType
<1>6. SumFunctionOnSet(low, S) =< SumFunctionOnSet(v, S)
  BY <1>1, <1>2, SumRises
<1>7. SumFunctionOnSet(v, S) =< SumFunctionOnSet(high, S)
  BY <1>1, <1>2, SumRises
<1>8. QED
  BY <1>3, <1>4, <1>5, <1>6, <1>7

\* A region that has a point of the simplex meets it.
LEMMA HasMeets ==
  ASSUME NEW region \in Regions, NEW v \in Simplex, Has(region, v)
  PROVE  MeetsSimplex(region)
<1>1. DOMAIN region = Categories(Bands)
  BY DEF Regions
<1>2. /\ LowerSum(region, Categories(Bands)) \in Nat /\ UpperSum(region, Categories(Bands)) \in Nat
      /\ LowerSum(region, Categories(Bands)) =< SumFunctionOnSet(v, Categories(Bands))
      /\ SumFunctionOnSet(v, Categories(Bands)) =< UpperSum(region, Categories(Bands))
  BY EndsAround
<1>3. SumFunctionOnSet(v, Categories(Bands)) = Unit /\ Unit \in Nat
  BY UnitAssumption DEF Simplex
<1>4. QED
  BY <1>1, <1>2, <1>3 DEF MeetsSimplex

\* _subset_interval has the sum.
LEMMA SubsetHas ==
  ASSUME NEW region \in Regions, NEW v \in Simplex, Has(region, v),
         NEW S \in SUBSET Categories(Bands)
  PROVE  /\ SubsetInterval(region, S) \in Interval
         /\ Within(SumFunctionOnSet(v, S), SubsetInterval(region, S))
<1> DEFINE others == Categories(Bands) \ S
           a == LowerSum(region, S)
           b == UpperSum(region, S)
           c == LowerSum(region, others)
           d == UpperSum(region, others)
           x == SumFunctionOnSet(v, S)
           y == SumFunctionOnSet(v, others)
<1>1. a \in Nat /\ b \in Nat /\ a =< x /\ x =< b
  BY EndsAround
<1>2. c \in Nat /\ d \in Nat /\ c =< y /\ y =< d
  BY EndsAround
<1>3. x \in 0..Unit /\ y \in 0..Unit /\ x + y = Unit /\ Unit \in Nat
  BY MassesAdd, UnitAssumption DEF Mass
<1>4. SubsetInterval(region, S) = [lower |-> Larger(0, Larger(a, Unit - d)),
                                   upper |-> Smaller(Unit, Smaller(b, Unit - c))]
  <2>1. DOMAIN region \ S = others
    BY DEF Regions
  <2>2. QED
    BY <2>1 DEF SubsetInterval
<1> HIDE DEF others, a, b, c, d, x, y
<1>5. /\ Larger(0, Larger(a, Unit - d)) \in 0..Unit /\ Larger(0, Larger(a, Unit - d)) =< x
      /\ Smaller(Unit, Smaller(b, Unit - c)) \in 0..Unit /\ x =< Smaller(Unit, Smaller(b, Unit - c))
  BY <1>1, <1>2, <1>3 DEF Larger, Smaller
<1>6. /\ SubsetInterval(region, S) \in Interval /\ Within(x, SubsetInterval(region, S))
  BY <1>3, <1>4, <1>5 DEF Interval, Mass, Within
<1>7. QED
  BY <1>6 DEF x

\* What a law gives a set of categories is in the sum of their intervals, cut at one.
LEMMA CappedHas ==
  ASSUME NEW region \in Regions, NEW v \in Simplex, Has(region, v),
         NEW S \in SUBSET Categories(Bands)
  PROVE  Within(SumFunctionOnSet(v, S), [lower |-> Smaller(Unit, LowerSum(region, S)),
                                         upper |-> Smaller(Unit, UpperSum(region, S))])
<1>1. /\ LowerSum(region, S) \in Nat /\ UpperSum(region, S) \in Nat
      /\ LowerSum(region, S) =< SumFunctionOnSet(v, S)
      /\ SumFunctionOnSet(v, S) =< UpperSum(region, S)
  BY EndsAround
<1>2. SumFunctionOnSet(v, S) \in 0..Unit /\ Unit \in Nat
  BY MassesAdd, UnitAssumption DEF Mass
<1>3. QED
  BY <1>1, <1>2 DEF Smaller, Within

Harmful == HarmfulCategories(Bands)
Correct == CorrectCategories(Bands)

\* The categories are the harmful ones, the correct ones and the unresolved one.
LEMMA CategoriesSplit ==
  /\ Harmful \in SUBSET Categories(Bands) /\ Correct \in SUBSET Categories(Bands)
  /\ Harmful \cap Correct = {}
  /\ Unresolved(Bands) \in Categories(Bands)
  /\ Categories(Bands) \ (Harmful \cup Correct) = {Unresolved(Bands)}
<1>1. Bands \in Nat \ {0}
  BY Partitions
<1>2. /\ \A b \in 1..Bands : /\ 2 * b - 1 \in 1..(2 * Bands + 1) /\ 2 * b \in 1..(2 * Bands + 1)
                            /\ 2 * b - 1 # 2 * Bands + 1 /\ 2 * b # 2 * Bands + 1
      /\ \A a, b \in 1..Bands : 2 * a # 2 * b - 1
  BY <1>1
<1>3. \A c \in 1..(2 * Bands + 1) : c # 2 * Bands + 1 =>
        \E b \in 1..Bands : c = 2 * b - 1 \/ c = 2 * b
  <2>1. TAKE c \in 1..(2 * Bands + 1)
  <2>2. HAVE c # 2 * Bands + 1
  <2>3. (c + 1) \div 2 \in 1..Bands /\ (c = 2 * ((c + 1) \div 2) - 1 \/ c = 2 * ((c + 1) \div 2))
    BY <1>1, <2>2
  <2>4. QED
    BY <2>3
<1>4. 2 * Bands + 1 \in 1..(2 * Bands + 1)
  BY <1>1
<1>5. Harmful \in SUBSET Categories(Bands) /\ Correct \in SUBSET Categories(Bands)
  BY <1>2 DEF Harmful, Correct, HarmfulCategories, CorrectCategories, Categories
<1>6. Harmful \cap Correct = {}
  BY <1>2 DEF Harmful, Correct, HarmfulCategories, CorrectCategories
<1>7. Unresolved(Bands) \in Categories(Bands)
  BY <1>4 DEF Categories, Unresolved
<1>8. \A c \in Categories(Bands) : c \in Harmful \cup Correct \/ c = Unresolved(Bands)
  BY <1>3 DEF Harmful, Correct, HarmfulCategories, CorrectCategories, Categories, Unresolved
<1>9. ~ (Unresolved(Bands) \in Harmful \cup Correct)
  BY <1>2 DEF Harmful, Correct, HarmfulCategories, CorrectCategories, Unresolved
<1>10. QED
  BY <1>5, <1>6, <1>7, <1>8, <1>9

\* The masses of the categories, added up kind by kind.
LEMMA KindsAdd ==
  ASSUME NEW v \in Simplex
  PROVE  /\ SumFunctionOnSet(v, Harmful) \in Mass /\ SumFunctionOnSet(v, Correct) \in Mass
         /\ v[Unresolved(Bands)] \in Mass
         /\ SumFunctionOnSet(v, Harmful \cup Correct)
              = SumFunctionOnSet(v, Harmful) + SumFunctionOnSet(v, Correct)
         /\ SumFunctionOnSet(v, {Unresolved(Bands)}) = v[Unresolved(Bands)]
         /\ SumFunctionOnSet(v, Harmful) + SumFunctionOnSet(v, Correct) + v[Unresolved(Bands)] = Unit
<1> DEFINE u == Unresolved(Bands)
<1>1. IsFiniteSet(Categories(Bands)) /\ \A c \in Categories(Bands) : v[c] \in Int
  BY CategoriesFinite, UnitAssumption DEF Simplex, Mass
<1>2. SumFunctionOnSet(v, Harmful) \in Mass /\ SumFunctionOnSet(v, Correct) \in Mass
  BY CategoriesSplit, MassesAdd
<1>3. SumFunctionOnSet(v, Harmful \cup Correct)
        = SumFunctionOnSet(v, Harmful) + SumFunctionOnSet(v, Correct)
  BY <1>1, CategoriesSplit, SumJoins
<1>4. SumFunctionOnSet(v, {u}) = v[u]
  <2>1. IsFiniteSet({u}) /\ u \in {u} /\ v[u] \in Int /\ \A c \in {u} : v[c] \in Int
    BY <1>1, CategoriesSplit, FS_Singleton
  <2>2. SumFunctionOnSet(v, {u}) = v[u] + SumFunctionOnSet(v, {u} \ {u})
    <3> HIDE DEF u
    <3>1. QED
      BY <2>1, SumTakes
  <2>3. {u} \ {u} = {}
    OBVIOUS
  <2>4. SumFunctionOnSet(v, {}) = 0
    BY SumSteps, FS_EmptySet
  <2> HIDE DEF u
  <2>5. SumFunctionOnSet(v, {u}) = v[u] + 0
    BY <2>2, <2>3, <2>4, Zenon
  <2>6. QED
    BY <2>1, <2>5
<1>5. v[u] \in Mass
  BY CategoriesSplit DEF Simplex
<1>6. SumFunctionOnSet(v, Harmful \cup Correct) + SumFunctionOnSet(v, {u}) = Unit
  <2>1. Harmful \cup Correct \in SUBSET Categories(Bands)
        /\ Categories(Bands) \ (Harmful \cup Correct) = {u}
    BY CategoriesSplit
  <2>2. QED
    BY <2>1, MassesAdd
<1>7. QED
  BY <1>2, <1>3, <1>4, <1>5, <1>6

\* The masses of a kind, band by band.
LEMMA BandsAdd ==
  ASSUME NEW v \in Simplex
  PROVE  /\ SumFunctionOnSet([b \in 1..Bands |-> v[2 * b - 1]], 1..Bands) = SumFunctionOnSet(v, Harmful)
         /\ SumFunctionOnSet([b \in 1..Bands |-> v[2 * b]], 1..Bands) = SumFunctionOnSet(v, Correct)
<1>1. Bands \in Nat \ {0} /\ IsFiniteSet(1..Bands)
  BY Partitions, FS_Interval
<1>2. /\ IsFiniteSet(Harmful) /\ IsFiniteSet(Correct)
      /\ \A c \in Harmful : v[c] \in Int
      /\ \A c \in Correct : v[c] \in Int
  <2>1. IsFiniteSet(Harmful) /\ IsFiniteSet(Correct)
    BY CategoriesSplit, CategoriesFinite, FS_Subset
  <2>2. \A c \in Categories(Bands) : v[c] \in Int
    BY UnitAssumption DEF Simplex, Mass
  <2>3. QED
    BY <2>1, <2>2, CategoriesSplit
<1>3. SumFunctionOnSet([b \in 1..Bands |-> v[2 * b - 1]], 1..Bands) = SumFunctionOnSet(v, Harmful)
  <2> DEFINE m == [b \in 1..Bands |-> 2 * b - 1]
             k == [c \in Harmful |-> (c + 1) \div 2]
             h == [b \in 1..Bands |-> v[2 * b - 1]]
  <2>1. \A c \in Harmful : (c + 1) \div 2 \in 1..Bands /\ 2 * ((c + 1) \div 2) - 1 = c
    BY <1>1 DEF Harmful, HarmfulCategories
  <2>2. m \in [1..Bands -> Harmful] /\ k \in [Harmful -> 1..Bands]
    BY <2>1 DEF Harmful, HarmfulCategories
  <2>3. \A b \in 1..Bands : m[b] = 2 * b - 1 /\ m[b] \in Harmful /\ (m[b] + 1) \div 2 = b
    BY <1>1, <2>2
  <2>4. (\A b \in 1..Bands : k[m[b]] = b) /\ \A c \in Harmful : m[k[c]] = c
    BY <2>1, <2>2, <2>3
  <2>5. \A b \in 1..Bands : h[b] = v[m[b]]
    OBVIOUS
  <2> HIDE DEF m, k, h
  <2>6. SumFunctionOnSet(h, 1..Bands) = SumFunctionOnSet(v, Harmful)
    BY <1>1, <1>2, <2>2, <2>4, <2>5, SumRenamed
  <2>7. QED
    BY <2>6 DEF h
<1>4. SumFunctionOnSet([b \in 1..Bands |-> v[2 * b]], 1..Bands) = SumFunctionOnSet(v, Correct)
  <2> DEFINE m == [b \in 1..Bands |-> 2 * b]
             k == [c \in Correct |-> c \div 2]
             h == [b \in 1..Bands |-> v[2 * b]]
  <2>1. \A c \in Correct : c \div 2 \in 1..Bands /\ 2 * (c \div 2) = c
    BY <1>1 DEF Correct, CorrectCategories
  <2>2. m \in [1..Bands -> Correct] /\ k \in [Correct -> 1..Bands]
    BY <2>1 DEF Correct, CorrectCategories
  <2>3. \A b \in 1..Bands : m[b] = 2 * b /\ m[b] \in Correct /\ m[b] \div 2 = b
    BY <1>1, <2>2
  <2>4. (\A b \in 1..Bands : k[m[b]] = b) /\ \A c \in Correct : m[k[c]] = c
    BY <2>1, <2>2, <2>3
  <2>5. \A b \in 1..Bands : h[b] = v[m[b]]
    OBVIOUS
  <2> HIDE DEF m, k, h
  <2> DEFINE I == 1..Bands
  <2>6. /\ IsFiniteSet(I) /\ IsFiniteSet(Correct) /\ m \in [I -> Correct] /\ k \in [Correct -> I]
        /\ \A c \in Correct : v[c] \in Int
        /\ \A b \in I : k[m[b]] = b
        /\ \A c \in Correct : m[k[c]] = c
        /\ \A b \in I : h[b] = v[m[b]]
    BY <1>1, <1>2, <2>2, <2>4, <2>5
  <2> HIDE DEF I
  <2>7. SumFunctionOnSet(h, I) = SumFunctionOnSet(v, Correct)
    BY <2>6, SumRenamed
  <2>8. QED
    BY <2>7 DEF h, I
<1>5. QED
  BY <1>3, <1>4

\* The entropy that the pairs of some bands have is no more than that of their totals.
LEMMA EntropyJoins ==
  ASSUME NEW v \in Simplex
  PROVE  /\ SumFunctionOnSet([b \in 1..Bands |-> MassEntropy(v[2 * b - 1], v[2 * b])], 1..Bands)
              =< MassEntropy(SumFunctionOnSet(v, Harmful), SumFunctionOnSet(v, Correct))
         /\ SumFunctionOnSet([b \in 1..Bands |-> MassEntropy(v[2 * b - 1], v[2 * b])], 1..Bands) \in Int
<1> DEFINE h == [b \in 1..Bands |-> v[2 * b - 1]]
           c == [b \in 1..Bands |-> v[2 * b]]
           m == [b \in 1..Bands |-> MassEntropy(v[2 * b - 1], v[2 * b])]
           H(D) == SumFunctionOnSet(h, D)
           C(D) == SumFunctionOnSet(c, D)
           M(D) == SumFunctionOnSet(m, D)
           G == {D \in SUBSET (1..Bands) : M(D) =< MassEntropy(H(D), C(D))}
<1>1. Bands \in Nat \ {0} /\ IsFiniteSet(1..Bands) /\ Unit \in Nat
  BY Partitions, FS_Interval, UnitAssumption
<1>2. \A b \in 1..Bands : /\ h[b] \in Mass /\ c[b] \in Mass /\ m[b] = MassEntropy(h[b], c[b])
                          /\ m[b] \in Int
  <2>1. TAKE b \in 1..Bands
  <2>2. 2 * b - 1 \in Categories(Bands) /\ 2 * b \in Categories(Bands)
    BY <1>1 DEF Categories
  <2>3. v[2 * b - 1] \in Mass /\ v[2 * b] \in Mass
    BY <2>2 DEF Simplex
  <2>4. QED
    BY <2>3, EntropyOfMasses
<1>3. H(1..Bands) = SumFunctionOnSet(v, Harmful) /\ C(1..Bands) = SumFunctionOnSet(v, Correct)
  BY BandsAdd
<1>4. H(1..Bands) + C(1..Bands) =< Unit
  BY <1>1, <1>3, KindsAdd DEF Mass
<1> HIDE DEF h, c, m
<1>5. ASSUME NEW D \in SUBSET (1..Bands)
      PROVE  H(D) \in Nat /\ C(D) \in Nat /\ H(D) + C(D) =< Unit
  <2>1. \A b \in 1..Bands : h[b] \in Nat /\ c[b] \in Nat
    BY <1>1, <1>2 DEF Mass
  <2>2. H(D) \in Nat /\ H(D) =< H(1..Bands) /\ H(1..Bands) \in Nat
    BY <1>1, <2>1, SumOfPart
  <2>3. C(D) \in Nat /\ C(D) =< C(1..Bands) /\ C(1..Bands) \in Nat
    BY <1>1, <2>1, SumOfPart
  <2> HIDE DEF H, C
  <2>4. QED
    BY <1>1, <1>4, <2>2, <2>3
<1>6. {} \in G
  <2>1. H({}) = 0 /\ C({}) = 0 /\ M({}) = 0
    BY <1>1, SumSteps
  <2>2. MassEntropy(0, 0) = 0
    BY EntropyGrows
  <2> HIDE DEF H, C, M
  <2>3. QED
    BY <2>1, <2>2
<1>7. ASSUME NEW D \in SUBSET (1..Bands), D # {}, D \ {Pick(D)} \in G PROVE D \in G
  <2> DEFINE p == Pick(D)
             E == D \ {p}
  <2>1. p \in 1..Bands /\ IsFiniteSet(D) /\ E \in SUBSET (1..Bands)
    BY <1>1, <1>7, PickSmaller, FS_Subset
  <2>2. H(D) = h[p] + H(E) /\ C(D) = c[p] + C(E) /\ M(D) = m[p] + M(E)
    BY <1>7, <2>1, SumSteps
  <2>3. M(E) =< MassEntropy(H(E), C(E))
    BY <1>7
  <2>4. M(E) \in Int
    <3>1. IsFiniteSet(E) /\ \A b \in E : m[b] \in Int
      BY <1>2, <2>1, <1>1, FS_Subset
    <3> HIDE DEF E
    <3>2. QED
      BY <3>1, SumType
  <2>5. /\ H(D) \in Nat /\ C(D) \in Nat /\ H(D) + C(D) =< Unit
        /\ H(E) \in Nat /\ C(E) \in Nat /\ H(E) + C(E) =< Unit
    BY <1>5, <2>1
  <2>6. h[p] \in Mass /\ c[p] \in Mass /\ m[p] = MassEntropy(h[p], c[p]) /\ m[p] \in Int
    BY <1>2, <2>1
  <2> HIDE DEF H, C, M, p, E
  <2>7. /\ H(E) \in Mass /\ C(E) \in Mass /\ h[p] + c[p] + H(E) + C(E) =< Unit
    <3>1. H(E) \in Mass /\ C(E) \in Mass
      BY <1>1, <2>5 DEF Mass
    <3>2. h[p] \in Nat /\ c[p] \in Nat
      BY <1>1, <2>6 DEF Mass
    <3>3. QED
      BY <3>1, <3>2, <1>1, <2>2, <2>5
  <2>8. MassEntropy(h[p], c[p]) + MassEntropy(H(E), C(E)) =< MassEntropy(h[p] + H(E), c[p] + C(E))
    BY <2>6, <2>7, EntropySuperadditive
  <2>9. MassEntropy(H(E), C(E)) \in Int /\ MassEntropy(H(D), C(D)) \in Int
    <3>1. H(D) \in Mass /\ C(D) \in Mass
      BY <1>1, <2>5 DEF Mass
    <3>2. QED
      BY <2>7, <3>1, EntropyOfMasses
  <2>10. M(D) =< MassEntropy(H(D), C(D))
    BY <2>2, <2>3, <2>4, <2>6, <2>8, <2>9
  <2>11. QED
    BY <2>10
<1>8. M(1..Bands) \in Int
  BY <1>1, <1>2, SumType
<1> HIDE DEF G
<1>9. \A D \in SUBSET (1..Bands) : D \in G
  BY <1>1, <1>6, <1>7, SubsetsUp
<1>10. M(1..Bands) =< MassEntropy(H(1..Bands), C(1..Bands))
  BY <1>9 DEF G
<1>11. QED
  BY <1>3, <1>8, <1>10 DEF m

PairEntropy(v) == SumFunctionOnSet([b \in 1..Bands |-> MassEntropy(v[2 * b - 1], v[2 * b])], 1..Bands)

\* _resolved_entropy_envelope is no less than the entropy of the pairs.
LEMMA EntropyCovered ==
  ASSUME NEW region \in Regions, NEW v \in Simplex, Has(region, v)
  PROVE  /\ EnvelopeOf(region).entropyUpper \in Int
         /\ PairEntropy(v) =< EnvelopeOf(region).entropyUpper
<1> DEFINE upper == [b \in 1..Bands |-> MassEntropy(region[2 * b - 1].upper, region[2 * b].upper)]
           pair == [b \in 1..Bands |-> MassEntropy(v[2 * b - 1], v[2 * b])]
           pairs == SumFunctionOnSet(upper, 1..Bands)
           total == UpperSum(region, Harmful \cup Correct)
           mass == Smaller(Unit, total)
<1>1. Bands \in Nat \ {0} /\ IsFiniteSet(1..Bands) /\ Unit \in Nat
  BY Partitions, FS_Interval, UnitAssumption
<1>2. EnvelopeOf(region).entropyUpper = Smaller(pairs, TotalEntropy(mass))
  <2>1. SumFunction(upper) = pairs
    BY DEF SumFunction, SumFunctionOnSet, FoldFunction
  <2> HIDE DEF pairs
  <2>2. QED
    BY <2>1 DEF EnvelopeOf, Harmful, Correct
<1>3. \A b \in 1..Bands : upper[b] \in Int /\ pair[b] \in Int /\ pair[b] =< upper[b]
  <2>1. TAKE b \in 1..Bands
  <2>2. 2 * b - 1 \in Categories(Bands) /\ 2 * b \in Categories(Bands)
    BY <1>1 DEF Categories
  <2> DEFINE h == 2 * b - 1
             c == 2 * b
  <2>3. upper[b] = MassEntropy(region[h].upper, region[c].upper) /\ pair[b] = MassEntropy(v[h], v[c])
    OBVIOUS
  <2> HIDE DEF h, c, upper, pair
  <2>4. /\ v[h] \in Mass /\ v[c] \in Mass /\ region[h].upper \in Mass /\ region[c].upper \in Mass
        /\ v[h] =< region[h].upper /\ v[c] =< region[c].upper
    BY <2>2 DEF Simplex, Regions, Bounds, Has, Within, h, c
  <2>5. MassEntropy(v[h], v[c]) =< MassEntropy(region[h].upper, region[c].upper)
    BY <2>4, EntropyGrows
  <2>6. QED
    BY <2>3, <2>4, <2>5, EntropyOfMasses
<1> HIDE DEF upper, pair
<1>4. SumFunctionOnSet(pair, 1..Bands) =< pairs /\ pairs \in Int /\ SumFunctionOnSet(pair, 1..Bands) \in Int
  <2>1. SumFunctionOnSet(pair, 1..Bands) =< SumFunctionOnSet(upper, 1..Bands)
    BY <1>1, <1>3, SumRises
  <2>2. SumFunctionOnSet(upper, 1..Bands) \in Int
    BY <1>1, <1>3, SumType
  <2>3. SumFunctionOnSet(pair, 1..Bands) \in Int
    BY <1>1, <1>3, SumType
  <2>4. QED
    BY <2>1, <2>2, <2>3
<1> HIDE DEF pairs
<1>5. mass \in Mass /\ SumFunctionOnSet(v, Harmful) + SumFunctionOnSet(v, Correct) =< mass
  <2> DEFINE both == SumFunctionOnSet(v, Harmful \cup Correct)
  <2>1. total \in Nat /\ both =< total
    <3>1. Harmful \cup Correct \in SUBSET Categories(Bands)
      BY CategoriesSplit
    <3>2. QED
      BY <3>1, EndsAround
  <2>2. both = SumFunctionOnSet(v, Harmful) + SumFunctionOnSet(v, Correct)
    BY KindsAdd
  <2>3. both \in 0..Unit
    BY <1>1, <2>2, KindsAdd DEF Mass
  <2> HIDE DEF total, both
  <2>4. mass \in Mass /\ both =< mass
    BY <1>1, <2>1, <2>3 DEF Mass, Smaller
  <2>5. QED
    BY <2>2, <2>4
<1> HIDE DEF mass
<1>6. SumFunctionOnSet(pair, 1..Bands) =< TotalEntropy(mass) /\ TotalEntropy(mass) \in Int
  <2> DEFINE H == SumFunctionOnSet(v, Harmful)
             C == SumFunctionOnSet(v, Correct)
  <2>1. SumFunctionOnSet(pair, 1..Bands) =< MassEntropy(H, C)
    BY EntropyJoins DEF pair
  <2>2. H \in Mass /\ C \in Mass /\ v[Unresolved(Bands)] \in Mass /\ H + C + v[Unresolved(Bands)] = Unit
    BY KindsAdd
  <2>3. H + C =< mass
    BY <1>5
  <2> HIDE DEF H, C
  <2>4. H + C \in Mass /\ H + C =< Unit
    BY <1>1, <2>2 DEF Mass
  <2>5. MassEntropy(H, C) =< TotalEntropy(H + C)
    BY <2>2, <2>4, EntropyGrows
  <2>6. TotalEntropy(H + C) =< TotalEntropy(mass) /\ TotalEntropy(mass) \in Int /\ TotalEntropy(H + C) \in Int
    BY <1>5, <2>3, <2>4, EntropyGrows
  <2>7. MassEntropy(H, C) \in Int
    BY <2>2, EntropyOfMasses
  <2>8. QED
    BY <1>4, <2>1, <2>5, <2>6, <2>7
<1>7. PairEntropy(v) = SumFunctionOnSet(pair, 1..Bands)
  BY DEF PairEntropy, pair
<1>8. QED
  BY <1>2, <1>4, <1>6, <1>7 DEF Smaller

PointOf(v, hidden) ==
  [harmful |-> SumFunctionOnSet(v, Harmful), correct |-> SumFunctionOnSet(v, Correct), hidden |-> hidden]

\* direct_mutual_information of masses and a hidden mass
InformationOf(v, hidden) ==
  LET theta == SumFunctionOnSet(v, Harmful) + hidden
  IN MassEntropy(theta, Unit - theta) - MassEntropy(hidden, v[Unresolved(Bands)] - hidden)
       - PairEntropy(v)

\* The point of masses that the region has is one of those the projection is over.
LEMMA PointIsFeasible ==
  ASSUME NEW region \in Regions, NEW v \in Simplex, Has(region, v),
         NEW hidden \in Nat, hidden =< v[Unresolved(Bands)],
         NEW rho \in Nat, InformationOf(v, hidden) =< rho
  PROVE  /\ Readable(EnvelopeOf(region))
         /\ PointOf(v, hidden) \in FeasiblePoints(EnvelopeOf(region), rho)
<1> DEFINE e == EnvelopeOf(region)
           H == SumFunctionOnSet(v, Harmful)
           C == SumFunctionOnSet(v, Correct)
           u == v[Unresolved(Bands)]
           p == PointOf(v, hidden)
           theta == H + hidden
<1>1. /\ e.harmful = SubsetInterval(region, Harmful)
      /\ e.correct = SubsetInterval(region, Correct)
      /\ e.unresolved = SubsetInterval(region, {Unresolved(Bands)})
      /\ e.harmfulBands = [lower |-> Smaller(Unit, LowerSum(region, Harmful)),
                           upper |-> Smaller(Unit, UpperSum(region, Harmful))]
      /\ e.correctBands = [lower |-> Smaller(Unit, LowerSum(region, Correct)),
                           upper |-> Smaller(Unit, UpperSum(region, Correct))]
  BY DEF EnvelopeOf, Harmful, Correct
<1>2. e.entropyUpper \in Int /\ PairEntropy(v) =< e.entropyUpper /\ PairEntropy(v) \in Int
  <2>1. PairEntropy(v) \in Int
    BY EntropyJoins DEF PairEntropy
  <2>2. QED
    BY <2>1, EntropyCovered
<1> HIDE DEF e
<1>3. /\ Harmful \in SUBSET Categories(Bands) /\ Correct \in SUBSET Categories(Bands)
      /\ {Unresolved(Bands)} \in SUBSET Categories(Bands)
  BY CategoriesSplit
<1>4. e.harmful \in Interval /\ Within(H, e.harmful) /\ Within(H, e.harmfulBands)
  BY <1>1, <1>3, SubsetHas, CappedHas
<1>5. e.correct \in Interval /\ Within(C, e.correct) /\ Within(C, e.correctBands)
  BY <1>1, <1>3, SubsetHas, CappedHas
<1>6. e.unresolved \in Interval /\ Within(u, e.unresolved)
  BY <1>1, <1>3, SubsetHas, KindsAdd
<1>7. Readable(e)
  BY <1>2, <1>4, <1>5, <1>6 DEF Readable
<1>8. H \in 0..Unit /\ C \in 0..Unit /\ u \in 0..Unit /\ H + C + u = Unit /\ Unit \in Nat
  BY KindsAdd, UnitAssumption DEF Mass
<1>9. p["harmful"] = H /\ p["correct"] = C /\ p["hidden"] = hidden
  BY DEF PointOf
<1>10. hidden =< u
  OBVIOUS
<1> HIDE DEF H, C, u
<1>11. /\ H \in e.harmful.lower..e.harmful.upper /\ C \in e.correct.lower..e.correct.upper
       /\ hidden \in 0..e.unresolved.upper
  BY <1>4, <1>5, <1>6, <1>8, <1>10, UnitAssumption DEF Interval, Mass, Within
<1>12. Unit - H - C = u /\ hidden =< Unit - H - C
  BY <1>8, <1>10
<1>13. Plausible(p, e)
  <2> HIDE DEF p
  <2>1. QED
    BY <1>4, <1>5, <1>6, <1>9, <1>12 DEF Plausible
<1>14. p \in PlausiblePoints(e)
  <2>1. p \in [harmful : e.harmful.lower..e.harmful.upper,
               correct : e.correct.lower..e.correct.upper, hidden : 0..e.unresolved.upper]
    BY <1>11 DEF PointOf, H, C
  <2> HIDE DEF p
  <2>2. QED
    BY <1>13, <2>1 DEF PlausiblePoints
<1>15. InformationLower(p, e) =< rho
  <2>1. theta \in Mass /\ Unit - theta \in Mass /\ hidden \in Mass /\ u - hidden \in Mass
        /\ Unit - H - C - hidden = u - hidden
    BY <1>8, <1>10 DEF Mass
  <2>2. Risk(p) = theta
    BY <1>9 DEF Risk
  <2>3. InformationLower(p, e) = MassEntropy(theta, Unit - theta) - e.entropyUpper - MassEntropy(hidden, u - hidden)
    BY <1>9, <2>1, <2>2 DEF InformationLower
  <2>4. InformationOf(v, hidden) = MassEntropy(theta, Unit - theta) - MassEntropy(hidden, u - hidden) - PairEntropy(v)
    BY DEF InformationOf, H, u
  <2>5. MassEntropy(theta, Unit - theta) \in Int /\ MassEntropy(hidden, u - hidden) \in Int
    BY <2>1, EntropyOfMasses
  <2> HIDE DEF p, theta
  <2>6. QED
    BY <1>2, <2>3, <2>4, <2>5
<1>16. QED
  BY <1>7, <1>14, <1>15 DEF FeasiblePoints, e

-----------------------------------------------------------------------------
(* The order of the events                                                 *)

Before(S, e) == {f \in S : Earlier(f, e)}

\* Every event of the ledger has its place, after those that mature before it.
Sorted(o, S) ==
  /\ o \in Seq(S) /\ Len(o) = Cardinality(S)
  /\ \A i, j \in 1..Len(o) : i < j => Earlier(o[i], o[j])
  /\ \A e \in S : \E i \in 1..Len(o) : o[i] = e

\* Maturity age and identifier order the events of a valid ledger (mature_ledger).
LEMMA EarlierOrders ==
  ASSUME NEW S, S \subseteq Event, ValidLedger(S)
  PROVE  /\ \A e \in S : ~Earlier(e, e)
         /\ \A e, f \in S : e # f => Earlier(e, f) \/ Earlier(f, e)
         /\ \A e, f, g \in S : Earlier(e, f) /\ Earlier(f, g) => Earlier(e, g)
<1>1. Horizon \in Nat
  BY PartitionAssumption
<1>2. \A e \in S : MaturityAge(e) \in Nat /\ e.id \in Nat
  BY <1>1 DEF Event, MaturityAge
<1>3. \A e, f \in S : e.id = f.id => e = f
  BY DEF ValidLedger
<1>4. QED
  BY <1>2, <1>3 DEF Earlier

\* The events before an earlier one are fewer.
LEMMA RankRises ==
  ASSUME NEW S, IsFiniteSet(S), S \subseteq Event, ValidLedger(S),
         NEW e \in S
  PROVE  /\ Cardinality(S) \in Nat
         /\ Cardinality(Before(S, e)) \in 0..(Cardinality(S) - 1)
         /\ \A f \in S : Earlier(e, f) => Cardinality(Before(S, e)) < Cardinality(Before(S, f))
<1>1. \A T \in SUBSET S : /\ IsFiniteSet(T) /\ Cardinality(T) \in Nat
  <2>1. TAKE T \in SUBSET S
  <2>2. IsFiniteSet(T)
    BY FS_Subset
  <2>3. QED
    BY <2>2, FS_CardinalityType
<1>2. Cardinality(Before(S, e)) =< Cardinality(S) /\ Cardinality(Before(S, e)) # Cardinality(S)
  <2>1. Before(S, e) \in SUBSET S /\ Before(S, e) # S
    BY EarlierOrders DEF Before
  <2>2. QED
    BY <2>1, FS_Subset
<1>3. ASSUME NEW f \in S, Earlier(e, f)
      PROVE  Cardinality(Before(S, e)) < Cardinality(Before(S, f))
  <2>1. Before(S, e) \in SUBSET Before(S, f) /\ Before(S, e) # Before(S, f)
    <3>1. e \in Before(S, f) /\ e \notin Before(S, e)
      BY <1>3, EarlierOrders DEF Before
    <3>2. Before(S, e) \subseteq Before(S, f)
      BY <1>3, EarlierOrders DEF Before
    <3>3. QED
      BY <3>1, <3>2
  <2>2. Before(S, f) \in SUBSET S /\ Before(S, e) \in SUBSET S
    BY DEF Before
  <2>3. IsFiniteSet(Before(S, f))
    BY <1>1, <2>2
  <2>4. /\ Cardinality(Before(S, e)) =< Cardinality(Before(S, f))
        /\ Cardinality(Before(S, e)) # Cardinality(Before(S, f))
    BY <2>1, <2>3, FS_Subset
  <2>5. QED
    BY <1>1, <2>2, <2>4
<1>4. Before(S, e) \in SUBSET S /\ S \in SUBSET S
  BY DEF Before
<1>5. QED
  BY <1>1, <1>2, <1>3, <1>4

\* The events of a ledger in their order of maturity.
LEMMA MaturityOrderSorts ==
  ASSUME NEW S, IsFiniteSet(S), S \subseteq Event, ValidLedger(S)
  PROVE  Sorted(MaturityOrder(S), S)
<1> DEFINE n == Cardinality(S)
           rank == [e \in S |-> Cardinality(Before(S, e)) + 1]
           o == MaturityOrder(S)
<1>1. n \in Nat
  BY FS_CardinalityType
<1>2. \A e \in S : rank[e] \in 1..n
  BY RankRises
<1>3. \A e, f \in S : Earlier(e, f) => rank[e] < rank[f]
  <2>1. TAKE e, f \in S
  <2>2. Cardinality(Before(S, e)) \in Nat /\ Cardinality(Before(S, f)) \in Nat
    BY RankRises
  <2>3. HAVE Earlier(e, f)
  <2>4. Cardinality(Before(S, e)) < Cardinality(Before(S, f))
    BY <2>3, RankRises
  <2>5. QED
    BY <2>2, <2>4
<1>4. /\ o = [i \in 1..n |-> o[i]]
      /\ \A i \in 1..n : (\E e \in S : rank[e] = i) => o[i] \in S /\ rank[o[i]] = i
  <2>1. o = [i \in 1..n |-> o[i]]
    <3> DEFINE place(i) == CHOOSE e \in S : Cardinality({f \in S : Earlier(f, e)}) = i - 1
    <3>1. o = [i \in 1..n |-> place(i)]
      BY Zenon DEF MaturityOrder
    <3> HIDE DEF place, o, n
    <3>2. QED
      BY <3>1
  <2>2. \A e \in S : \A i \in 1..n :
          (Cardinality({f \in S : Earlier(f, e)}) = i - 1) <=> (rank[e] = i)
    <3>1. TAKE e \in S
    <3>2. TAKE i \in 1..n
    <3>3. Cardinality(Before(S, e)) \in Nat
      BY RankRises
    <3>4. QED
      BY <3>3 DEF Before
  <2>3. \A i \in 1..n : o[i] = CHOOSE e \in S : Cardinality({f \in S : Earlier(f, e)}) = i - 1
    BY DEF MaturityOrder
  <2> HIDE DEF rank, n, o
  <2>4. ASSUME NEW i \in 1..n, NEW e \in S, rank[e] = i
        PROVE  o[i] \in S /\ rank[o[i]] = i
    <3>1. Cardinality({f \in S : Earlier(f, e)}) = i - 1
      BY <2>2, <2>4
    <3>2. o[i] \in S /\ Cardinality({f \in S : Earlier(f, o[i])}) = i - 1
      BY <2>3, <3>1, Zenon
    <3>3. QED
      BY <2>2, <3>2
  <2>5. QED
    BY <2>1, <2>4
<1>5. rank \in [S -> 1..n]
  BY <1>2
<1> HIDE DEF n, rank, o
<1>6. \A e, f \in S : rank[e] = rank[f] => e = f
  <2>1. TAKE e, f \in S
  <2>2. rank[e] \in Nat /\ rank[f] \in Nat
    BY <1>1, <1>2
  <2>3. QED
    BY <2>2, <1>3, EarlierOrders
<1>7. \A i \in 1..n : \E e \in S : rank[e] = i
  <2>1. rank \in Injection(S, 1..n)
    BY <1>5, <1>6 DEF Injection, IsInjective
  <2>2. IsFiniteSet(1..n) /\ Cardinality(1..n) = n
    BY <1>1, FS_Interval
  <2>3. rank \in Surjection(S, 1..n)
    BY <2>1, <2>2, FS_Injection DEF n
  <2>4. QED
    BY <2>3 DEF Surjection
<1>8. \A i \in 1..n : o[i] \in S /\ rank[o[i]] = i
  BY <1>4, <1>7
<1>9. o \in Seq(S) /\ Len(o) = n
  <2>1. o \in [1..n -> S]
    BY <1>4, <1>8
  <2>2. QED
    BY <1>1, <2>1, SMTT(30)
<1>10. \A i, j \in 1..n : i < j => Earlier(o[i], o[j])
  <2>1. TAKE i, j \in 1..n
  <2>2. HAVE i < j
  <2>3. o[i] # o[j] /\ ~ (rank[o[j]] < rank[o[i]])
    BY <1>1, <1>8, <2>2
  <2>4. QED
    BY <1>3, <1>8, <2>3, EarlierOrders
<1>11. \A e \in S : \E i \in 1..n : o[i] = e
  BY <1>2, <1>6, <1>8
<1>12. QED
  BY <1>9, <1>10, <1>11 DEF Sorted, n, o

-----------------------------------------------------------------------------
(* The counts of a prefix                                                  *)

\* The counts after the first n of the events o.
CountsOf(o, n) ==
  [c \in Categories(Bands) |-> Cardinality({i \in 1..n : MaturedCategory(o[i], Bands) = c})]

\* A mature event is in a category of the partition.
LEMMA MatureIsCounted ==
  ASSUME NEW e \in Event, ValidEvent(e), Matures(e, Bands)
  PROVE  MaturedCategory(e, Bands) \in Categories(Bands)
<1>1. Bands \in Nat \ {0} /\ Horizon \in Nat
  BY PartitionAssumption
<1>2. CASE e.completion = Never
  BY <1>1, <1>2 DEF MaturedCategory, Categories, Unresolved
<1>3. CASE e.completion # Never
  <2> DEFINE b == Band(e.completion - e.issue, Bands)
             passed == {i \in 1..Bands : Horizon * i < (e.completion - e.issue) * Bands}
  <2>1. b = 1 + Cardinality(passed)
    BY DEF Band
  <2>2. Cardinality(passed) \in Nat
    <3>1. passed \in SUBSET (1..Bands) /\ IsFiniteSet(1..Bands)
      BY <1>1, FS_Interval
    <3> HIDE DEF passed
    <3>2. QED
      BY <3>1, FS_Subset, FS_CardinalityType
  <2>3. b =< Bands
    BY <1>3 DEF Matures
  <2> HIDE DEF b, passed
  <2>4. b \in 1..Bands
    BY <1>1, <2>1, <2>2, <2>3
  <2>5. MaturedCategory(e, Bands) \in {2 * b - 1, 2 * b}
    BY <1>3 DEF MaturedCategory, CategoryOf, b
  <2>6. QED
    BY <1>1, <2>4, <2>5 DEF Categories
<1>4. QED
  BY <1>2, <1>3

\* The counts of a prefix are between none and all of its events.
LEMMA CountsAreWithin ==
  ASSUME NEW o, NEW n \in Nat
  PROVE  /\ CountsOf(o, n) \in [Categories(Bands) -> 0..n]
         /\ IsFiniteSet(Categories(Bands)) /\ Categories(Bands) # {}
<1>1. Bands \in Nat \ {0}
  BY PartitionAssumption
<1>2. IsFiniteSet(1..n) /\ Cardinality(1..n) = n
  BY FS_Interval
<1>3. ASSUME NEW T \in SUBSET (1..n) PROVE Cardinality(T) \in 0..n
  <2>1. IsFiniteSet(T) /\ Cardinality(T) =< n
    BY <1>2, FS_Subset
  <2>2. QED
    BY <2>1, FS_CardinalityType
<1>4. \A c \in Categories(Bands) :
        Cardinality({i \in 1..n : MaturedCategory(o[i], Bands) = c}) \in 0..n
  BY <1>3
<1>5. IsFiniteSet(Categories(Bands)) /\ 1 \in Categories(Bands)
  BY <1>1, FS_Interval DEF Categories
<1>6. QED
  BY <1>4, <1>5 DEF CountsOf

\* One more event is one more in its category.
LEMMA CountsGrow ==
  ASSUME NEW o, NEW n \in Nat, MaturedCategory(o[n + 1], Bands) \in Categories(Bands)
  PROVE  /\ CountsOf(o, n + 1) = Counted(CountsOf(o, n), MaturedCategory(o[n + 1], Bands))
         /\ Matured(CountsOf(o, n + 1)) = Matured(CountsOf(o, n)) + 1
<1> DEFINE in(k, c) == {i \in 1..k : MaturedCategory(o[i], Bands) = c}
           d == MaturedCategory(o[n + 1], Bands)
<1>1. \A c : /\ in(n, c) \in SUBSET (1..n) /\ n + 1 \notin in(n, c)
             /\ in(n + 1, c) = IF c = d THEN in(n, c) \cup {n + 1} ELSE in(n, c)
  OBVIOUS
<1>2. IsFiniteSet(1..n)
  BY FS_Interval
<1>3. \A k : CountsOf(o, k) = [c \in Categories(Bands) |-> Cardinality(in(k, c))]
  BY DEF CountsOf
<1> HIDE DEF in, d
<1>4. \A c : Cardinality(in(n + 1, c)) = Cardinality(in(n, c)) + IF c = d THEN 1 ELSE 0
  <2>1. TAKE c
  <2>2. IsFiniteSet(in(n, c)) /\ Cardinality(in(n, c)) \in Nat
    BY <1>1, <1>2, FS_Subset, FS_CardinalityType
  <2>3. CASE c = d
    BY <1>1, <2>2, <2>3, FS_AddElement
  <2>4. CASE c # d
    <3>1. in(n + 1, c) = in(n, c)
      BY <1>1, <2>4
    <3>2. QED
      BY <2>2, <2>4, <3>1
  <2>5. QED
    BY <2>3, <2>4
<1>5. CountsOf(o, n) \in [Categories(Bands) -> Nat] /\ IsFiniteSet(Categories(Bands))
  BY CountsAreWithin
<1>6. CountsOf(o, n + 1) = Counted(CountsOf(o, n), d)
  <2>1. \A c \in Categories(Bands) :
          CountsOf(o, n + 1)[c] = CountsOf(o, n)[c] + IF c = d THEN 1 ELSE 0
    BY <1>3, <1>4
  <2>2. CountsOf(o, n + 1) = [c \in Categories(Bands) |-> CountsOf(o, n + 1)[c]]
    BY <1>3
  <2>3. \A c \in Categories(Bands) : CountsOf(o, n)[c] \in Nat
    BY <1>5
  <2>4. Counted(CountsOf(o, n), d) =
          [c \in Categories(Bands) |-> IF c = d THEN CountsOf(o, n)[c] + 1 ELSE CountsOf(o, n)[c]]
    BY <1>5 DEF Counted
  <2>5. \A c \in Categories(Bands) :
          CountsOf(o, n + 1)[c] = IF c = d THEN CountsOf(o, n)[c] + 1 ELSE CountsOf(o, n)[c]
    BY <2>1, <2>3
  <2>6. QED
    BY <2>2, <2>4, <2>5
<1>7. d \in Categories(Bands)
  BY DEF d
<1>8. Matured(Counted(CountsOf(o, n), d)) = Matured(CountsOf(o, n)) + 1
  BY <1>5, <1>7, SumBumped DEF Matured, Counted
<1>9. QED
  BY <1>6, <1>8 DEF d

\* Before the first event every count is zero.
LEMMA NothingCounted ==
  ASSUME NEW o
  PROVE  CountsOf(o, 0) = NoCounts(Bands) /\ Matured(NoCounts(Bands)) = 0
<1>1. \A c : Cardinality({i \in 1..0 : MaturedCategory(o[i], Bands) = c}) = 0
  <2>1. \A c : {i \in 1..0 : MaturedCategory(o[i], Bands) = c} = {}
    OBVIOUS
  <2>2. QED
    BY <2>1, FS_EmptySet
<1>2. IsFiniteSet(Categories(Bands))
  BY CountsAreWithin
<1>3. Matured(NoCounts(Bands)) = 0
  <2>1. DOMAIN NoCounts(Bands) = Categories(Bands)
        /\ \A c \in Categories(Bands) : NoCounts(Bands)[c] = 0
    BY DEF NoCounts
  <2>2. QED
    BY <1>2, <2>1, SumOfNothing DEF Matured
<1>4. QED
  BY <1>1, <1>3 DEF CountsOf, NoCounts

\* The intervals of as many counts as the roots are found for.
LEMMA RawIsInterval ==
  ASSUME NEW total \in Nat, RootsBracketTheFrequency(total),
         NEW n \in 1..total, NEW c \in [Categories(Bands) -> 0..n], Matured(c) = n
  PROVE  /\ RawRegion(c) \in [Categories(Bands) -> Interval]
         /\ \A k \in Categories(Bands) : RawRegion(c)[k] = CategoryInterval(c[k], n)
<1>1. \A s \in 0..n : CategoryInterval(s, n) \in Interval
  BY DEF RootsBracketTheFrequency
<1>2. QED
  BY <1>1 DEF RawRegion

-----------------------------------------------------------------------------
(* The inductive invariant                                                 *)

Checkpoint == [matured : Nat, state : ScientificState,
               static : ScientificState \cup {"NONE"}, ignorable : BOOLEAN]
Recording == [failures : [Methods -> Nat], checkpoints : Seq(Checkpoint),
              violated : BOOLEAN, exclusion : Nat \cup {None}]

\* The stream has the events of one of the ledgers of its task, in their order.
LedgerHeld ==
  /\ task \in [kind : Kinds, law : Laws]
  /\ IsFiniteSet(ledger) /\ ledger \subseteq Event /\ ValidLedger(ledger)
  /\ RootsBracketTheFrequency(Cardinality(ledger))
  /\ Sorted(events, ledger)
  /\ position \in 0..Len(events)
  /\ phase = "streaming" => \A e \in ledger : Matures(e, Bands)

\* Every prefix has as many counts as events, and the present ones are its own.
CountsHeld ==
  /\ counts = CountsOf(events, position)
  /\ \A n \in 0..position : Matured(CountsOf(events, n)) = n

\* A region has been narrowed by every prefix; there is none before the first
\* event, nor after the sequence has emptied.
RunningHeld ==
  /\ stream \in Recording
  /\ stream.violated => running = <<>>
  /\ phase = "streaming" /\ position > 0 /\ running = <<>> => stream.violated
  /\ running # <<>> =>
       /\ running \in [Categories(Bands) -> Bounds]
       /\ \A n \in 1..position : \A c \in Categories(Bands) :
            LET raw == RawRegion(CountsOf(events, n))[c]
            IN raw.lower =< running[c].lower /\ running[c].upper =< raw.upper

StreamInv == LedgerHeld /\ CountsHeld /\ RunningHeld

\* A checkpoint reports one of the five scientific states.
LEMMA StateIsScientific ==
  ASSUME NEW bounds, NEW c
  PROVE  State(bounds, c) \in ScientificState
BY DEF State, Classify, ScientificState

\* Failures that are added leave the record one, and say nothing of its sequence.
LEMMA FailingKeeps ==
  ASSUME NEW r \in Recording, NEW methods
  PROVE  Failing(r, methods) \in Recording /\ Failing(r, methods).violated = r.violated
<1>1. \A m \in Methods : r.failures[m] + (IF m \in methods THEN 1 ELSE 0) \in Nat
  BY DEF Recording
<1>2. QED
  BY <1>1 DEF Failing, Recording

\* So does a checkpoint that is recorded.
LEMMA RecordedKeeps ==
  ASSUME NEW r \in Recording, NEW n \in Nat, NEW state \in ScientificState,
         NEW static \in ScientificState \cup {"NONE"}, NEW certifies \in BOOLEAN
  PROVE  /\ Recorded(r, n, state, static, certifies) \in Recording
         /\ Recorded(r, n, state, static, certifies).violated = r.violated
<1>1. [matured |-> n, state |-> state, static |-> static, ignorable |-> certifies] \in Checkpoint
  BY DEF Checkpoint
<1>2. /\ r.checkpoints \in Seq(Checkpoint) /\ r.failures \in [Methods -> Nat]
      /\ r.violated \in BOOLEAN /\ r.exclusion \in Nat \cup {None}
      /\ r = [failures |-> r.failures, checkpoints |-> r.checkpoints,
              violated |-> r.violated, exclusion |-> r.exclusion]
  BY DEF Recording
<1> DEFINE more == Append(r.checkpoints, [matured |-> n, state |-> state,
                                          static |-> static, ignorable |-> certifies])
<1>3. more \in Seq(Checkpoint)
  BY <1>1, <1>2
<1> HIDE DEF more
<1>4. [failures |-> r.failures, checkpoints |-> more,
       violated |-> r.violated, exclusion |-> r.exclusion] \in Recording
  BY <1>2, <1>3 DEF Recording
<1>5. Recorded(r, n, state, static, certifies)
        = [failures |-> r.failures, checkpoints |-> more,
           violated |-> r.violated, exclusion |-> r.exclusion]
  <2>1. Recorded(r, n, state, static, certifies) = [r EXCEPT !.checkpoints = more]
    BY DEF Recorded, more
  <2>2. QED
    BY <1>2, <2>1
<1>6. QED
  BY <1>4, <1>5

\* So does the assessment of a coverage checkpoint.
LEMMA AssessedKeeps ==
  ASSUME NEW record \in Recording, NEW c, Matured(c) \in Nat, NEW region, NEW ign, NEW b, NEW static
  PROVE  /\ Assessed(record, c, region, ign, b, static) \in Recording
         /\ Assessed(record, c, region, ign, b, static).violated = record.violated
<1>1. PICK methods : Assessed(record, c, region, ign, b, static) =
                       IF region = <<>> THEN Failing(record, methods)
                       ELSE Recorded(Failing(record, methods), Matured(c), State(b, c), "NONE", FALSE)
  BY DEF Assessed
<1>2. Failing(record, methods) \in Recording /\ Failing(record, methods).violated = record.violated
  BY FailingKeeps
<1>3. State(b, c) \in ScientificState
  BY StateIsScientific
<1>4. CASE region = <<>>
  BY <1>1, <1>2, <1>4
<1>5. CASE region # <<>>
  <2> DEFINE failed == Failing(record, methods)
             state == State(b, c)
             r == Recorded(failed, Matured(c), state, "NONE", FALSE)
  <2>1. Assessed(record, c, region, ign, b, static) = r
    BY <1>1, <1>5
  <2>2. failed \in Recording /\ state \in ScientificState /\ failed.violated = record.violated
        /\ "NONE" \in ScientificState \cup {"NONE"} /\ FALSE \in BOOLEAN
    BY <1>2, <1>3
  <2> HIDE DEF failed, state
  <2>3. r \in Recording /\ r.violated = failed.violated
    BY <2>2, RecordedKeeps
  <2> HIDE DEF r
  <2>4. QED
    BY <2>1, <2>2, <2>3
<1>6. QED
  BY <1>4, <1>5

\* A checkpoint adds to what the stream has recorded.
LEMMA CheckpointKeeps ==
  ASSUME NEW record \in Recording, NEW c, Matured(c) \in Nat, NEW region, NEW ign, Kind \in Kinds,
         NEW r \in Checkpointed(record, c, region, ign)
  PROVE  r \in Recording /\ r.violated = record.violated
<1>1. CASE ~Due(Matured(c))
  BY <1>1 DEF Checkpointed
<1>2. CASE Due(Matured(c)) /\ Kind = "coverage"
  <2>1. r \in CoverageCheckpoint(record, c, region, ign)
    BY <1>2 DEF Checkpointed
  <2>2. PICK b, static : r = Assessed(record, c, region, ign, b, static)
    BY <2>1 DEF CoverageCheckpoint
  <2>3. QED
    BY <2>2, AssessedKeeps
<1>3. CASE Due(Matured(c)) /\ Kind = "power"
  <2>1. r \in PowerCheckpoint(record, c, region, ign)
    BY <1>3 DEF Checkpointed
  <2>2. PICK b, static :
          r = Recorded(record, Matured(c), State(b, c), State(static, c), IgnorableCertifies(c, ign))
    BY <2>1 DEF PowerCheckpoint
  <2>3. State(b, c) \in ScientificState /\ State(static, c) \in ScientificState
    BY StateIsScientific
  <2>4. IgnorableCertifies(c, ign) \in BOOLEAN
    BY DEF IgnorableCertifies
  <2>5. QED
    BY <2>2, <2>3, <2>4, RecordedKeeps
<1>4. CASE Due(Matured(c)) /\ Kind = "trace"
  <2>1. r \in TraceCheckpoint(record, c, region)
    BY <1>4 DEF Checkpointed
  <2>2. PICK b : r = Recorded(record, Matured(c), State(b, c), "NONE", FALSE)
    BY <2>1 DEF TraceCheckpoint
  <2>3. State(b, c) \in ScientificState
    BY StateIsScientific
  <2>4. QED
    BY <2>2, <2>3, RecordedKeeps
<1>5. QED
  BY <1>1, <1>2, <1>3, <1>4 DEF Kinds

\* The invariant of a stream holds initially ...
LEMMA StreamStarts == Init => StreamInv
<1> SUFFICES ASSUME Init PROVE StreamInv
  OBVIOUS
<1> USE DEF Init
<1>1. IsFiniteSet(ledger) /\ Cardinality(ledger) = 0
  BY FS_EmptySet
<1>2. Sorted(events, ledger) /\ position \in 0..Len(events)
  BY <1>1 DEF Sorted
<1>3. LedgerHeld
  BY <1>1, <1>2 DEF LedgerHeld, ValidLedger, RootsBracketTheFrequency
<1>4. CountsHeld
  BY NothingCounted DEF CountsHeld
<1>5. stream \in Recording
  BY DEF NewStream, Recording, Checkpoint
<1>6. RunningHeld
  BY <1>5 DEF RunningHeld, NewStream
<1>7. QED
  BY <1>3, <1>4, <1>6 DEF StreamInv

\* A region advanced lies in the one before and in the raw one.
LEMMA AdvancedNarrows ==
  ASSUME NEW c, RawRegion(c) \in [Categories(Bands) -> Interval],
         NEW region, region = <<>> \/ region \in [Categories(Bands) -> Bounds]
  PROVE  /\ Advanced(region, c) \in [Categories(Bands) -> Bounds]
         /\ Advanced(region, c) # <<>>
         /\ \A k \in Categories(Bands) :
              /\ RawRegion(c)[k].lower =< Advanced(region, c)[k].lower
              /\ Advanced(region, c)[k].upper =< RawRegion(c)[k].upper
              /\ region # <<>> => /\ region[k].lower =< Advanced(region, c)[k].lower
                                  /\ Advanced(region, c)[k].upper =< region[k].upper
<1> DEFINE raw == RawRegion(c)
           next == Advanced(region, c)
<1>1. Interval \subseteq Bounds /\ \A x, y \in Mass : Larger(x, y) \in Mass /\ Smaller(x, y) \in Mass
                                   /\ x =< Larger(x, y) /\ y =< Larger(x, y)
                                   /\ Smaller(x, y) =< x /\ Smaller(x, y) =< y
  BY UnitAssumption DEF Interval, Bounds, Mass, Larger, Smaller
<1>2. DOMAIN raw = Categories(Bands) /\ \A k \in Categories(Bands) : raw[k] \in Bounds
  BY <1>1
<1>3. \A b \in Bounds : b.lower \in Mass /\ b.upper \in Mass /\ b.lower =< b.lower /\ b.upper =< b.upper
  BY UnitAssumption DEF Bounds, Mass
<1>4. next = IF region = <<>> THEN raw ELSE [k \in Categories(Bands) |-> Intersection(region[k], raw[k])]
  BY <1>2 DEF Advanced
<1>5. ASSUME NEW k \in Categories(Bands)
      PROVE  /\ next[k] \in Bounds
             /\ raw[k].lower =< next[k].lower /\ next[k].upper =< raw[k].upper
             /\ region # <<>> => region[k].lower =< next[k].lower /\ next[k].upper =< region[k].upper
  <2>1. CASE region = <<>>
    <3>1. next[k] = raw[k] /\ raw[k] \in Bounds
      BY <1>2, <1>4, <2>1
    <3>2. QED
      BY <1>3, <2>1, <3>1
  <2>2. CASE region # <<>>
    <3>1. next[k] = [lower |-> Larger(region[k].lower, raw[k].lower),
                     upper |-> Smaller(region[k].upper, raw[k].upper)]
      BY <1>4, <2>2 DEF Intersection
    <3>2. region[k] \in Bounds /\ raw[k] \in Bounds
      BY <1>2, <2>2
    <3>3. /\ region[k].lower \in Mass /\ raw[k].lower \in Mass
          /\ region[k].upper \in Mass /\ raw[k].upper \in Mass
      BY <1>3, <3>2
    <3>4. /\ next[k].lower = Larger(region[k].lower, raw[k].lower)
          /\ next[k].upper = Smaller(region[k].upper, raw[k].upper)
      BY <3>1
    <3>5. next[k] \in Bounds
      BY <1>1, <3>1, <3>3 DEF Bounds
    <3>6. QED
      BY <1>1, <3>3, <3>4, <3>5
  <2>3. QED
    BY <2>1, <2>2
<1>6. next = [k \in Categories(Bands) |-> next[k]]
  BY <1>2, <1>4
<1>7. Categories(Bands) # {}
  BY CountsAreWithin
<1> HIDE DEF next, raw
<1>8. next \in [Categories(Bands) -> Bounds]
  BY <1>5, <1>6
<1>9. next # <<>>
  BY <1>7, <1>8
<1>10. QED
  BY <1>5, <1>8, <1>9 DEF next, raw

\* The next event is counted where it belongs.
LEMMA NextIsCounted ==
  StreamInv /\ phase = "streaming" /\ position < Len(events) =>
    /\ position \in Nat /\ position + 1 \in 0..Len(events)
    /\ Appended = CountsOf(events, position + 1)
    /\ \A n \in 0..(position + 1) : Matured(CountsOf(events, n)) = n
    /\ RawRegion(Appended) \in [Categories(Bands) -> Interval]
<1> SUFFICES ASSUME StreamInv, phase = "streaming", position < Len(events)
             PROVE  /\ position \in Nat /\ position + 1 \in 0..Len(events)
                    /\ Appended = CountsOf(events, position + 1)
                    /\ \A n \in 0..(position + 1) : Matured(CountsOf(events, n)) = n
                    /\ RawRegion(Appended) \in [Categories(Bands) -> Interval]
  OBVIOUS
<1>1. events \in Seq(ledger) /\ Len(events) = Cardinality(ledger) /\ Len(events) \in Nat
  BY DEF StreamInv, LedgerHeld, Sorted
<1>2. position \in Nat /\ position + 1 \in 1..Len(events)
  BY <1>1 DEF StreamInv, LedgerHeld
<1>3. MaturedCategory(events[position + 1], Bands) \in Categories(Bands)
  <2>1. events[position + 1] \in ledger
    BY <1>1, <1>2
  <2>2. /\ events[position + 1] \in Event /\ ValidEvent(events[position + 1])
        /\ Matures(events[position + 1], Bands)
    BY <2>1 DEF StreamInv, LedgerHeld, ValidLedger
  <2>3. QED
    BY <2>2, MatureIsCounted
<1>4. /\ CountsOf(events, position + 1) = Appended
      /\ Matured(CountsOf(events, position + 1)) = Matured(CountsOf(events, position)) + 1
  BY <1>2, <1>3, CountsGrow DEF StreamInv, CountsHeld, Appended
<1>5. \A n \in 0..(position + 1) : Matured(CountsOf(events, n)) = n
  BY <1>2, <1>4 DEF StreamInv, CountsHeld
<1>6. RawRegion(Appended) \in [Categories(Bands) -> Interval]
  <2>1. Appended \in [Categories(Bands) -> 0..(position + 1)] /\ Matured(Appended) = position + 1
    BY <1>2, <1>4, <1>5, CountsAreWithin
  <2>2. RootsBracketTheFrequency(Len(events))
    BY <1>1 DEF StreamInv, LedgerHeld
  <2>3. QED
    BY <1>1, <1>2, <2>1, <2>2, RawIsInterval
<1>7. QED
  BY <1>2, <1>4, <1>5, <1>6

\* ... when a stream starts on a ledger ...
LEMMA StreamBegins == StreamInv /\ StartStream => StreamInv'
<1> SUFFICES ASSUME StreamInv, StartStream PROVE StreamInv'
  OBVIOUS
<1>1. PICK l \in Ledgers(Kind, Law) :
        /\ ValidLedger(l) /\ ledger' = l /\ events' = MaturityOrder(l)
        /\ phase' = IF \A e \in l : Matures(e, Bands) THEN "streaming" ELSE "raised"
  BY DEF StartStream
<1>2. /\ task' = task /\ position' = 0 /\ counts' = NoCounts(Bands) /\ running' = <<>>
      /\ stream' = NewStream
  BY DEF StartStream
<1>3. Kind \in Kinds /\ Law \in Laws
  BY DEF StreamInv, LedgerHeld, Kind, Law
<1>4. IsFiniteSet(l) /\ l \subseteq Event /\ RootsBracketTheFrequency(Cardinality(l))
  BY <1>3, LedgersAssumption
<1>5. Sorted(events', ledger')
  BY <1>1, <1>4, MaturityOrderSorts
<1>6. LedgerHeld'
  <2>1. position' \in 0..Len(events')
    BY <1>2, <1>5 DEF Sorted
  <2>2. QED
    BY <1>1, <1>2, <1>4, <1>5, <2>1 DEF StreamInv, LedgerHeld
<1>7. CountsHeld'
  BY <1>2, NothingCounted DEF CountsHeld
<1>8. NewStream \in Recording /\ NewStream.violated = FALSE
  BY DEF NewStream, Recording, Checkpoint
<1>9. RunningHeld'
  BY <1>2, <1>8 DEF RunningHeld
<1>10. QED
  BY <1>6, <1>7, <1>9 DEF StreamInv

\* What is recorded of one event more.
LEMMA ExcludedKeeps ==
  ASSUME NEW r \in Recording, NEW c, Matured(c) \in Nat
  PROVE  Excluded(r, c) \in Recording /\ Excluded(r, c).violated = r.violated
BY DEF Excluded, Recording, None

\* What is recorded of a sequence that emptied is a record.
LEMMA EmptiedKeeps ==
  ASSUME NEW r \in Recording, NEW c, Matured(c) \in Nat, NEW lost
  PROVE  Emptied(r, c, lost) \in Recording /\ Emptied(r, c, lost).violated
<1>1. \A s \in Recording : [s EXCEPT !.violated = TRUE] \in Recording
                           /\ [s EXCEPT !.violated = TRUE].violated
  BY DEF Recording
<1>2. Failing(r, lost) \in Recording /\ Excluded(r, c) \in Recording
  BY FailingKeeps, ExcludedKeeps
<1>3. QED
  BY <1>1, <1>2 DEF Emptied

\* One event further, on the same ledger.
LEMMA PositionAdvances ==
  StreamInv /\ phase = "streaming" /\ position < Len(events)
  /\ position' = position + 1 /\ counts' = Appended /\ UNCHANGED <<task, ledger, events, phase>>
    => LedgerHeld' /\ CountsHeld'
<1> SUFFICES ASSUME StreamInv, phase = "streaming", position < Len(events),
                    position' = position + 1, counts' = Appended,
                    UNCHANGED <<task, ledger, events, phase>>
             PROVE  LedgerHeld' /\ CountsHeld'
  OBVIOUS
<1>1. /\ position' \in 0..Len(events') /\ counts' = CountsOf(events', position')
      /\ \A n \in 0..position' : Matured(CountsOf(events', n)) = n
  BY NextIsCounted
<1>2. LedgerHeld'
  BY <1>1 DEF StreamInv, LedgerHeld
<1>3. CountsHeld'
  BY <1>1 DEF CountsHeld
<1>4. QED
  BY <1>2, <1>3

\* ... when an event is counted and the region shrinks ...
LEMMA AppendKeeps == StreamInv /\ AppendEvent => StreamInv'
<1> SUFFICES ASSUME StreamInv, AppendEvent PROVE StreamInv'
  OBVIOUS
<1> DEFINE region == Advanced(running, Appended)
           ign == IgnorableAdvanced(ignorable, Appended)
           lost == IgnorableLost(ign)
           record == Failing(Excluded(stream, Appended), lost)
<1>1. /\ phase = "streaming" /\ position < Len(events) /\ ~stream.violated
      /\ position' = position + 1 /\ counts' = Appended
      /\ UNCHANGED <<task, ledger, events, phase>>
      /\ running' = region /\ stream' \in Checkpointed(record, Appended, region, ign)
  BY DEF AppendEvent, Streaming
<1>2. LedgerHeld' /\ CountsHeld'
  BY <1>1, PositionAdvances
<1>3. /\ position \in Nat /\ Appended = CountsOf(events, position + 1)
      /\ Matured(Appended) = position + 1
      /\ RawRegion(Appended) \in [Categories(Bands) -> Interval]
  BY <1>1, NextIsCounted
<1>4. running = <<>> \/ running \in [Categories(Bands) -> Bounds]
  BY DEF StreamInv, RunningHeld
<1>5. /\ region \in [Categories(Bands) -> Bounds] /\ region # <<>>
      /\ \A k \in Categories(Bands) :
           /\ RawRegion(Appended)[k].lower =< region[k].lower
           /\ region[k].upper =< RawRegion(Appended)[k].upper
           /\ running # <<>> => running[k].lower =< region[k].lower /\ region[k].upper =< running[k].upper
  BY <1>3, <1>4, AdvancedNarrows
<1>6. stream' \in Recording /\ stream'.violated = FALSE
  <2>1. stream \in Recording /\ stream.violated = FALSE
    BY <1>1 DEF StreamInv, RunningHeld, Recording
  <2>2. Excluded(stream, Appended) \in Recording /\ Excluded(stream, Appended).violated = FALSE
    BY <1>3, <2>1, ExcludedKeeps
  <2> HIDE DEF lost
  <2>3. record \in Recording /\ record.violated = FALSE
    BY <2>2, FailingKeeps
  <2>4. Kind \in Kinds
    BY DEF StreamInv, LedgerHeld, Kind
  <2> HIDE DEF record, region, ign
  <2>5. QED
    BY <1>1, <1>3, <2>3, <2>4, CheckpointKeeps
<1> HIDE DEF region, record, ign, lost
<1>7. ASSUME NEW n \in 1..(position + 1), NEW k \in Categories(Bands)
      PROVE  /\ RawRegion(CountsOf(events, n))[k].lower =< region[k].lower
             /\ region[k].upper =< RawRegion(CountsOf(events, n))[k].upper
  <2>1. CASE n = position + 1
    BY <1>3, <1>5, <2>1
  <2>2. CASE n # position + 1
    <3> DEFINE raw == RawRegion(CountsOf(events, n))[k]
    <3>1. n \in 1..position /\ running # <<>>
      BY <1>1, <1>3, <2>2 DEF StreamInv, RunningHeld
    <3>2. raw.lower =< running[k].lower /\ running[k].upper =< raw.upper
      BY <3>1 DEF StreamInv, RunningHeld
    <3>3. running[k].lower =< region[k].lower /\ region[k].upper =< running[k].upper
      BY <1>5, <3>1
    <3>4. running[k] \in Bounds /\ region[k] \in Bounds
      BY <1>4, <1>5, <3>1
    <3>5. raw \in Bounds
      <4>1. /\ n \in 1..Len(events) /\ Matured(CountsOf(events, n)) = n
            /\ RootsBracketTheFrequency(Len(events)) /\ Len(events) \in Nat
        <5>1. Len(events) = Cardinality(ledger) /\ Len(events) \in Nat
          BY DEF StreamInv, LedgerHeld, Sorted
        <5>2. QED
          BY <3>1, <5>1 DEF StreamInv, LedgerHeld, CountsHeld
      <4>2. CountsOf(events, n) \in [Categories(Bands) -> 0..n]
        BY <4>1, CountsAreWithin
      <4>3. raw \in Interval
        BY <4>1, <4>2, RawIsInterval
      <4>4. QED
        BY <4>3 DEF Interval, Bounds
    <3> HIDE DEF raw
    <3>6. /\ raw.lower \in Int /\ raw.upper \in Int
          /\ running[k].lower \in Int /\ running[k].upper \in Int
          /\ region[k].lower \in Int /\ region[k].upper \in Int
      BY <3>4, <3>5, UnitAssumption DEF Bounds, Mass
    <3>7. raw.lower =< region[k].lower /\ region[k].upper =< raw.upper
      BY <3>2, <3>3, <3>6
    <3>8. QED
      BY <3>7 DEF raw
  <2>3. QED
    BY <2>1, <2>2
<1>8. RunningHeld'
  BY <1>1, <1>5, <1>6, <1>7 DEF RunningHeld
<1>9. QED
  BY <1>2, <1>8 DEF StreamInv

\* ... when the region empties at an event ...
LEMMA EmptyingKeeps == StreamInv /\ SequenceEmpties => StreamInv'
<1> SUFFICES ASSUME StreamInv, SequenceEmpties PROVE StreamInv'
  OBVIOUS
<1> DEFINE ign == IgnorableAdvanced(ignorable, Appended)
           record == Emptied(stream, Appended, ViolationFailures \cup IgnorableLost(ign))
<1>1. /\ phase = "streaming" /\ position < Len(events)
      /\ position' = position + 1 /\ counts' = Appended
      /\ UNCHANGED <<task, ledger, events, phase>> /\ running' = <<>>
      /\ \/ stream' \in Checkpointed(record, Appended, <<>>, ign)
         \/ stream' = record
  BY DEF SequenceEmpties, Streaming
<1>2. LedgerHeld' /\ CountsHeld'
  BY <1>1, PositionAdvances
<1>3. Matured(Appended) \in Nat
  BY <1>1, NextIsCounted
<1>4. record \in Recording /\ record.violated
  BY <1>3, EmptiedKeeps DEF StreamInv, RunningHeld
<1>5. stream' \in Recording /\ stream'.violated
  <2>1. Kind \in Kinds
    BY DEF StreamInv, LedgerHeld, Kind
  <2> HIDE DEF record, ign
  <2>2. QED
    BY <1>1, <1>3, <1>4, <2>1, CheckpointKeeps
<1>6. RunningHeld'
  BY <1>1, <1>5 DEF RunningHeld
<1>7. QED
  BY <1>2, <1>6 DEF StreamInv

\* ... when a coverage stream goes on after that ...
LEMMA GoingOnKeeps == StreamInv /\ AppendAfterViolation => StreamInv'
<1> SUFFICES ASSUME StreamInv, AppendAfterViolation PROVE StreamInv'
  OBVIOUS
<1> DEFINE ign == IgnorableAdvanced(ignorable, Appended)
           record == Failing(stream, IgnorableLost(ign))
<1>1. /\ phase = "streaming" /\ position < Len(events) /\ stream.violated
      /\ position' = position + 1 /\ counts' = Appended
      /\ UNCHANGED <<task, ledger, events, phase, running>>
      /\ stream' \in Checkpointed(record, Appended, <<>>, ign)
  BY DEF AppendAfterViolation
<1>2. LedgerHeld' /\ CountsHeld'
  BY <1>1, PositionAdvances
<1>3. Matured(Appended) \in Nat
  BY <1>1, NextIsCounted
<1>4. record \in Recording /\ record.violated /\ running = <<>>
  BY <1>1, FailingKeeps DEF StreamInv, RunningHeld
<1>5. stream' \in Recording /\ stream'.violated
  <2>1. Kind \in Kinds
    BY DEF StreamInv, LedgerHeld, Kind
  <2> HIDE DEF record, ign
  <2>2. QED
    BY <1>1, <1>3, <1>4, <2>1, CheckpointKeeps
<1>6. RunningHeld'
  BY <1>1, <1>4, <1>5 DEF RunningHeld
<1>7. QED
  BY <1>2, <1>6 DEF StreamInv

\* What takes no event leaves what the stream has as it is.
LEMMA OthersKeep ==
  StreamInv /\ (RegionRaises \/ EndStream \/ ReportCoverage \/ ReportPower \/ UNCHANGED vars)
    => StreamInv'
<1> SUFFICES ASSUME StreamInv,
                    RegionRaises \/ EndStream \/ ReportCoverage \/ ReportPower \/ UNCHANGED vars
             PROVE  StreamInv'
  OBVIOUS
<1>1. /\ UNCHANGED <<task, ledger, events, position, counts, running>>
      /\ phase' = "streaming" => phase = "streaming"
  BY DEF RegionRaises, EndStream, ReportCoverage, ReportPower, vars
<1>2. LedgerHeld' /\ CountsHeld'
  BY <1>1 DEF StreamInv, LedgerHeld, CountsHeld
<1>3. stream' \in Recording /\ stream'.violated = stream.violated
  <2>1. CASE RegionRaises
    <3>1. phase = "streaming" /\ position < Len(events)
      BY <2>1 DEF RegionRaises, Streaming
    <3>2. Matured(Appended) \in Nat
      BY <3>1, NextIsCounted
    <3>3. stream' = Excluded(stream, Appended)
      BY <2>1 DEF RegionRaises
    <3>4. QED
      BY <3>2, <3>3, ExcludedKeeps DEF StreamInv, RunningHeld
  <2>2. CASE ~RegionRaises
    BY <2>2 DEF EndStream, ReportCoverage, ReportPower, vars, StreamInv, RunningHeld
  <2>3. QED
    BY <2>1, <2>2
<1>4. RunningHeld'
  BY <1>1, <1>3 DEF StreamInv, RunningHeld
<1>5. QED
  BY <1>2, <1>4 DEF StreamInv

\* ... and so always.
LEMMA StreamHeld == Spec => []StreamInv
<1>1. StreamInv /\ [Next]_vars => StreamInv'
  BY StreamBegins, AppendKeeps, EmptyingKeeps, GoingOnKeeps, OthersKeep DEF Next
<1>2. QED
  BY <1>1, StreamStarts, PTL DEF Spec

-----------------------------------------------------------------------------
(* The theorems                                                            *)

\* The counts of the properties are those of the lemmas on orders.
LEMMA PrefixIsCounted == \A n : Prefix(n) = CountsOf(events, n)
  BY DEF Prefix, CountsOf

\* The running region lies in the raw region of every prefix there has been
\* (confidence_sequence_update, _intersect_running): of any law, ledger, kind of
\* experiment and partition.
THEOREM RunningShrinks == Spec => []RunningCoversPrefix
<1>1. StreamInv => RunningCoversPrefix
  BY PrefixIsCounted DEF StreamInv, RunningHeld, RunningCoversPrefix
<1>2. QED
  BY <1>1, StreamHeld, PTL

\* Every place of the stream has an event of its own.
LEMMA PlacesDiffer ==
  StreamInv => /\ position \in 0..Len(events) /\ Len(events) \in Nat
               /\ \A i \in 1..Len(events) : events[i] \in ledger
               /\ \A i, j \in 1..Len(events) : events[i] = events[j] => i = j
<1> SUFFICES ASSUME StreamInv
             PROVE  /\ position \in 0..Len(events) /\ Len(events) \in Nat
                    /\ \A i \in 1..Len(events) : events[i] \in ledger
                    /\ \A i, j \in 1..Len(events) : events[i] = events[j] => i = j
  OBVIOUS
<1>1. /\ events \in Seq(ledger) /\ Len(events) \in Nat /\ position \in 0..Len(events)
      /\ \A i \in 1..Len(events) : events[i] \in ledger
  BY DEF StreamInv, LedgerHeld, Sorted
<1>2. \A i, j \in 1..Len(events) : i < j => Earlier(events[i], events[j])
  BY DEF StreamInv, LedgerHeld, Sorted
<1>3. \A e \in ledger : ~Earlier(e, e)
  BY EarlierOrders DEF StreamInv, LedgerHeld
<1>4. \A i, j \in 1..Len(events) : events[i] = events[j] => i = j
  <2>1. TAKE i, j \in 1..Len(events)
  <2>2. QED
    BY <1>1, <1>2, <1>3
<1>5. QED
  BY <1>1, <1>4

\* What a stream has counted are the events that had matured by some age, each
\* once and in its category (mature_ledger, append_matured_event).
THEOREM NothingAhead == Spec => []NoLookAhead
<1>1. ASSUME StreamInv
      PROVE  NoLookAhead
  <2> DEFINE seen == {events[i] : i \in 1..position}
  <2>1. /\ events \in Seq(ledger) /\ Len(events) \in Nat /\ position \in 0..Len(events)
        /\ \A i \in 1..Len(events) : events[i] \in ledger
    BY <1>1 DEF StreamInv, LedgerHeld, Sorted
  <2>2. \A i, j \in 1..Len(events) : i < j => Earlier(events[i], events[j])
    BY <1>1 DEF StreamInv, LedgerHeld, Sorted
  <2>3. \A e \in ledger : ~Earlier(e, e) /\ MaturityAge(e) \in Nat
    <3>1. \A e \in ledger : ~Earlier(e, e)
      BY <1>1, EarlierOrders DEF StreamInv, LedgerHeld
    <3>2. \A e \in ledger : MaturityAge(e) \in Nat
      BY <1>1, PartitionAssumption DEF StreamInv, LedgerHeld, Event, MaturityAge
    <3>3. QED
      BY <3>1, <3>2
  <2>4. seen \subseteq ledger
    BY <2>1
  <2>5. Cardinality(seen) = position
    <3> DEFINE place == [i \in 1..position |-> events[i]]
    <3>1. \A i, j \in 1..position : events[i] = events[j] => i = j
      <4>1. TAKE i, j \in 1..position
      <4>2. i \in 1..Len(events) /\ j \in 1..Len(events)
        BY <2>1
      <4>3. QED
        BY <1>1, <4>2, PlacesDiffer
    <3>2. place \in Surjection(1..position, seen)
      BY DEF Surjection
    <3>3. place \in Injection(1..position, seen)
      BY <3>1 DEF Injection, IsInjective
    <3>4. IsFiniteSet(1..position) /\ Cardinality(1..position) = position
      BY <2>1, FS_Interval
    <3> HIDE DEF place, seen
    <3>5. QED
      BY <3>2, <3>3, <3>4, FS_Surjection
  <2>6. ASSUME NEW e \in seen, NEW f \in ledger \ seen
        PROVE  MaturityAge(e) =< MaturityAge(f)
    <3>1. PICK i \in 1..position : events[i] = e
      OBVIOUS
    <3>2. PICK j \in 1..Len(events) : events[j] = f
      BY <1>1 DEF StreamInv, LedgerHeld, Sorted
    <3>3. i \in 1..Len(events) /\ i < j
      BY <2>1, <3>2
    <3>4. Earlier(e, f) /\ e \in ledger /\ f \in ledger
      BY <2>1, <2>2, <3>1, <3>2, <3>3
    <3>5. QED
      BY <2>3, <3>4 DEF Earlier
  <2>7. counts = Prefix(position)
    BY <1>1, PrefixIsCounted DEF StreamInv, CountsHeld
  <2>8. QED
    BY <2>4, <2>5, <2>6, <2>7 DEF NoLookAhead
<1>2. QED
  BY <1>1, StreamHeld, PTL

\* Counting on the coarse partition is coarsening the counts on the finest one
\* (_coarsening_map_values, coarsen_mass_vector): of whatever stream, horizon and
\* pair of partitions.
THEOREM CoarseAndFine == Spec => []CoarseningCommutes
<1>1. ASSUME StreamInv
      PROVE  CoarseningCommutes
  <2> DEFINE seen == {events[i] : i \in 1..position}
  <2>1. /\ position \in Nat /\ \A i \in 1..position : events[i] \in ledger
        /\ \A i, j \in 1..position : events[i] = events[j] => i = j
    <3>1. \A i \in 1..position : i \in 1..Len(events)
      BY <1>1, PlacesDiffer
    <3>2. QED
      BY <1>1, <3>1, PlacesDiffer
  <2>2. seen \in SUBSET Event /\ IsFiniteSet(seen) /\ \A e \in seen : ValidEvent(e)
    <3>1. seen \subseteq ledger
      BY <2>1
    <3>2. IsFiniteSet(ledger) /\ ledger \subseteq Event /\ \A e \in ledger : ValidEvent(e)
      BY <1>1 DEF StreamInv, LedgerHeld, ValidLedger
    <3>3. IsFiniteSet(seen)
      BY <3>1, <3>2, FS_Subset
    <3> HIDE DEF seen
    <3>4. QED
      BY <3>1, <3>2, <3>3
  <2>3. ASSUME NEW c
        PROVE  Cardinality({i \in 1..position : MaturedCategory(events[i], Bands) = c})
                 = Cardinality({e \in seen : MaturedCategory(e, Bands) = c})
    <3> DEFINE places == {i \in 1..position : MaturedCategory(events[i], Bands) = c}
               these == {e \in seen : MaturedCategory(e, Bands) = c}
               place == [i \in places |-> events[i]]
    <3>1. place \in Surjection(places, these)
      BY DEF Surjection
    <3>2. place \in Injection(places, these)
      BY <2>1, <3>1 DEF Surjection, Injection, IsInjective
    <3>3. place \in Bijection(places, these)
      BY <3>1, <3>2 DEF Bijection
    <3>4. IsFiniteSet(places)
      <4>1. places \in SUBSET (1..position) /\ IsFiniteSet(1..position)
        BY <2>1, FS_Interval
      <4> HIDE DEF places
      <4>2. QED
        BY <4>1, FS_Subset
    <3> HIDE DEF places, these, place
    <3>5. Cardinality(places) = Cardinality(these)
      BY <3>3, <3>4, FS_Bijection DEF ExistsBijection
    <3>6. QED
      BY <3>5 DEF places, these
  <2>4. counts = [c \in Categories(Bands) |-> Cardinality({e \in seen : MaturedCategory(e, Bands) = c})]
    <3>1. counts = CountsOf(events, position)
      BY <1>1 DEF StreamInv, CountsHeld
    <3> HIDE DEF seen
    <3>2. QED
      BY <2>3, <3>1 DEF CountsOf
  <2>5. Coarsened(FineCounts(seen)) =
          [c \in Categories(Bands) |-> Cardinality({e \in seen : MaturedCategory(e, Bands) = c})]
    <3> HIDE DEF seen
    <3>1. QED
      BY <2>2, CountingCommutes
  <2>6. counts = Coarsened(FineCounts(seen))
    <3> HIDE DEF seen
    <3>1. QED
      BY <2>4, <2>5
  <2>7. \A e \in seen : e.completion # Never =>
          Band(e.completion - e.issue, Bands) = CoarseBand(Band(e.completion - e.issue, FinestBands))
    BY <2>2, CategoryCoarsens
  <2>8. QED
    BY <2>6, <2>7 DEF CoarseningCommutes, FineCounts
<1>2. QED
  BY <1>1, StreamHeld, PTL

-----------------------------------------------------------------------------
(* A stream whose raw regions have the truth                               *)

\* The true masses of the categories are those of a point of the simplex.
LEMMA TruthIsMass ==
  ASSUME Law \in Laws
  PROVE  /\ Truth \in Simplex /\ Law.hidden \in Nat /\ Law.hidden =< Truth[Unresolved(Bands)]
         /\ Law.rho \in Nat /\ Law.beta \in Nat
<1>1. /\ Law.fine \in [Categories(FinestBands) -> Nat] /\ Law.hidden \in Nat
      /\ Law.rho \in Nat /\ Law.beta \in Nat
      /\ SumFunction(Law.fine) = Unit /\ Law.hidden =< Law.fine[Unresolved(FinestBands)]
  BY MonitorAssumption
<1> DEFINE fine == Law.fine
<1>2. fine \in [Categories(FinestBands) -> Nat] /\ fine \in [Categories(FinestBands) -> Int]
  BY <1>1
<1>3. SumFunctionOnSet(fine, Categories(FinestBands)) = Unit
  <2>1. DOMAIN fine = Categories(FinestBands)
    BY <1>2
  <2>2. SumFunction(fine) = Unit
    BY <1>1
  <2> HIDE DEF fine
  <2>3. QED
    BY <2>1, <2>2 DEF SumFunction, SumFunctionOnSet, FoldFunction
<1>4. Truth = Coarsened(fine)
  BY DEF Truth
<1> HIDE DEF fine
<1>5. SumFunctionOnSet(Truth, Categories(Bands)) = Unit
  BY <1>2, <1>3, <1>4, CoarseningSums
<1>6. ASSUME NEW c \in Categories(Bands)
      PROVE  Truth[c] = SumFunctionOnSet(fine, FineCategories(c)) /\ Truth[c] \in Mass
  <2>1. Truth[c] = SumFunctionOnSet(fine, FineCategories(c))
    BY <1>4 DEF Coarsened
  <2>2. FineCategories(c) \in SUBSET Categories(FinestBands)
    BY FineIsClass
  <2>3. IsFiniteSet(Categories(FinestBands)) /\ \A x \in Categories(FinestBands) : fine[x] \in Nat
    BY <1>2, CategoriesFinite
  <2>4. /\ SumFunctionOnSet(fine, FineCategories(c)) \in Nat
        /\ SumFunctionOnSet(fine, FineCategories(c)) =< Unit
    BY <1>3, <2>2, <2>3, SumOfPart
  <2>5. QED
    BY <2>1, <2>4, UnitAssumption DEF Mass
<1>7. Truth \in Simplex
  <2>1. Truth = [c \in Categories(Bands) |-> Truth[c]]
    BY <1>4 DEF Coarsened
  <2>2. QED
    BY <1>5, <1>6, <2>1 DEF Simplex
<1>8. Truth[Unresolved(Bands)] = fine[Unresolved(FinestBands)]
  <2> DEFINE u == Unresolved(FinestBands)
  <2>1. Truth[Unresolved(Bands)] = SumFunctionOnSet(fine, {u})
    <3>1. FineCategories(Unresolved(Bands)) = {u}
      BY DEF FineCategories
    <3>2. QED
      BY <1>6, <3>1, CategoriesSplit
  <2>2. u \in Categories(FinestBands)
    BY Partitions DEF Categories, Unresolved
  <2> HIDE DEF u
  <2>3. IsFiniteSet({u}) /\ u \in {u} /\ fine[u] \in Int /\ \A c \in {u} : fine[c] \in Int
    BY <1>2, <2>2, FS_Singleton
  <2>4. SumFunctionOnSet(fine, {u}) = fine[u] + SumFunctionOnSet(fine, {u} \ {u})
    BY <2>3, SumTakes
  <2>5. {u} \ {u} = {}
    OBVIOUS
  <2>6. SumFunctionOnSet(fine, {}) = 0
    BY SumSteps, FS_EmptySet
  <2>7. SumFunctionOnSet(fine, {u}) = fine[u] + 0
    BY <2>4, <2>5, <2>6, Zenon
  <2>8. QED
    BY <2>1, <2>3, <2>7 DEF u
<1>9. QED
  BY <1>1, <1>7, <1>8 DEF fine

\* The law a stream is drawn from is a point whose risk and information are the true ones.
LEMMA TruthIsPoint ==
  ASSUME Law \in Laws
  PROVE  /\ InformationOf(Truth, Law.hidden) = TrueInformation
         /\ Risk(PointOf(Truth, Law.hidden)) = Theta
         /\ PointOf(Truth, Law.hidden)["harmful"] = HarmfulMass
         /\ PointOf(Truth, Law.hidden)["harmful"] + PointOf(Truth, Law.hidden)["correct"] = ResolvedMass
         /\ Theta \in Int /\ HarmfulMass \in Nat /\ ResolvedMass \in Nat
<1> DEFINE H == SumFunctionOnSet(Truth, Harmful)
           C == SumFunctionOnSet(Truth, Correct)
           u == Truth[Unresolved(Bands)]
<1>1. Truth \in Simplex /\ Law.hidden \in Nat
  BY TruthIsMass
<1>2. H \in 0..Unit /\ C \in 0..Unit /\ u \in 0..Unit /\ H + C + u = Unit /\ Unit \in Nat
  BY <1>1, KindsAdd, UnitAssumption DEF Mass
<1>3. HarmfulMass = H /\ ResolvedMass = Unit - u /\ Theta = H + Law.hidden
  BY DEF HarmfulMass, ResolvedMass, Theta, Harmful
<1>4. PointOf(Truth, Law.hidden)["harmful"] = H /\ PointOf(Truth, Law.hidden)["correct"] = C
      /\ PointOf(Truth, Law.hidden)["hidden"] = Law.hidden
  BY DEF PointOf
<1>5. SumFunction([b \in 1..Bands |-> MassEntropy(Truth[2 * b - 1], Truth[2 * b])]) = PairEntropy(Truth)
  BY DEF PairEntropy, SumFunction, SumFunctionOnSet, FoldFunction
<1>6. TrueInformation = MassEntropy(Theta, Unit - Theta)
                          - MassEntropy(Law.hidden, Unit - ResolvedMass - Law.hidden) - PairEntropy(Truth)
  BY <1>5 DEF TrueInformation
<1>7. InformationOf(Truth, Law.hidden) = MassEntropy(H + Law.hidden, Unit - (H + Law.hidden))
                          - MassEntropy(Law.hidden, u - Law.hidden) - PairEntropy(Truth)
  BY DEF InformationOf
<1> HIDE DEF H, C, u
<1>8. Unit - ResolvedMass - Law.hidden = u - Law.hidden
  BY <1>1, <1>2, <1>3
<1>9. InformationOf(Truth, Law.hidden) = TrueInformation
  BY <1>3, <1>6, <1>7, <1>8
<1>10. QED
  BY <1>1, <1>2, <1>3, <1>4, <1>9 DEF Risk

\* What a checkpoint may say of a true law.
Honest(state) ==
  /\ state = "CERTIFIED" => Theta =< Law.beta
  /\ state # "MODEL_INCOMPATIBLE"
  /\ state = "INTRINSICALLY_UNCERTIFIABLE" => Unit * HarmfulMass > Law.beta * ResolvedMass

\* Bounds drawn from a region that has the truth are not below the risk, and what
\* is said because of them is true.
LEMMA BoundsAreHonest ==
  ASSUME Law \in Laws, TrueInformation =< Law.rho,
         NEW region \in Regions, Has(region, Truth),
         NEW b \in ProjectionBounds(EnvelopeOf(region), Law.rho), NEW c
  PROVE  ~(b.upper < Theta) /\ Honest(State(b, c))
<1> DEFINE p == PointOf(Truth, Law.hidden)
           e == EnvelopeOf(region)
           state == State(b, c)
<1>1. /\ Truth \in Simplex /\ Law.hidden \in Nat /\ Law.hidden =< Truth[Unresolved(Bands)]
      /\ Law.rho \in Nat /\ Law.beta \in Nat /\ Guard \in Nat
  BY TruthIsMass, MonitorAssumption
<1>2. /\ InformationOf(Truth, Law.hidden) =< Law.rho /\ Risk(p) = Theta
      /\ p["harmful"] = HarmfulMass /\ p["harmful"] + p["correct"] = ResolvedMass
      /\ Theta \in Int /\ HarmfulMass \in Nat /\ ResolvedMass \in Nat
  BY TruthIsPoint
<1>3. Readable(e) /\ p \in FeasiblePoints(e, Law.rho)
  BY <1>1, <1>2, PointIsFeasible
<1> HIDE DEF p, e
<1>4. b \in ProjectionBounds(e, Law.rho)
  BY DEF e
<1>5. /\ b.upper \in Int /\ Risk(p) =< b.upper
      /\ b.compatibility \in Int /\ b.compatibility =< Law.rho
      /\ b.intrinsic # None =>
              \/ b.intrinsic = 0
              \/ /\ b.intrinsic \in Nat /\ p["harmful"] + p["correct"] > 0
                 /\ b.intrinsic * (p["harmful"] + p["correct"]) =< Unit * p["harmful"]
  BY <1>1, <1>3, <1>4, ProjectionSound
<1>6. Theta =< b.upper
  BY <1>2, <1>5
<1>7. state = Classify(b, Law.rho, Law.beta, Guard, Sufficient(c))
  BY DEF State
<1> HIDE DEF state
<1>8. state # "MODEL_INCOMPATIBLE"
  <2>1. ~(b.compatibility > Law.rho + Guard)
    BY <1>1, <1>5
  <2>2. QED
    BY <1>7, <2>1 DEF Classify
<1>9. ASSUME state = "CERTIFIED" PROVE Theta =< Law.beta
  <2>1. b.upper =< Law.beta
    BY <1>7, <1>9 DEF Classify
  <2>2. QED
    BY <1>1, <1>2, <1>5, <1>6, <2>1
<1>10. ASSUME state = "INTRINSICALLY_UNCERTIFIABLE"
       PROVE  Unit * HarmfulMass > Law.beta * ResolvedMass
  <2>1. b.intrinsic # None /\ b.intrinsic > Law.beta + Guard
    BY <1>7, <1>10 DEF Classify
  <2>2. b.intrinsic \in Nat /\ ResolvedMass > 0 /\ b.intrinsic * ResolvedMass =< Unit * HarmfulMass
    BY <1>1, <1>2, <1>5, <2>1
  <2>3. Law.beta < b.intrinsic
    BY <1>1, <2>1, <2>2
  <2> DEFINE i == b.intrinsic
             r == ResolvedMass
             beta == Law.beta
             x == Unit * HarmfulMass
  <2>4. i \in Nat /\ r \in Nat /\ beta \in Nat /\ x \in Nat /\ r > 0 /\ beta < i /\ i * r =< x
    BY <1>1, <1>2, <2>2, <2>3, UnitAssumption
  <2> HIDE DEF i, r, beta, x
  <2>5. beta * r < i * r /\ beta * r \in Nat /\ i * r \in Nat
    BY <2>4
  <2>6. x > beta * r
    BY <2>4, <2>5
  <2>7. QED
    BY <2>6 DEF x, beta, r
<1>11. ~(b.upper < Theta)
  BY <1>2, <1>5, <1>6
<1>12. QED
  BY <1>8, <1>9, <1>10, <1>11 DEF Honest, state

\* What a stream has recorded is true, if its law has the information it may have.
Sound(r) ==
  TrueInformation =< Law.rho =>
    /\ r.failures["TRAJCERT"] = 0
    /\ \A i \in DOMAIN r.checkpoints : Honest(r.checkpoints[i].state)

\* A failure of another method leaves a sound record sound.
LEMMA FailingIsSound ==
  ASSUME NEW r \in Recording, Sound(r), NEW methods, "TRAJCERT" \notin methods
  PROVE  Sound(Failing(r, methods))
<1>1. "TRAJCERT" \in Methods /\ r.failures \in [Methods -> Nat]
  BY DEF Methods, Recording
<1>2. /\ Failing(r, methods).failures["TRAJCERT"] = r.failures["TRAJCERT"]
      /\ Failing(r, methods).checkpoints = r.checkpoints
  BY <1>1 DEF Failing, Recording
<1>3. QED
  BY <1>2 DEF Sound

\* An honest checkpoint leaves a sound record sound.
LEMMA RecordedIsSound ==
  ASSUME NEW r \in Recording, Sound(r), NEW n, NEW state, NEW static, NEW certifies,
         TrueInformation =< Law.rho => Honest(state)
  PROVE  Sound(Recorded(r, n, state, static, certifies))
<1> DEFINE new == [matured |-> n, state |-> state, static |-> static, ignorable |-> certifies]
           old == r.checkpoints
           q == Recorded(r, n, state, static, certifies)
<1>1. old \in Seq(Checkpoint)
  BY DEF Recording
<1>2. q.failures = r.failures /\ q.checkpoints = Append(old, new)
  BY DEF Recorded, Recording
<1>3. new.state = state
  OBVIOUS
<1> HIDE DEF old, new, q
<1>4. ASSUME TrueInformation =< Law.rho, NEW i \in DOMAIN q.checkpoints
      PROVE  Honest(q.checkpoints[i].state)
  <2>1. i \in 1..Len(old) + 1 /\ Len(old) \in Nat
        /\ Append(old, new)[i] = IF i = Len(old) + 1 THEN new ELSE old[i]
    BY <1>1, <1>2, <1>4
  <2>2. CASE i = Len(old) + 1
    BY <1>2, <1>3, <1>4, <2>1, <2>2
  <2>3. CASE i # Len(old) + 1
    <3>1. i \in DOMAIN old /\ q.checkpoints[i] = old[i]
      BY <1>1, <1>2, <2>1, <2>3
    <3>2. QED
      BY <1>4, <3>1 DEF Sound, old
  <2>4. QED
    BY <2>2, <2>3
<1>5. QED
  BY <1>2, <1>4 DEF Sound, q

\* An exclusion that is recorded leaves a sound record sound.
LEMMA ExcludedIsSound ==
  ASSUME NEW r \in Recording, Sound(r), NEW c
  PROVE  Sound(Excluded(r, c))
<1>1. Excluded(r, c).failures = r.failures /\ Excluded(r, c).checkpoints = r.checkpoints
  BY DEF Excluded, Recording
<1>2. QED
  BY <1>1 DEF Sound

\* A checkpoint of a region that has the truth.
LEMMA CheckpointIsSound ==
  ASSUME Law \in Laws, Kind \in Kinds, NEW record \in Recording, Sound(record),
         NEW c, Matured(c) \in Nat, NEW region \in Regions, region # <<>>, Has(region, Truth),
         NEW ign, NEW r \in Checkpointed(record, c, region, ign)
  PROVE  Sound(r)
<1> DEFINE Bound(b) == b \in ProjectionBounds(EnvelopeOf(region), Law.rho)
<1>1. \A b : Bound(b) /\ TrueInformation =< Law.rho => ~(b.upper < Theta) /\ Honest(State(b, c))
  BY BoundsAreHonest
<1>2. CASE ~Due(Matured(c))
  BY <1>2 DEF Checkpointed
<1>3. CASE Due(Matured(c)) /\ Kind = "coverage"
  <2>1. r \in CoverageCheckpoint(record, c, region, ign)
    BY <1>3 DEF Checkpointed
  <2>2. PICK b, static : Bound(b) /\ r = Assessed(record, c, region, ign, b, static)
    BY <2>1 DEF CoverageCheckpoint
  <2>3. PICK low : /\ "TRAJCERT" \in low => b.upper < Theta
                   /\ r = Recorded(Failing(record, low), Matured(c), State(b, c), "NONE", FALSE)
    <3> DEFINE lost == (IF region # <<>> /\ b.upper < Theta
                          THEN {"TRAJCERT", "TIME_UNIFORM_PROJECTION"} ELSE {})
                       \cup (IF static.upper < Theta THEN {"REPEATED_STATIC"} ELSE {})
                       \cup (IF Law.ignorable /\ ign.open /\ ign.interval.upper < Theta
                               THEN {"IGNORABLE_DELAY"} ELSE {})
    <3>1. "TRAJCERT" \in lost => b.upper < Theta
      OBVIOUS
    <3>2. Assessed(record, c, region, ign, b, static) =
            Recorded(Failing(record, lost), Matured(c), State(b, c), "NONE", FALSE)
      BY DEF Assessed
    <3> HIDE DEF lost
    <3>3. QED
      BY <2>2, <3>1, <3>2
  <2>4. CASE TrueInformation =< Law.rho
    <3>1. "TRAJCERT" \notin low /\ Honest(State(b, c))
      BY <1>1, <2>2, <2>3, <2>4
    <3>2. Failing(record, low) \in Recording /\ Sound(Failing(record, low))
      BY <3>1, FailingKeeps, FailingIsSound
    <3>3. QED
      BY <2>3, <3>1, <3>2, RecordedIsSound
  <2>5. CASE ~(TrueInformation =< Law.rho)
    BY <2>5 DEF Sound
  <2>6. QED
    BY <2>4, <2>5
<1>4. CASE Due(Matured(c)) /\ Kind = "power"
  <2>1. r \in PowerCheckpoint(record, c, region, ign)
    BY <1>4 DEF Checkpointed
  <2>2. PICK b, static : /\ Bound(b)
          /\ r = Recorded(record, Matured(c), State(b, c), State(static, c), IgnorableCertifies(c, ign))
    BY <2>1 DEF PowerCheckpoint
  <2>3. TrueInformation =< Law.rho => Honest(State(b, c))
    BY <1>1, <2>2
  <2>4. QED
    BY <2>2, <2>3, RecordedIsSound
<1>5. CASE Due(Matured(c)) /\ Kind = "trace"
  <2>1. r \in TraceCheckpoint(record, c, region)
    BY <1>5 DEF Checkpointed
  <2>2. PICK b : Bound(b) /\ r = Recorded(record, Matured(c), State(b, c), "NONE", FALSE)
    BY <2>1 DEF TraceCheckpoint
  <2>3. TrueInformation =< Law.rho => Honest(State(b, c))
    BY <1>1, <2>2
  <2>4. QED
    BY <2>2, <2>3, RecordedIsSound
<1>6. QED
  BY <1>2, <1>3, <1>4, <1>5 DEF Kinds

\* Narrowed by a raw region that has the truth, a region keeps it and is not empty.
LEMMA AdvancedHas ==
  ASSUME Law \in Laws, NEW c, RawRegion(c) \in [Categories(Bands) -> Interval],
         \A k \in Categories(Bands) : Within(Truth[k], RawRegion(c)[k]),
         NEW region, region = <<>> \/ (region \in Regions /\ Has(region, Truth))
  PROVE  /\ Advanced(region, c) \in Regions /\ Advanced(region, c) # <<>>
         /\ Has(Advanced(region, c), Truth)
         /\ \A k \in DOMAIN Advanced(region, c) : ~Empty(Advanced(region, c)[k])
<1> DEFINE next == Advanced(region, c)
           raw == RawRegion(c)
<1>1. Truth \in Simplex
  BY TruthIsMass
<1>2. next \in Regions /\ next # <<>>
  BY AdvancedNarrows DEF Regions
<1>3. ASSUME NEW k \in Categories(Bands)
      PROVE  Within(Truth[k], next[k]) /\ ~Empty(next[k])
  <2>1. raw[k].lower \in Int /\ raw[k].upper \in Int /\ Truth[k] \in Int
    BY <1>1, UnitAssumption DEF Interval, Mass, Simplex
  <2>2. CASE region = <<>>
    <3>1. next[k] = raw[k]
      BY <2>2 DEF Advanced
    <3>2. QED
      BY <2>1, <3>1 DEF Within, Empty
  <2>3. CASE region # <<>>
    <3>1. next[k] = [lower |-> Larger(region[k].lower, raw[k].lower),
                     upper |-> Smaller(region[k].upper, raw[k].upper)]
      BY <2>3 DEF Advanced, Intersection
    <3>2. region[k].lower \in Int /\ region[k].upper \in Int /\ Within(Truth[k], region[k])
      BY <2>3, UnitAssumption DEF Regions, Bounds, Mass, Has
    <3>3. Within(Truth[k], raw[k])
      OBVIOUS
    <3> HIDE DEF next, raw
    <3>4. QED
      BY <2>1, <3>1, <3>2, <3>3 DEF Within, Empty, Larger, Smaller
  <2>4. QED
    BY <2>2, <2>3
<1>4. DOMAIN next = Categories(Bands)
  BY <1>2 DEF Regions
<1> HIDE DEF next
<1>5. Has(next, Truth) /\ \A k \in DOMAIN next : ~Empty(next[k])
  BY <1>3, <1>4 DEF Has
<1>6. QED
  BY <1>2, <1>5 DEF next

\* While the raw regions have the truth, so has the running one; the sequence has
\* not failed, and what it has recorded is true.
TruthHeld ==
  Covered => /\ phase # "raised" /\ ~stream.violated
             /\ running # <<>> => Has(running, Truth)
             /\ Sound(stream)

\* The region that the next event gives has the truth as well.
LEMMA TruthStays ==
  StreamInv /\ TruthHeld /\ phase = "streaming" /\ position < Len(events)
  /\ (\A n \in 1..(position + 1) : \A c \in Categories(Bands) :
        Within(Truth[c], RawRegion(Prefix(n))[c])) =>
    /\ Covered
    /\ Advanced(running, Appended) \in Regions /\ Advanced(running, Appended) # <<>>
    /\ Has(Advanced(running, Appended), Truth)
    /\ \A k \in DOMAIN Advanced(running, Appended) : ~Empty(Advanced(running, Appended)[k])
    /\ MeetsSimplex(Advanced(running, Appended))
<1> DEFINE region == Advanced(running, Appended)
           raw == RawRegion(Appended)
<1> SUFFICES ASSUME StreamInv, TruthHeld, phase = "streaming", position < Len(events),
                    \A n \in 1..(position + 1) : \A c \in Categories(Bands) :
                      Within(Truth[c], RawRegion(Prefix(n))[c])
             PROVE  /\ Covered /\ region \in Regions /\ region # <<>> /\ Has(region, Truth)
                    /\ (\A k \in DOMAIN region : ~Empty(region[k])) /\ MeetsSimplex(region)
  OBVIOUS
<1>1. /\ position \in Nat /\ Appended = CountsOf(events, position + 1)
      /\ raw \in [Categories(Bands) -> Interval]
  BY NextIsCounted
<1>2. Covered
  <2>1. \A n \in 1..position : n \in 1..(position + 1)
    BY <1>1
  <2>2. Looked = position
    BY DEF Looked
  <2>3. QED
    BY <2>1, <2>2 DEF Covered
<1>3. Law \in Laws
  BY DEF StreamInv, LedgerHeld, Law
<1>4. Truth \in Simplex
  BY <1>3, TruthIsMass
<1>5. \A c \in Categories(Bands) : Within(Truth[c], raw[c])
  <2>1. position + 1 \in 1..(position + 1)
    BY <1>1
  <2>2. raw = RawRegion(Prefix(position + 1))
    BY <1>1, PrefixIsCounted
  <2> HIDE DEF raw
  <2>3. QED
    BY <2>1, <2>2
<1>6. running = <<>> \/ (running \in Regions /\ Has(running, Truth))
  BY <1>2 DEF StreamInv, RunningHeld, TruthHeld, Regions
<1>7. /\ region \in Regions /\ region # <<>> /\ Has(region, Truth)
      /\ \A k \in DOMAIN region : ~Empty(region[k])
  BY <1>1, <1>3, <1>5, <1>6, AdvancedHas
<1>8. MeetsSimplex(region)
  <2> HIDE DEF region
  <2>1. QED
    BY <1>4, <1>7, HasMeets
<1>9. QED
  BY <1>2, <1>7, <1>8

\* While the raw regions cover the truth, it is in the running region: initially ...
LEMMA TruthStarts == Init => TruthHeld
BY DEF Init, TruthHeld, Sound, NewStream, Methods

\* ... when a stream starts ...
LEMMA BeginIsTrue == StreamInv /\ StartStream => TruthHeld'
<1> SUFFICES ASSUME StreamInv, StartStream PROVE TruthHeld'
  OBVIOUS
<1>1. PICK l \in Ledgers(Kind, Law) :
        ValidLedger(l) /\ phase' = IF \A e \in l : Matures(e, Bands) THEN "streaming" ELSE "raised"
  BY DEF StartStream
<1>2. stream' = NewStream /\ running' = <<>>
  BY DEF StartStream
<1>3. l \subseteq Event
  BY LedgersAssumption DEF StreamInv, LedgerHeld, Kind, Law
<1>4. \A e \in l : Matures(e, Bands)
  BY <1>1, <1>3, CategoryCoarsens DEF ValidLedger
<1>5. phase' = "streaming"
  BY <1>1, <1>4
<1>6. NewStream.failures["TRAJCERT"] = 0 /\ NewStream.checkpoints = <<>> /\ ~NewStream.violated
  BY DEF NewStream, Methods
<1>7. Sound(stream)'
  BY <1>2, <1>6 DEF Sound
<1>8. QED
  BY <1>2, <1>5, <1>6, <1>7 DEF TruthHeld

\* What the streams are at after one more prefix has been looked at.
LEMMA LooksFurther ==
  Covered' /\ UNCHANGED <<task, events>> /\ Looked' = position + 1 =>
    \A n \in 1..(position + 1) : \A c \in Categories(Bands) :
      Within(Truth[c], RawRegion(Prefix(n))[c])
<1> SUFFICES ASSUME Covered', UNCHANGED <<task, events>>, Looked' = position + 1,
                    NEW n \in 1..(position + 1), NEW c \in Categories(Bands)
             PROVE  Within(Truth[c], RawRegion(Prefix(n))[c])
  OBVIOUS
<1>1. Truth' = Truth /\ Prefix(n)' = Prefix(n)
  BY DEF Truth, Law, Prefix
<1>2. RawRegion(Prefix(n))' = RawRegion(Prefix(n))
  BY <1>1
<1>3. n \in 1..Looked'
  OBVIOUS
<1>4. Within(Truth'[c], RawRegion(Prefix(n))'[c])
  BY <1>3 DEF Covered
<1>5. QED
  BY <1>1, <1>2, <1>4

\* What is true of a recording depends on no more than the law.
LEMMA SoundNow == UNCHANGED task /\ Sound(stream') => Sound(stream)'
BY DEF Sound, Honest, TrueInformation, Theta, HarmfulMass, ResolvedMass, Truth, Law

\* The law does not change within a task.
LEMMA HasNow == UNCHANGED task /\ Has(running', Truth) => Has(running, Truth)'
BY DEF Has, Truth, Law

\* ... when an event is counted, whose region has the truth and so is not empty ...
LEMMA AppendIsTrue == StreamInv /\ TruthHeld /\ AppendEvent => TruthHeld'
<1> SUFFICES ASSUME StreamInv, TruthHeld, AppendEvent, Covered'
             PROVE  phase' # "raised" /\ ~stream'.violated /\ Has(running, Truth)' /\ Sound(stream)'
  BY DEF TruthHeld
<1> DEFINE region == Advanced(running, Appended)
           ign == IgnorableAdvanced(ignorable, Appended)
           lost == IgnorableLost(ign)
           record == Failing(Excluded(stream, Appended), lost)
<1>1. /\ phase = "streaming" /\ position < Len(events) /\ phase' = phase
      /\ position' = position + 1 /\ UNCHANGED <<task, events>>
      /\ running' = region /\ stream' \in Checkpointed(record, Appended, region, ign)
  BY DEF AppendEvent, Streaming
<1>2. Looked' = position + 1
  BY <1>1 DEF Looked
<1>3. /\ Covered /\ region \in Regions /\ region # <<>> /\ Has(region, Truth)
  BY <1>1, <1>2, LooksFurther, TruthStays
<1>4. stream \in Recording /\ Sound(stream) /\ ~stream.violated
  BY <1>3 DEF StreamInv, RunningHeld, TruthHeld
<1>5. /\ position \in Nat /\ Matured(Appended) = position + 1
  BY <1>1, NextIsCounted
<1>6. Kind \in Kinds /\ Law \in Laws
  BY DEF StreamInv, LedgerHeld, Kind, Law
<1>7. "TRAJCERT" \notin lost
  BY DEF IgnorableLost
<1> HIDE DEF region, ign, lost
<1>8. /\ Excluded(stream, Appended) \in Recording /\ Sound(Excluded(stream, Appended))
      /\ Excluded(stream, Appended).violated = stream.violated
  BY <1>4, <1>5, ExcludedKeeps, ExcludedIsSound
<1>9. record \in Recording /\ Sound(record) /\ record.violated = stream.violated
  BY <1>7, <1>8, FailingKeeps, FailingIsSound
<1> HIDE DEF record
<1>10. Sound(stream') /\ stream'.violated = record.violated
  <2>1. Matured(Appended) \in Nat
    BY <1>5
  <2>2. Sound(stream')
    BY <1>1, <1>3, <1>6, <1>9, <2>1, CheckpointIsSound
  <2>3. stream'.violated = record.violated
    BY <1>1, <1>6, <1>9, <2>1, CheckpointKeeps
  <2>4. QED
    BY <2>2, <2>3
<1>11. Sound(stream)' /\ Has(running, Truth)'
  BY <1>1, <1>3, <1>10, SoundNow, HasNow
<1>12. QED
  BY <1>1, <1>4, <1>9, <1>10, <1>11

\* The sequence cannot empty, nor can its region miss the simplex.
LEMMA FailuresAreFalse ==
  StreamInv /\ TruthHeld /\ (SequenceEmpties \/ RegionRaises) => ~Covered'
<1> SUFFICES ASSUME StreamInv, TruthHeld, SequenceEmpties \/ RegionRaises, Covered' PROVE FALSE
  OBVIOUS
<1> DEFINE region == Advanced(running, Appended)
<1>1. /\ phase = "streaming" /\ position < Len(events) /\ UNCHANGED <<task, events>>
  BY DEF SequenceEmpties, RegionRaises, Streaming
<1>2. Looked' = position + 1
  BY <1>1 DEF SequenceEmpties, RegionRaises, Looked
<1>3. (\A k \in DOMAIN region : ~Empty(region[k])) /\ MeetsSimplex(region)
  BY <1>1, <1>2, LooksFurther, TruthStays
<1>4. (\E k \in DOMAIN region : Empty(region[k])) \/ ~MeetsSimplex(region)
  BY DEF SequenceEmpties, RegionRaises
<1>5. QED
  BY <1>3, <1>4

\* A sequence that has emptied has not covered the truth, and will not have.
LEMMA GoingOnIsFalse ==
  StreamInv /\ TruthHeld /\ AppendAfterViolation => ~Covered'
<1> SUFFICES ASSUME StreamInv, TruthHeld, AppendAfterViolation, Covered' PROVE FALSE
  OBVIOUS
<1>1. /\ phase = "streaming" /\ position < Len(events) /\ UNCHANGED <<task, events, phase>>
      /\ position' = position + 1 /\ stream.violated
  BY DEF AppendAfterViolation
<1>2. Looked' = position + 1
  BY <1>1 DEF Looked
<1>3. Covered
  BY <1>1, <1>2, LooksFurther, TruthStays
<1>4. QED
  BY <1>1, <1>3 DEF TruthHeld

\* ... and when a stream ends or the evidence is reported.
LEMMA OthersAreTrue ==
  TruthHeld /\ (EndStream \/ ReportCoverage \/ ReportPower \/ UNCHANGED vars) => TruthHeld'
<1> SUFFICES ASSUME TruthHeld, EndStream \/ ReportCoverage \/ ReportPower \/ UNCHANGED vars, Covered'
             PROVE  /\ phase' # "raised" /\ ~stream'.violated
                    /\ running' # <<>> => Has(running, Truth)'
                    /\ Sound(stream)'
  BY DEF TruthHeld
<1>1. /\ UNCHANGED <<task, events, position, running, stream>>
      /\ phase' = "raised" <=> phase = "raised"
  BY DEF EndStream, ReportCoverage, ReportPower, AllEnded, vars
<1>2. Looked' = Looked
  BY <1>1 DEF Looked
<1>3. Covered
  BY <1>1, <1>2 DEF Covered, Truth, Law, Prefix
<1>4. phase # "raised" /\ ~stream.violated /\ (running # <<>> => Has(running, Truth)) /\ Sound(stream)
  BY <1>3 DEF TruthHeld
<1>5. Sound(stream)' /\ (running' # <<>> => Has(running, Truth)')
  BY <1>1, <1>4, SoundNow, HasNow
<1>6. QED
  BY <1>1, <1>4, <1>5

\* While the raw regions of a stream have the truth its sequence does not fail, and
\* if its law has no more information than the budget allows then no upper bound is
\* below the risk and no checkpoint is wrong: for every law, partition, ledger and
\* schedule of checkpoints, and all functions that are entropies and roots.
THEOREM ValidIsNeverFalse == Spec => []ValidStreamNeverFalse
<1>1. Init => TruthHeld
  BY TruthStarts
<1>2. StreamInv /\ TruthHeld /\ [Next]_vars => TruthHeld'
  <2> SUFFICES ASSUME StreamInv, TruthHeld, [Next]_vars PROVE TruthHeld'
    OBVIOUS
  <2>1. CASE StartStream
    BY <2>1, BeginIsTrue
  <2>2. CASE AppendEvent
    BY <2>2, AppendIsTrue
  <2>3. CASE SequenceEmpties \/ RegionRaises
    BY <2>3, FailuresAreFalse DEF TruthHeld
  <2>4. CASE AppendAfterViolation
    BY <2>4, GoingOnIsFalse DEF TruthHeld
  <2>5. CASE EndStream \/ ReportCoverage \/ ReportPower \/ UNCHANGED vars
    BY <2>5, OthersAreTrue
  <2>6. QED
    BY <2>1, <2>2, <2>3, <2>4, <2>5 DEF Next
<1>3. TruthHeld => ValidStreamNeverFalse
  BY DEF TruthHeld, Sound, Honest, ValidStreamNeverFalse
<1>4. Spec => []TruthHeld
  BY <1>1, <1>2, StreamHeld, PTL DEF Spec
<1>5. QED
  BY <1>3, <1>4, PTL

-----------------------------------------------------------------------------
(* The evidence of the streams that have ended                             *)

\* The checkpoints a stream has recorded; of as many events there is one at most.
MarksOf(r) == {r.checkpoints[i].matured : i \in DOMAIN r.checkpoints}
OnceEach(r) ==
  \A i, j \in DOMAIN r.checkpoints : r.checkpoints[i].matured = r.checkpoints[j].matured => i = j

\* A power stream has the marks it has passed.  Where its sequence empties it is not
\* at a checkpoint, and the truth had been excluded: as long as no prefix excludes
\* the truth, the running region has it.
PowerStream ==
  /\ OnceEach(stream)
  /\ MarksOf(stream) = {m \in Marks : m =< position /\ (stream.violated => m < position)}
  /\ stream.violated => stream.exclusion # None
  /\ stream.exclusion = None /\ running # <<>> => Has(running, Truth)

\* A power stream that ended has all marks, or those before some event.
PowerOutcome(o) ==
  /\ OnceEach(o)
  /\ MarksOf(o) \subseteq Marks
  /\ Max(Marks) \in MarksOf(o) <=> ~o.violated
  /\ \A m, n \in Marks : m =< n /\ n \in MarksOf(o) => m \in MarksOf(o)
  /\ o.violated => o.exclusion # None

\* A sequence that emptied has failed as a certificate too.
CoverageFails(r) ==
  r.violated => r.failures["TRAJCERT"] >= 1 /\ r.failures["TIME_UNIFORM_PROJECTION"] >= 1

EvidenceHeld ==
  /\ outcomes \in Seq(Recording)
  /\ Kind = "power" /\ (phase # "between" \/ outcomes # <<>>) => Len(events) = Max(Marks)
  /\ Kind = "power" /\ phase = "streaming" => PowerStream
  /\ Kind = "power" => \A i \in DOMAIN outcomes : PowerOutcome(outcomes[i])
  /\ Kind = "coverage" => /\ phase = "streaming" => CoverageFails(stream)
                          /\ \A i \in DOMAIN outcomes : CoverageFails(outcomes[i])
  /\ EvidenceAddsUp

\* Failures that are added are no fewer, and what else is recorded stays.
LEMMA FailingAdds ==
  ASSUME NEW r \in Recording, NEW methods
  PROVE  /\ Failing(r, methods).checkpoints = r.checkpoints
         /\ Failing(r, methods).exclusion = r.exclusion
         /\ \A m \in Methods : /\ r.failures[m] =< Failing(r, methods).failures[m]
                               /\ m \in methods => Failing(r, methods).failures[m] >= 1
<1>1. \A m \in Methods : r.failures[m] \in Nat
  BY DEF Recording
<1>2. \A m \in Methods : Failing(r, methods).failures[m] = r.failures[m] + IF m \in methods THEN 1 ELSE 0
  BY DEF Failing, Recording
<1>3. Failing(r, methods).checkpoints = r.checkpoints /\ Failing(r, methods).exclusion = r.exclusion
  BY DEF Failing, Recording
<1>4. ASSUME NEW m \in Methods
      PROVE  /\ r.failures[m] =< Failing(r, methods).failures[m]
             /\ m \in methods => Failing(r, methods).failures[m] >= 1
  BY <1>1, <1>2
<1>5. QED
  BY <1>3, <1>4

\* A checkpoint at a count that has none yet is one more.
LEMMA RecordedMarks ==
  ASSUME NEW r \in Recording, NEW n \in Nat, NEW state \in ScientificState,
         NEW static \in ScientificState \cup {"NONE"}, NEW certifies \in BOOLEAN
  PROVE  LET q == Recorded(r, n, state, static, certifies)
         IN /\ q.exclusion = r.exclusion /\ q.failures = r.failures
            /\ MarksOf(q) = MarksOf(r) \cup {n}
            /\ OnceEach(r) /\ n \notin MarksOf(r) => OnceEach(q)
<1> DEFINE new == [matured |-> n, state |-> state, static |-> static, ignorable |-> certifies]
           old == r.checkpoints
           q == Recorded(r, n, state, static, certifies)
<1>1. old \in Seq(Checkpoint) /\ Len(old) \in Nat
  BY DEF Recording
<1>2. /\ q.failures = r.failures /\ q.exclusion = r.exclusion
      /\ q.checkpoints = Append(old, new)
  BY DEF Recorded, Recording
<1>3. new.matured = n
  OBVIOUS
<1> HIDE DEF old, new, q
<1>4. /\ DOMAIN q.checkpoints = 1..(Len(old) + 1) /\ DOMAIN old = 1..Len(old)
      /\ q.checkpoints[Len(old) + 1].matured = n
      /\ \A i \in 1..Len(old) : q.checkpoints[i] = old[i]
  BY <1>1, <1>2, <1>3
<1>5. \A i \in 1..(Len(old) + 1) : i = Len(old) + 1 \/ i \in 1..Len(old)
  BY <1>1
<1>6. 1..Len(old) \subseteq 1..(Len(old) + 1) /\ Len(old) + 1 \in 1..(Len(old) + 1)
  BY <1>1
<1>7. MarksOf(r) = {old[i].matured : i \in 1..Len(old)}
  BY <1>4 DEF MarksOf, old
<1>8. MarksOf(q) = MarksOf(r) \cup {n}
  <2>1. MarksOf(q) = {q.checkpoints[i].matured : i \in 1..(Len(old) + 1)}
    BY <1>4 DEF MarksOf
  <2>2. ASSUME NEW x PROVE x \in MarksOf(q) <=> x \in MarksOf(r) \cup {n}
    BY <1>4, <1>5, <1>6, <1>7, <2>1, Zenon
  <2>3. QED
    BY <2>2
<1>9. ASSUME OnceEach(r), n \notin MarksOf(r) PROVE OnceEach(q)
  <2>1. SUFFICES ASSUME NEW i \in 1..(Len(old) + 1), NEW j \in 1..(Len(old) + 1),
                        q.checkpoints[i].matured = q.checkpoints[j].matured
                 PROVE  i = j
    BY <1>4 DEF OnceEach
  <2>2. \A k \in 1..Len(old) : q.checkpoints[k].matured # n
    BY <1>4, <1>7, <1>9
  <2>3. CASE i \in 1..Len(old) /\ j \in 1..Len(old)
    BY <1>4, <1>9, <2>1, <2>3 DEF OnceEach, old
  <2>4. CASE i = Len(old) + 1 \/ j = Len(old) + 1
    BY <1>4, <1>5, <2>1, <2>2, <2>4
  <2>5. QED
    BY <1>5, <2>3, <2>4
<1>10. QED
  BY <1>2, <1>8, <1>9 DEF q

\* What a checkpoint of a power stream adds.
LEMMA PowerMarks ==
  ASSUME Kind = "power", NEW record \in Recording, NEW c, Matured(c) \in Nat, NEW region, NEW ign,
         NEW r \in Checkpointed(record, c, region, ign)
  PROVE  /\ r.exclusion = record.exclusion
         /\ MarksOf(r) = MarksOf(record) \cup ({Matured(c)} \cap Marks)
         /\ OnceEach(record) /\ Matured(c) \notin MarksOf(record) => OnceEach(r)
<1>1. Due(Matured(c)) <=> Matured(c) \in Marks
  BY DEF Due
<1>2. CASE Matured(c) \notin Marks
  BY <1>1, <1>2 DEF Checkpointed
<1>3. CASE Matured(c) \in Marks
  <2>1. r \in PowerCheckpoint(record, c, region, ign)
    BY <1>1, <1>3 DEF Checkpointed
  <2>2. PICK b, static :
          r = Recorded(record, Matured(c), State(b, c), State(static, c), IgnorableCertifies(c, ign))
    BY <2>1 DEF PowerCheckpoint
  <2>3. State(b, c) \in ScientificState /\ State(static, c) \in ScientificState
    BY StateIsScientific
  <2>4. IgnorableCertifies(c, ign) \in BOOLEAN
    BY DEF IgnorableCertifies
  <2>5. /\ r.exclusion = record.exclusion /\ MarksOf(r) = MarksOf(record) \cup {Matured(c)}
        /\ OnceEach(record) /\ Matured(c) \notin MarksOf(record) => OnceEach(r)
    BY <2>2, <2>3, <2>4, RecordedMarks
  <2>6. QED
    BY <1>3, <2>5
<1>4. QED
  BY <1>2, <1>3

\* A coverage checkpoint takes no failure back.
LEMMA CoverageAdds ==
  ASSUME Kind = "coverage", NEW record \in Recording, NEW c, Matured(c) \in Nat, NEW region, NEW ign,
         NEW r \in Checkpointed(record, c, region, ign)
  PROVE  \A m \in Methods : record.failures[m] =< r.failures[m]
<1>1. \A m \in Methods : record.failures[m] \in Nat
  BY DEF Recording
<1>2. CASE ~Due(Matured(c))
  BY <1>1, <1>2 DEF Checkpointed
<1>3. CASE Due(Matured(c))
  <2>1. r \in CoverageCheckpoint(record, c, region, ign)
    BY <1>3 DEF Checkpointed
  <2>2. PICK b, static : r = Assessed(record, c, region, ign, b, static)
    BY <2>1 DEF CoverageCheckpoint
  <2>3. PICK methods : r = IF region = <<>> THEN Failing(record, methods)
                           ELSE Recorded(Failing(record, methods), Matured(c), State(b, c), "NONE", FALSE)
    BY <2>2 DEF Assessed
  <2>4. /\ Failing(record, methods) \in Recording
        /\ \A m \in Methods : record.failures[m] =< Failing(record, methods).failures[m]
    BY FailingKeeps, FailingAdds
  <2>5. r.failures = Failing(record, methods).failures
    <3>1. CASE region = <<>>
      BY <2>3, <3>1
    <3>2. CASE region # <<>>
      <4> DEFINE failed == Failing(record, methods)
                 state == State(b, c)
      <4>1. /\ failed \in Recording /\ state \in ScientificState
            /\ "NONE" \in ScientificState \cup {"NONE"} /\ FALSE \in BOOLEAN
        BY <2>4, StateIsScientific
      <4>2. r = Recorded(failed, Matured(c), state, "NONE", FALSE)
        BY <2>3, <3>2
      <4> HIDE DEF failed, state
      <4>3. r.failures = failed.failures
        BY <4>1, <4>2, RecordedMarks
      <4>4. QED
        BY <4>3 DEF failed
    <3>3. QED
      BY <3>1, <3>2
  <2>6. QED
    BY <2>4, <2>5
<1>4. QED
  BY <1>2, <1>3

\* The exclusion a power stream notes, and what it leaves.
LEMMA ExcludedNotes ==
  ASSUME Kind = "power", NEW r \in Recording, NEW c, Matured(c) \in Nat
  PROVE  /\ Excluded(r, c).checkpoints = r.checkpoints /\ Excluded(r, c).failures = r.failures
         /\ Excluded(r, c).exclusion = None => r.exclusion = None /\ ~Excludes(c)
<1>1. None \notin Nat
  BY DEF None
<1>2. /\ Excluded(r, c).checkpoints = r.checkpoints /\ Excluded(r, c).failures = r.failures
      /\ Excluded(r, c).exclusion = IF r.exclusion = None /\ Excludes(c) THEN Matured(c) ELSE r.exclusion
  BY DEF Excluded, Recording
<1>3. QED
  BY <1>1, <1>2

\* The evidence is accounted for initially ...
LEMMA EvidenceStarts == Init => EvidenceHeld
BY DEF Init, EvidenceHeld, EvidenceAddsUp, Recording, CoverageFails, PowerOutcome

\* ... when a stream starts, with a power stream's events ...
LEMMA EvidenceBegins == StreamInv /\ EvidenceHeld /\ StartStream => EvidenceHeld'
<1> SUFFICES ASSUME StreamInv, EvidenceHeld, StartStream PROVE EvidenceHeld'
  OBVIOUS
<1>1. PICK l \in Ledgers(Kind, Law) :
        /\ ledger' = l
        /\ phase' = IF \A e \in l : Matures(e, Bands) THEN "streaming" ELSE "raised"
  BY DEF StartStream
<1>2. /\ UNCHANGED <<task, outcomes, report>> /\ position' = 0 /\ running' = <<>> /\ stream' = NewStream
  BY DEF StartStream
<1>3. Kind \in Kinds /\ Law \in Laws
  BY DEF StreamInv, LedgerHeld, Kind, Law
<1>4. Kind = "power" => Len(events') = Max(Marks)
  <2>1. Sorted(events', ledger')
    BY StreamBegins DEF StreamInv, LedgerHeld
  <2>2. QED
    BY <1>1, <1>3, <2>1, LedgersAssumption DEF Sorted
<1>5. /\ NewStream.checkpoints = <<>> /\ NewStream.violated = FALSE
  BY DEF NewStream
<1>6. PowerStream'
  <2>1. OnceEach(NewStream) /\ MarksOf(NewStream) = {}
    BY <1>5 DEF OnceEach, MarksOf
  <2>2. {m \in Marks : m =< 0 /\ (NewStream.violated => m < 0)} = {}
    <3>1. \A m \in Marks : ~(m =< 0)
      BY MonitorAssumption
    <3>2. QED
      BY <3>1
  <2>3. OnceEach(stream)' /\ MarksOf(stream)' = {}
    BY <1>2, <2>1 DEF OnceEach, MarksOf
  <2>4. QED
    BY <1>2, <1>5, <2>2, <2>3 DEF PowerStream
<1>7. CoverageFails(stream)'
  BY <1>2, <1>5 DEF CoverageFails
<1>8. phase' # "reported"
  BY <1>1
<1>9. Kind' = Kind /\ \A o : PowerOutcome(o)' = PowerOutcome(o) /\ CoverageFails(o)' = CoverageFails(o)
  BY <1>2 DEF Kind, PowerOutcome, CoverageFails
<1>10. EvidenceAddsUp'
  BY <1>8 DEF EvidenceAddsUp
<1>11. QED
  BY <1>2, <1>4, <1>6, <1>7, <1>9, <1>10 DEF EvidenceHeld, PowerOutcome, CoverageFails, OnceEach, MarksOf, Kind

\* What an event that is counted leaves of the streams that have ended.
LEMMA OutcomesStay ==
  EvidenceHeld /\ phase = "streaming" /\ phase' \in {"streaming", "raised"}
  /\ UNCHANGED <<task, events, outcomes, report>>
  /\ (Kind = "power" /\ phase' = "streaming" => PowerStream')
  /\ (Kind = "coverage" /\ phase' = "streaming" => CoverageFails(stream'))
    => EvidenceHeld'
<1> SUFFICES ASSUME EvidenceHeld, phase = "streaming", phase' \in {"streaming", "raised"},
                    UNCHANGED <<task, events, outcomes, report>>,
                    Kind = "power" /\ phase' = "streaming" => PowerStream',
                    Kind = "coverage" /\ phase' = "streaming" => CoverageFails(stream')
             PROVE  EvidenceHeld'
  OBVIOUS
<1>1. EvidenceAddsUp'
  BY DEF EvidenceAddsUp
<1>2. Kind' = Kind
  BY DEF Kind
<1>3. Kind = "power" => Len(events') = Max(Marks)
  BY DEF EvidenceHeld
<1>4. QED
  BY <1>1, <1>2, <1>3 DEF EvidenceHeld, PowerOutcome, CoverageFails, OnceEach, MarksOf

\* As long as no prefix excludes the truth, the region of the next event has it.
LEMMA UnexcludedHas ==
  StreamInv /\ phase = "streaming" /\ position < Len(events) /\ ~Excludes(Appended)
  /\ (running # <<>> => Has(running, Truth)) =>
    LET region == Advanced(running, Appended)
    IN Has(region, Truth) /\ \A k \in DOMAIN region : ~Empty(region[k])
<1> SUFFICES ASSUME StreamInv, phase = "streaming", position < Len(events), ~Excludes(Appended),
                    running # <<>> => Has(running, Truth)
             PROVE  LET region == Advanced(running, Appended)
                    IN Has(region, Truth) /\ \A k \in DOMAIN region : ~Empty(region[k])
  OBVIOUS
<1>1. Law \in Laws
  BY DEF StreamInv, LedgerHeld, Law
<1>2. RawRegion(Appended) \in [Categories(Bands) -> Interval]
  BY NextIsCounted
<1>3. DOMAIN Appended = Categories(Bands)
  BY NextIsCounted DEF CountsOf
<1>4. \A k \in Categories(Bands) : Within(Truth[k], RawRegion(Appended)[k])
  BY <1>3 DEF Excludes
<1>5. running = <<>> \/ (running \in Regions /\ Has(running, Truth))
  BY DEF StreamInv, RunningHeld, Regions
<1>6. QED
  BY <1>1, <1>2, <1>4, <1>5, AdvancedHas

\* What a power stream has passed after one event more.
LEMMA MarksPassed ==
  ASSUME NEW n \in Nat, NEW S, S = {m \in Marks : m =< n}
  PROVE  /\ n + 1 \notin S
         /\ S \cup ({n + 1} \cap Marks) = {m \in Marks : m =< n + 1}
         /\ S = {m \in Marks : m =< n + 1 /\ m < n + 1}
<1>1. \A m \in Marks : m \in Nat
  BY MonitorAssumption
<1>2. \A m \in Marks : (m =< n + 1 <=> m =< n \/ m = n + 1) /\ (m =< n <=> m < n + 1)
                       /\ (m < n + 1 => m =< n + 1)
  BY <1>1
<1>3. n + 1 \notin S
  OBVIOUS
<1>4. ASSUME NEW m PROVE m \in S \cup ({n + 1} \cap Marks) <=> m \in {k \in Marks : k =< n + 1}
  BY <1>2
<1>5. ASSUME NEW m PROVE m \in S <=> m \in {k \in Marks : k =< n + 1 /\ k < n + 1}
  BY <1>2
<1>6. QED
  BY <1>3, <1>4, <1>5

\* ... when an event is counted ...
LEMMA EvidenceOfEvent == StreamInv /\ EvidenceHeld /\ AppendEvent => EvidenceHeld'
<1> SUFFICES ASSUME StreamInv, EvidenceHeld, AppendEvent PROVE EvidenceHeld'
  OBVIOUS
<1> DEFINE region == Advanced(running, Appended)
           ign == IgnorableAdvanced(ignorable, Appended)
           lost == IgnorableLost(ign)
           before == Excluded(stream, Appended)
           record == Failing(before, lost)
<1>1. /\ phase = "streaming" /\ position < Len(events) /\ ~stream.violated
      /\ position' = position + 1 /\ UNCHANGED <<task, events, outcomes, report, phase>>
      /\ running' = region /\ stream' \in Checkpointed(record, Appended, region, ign)
  BY DEF AppendEvent, Streaming
<1>2. position \in Nat /\ Matured(Appended) = position + 1 /\ Matured(Appended) \in Nat
  BY <1>1, NextIsCounted
<1>3. stream \in Recording /\ Kind \in Kinds /\ stream.violated = FALSE
  BY <1>1 DEF StreamInv, RunningHeld, LedgerHeld, Kind, Recording
<1>4. before \in Recording /\ before.violated = FALSE
  BY <1>2, <1>3, ExcludedKeeps
<1>5. record \in Recording /\ record.violated = FALSE
  <2> HIDE DEF before, lost
  <2>1. QED
    BY <1>4, FailingKeeps
<1>6. stream'.violated = FALSE
  <2> HIDE DEF record, region, ign
  <2>1. QED
    BY <1>1, <1>2, <1>3, <1>5, CheckpointKeeps
<1>7. CoverageFails(stream')
  BY <1>6 DEF CoverageFails
<1>8. ASSUME Kind = "power" PROVE PowerStream'
  <2>1. PowerStream
    BY <1>1, <1>8 DEF EvidenceHeld
  <2>2. /\ before.checkpoints = stream.checkpoints
        /\ before.exclusion = None => stream.exclusion = None /\ ~Excludes(Appended)
    BY <1>2, <1>3, <1>8, ExcludedNotes
  <2>3. record.checkpoints = before.checkpoints /\ record.exclusion = before.exclusion
    <3> HIDE DEF before, lost
    <3>1. QED
      BY <1>4, FailingAdds
  <2>4. MarksOf(record) = MarksOf(stream) /\ OnceEach(record) <=> OnceEach(stream)
    BY <2>2, <2>3 DEF MarksOf, OnceEach
  <2>5. MarksOf(stream) = {m \in Marks : m =< position}
    BY <1>1, <2>1 DEF PowerStream
  <2>6. /\ Matured(Appended) \notin MarksOf(stream)
        /\ MarksOf(stream) \cup ({Matured(Appended)} \cap Marks) = {m \in Marks : m =< position + 1}
    BY <1>2, <2>5, MarksPassed
  <2>7. stream'.exclusion = None => Has(region, Truth)
    <3>1. stream'.exclusion = record.exclusion
      <4> HIDE DEF record, region, ign
      <4>1. QED
        BY <1>1, <1>2, <1>5, <1>8, PowerMarks
    <3>2. QED
      BY <1>1, <2>1, <2>2, <2>3, <3>1, UnexcludedHas DEF PowerStream
  <2>8. MarksOf(stream') = {m \in Marks : m =< position + 1} /\ OnceEach(stream')
    <3>1. OnceEach(record) /\ Matured(Appended) \notin MarksOf(record)
          /\ MarksOf(record) = MarksOf(stream)
      BY <2>1, <2>4, <2>6 DEF PowerStream
    <3> HIDE DEF record, region, ign
    <3>2. /\ MarksOf(stream') = MarksOf(record) \cup ({Matured(Appended)} \cap Marks)
          /\ OnceEach(stream')
      BY <1>1, <1>2, <1>5, <1>8, <3>1, PowerMarks
    <3>3. QED
      BY <2>6, <3>1, <3>2
  <2>9. MarksOf(stream)' = {m \in Marks : m =< position' /\ (stream'.violated => m < position')}
    BY <1>1, <1>6, <2>8 DEF MarksOf
  <2>10. OnceEach(stream)'
    BY <2>8 DEF OnceEach
  <2>11. stream'.exclusion = None => Has(running, Truth)'
    BY <1>1, <2>7, HasNow
  <2>12. QED
    BY <1>6, <2>9, <2>10, <2>11 DEF PowerStream
<1>9. QED
  BY <1>1, <1>7, <1>8, OutcomesStay

\* A finite set of numbers is bounded.
LEMMA FiniteIsBounded ==
  ASSUME NEW S \in SUBSET Nat, IsFiniteSet(S)
  PROVE  \E top \in Nat : \A n \in S : n =< top
<1> DEFINE G == {T \in SUBSET S : \E top \in Nat : \A n \in T : n =< top}
<1>1. {} \in G
  OBVIOUS
<1>2. ASSUME NEW T \in SUBSET S, T # {}, T \ {Pick(T)} \in G PROVE T \in G
  <2>1. PICK top \in Nat : \A n \in T \ {Pick(T)} : n =< top
    BY <1>2
  <2>2. Pick(T) \in T /\ Pick(T) \in Nat /\ T \subseteq Nat
    BY <1>2, PickSmaller
  <2>3. top + Pick(T) \in Nat /\ \A n \in T : n =< top + Pick(T)
    BY <2>1, <2>2
  <2>4. QED
    BY <2>3
<1> HIDE DEF G
<1>3. S \in G
  BY <1>1, <1>2, SubsetsUp
<1>4. QED
  BY <1>3 DEF G

\* ... when the region empties, which no stream's does whose prefixes had the truth ...
LEMMA EvidenceOfEmptying == StreamInv /\ EvidenceHeld /\ SequenceEmpties => EvidenceHeld'
<1> SUFFICES ASSUME StreamInv, EvidenceHeld, SequenceEmpties PROVE EvidenceHeld'
  OBVIOUS
<1> DEFINE region == Advanced(running, Appended)
           ign == IgnorableAdvanced(ignorable, Appended)
           lost == ViolationFailures \cup IgnorableLost(ign)
           record == Emptied(stream, Appended, lost)
<1>1. /\ phase = "streaming" /\ position < Len(events) /\ ~stream.violated
      /\ position' = position + 1 /\ UNCHANGED <<task, events, outcomes, report, phase>>
      /\ running' = <<>> /\ \E k \in DOMAIN region : Empty(region[k])
      /\ Kind = "coverage" => stream' \in Checkpointed(record, Appended, <<>>, ign)
      /\ Kind # "coverage" => stream' = record
  BY DEF SequenceEmpties, Streaming
<1>2. position \in Nat /\ Matured(Appended) = position + 1 /\ Matured(Appended) \in Nat
  BY <1>1, NextIsCounted
<1>3. stream \in Recording /\ Kind \in Kinds
  BY DEF StreamInv, RunningHeld, LedgerHeld, Kind
<1>4. record \in Recording /\ record.violated
  <2> HIDE DEF lost
  <2>1. QED
    BY <1>2, <1>3, EmptiedKeeps
<1>5. ASSUME Kind = "coverage" PROVE CoverageFails(stream')
  <2>1. "TRAJCERT" \in lost \cap Methods /\ "TIME_UNIFORM_PROJECTION" \in lost \cap Methods
    BY DEF ViolationFailures, Methods
  <2>2. record.failures = Failing(stream, lost).failures
    <3> HIDE DEF lost
    <3>1. Failing(stream, lost) \in Recording
      BY <1>3, FailingKeeps
    <3>2. QED
      BY <1>5, <3>1 DEF Emptied, Recording
  <2>3. record.failures["TRAJCERT"] >= 1 /\ record.failures["TIME_UNIFORM_PROJECTION"] >= 1
    <3> HIDE DEF lost, record
    <3>1. QED
      BY <1>3, <2>1, <2>2, FailingAdds
  <2>4. \A m \in Methods : record.failures[m] =< stream'.failures[m]
    <3> HIDE DEF record, ign
    <3>1. QED
      BY <1>1, <1>2, <1>4, <1>5, CoverageAdds
  <2>5. \A m \in Methods : record.failures[m] \in Nat /\ stream'.failures[m] \in Nat
    <3>1. stream' \in Recording
      BY EmptyingKeeps DEF StreamInv, RunningHeld
    <3> HIDE DEF record
    <3>2. QED
      BY <1>4, <3>1 DEF Recording
  <2> HIDE DEF record
  <2>6. QED
    BY <2>1, <2>3, <2>4, <2>5 DEF CoverageFails
<1>6. ASSUME Kind = "power" PROVE PowerStream'
  <2> DEFINE noted == Excluded(stream, Appended)
  <2>1. PowerStream
    BY <1>1, <1>6 DEF EvidenceHeld
  <2>2. /\ noted \in Recording /\ noted.checkpoints = stream.checkpoints
        /\ noted.exclusion = None => stream.exclusion = None /\ ~Excludes(Appended)
    BY <1>2, <1>3, <1>6, ExcludedNotes, ExcludedKeeps
  <2>3. /\ stream'.checkpoints = stream.checkpoints /\ stream'.exclusion = noted.exclusion
        /\ stream'.violated
    <3>1. stream' = [noted EXCEPT !.violated = TRUE]
      BY <1>1, <1>6 DEF Emptied
    <3> HIDE DEF noted
    <3>2. QED
      BY <2>2, <3>1 DEF Recording
  <2>4. stream'.exclusion # None
    BY <1>1, <2>1, <2>2, <2>3, UnexcludedHas DEF PowerStream
  <2>5. MarksOf(stream) = {m \in Marks : m =< position}
    BY <1>1, <2>1 DEF PowerStream
  <2>6. MarksOf(stream)' = {m \in Marks : m =< position + 1 /\ m < position + 1}
    <3>1. MarksOf(stream)' = MarksOf(stream)
      BY <2>3 DEF MarksOf
    <3>2. QED
      BY <1>2, <2>5, <3>1, MarksPassed
  <2>7. MarksOf(stream)' = {m \in Marks : m =< position' /\ (stream'.violated => m < position')}
    BY <1>1, <2>3, <2>6
  <2>8. OnceEach(stream)'
    BY <2>1, <2>3 DEF OnceEach, PowerStream
  <2>9. QED
    BY <1>1, <2>4, <2>7, <2>8 DEF PowerStream
<1>7. QED
  BY <1>1, <1>5, <1>6, OutcomesStay

\* ... when a coverage stream goes on after that ...
LEMMA EvidenceGoesOn == StreamInv /\ EvidenceHeld /\ AppendAfterViolation => EvidenceHeld'
<1> SUFFICES ASSUME StreamInv, EvidenceHeld, AppendAfterViolation PROVE EvidenceHeld'
  OBVIOUS
<1> DEFINE ign == IgnorableAdvanced(ignorable, Appended)
           record == Failing(stream, IgnorableLost(ign))
<1>1. /\ Kind = "coverage" /\ phase = "streaming" /\ stream.violated /\ position < Len(events)
      /\ UNCHANGED <<task, events, outcomes, report, phase>>
      /\ stream' \in Checkpointed(record, Appended, <<>>, ign)
  BY DEF AppendAfterViolation
<1>2. Matured(Appended) \in Nat
  BY <1>1, NextIsCounted
<1>3. stream \in Recording /\ stream' \in Recording
  BY GoingOnKeeps DEF StreamInv, RunningHeld
<1>4. record \in Recording /\ \A m \in Methods : stream.failures[m] =< record.failures[m]
  <2> HIDE DEF ign
  <2>1. QED
    BY <1>3, FailingKeeps, FailingAdds
<1> HIDE DEF record, ign
<1>5. \A m \in Methods : record.failures[m] =< stream'.failures[m]
  BY <1>1, <1>2, <1>4, CoverageAdds
<1>6. \A m \in Methods : /\ stream.failures[m] \in Nat /\ record.failures[m] \in Nat
                         /\ stream'.failures[m] \in Nat
  BY <1>3, <1>4 DEF Recording
<1>7. "TRAJCERT" \in Methods /\ "TIME_UNIFORM_PROJECTION" \in Methods
  BY DEF Methods
<1>8. stream.failures["TRAJCERT"] >= 1 /\ stream.failures["TIME_UNIFORM_PROJECTION"] >= 1
  BY <1>1 DEF EvidenceHeld, CoverageFails
<1>9. CoverageFails(stream')
  BY <1>4, <1>5, <1>6, <1>7, <1>8 DEF CoverageFails
<1>10. QED
  BY <1>1, <1>9, OutcomesStay

\* ... and when a stream raises.
LEMMA EvidenceOfError == EvidenceHeld /\ RegionRaises => EvidenceHeld'
BY OutcomesStay DEF RegionRaises, Streaming

\* The last of the marks.
LEMMA LastMark == Max(Marks) \in Marks /\ \A m \in Marks : m \in Nat /\ m =< Max(Marks)
<1>1. Marks \subseteq Nat \ {0} /\ IsFiniteSet(Marks) /\ Marks # {}
  BY MonitorAssumption
<1>2. Marks \in SUBSET Nat /\ Marks \subseteq Int
  BY <1>1
<1>3. PICK top \in Nat : \A m \in Marks : m =< top
  BY <1>1, <1>2, FiniteIsBounded
<1>4. top \in Int
  OBVIOUS
<1>5. QED
  BY <1>1, <1>2, <1>3, <1>4, MostOf

\* A power stream that ends, at its last event or where its sequence emptied.
LEMMA PowerEnds ==
  ASSUME StreamInv, PowerStream, Len(events) = Max(Marks), position = Len(events) \/ stream.violated
  PROVE  PowerOutcome(stream)
<1>1. Max(Marks) \in Marks /\ \A m \in Marks : m \in Nat /\ m =< Max(Marks)
  BY LastMark
<1>2. position \in 0..Max(Marks)
  BY DEF StreamInv, LedgerHeld
<1>3. MarksOf(stream) = {m \in Marks : m =< position /\ (stream.violated => m < position)}
  BY DEF PowerStream
<1>4. Max(Marks) \in MarksOf(stream) <=> ~stream.violated
  <2>1. CASE stream.violated
    <3>1. ~(Max(Marks) < position)
      BY <1>1, <1>2
    <3>2. QED
      BY <1>3, <2>1, <3>1
  <2>2. CASE ~stream.violated
    <3>1. position = Max(Marks) /\ Max(Marks) =< position
      BY <1>1, <2>2
    <3>2. QED
      BY <1>1, <1>3, <2>2, <3>1
  <2>3. QED
    BY <2>1, <2>2
<1>5. ASSUME NEW m \in Marks, NEW n \in Marks, m =< n, n \in MarksOf(stream)
      PROVE  m \in MarksOf(stream)
  <2>1. n =< position /\ (stream.violated => n < position)
    BY <1>3, <1>5
  <2>2. m =< position /\ (n < position => m < position)
    BY <1>1, <1>2, <1>5, <2>1
  <2>3. QED
    BY <1>3, <2>1, <2>2
<1>6. MarksOf(stream) \subseteq Marks
  BY <1>3
<1>7. QED
  BY <1>4, <1>5, <1>6 DEF PowerOutcome, PowerStream

\* A stream that ends joins those that have.
LEMMA EvidenceOfEnd == StreamInv /\ EvidenceHeld /\ EndStream => EvidenceHeld'
<1> SUFFICES ASSUME StreamInv, EvidenceHeld, EndStream PROVE EvidenceHeld'
  OBVIOUS
<1>1. /\ phase = "streaming"
      /\ position = Len(events) \/ (Kind # "coverage" /\ stream.violated)
      /\ outcomes' = Append(outcomes, stream) /\ phase' = "between"
      /\ UNCHANGED <<task, events, stream, report>>
  BY DEF EndStream
<1>2. outcomes \in Seq(Recording) /\ stream \in Recording
  BY DEF EvidenceHeld, StreamInv, RunningHeld
<1>3. outcomes' \in Seq(Recording)
  BY <1>1, <1>2
<1>4. ASSUME NEW i \in DOMAIN outcomes'
      PROVE  outcomes'[i] = stream \/ (i \in DOMAIN outcomes /\ outcomes'[i] = outcomes[i])
  BY <1>1, <1>2
<1>5. Kind = "power" => Len(events) = Max(Marks)
  <2>1. phase # "between"
    BY <1>1
  <2>2. QED
    BY <2>1 DEF EvidenceHeld
<1>6. Kind = "power" => PowerOutcome(stream)
  <2>1. SUFFICES ASSUME Kind = "power" PROVE PowerOutcome(stream)
    OBVIOUS
  <2>2. PowerStream
    BY <1>1, <2>1 DEF EvidenceHeld
  <2>3. QED
    BY <1>1, <1>5, <2>1, <2>2, PowerEnds
<1>7. Kind = "coverage" => CoverageFails(stream)
  BY <1>1 DEF EvidenceHeld
<1>8. Kind = "power" => \A i \in DOMAIN outcomes' : PowerOutcome(outcomes'[i])
  BY <1>4, <1>6 DEF EvidenceHeld
<1>9. Kind = "coverage" => \A i \in DOMAIN outcomes' : CoverageFails(outcomes'[i])
  BY <1>4, <1>7 DEF EvidenceHeld
<1>10. EvidenceAddsUp'
  BY <1>1 DEF EvidenceAddsUp
<1>11. Kind' = Kind /\ (Kind = "power" => Len(events') = Max(Marks))
  BY <1>1, <1>5 DEF Kind
<1>12. QED
  BY <1>1, <1>3, <1>8, <1>9, <1>10, <1>11 DEF EvidenceHeld, PowerOutcome, OnceEach, MarksOf, CoverageFails

\* The streams that ended with a checkpoint at a mark, with some state there, or with
\* a certificate by then.
HasMark(m) == {i \in DOMAIN outcomes : m \in MarksOf(outcomes[i])}
StatedAt(m, s) ==
  {i \in DOMAIN outcomes : \E j \in DOMAIN outcomes[i].checkpoints :
     outcomes[i].checkpoints[j].matured = m /\ outcomes[i].checkpoints[j].state = s}
CertifiedBy(m) == {i \in DOMAIN outcomes : Certified(outcomes[i], m)}
EmptiedOnes == {i \in DOMAIN outcomes : outcomes[i].violated}
ExcludedOnes == {i \in DOMAIN outcomes : outcomes[i].exclusion # None}

\* Of finitely many streams that ended any part has a number, that of the larger is larger.
LEMMA StreamsAreCounted ==
  ASSUME outcomes \in Seq(Recording)
  PROVE  /\ IsFiniteSet(DOMAIN outcomes) /\ Cardinality(DOMAIN outcomes) = Len(outcomes)
         /\ \A S \in SUBSET DOMAIN outcomes : IsFiniteSet(S) /\ Cardinality(S) \in Nat
         /\ \A S, T \in SUBSET DOMAIN outcomes : S \subseteq T => Cardinality(S) =< Cardinality(T)
<1>1. DOMAIN outcomes = 1..Len(outcomes) /\ Len(outcomes) \in Nat /\ 1 \in Int
  OBVIOUS
<1>2. IsFiniteSet(DOMAIN outcomes) /\ Cardinality(DOMAIN outcomes) = Len(outcomes)
  <2>1. /\ IsFiniteSet(1..Len(outcomes))
        /\ Cardinality(1..Len(outcomes)) = IF 1 > Len(outcomes) THEN 0 ELSE Len(outcomes) - 1 + 1
    BY <1>1, FS_Interval
  <2>2. QED
    BY <1>1, <2>1
<1>3. \A S \in SUBSET DOMAIN outcomes : IsFiniteSet(S) /\ Cardinality(S) \in Nat
  BY <1>2, FS_Subset, FS_CardinalityType
<1>4. ASSUME NEW S \in SUBSET DOMAIN outcomes, NEW T \in SUBSET DOMAIN outcomes, S \subseteq T
      PROVE  Cardinality(S) =< Cardinality(T)
  <2>1. IsFiniteSet(T) /\ S \in SUBSET T
    BY <1>3, <1>4
  <2>2. QED
    BY <2>1, FS_Subset
<1>5. QED
  BY <1>2, <1>3, <1>4

\* At a mark a stream is in one state: counted by their states, the streams that have
\* the mark are counted once each.
LEMMA StatesAddUp ==
  ASSUME outcomes \in Seq(Recording), \A i \in DOMAIN outcomes : OnceEach(outcomes[i]),
         NEW m, NEW h, DOMAIN h = ScientificState, \A s \in ScientificState : h[s] = AtMark(m, s)
  PROVE  SumFunction(h) = Cardinality(HasMark(m))
<1> DEFINE S == HasMark(m)
           At(i) == CHOOSE j \in DOMAIN outcomes[i].checkpoints : outcomes[i].checkpoints[j].matured = m
           k == [i \in S |-> outcomes[i].checkpoints[At(i)].state]
<1>1. ASSUME NEW i \in S
      PROVE  /\ At(i) \in DOMAIN outcomes[i].checkpoints
             /\ outcomes[i].checkpoints[At(i)].matured = m
             /\ i \in DOMAIN outcomes
             /\ outcomes[i].checkpoints \in Seq(Checkpoint)
  <2>1. i \in DOMAIN outcomes /\ \E j \in DOMAIN outcomes[i].checkpoints : outcomes[i].checkpoints[j].matured = m
    BY DEF HasMark, MarksOf
  <2>2. outcomes[i] \in Recording
    BY <2>1
  <2>3. outcomes[i].checkpoints \in Seq(Checkpoint)
    BY <2>2 DEF Recording
  <2>4. QED
    BY <2>1, <2>3
<1>2. ASSUME NEW i \in S
      PROVE  /\ outcomes[i].checkpoints[At(i)].state \in ScientificState
             /\ \A j \in DOMAIN outcomes[i].checkpoints : outcomes[i].checkpoints[j].matured = m => j = At(i)
  <2>1. /\ At(i) \in DOMAIN outcomes[i].checkpoints /\ outcomes[i].checkpoints[At(i)].matured = m
        /\ i \in DOMAIN outcomes /\ outcomes[i].checkpoints \in Seq(Checkpoint)
    BY <1>1
  <2> HIDE DEF At
  <2>2. outcomes[i].checkpoints[At(i)] \in Checkpoint
    BY <2>1
  <2>3. outcomes[i].checkpoints[At(i)].state \in ScientificState
    BY <2>2 DEF Checkpoint
  <2>4. OnceEach(outcomes[i])
    BY <2>1
  <2>5. QED
    BY <2>1, <2>3, <2>4 DEF OnceEach
<1> HIDE DEF At
<1>3. k \in [S -> ScientificState]
  BY <1>2
<1>4. \A s : Class(S, k, s) = StatedAt(m, s)
  <2>1. TAKE s
  <2>2. ASSUME NEW i \in Class(S, k, s) PROVE i \in StatedAt(m, s)
    BY <1>1, <2>2 DEF Class, StatedAt
  <2>3. ASSUME NEW i \in StatedAt(m, s) PROVE i \in Class(S, k, s)
    <3>1. PICK j \in DOMAIN outcomes[i].checkpoints :
            outcomes[i].checkpoints[j].matured = m /\ outcomes[i].checkpoints[j].state = s
      BY DEF StatedAt
    <3>2. i \in S
      BY <3>1 DEF StatedAt, HasMark, MarksOf
    <3>3. j = At(i)
      BY <1>2, <3>1, <3>2
    <3>4. QED
      BY <3>1, <3>2, <3>3 DEF Class
  <2>4. QED
    BY <2>2, <2>3
<1>5. \A s \in ScientificState : h[s] = Cardinality(Class(S, k, s))
  <2>1. \A s \in ScientificState : AtMark(m, s) = Cardinality(StatedAt(m, s))
    BY DEF AtMark, Number, StatedAt
  <2> HIDE DEF k, S
  <2>2. QED
    BY <1>4, <2>1
<1>6. IsFiniteSet(S)
  BY StreamsAreCounted DEF HasMark
<1>7. IsFiniteSet(ScientificState)
  <2>1. /\ IsFiniteSet({"INSUFFICIENT_EVIDENCE"}) /\ IsFiniteSet({"MODEL_INCOMPATIBLE"})
        /\ IsFiniteSet({"INTRINSICALLY_UNCERTIFIABLE"}) /\ IsFiniteSet({"CERTIFIED"})
        /\ IsFiniteSet({"UNCERTIFIED"})
    BY FS_Singleton
  <2>2. \A A, B : IsFiniteSet(A) /\ IsFiniteSet(B) => IsFiniteSet(A \cup B)
    BY FS_Union
  <2> DEFINE two == {"CERTIFIED"} \cup {"UNCERTIFIED"}
             three == {"INTRINSICALLY_UNCERTIFIABLE"} \cup two
             four == {"MODEL_INCOMPATIBLE"} \cup three
  <2>3. ScientificState = {"INSUFFICIENT_EVIDENCE"} \cup four
    BY DEF ScientificState
  <2>4. IsFiniteSet(two)
    BY <2>1, <2>2
  <2> HIDE DEF two
  <2>5. IsFiniteSet(three)
    BY <2>1, <2>2, <2>4
  <2> HIDE DEF three
  <2>6. IsFiniteSet(four)
    BY <2>1, <2>2, <2>5
  <2> HIDE DEF four
  <2>7. QED
    BY <2>1, <2>2, <2>3, <2>6
<1> HIDE DEF S, k
<1>8. SumFunctionOnSet(h, ScientificState) = Cardinality(S)
  BY <1>3, <1>5, <1>6, <1>7, CountByClass
<1>9. SumFunction(h) = SumFunctionOnSet(h, ScientificState)
  BY DEF SumFunction, SumFunctionOnSet, FoldFunction
<1>10. QED
  BY <1>8, <1>9 DEF S

\* A sequence that emptied is one failure at least of a method that every such has.
LEMMA EmptiedAreFailures ==
  ASSUME outcomes \in Seq(Recording), NEW m \in Methods,
         \A i \in DOMAIN outcomes : outcomes[i].violated => outcomes[i].failures[m] >= 1
  PROVE  Cardinality(EmptiedOnes) =< Failures(m)
<1> DEFINE D == DOMAIN outcomes
           V == EmptiedOnes
           k == [i \in V |-> i]
           h == [c \in D |-> Cardinality(Class(V, k, c))]
           f == [i \in D |-> outcomes[i].failures[m]]
<1>1. IsFiniteSet(D) /\ V \in SUBSET D /\ IsFiniteSet(V)
  BY StreamsAreCounted DEF EmptiedOnes
<1>2. k \in [V -> D]
  BY <1>1
<1>3. ASSUME NEW c \in D PROVE h[c] \in Int /\ f[c] \in Int /\ h[c] =< f[c]
  <2>1. f[c] \in Nat /\ f[c] = outcomes[c].failures[m]
    <3>1. outcomes[c] \in Recording
      OBVIOUS
    <3>2. QED
      BY <3>1 DEF Recording
  <2>2. CASE c \in V
    <3>1. Class(V, k, c) = {c}
      BY <2>2 DEF Class
    <3>2. h[c] = 1
      BY <3>1, FS_Singleton
    <3>3. f[c] >= 1
      BY <2>1, <2>2 DEF EmptiedOnes
    <3>4. QED
      BY <2>1, <3>2, <3>3
  <2>3. CASE c \notin V
    <3>1. Class(V, k, c) = {}
      BY <2>3 DEF Class
    <3>2. h[c] = 0
      BY <3>1, FS_EmptySet
    <3> HIDE DEF f, h
    <3>3. QED
      BY <2>1, <3>2
  <2>4. QED
    BY <2>2, <2>3
<1>4. \A c \in D : h[c] = Cardinality(Class(V, k, c))
  OBVIOUS
<1>5. Failures(m) = SumFunctionOnSet(f, D)
  BY DEF Failures, SumFunction, SumFunctionOnSet, FoldFunction
<1> HIDE DEF D, V, k, h, f
<1>6. SumFunctionOnSet(h, D) = Cardinality(V)
  BY <1>1, <1>2, <1>4, CountByClass
<1>7. SumFunctionOnSet(h, D) =< SumFunctionOnSet(f, D)
  BY <1>1, <1>3, SumRises
<1>8. QED
  BY <1>5, <1>6, <1>7 DEF V

\* ... when the evidence of coverage streams is reported ...
LEMMA CoverageReported == EvidenceHeld /\ ReportCoverage => EvidenceHeld'
<1> SUFFICES ASSUME EvidenceHeld, ReportCoverage PROVE EvidenceHeld'
  OBVIOUS
<1>1. /\ Kind = "coverage" /\ UNCHANGED <<task, events, stream, outcomes>>
      /\ \/ phase' = "rejected"
         \/ phase' = "reported" /\ report'.violations = [m \in Methods |-> CoverageCount(m)]
  BY DEF ReportCoverage
<1>2. Kind' = Kind /\ Kind # "power"
  BY <1>1 DEF Kind
<1>3. EvidenceAddsUp'
  <2>1. CASE phase' = "rejected"
    BY <2>1 DEF EvidenceAddsUp
  <2>2. CASE phase' # "rejected"
    <3>1. /\ "TRAJCERT" \in Methods /\ "TIME_UNIFORM_PROJECTION" \in Methods
          /\ "CONFIDENCE_SEQUENCE" \in Methods
      BY DEF Methods
    <3>2. /\ report'.violations["CONFIDENCE_SEQUENCE"] = CoverageCount("CONFIDENCE_SEQUENCE")
          /\ report'.violations["TRAJCERT"] = CoverageCount("TRAJCERT")
          /\ report'.violations["TIME_UNIFORM_PROJECTION"] = CoverageCount("TIME_UNIFORM_PROJECTION")
      BY <1>1, <2>2, <3>1
    <3>3. CoverageCount("CONFIDENCE_SEQUENCE") = Cardinality(EmptiedOnes)
      BY DEF CoverageCount, Number, EmptiedOnes
    <3>4. /\ CoverageCount("TRAJCERT") = Failures("TRAJCERT")
          /\ CoverageCount("TIME_UNIFORM_PROJECTION") = Failures("TIME_UNIFORM_PROJECTION")
      BY DEF CoverageCount
    <3>5. outcomes \in Seq(Recording) /\ \A i \in DOMAIN outcomes : CoverageFails(outcomes[i])
      BY <1>1 DEF EvidenceHeld
    <3>6. /\ Cardinality(EmptiedOnes) =< Failures("TRAJCERT")
          /\ Cardinality(EmptiedOnes) =< Failures("TIME_UNIFORM_PROJECTION")
      BY <3>1, <3>5, EmptiedAreFailures DEF CoverageFails
    <3>7. QED
      BY <1>2, <3>2, <3>3, <3>4, <3>6 DEF EvidenceAddsUp
  <2>3. QED
    BY <2>1, <2>2
<1>4. phase' # "streaming"
  BY <1>1
<1>5. QED
  BY <1>1, <1>2, <1>3, <1>4 DEF EvidenceHeld, CoverageFails

\* The numbers of a power report are those of the streams that ended.
LEMMA PowerAddsUp ==
  ASSUME outcomes \in Seq(Recording), Len(outcomes) = Streams, Len(events) = Max(Marks),
         \A i \in DOMAIN outcomes : PowerOutcome(outcomes[i]),
         Max(Marks) \in Marks
  PROVE  LET By(m) == [s \in ScientificState |-> AtMark(m, s)]
             Evaluated(m) == SumFunction(By(m))
         IN /\ Evaluated(Max(Marks)) + Cardinality(EmptiedOnes) = Streams
            /\ Cardinality(EmptiedOnes) =< Cardinality(ExcludedOnes)
            /\ \A m, n \in Marks : m =< n => /\ Evaluated(n) =< Evaluated(m)
                                             /\ Ever(m) =< Ever(n)
<1> DEFINE By(m) == [s \in ScientificState |-> AtMark(m, s)]
           Evaluated(m) == SumFunction(By(m))
<1>1. \A i \in DOMAIN outcomes : OnceEach(outcomes[i])
  BY DEF PowerOutcome
<1>2. ASSUME NEW m PROVE Evaluated(m) = Cardinality(HasMark(m))
  <2>1. DOMAIN By(m) = ScientificState /\ \A s \in ScientificState : By(m)[s] = AtMark(m, s)
    OBVIOUS
  <2> HIDE DEF By
  <2>2. QED
    BY <1>1, <2>1, StatesAddUp
<1> HIDE DEF Evaluated
<1>3. /\ \A m : HasMark(m) \in SUBSET DOMAIN outcomes /\ CertifiedBy(m) \in SUBSET DOMAIN outcomes
      /\ EmptiedOnes \in SUBSET DOMAIN outcomes /\ ExcludedOnes \in SUBSET DOMAIN outcomes
  BY DEF HasMark, CertifiedBy, EmptiedOnes, ExcludedOnes
<1>4. Evaluated(Max(Marks)) + Cardinality(EmptiedOnes) = Streams
  <2>1. HasMark(Max(Marks)) = DOMAIN outcomes \ EmptiedOnes
    BY DEF HasMark, EmptiedOnes, PowerOutcome
  <2>2. DOMAIN outcomes \cap EmptiedOnes = EmptiedOnes
    BY <1>3
  <2>3. IsFiniteSet(DOMAIN outcomes) /\ Cardinality(DOMAIN outcomes) = Streams
        /\ Cardinality(EmptiedOnes) \in Nat
    BY <1>3, StreamsAreCounted
  <2>4. Cardinality(HasMark(Max(Marks))) = Streams - Cardinality(EmptiedOnes)
    BY <2>1, <2>2, <2>3, FS_Difference
  <2>5. Streams \in Nat
    BY MonitorAssumption
  <2>6. QED
    BY <1>2, <2>3, <2>4, <2>5
<1>5. Cardinality(EmptiedOnes) =< Cardinality(ExcludedOnes)
  <2>1. EmptiedOnes \subseteq ExcludedOnes
    BY DEF EmptiedOnes, ExcludedOnes, PowerOutcome
  <2>2. QED
    BY <1>3, <2>1, StreamsAreCounted
<1>6. ASSUME NEW m \in Marks, NEW n \in Marks, m =< n
      PROVE  Evaluated(n) =< Evaluated(m) /\ Ever(m) =< Ever(n)
  <2>1. HasMark(n) \subseteq HasMark(m)
    BY <1>6 DEF HasMark, PowerOutcome
  <2>2. CertifiedBy(m) \subseteq CertifiedBy(n)
    <3>1. SUFFICES ASSUME NEW i \in CertifiedBy(m) PROVE i \in CertifiedBy(n)
      OBVIOUS
    <3>2. PICK j \in DOMAIN outcomes[i].checkpoints :
            /\ outcomes[i].checkpoints[j].state = "CERTIFIED"
            /\ outcomes[i].checkpoints[j].matured =< m
      BY DEF CertifiedBy, Certified
    <3>3. i \in DOMAIN outcomes /\ outcomes[i].checkpoints \in Seq(Checkpoint)
      <4>1. i \in DOMAIN outcomes
        BY DEF CertifiedBy
      <4>2. outcomes[i] \in Recording
        BY <4>1
      <4>3. QED
        BY <4>1, <4>2 DEF Recording
    <3>4. outcomes[i].checkpoints[j] \in Checkpoint
      BY <3>3
    <3>5. outcomes[i].checkpoints[j].matured \in Nat
      BY <3>4 DEF Checkpoint
    <3>6. m \in Nat /\ n \in Nat
      BY MonitorAssumption
    <3>7. outcomes[i].checkpoints[j].matured =< n
      BY <1>6, <3>2, <3>5, <3>6
    <3>8. QED
      BY <3>2, <3>3, <3>7 DEF CertifiedBy, Certified
  <2>3. Ever(m) = Cardinality(CertifiedBy(m)) /\ Ever(n) = Cardinality(CertifiedBy(n))
    BY DEF Ever, Number, CertifiedBy
  <2>4. QED
    BY <1>2, <1>3, <2>1, <2>2, <2>3, StreamsAreCounted
<1>7. QED
  BY <1>4, <1>5, <1>6 DEF Evaluated

\* ... and when that of power streams is.
LEMMA PowerReported == EvidenceHeld /\ ReportPower => EvidenceHeld'
<1> SUFFICES ASSUME EvidenceHeld, ReportPower PROVE EvidenceHeld'
  OBVIOUS
<1> DEFINE By(m) == [s \in ScientificState |-> AtMark(m, s)]
<1>1. /\ Kind = "power" /\ Len(outcomes) = Streams
      /\ UNCHANGED <<task, events, stream, outcomes>> /\ phase' = "reported"
  BY DEF ReportPower, AllEnded
<1>2. /\ report'.marks = [m \in Marks |-> [states |-> By(m), ever |-> Ever(m)]]
      /\ report'.exclusions = Cardinality(ExcludedOnes)
      /\ report'.empty = Cardinality(EmptiedOnes)
      /\ report'.everCertified = Cardinality(CertifiedBy(Len(events)))
  BY DEF ReportPower, Number, ExcludedOnes, EmptiedOnes, CertifiedBy
<1>3. /\ outcomes \in Seq(Recording) /\ \A i \in DOMAIN outcomes : PowerOutcome(outcomes[i])
  BY <1>1 DEF EvidenceHeld
<1>4. Len(events) = Max(Marks)
  <2>1. outcomes # <<>>
    BY <1>1, <1>3, MonitorAssumption
  <2>2. QED
    BY <1>1, <2>1 DEF EvidenceHeld
<1>5. Max(Marks) \in Marks
  BY LastMark
<1>6. /\ SumFunction(By(Max(Marks))) + report'.empty = Streams
      /\ report'.empty =< report'.exclusions
      /\ \A m, n \in Marks : m =< n => /\ SumFunction(By(n)) =< SumFunction(By(m))
                                       /\ Ever(m) =< Ever(n)
  BY <1>1, <1>2, <1>3, <1>4, <1>5, PowerAddsUp
<1>7. report'.everCertified = Ever(Max(Marks))
  BY <1>2, <1>4 DEF Ever, Number, CertifiedBy
<1> HIDE DEF By
<1>8. \A m \in Marks : report'.marks[m].states = By(m) /\ report'.marks[m].ever = Ever(m)
  BY <1>2
<1>9. Kind' = "power"
  BY <1>1 DEF Kind
<1>10. EvidenceAddsUp'
  BY <1>5, <1>6, <1>7, <1>8, <1>9 DEF EvidenceAddsUp
<1>11. QED
  BY <1>1, <1>3, <1>4, <1>9, <1>10 DEF EvidenceHeld, PowerOutcome, OnceEach, MarksOf

\* The evidence accounts for every stream (combine_power_batches,
\* combine_coverage_stress_batches): of any number of streams, marks and methods'
\* comparators, whether their sequences empty or not.
THEOREM EvidenceIsComplete == Spec => []EvidenceAddsUp
<1>1. StreamInv /\ EvidenceHeld /\ [Next]_vars => EvidenceHeld'
  <2> SUFFICES ASSUME StreamInv, EvidenceHeld, [Next]_vars PROVE EvidenceHeld'
    OBVIOUS
  <2>1. CASE StartStream
    BY <2>1, EvidenceBegins
  <2>2. CASE AppendEvent
    BY <2>2, EvidenceOfEvent
  <2>3. CASE SequenceEmpties
    BY <2>3, EvidenceOfEmptying
  <2>4. CASE AppendAfterViolation
    BY <2>4, EvidenceGoesOn
  <2>5. CASE RegionRaises
    BY <2>5, EvidenceOfError
  <2>6. CASE EndStream
    BY <2>6, EvidenceOfEnd
  <2>7. CASE ReportCoverage
    BY <2>7, CoverageReported
  <2>8. CASE ReportPower
    BY <2>8, PowerReported
  <2>9. CASE UNCHANGED vars
    BY <2>9 DEF vars, EvidenceHeld, EvidenceAddsUp, PowerStream, PowerOutcome, CoverageFails,
                OnceEach, MarksOf, Kind, Has, Truth, Law
  <2>10. QED
    BY <2>1, <2>2, <2>3, <2>4, <2>5, <2>6, <2>7, <2>8, <2>9 DEF Next
<1>2. EvidenceHeld => EvidenceAddsUp
  BY DEF EvidenceHeld
<1>3. Spec => []EvidenceHeld
  BY <1>1, EvidenceStarts, StreamHeld, PTL DEF Spec
<1>4. QED
  BY <1>2, <1>3, PTL
=============================================================================
