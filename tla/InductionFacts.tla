--------------------------- MODULE InductionFacts ---------------------------
(***************************************************************************)
(* Facts that need an induction: that a recursion on numbers has a         *)
(* solution, and about the sum of a function over a finite set and about   *)
(* powers of two.                                                          *)
(*                                                                         *)
(* The induction theorems of the library take the property as an operator, *)
(* which the provers cannot instantiate. Here a property is the set of the *)
(* values that have it, and induction is the library's theorem that a      *)
(* nonempty set has a minimal element.                                     *)
(***************************************************************************)
EXTENDS Integers, FiniteSetsExt, FiniteSetTheorems, FunctionTheorems, TLAPS

-----------------------------------------------------------------------------
(* Induction *)

\* A nonempty set has an element with no other below it, in a well-founded order.
LEMMA Minimal ==
  ASSUME NEW R, NEW S, IsWellFoundedOn(R, S), NEW T \in SUBSET S, T # {}
  PROVE  \E x \in T : \A y \in T : <<y, x>> \notin R
BY WFMin

\* A finite set has no endless chain of ever smaller subsets.
LEMMA SubsetsWellFounded ==
  ASSUME NEW S, IsFiniteSet(S)
  PROVE  IsWellFoundedOn(StrictSubsetOrdering(S), SUBSET S)
<1>1. FiniteSubsetsOf(S) = SUBSET S
  BY FS_FiniteSubsetsOfFinite
<1>2. IsWellFoundedOn(StrictSubsetOrdering(S), FiniteSubsetsOf(S))
  BY FS_StrictSubsetOrderingWellFounded
<1> QED BY <1>1, <1>2

\* What 0 has, and n + 1 has whenever n has it, every number has.
LEMMA NumberInduction ==
  ASSUME NEW A, 0 \in A, \A n \in Nat : n \in A => n + 1 \in A
  PROVE  \A n \in Nat : n \in A
<1> DEFINE Bad == {n \in Nat : n \notin A}
<1> SUFFICES ASSUME Bad # {} PROVE FALSE
  OBVIOUS
<1>1. IsWellFoundedOn(OpToRel(<, Nat), Nat)
  BY NatLessThanWellFounded
<1>2. Bad \in SUBSET Nat
  OBVIOUS
<1>3. \E n \in Bad : \A m \in Bad : <<m, n>> \notin OpToRel(<, Nat)
  <2> HIDE DEF Bad
  <2> QED BY <1>1, <1>2, Minimal
<1>4. PICK n \in Bad : \A m \in Bad : <<m, n>> \notin OpToRel(<, Nat)
  BY <1>3
<1>5. n \in Nat \ {0}
  OBVIOUS
<1>6. <<n - 1, n>> \in OpToRel(<, Nat)
  BY <1>5 DEF OpToRel
<1>7. n - 1 \in A
  <2>1. n - 1 \notin Bad
    BY <1>4, <1>6
  <2> QED BY <1>5, <2>1
<1>8. (n - 1) + 1 \in A /\ (n - 1) + 1 = n
  BY <1>5, <1>7
<1> QED BY <1>5, <1>8

\* What a set has whenever all its proper subsets have it, every finite set has.
LEMMA SubsetInduction ==
  ASSUME NEW S, IsFiniteSet(S), NEW A,
         \A T \in SUBSET S : (\A U \in SUBSET T : U # T => U \in A) => T \in A
  PROVE  \A T \in SUBSET S : T \in A
<1> DEFINE Bad == {T \in SUBSET S : T \notin A}
<1> SUFFICES ASSUME Bad # {} PROVE FALSE
  OBVIOUS
<1>1. IsWellFoundedOn(StrictSubsetOrdering(S), SUBSET S)
  BY SubsetsWellFounded
<1>2. Bad \in SUBSET (SUBSET S)
  OBVIOUS
<1>3. \E T \in Bad : \A U \in Bad : <<U, T>> \notin StrictSubsetOrdering(S)
  <2> HIDE DEF Bad
  <2> QED BY <1>1, <1>2, Minimal
<1>4. PICK T \in Bad : \A U \in Bad : <<U, T>> \notin StrictSubsetOrdering(S)
  BY <1>3
<1>5. ASSUME NEW U \in SUBSET T, U # T PROVE U \in A
  <2>1. U \in SUBSET S /\ T \in SUBSET S
    OBVIOUS
  <2>2. <<U, T>> \in StrictSubsetOrdering(S)
    BY <2>1, <1>5 DEF StrictSubsetOrdering
  <2> QED BY <1>4, <2>1, <2>2
<1> QED BY <1>5

\* f is defined from the value at 0, and from its value at an earlier number.
Defined(f, base, step, before) ==
  \A n \in Nat : f[n] = IF n = 0 THEN base ELSE step[n][f[before[n]]]

\* A recursion on numbers that goes back to an earlier number has a solution.
LEMMA Recursion ==
  ASSUME NEW V, NEW base \in V, NEW step \in [Nat -> [V -> V]],
         NEW before \in [Nat -> Nat], \A n \in Nat \ {0} : before[n] < n
  PROVE  \E f \in [Nat -> V] : Defined(f, base, step, before)
<1> DEFINE Value(f, n) == IF n = 0 THEN base ELSE step[n][f[before[n]]]
           Solves(f, n) == f \in [0 .. n -> V] /\ \A m \in 0 .. n : f[m] = Value(f, m)
           Solved == {n \in Nat : \E f : Solves(f, n)}
<1>0. ASSUME NEW n \in Nat, NEW m \in 0 .. n, m # 0 PROVE before[m] \in 0 .. m - 1
  BY <1>0
<1>1. 0 \in Solved
  <2> DEFINE f == [m \in 0 .. 0 |-> base]
  <2>1. f \in [0 .. 0 -> V] /\ \A m \in 0 .. 0 : f[m] = Value(f, m)
    OBVIOUS
  <2> QED BY <2>1
<1>2. ASSUME NEW n \in Nat, n \in Solved PROVE n + 1 \in Solved
  <2>1. PICK f : Solves(f, n)
    BY <1>2
  <2> DEFINE g == [m \in 0 .. n + 1 |-> IF m <= n THEN f[m] ELSE step[m][f[before[m]]]]
  <2>2. n + 1 \in Nat \ {0} /\ before[n + 1] \in 0 .. n
    BY <1>0
  <2>3. \A m \in 0 .. n : f[m] \in V
    BY <2>1
  <2>4. step[n + 1][f[before[n + 1]]] \in V
    BY <2>2, <2>3
  <2>5. g \in [0 .. n + 1 -> V]
    <3>1. ASSUME NEW m \in 0 .. n + 1 PROVE (IF m <= n THEN f[m] ELSE step[m][f[before[m]]]) \in V
      <4>1. CASE m <= n
        BY <2>3, <4>1
      <4>2. CASE ~(m <= n)
        <5>1. m = n + 1
          BY <4>2
        <5> QED BY <2>4, <4>2, <5>1
      <4> QED BY <4>1, <4>2
    <3> QED BY <3>1
  <2>6. ASSUME NEW m \in 0 .. n + 1 PROVE g[m] = Value(g, m)
    <3>1. m # 0 => before[m] \in 0 .. n /\ g[before[m]] = f[before[m]]
      <4>1. m # 0 => before[m] \in 0 .. m - 1
        BY <1>0
      <4> QED BY <4>1
    <3>2. g[m] = IF m <= n THEN f[m] ELSE step[m][f[before[m]]]
      OBVIOUS
    <3>3. CASE m <= n
      <4>1. f[m] = Value(f, m)
        BY <2>1, <3>3
      <4> HIDE DEF g
      <4> QED BY <3>1, <3>2, <3>3, <4>1
    <3>4. CASE ~(m <= n)
      <4>1. m # 0
        BY <3>4
      <4> HIDE DEF g
      <4> QED BY <3>1, <3>2, <3>4, <4>1
    <3> QED BY <3>3, <3>4
  <2>7. Solves(g, n + 1)
    <3> HIDE DEF g
    <3> QED BY <2>5, <2>6
  <2> HIDE DEF g, Solves
  <2> QED BY <2>2, <2>7
<1>3. \A n \in Nat : \E f : Solves(f, n)
  <2>1. \A n \in Nat : n \in Solved
    <3> HIDE DEF Solved
    <3> QED BY <1>1, <1>2, NumberInduction
  <2> QED BY <2>1
\* Two solutions agree as far as both go.
<1>4. ASSUME NEW n \in Nat, NEW k \in 0 .. n, NEW f, NEW g, Solves(f, k), Solves(g, n)
      PROVE  f[k] = g[k]
  <2> DEFINE Same == {m \in Nat : \A l \in 0 .. m : l <= k => f[l] = g[l]}
  <2>1. 0 \in Same
    BY <1>4
  <2>2. ASSUME NEW m \in Nat, m \in Same PROVE m + 1 \in Same
    <3> SUFFICES ASSUME NEW l \in 0 .. m + 1, l <= k PROVE f[l] = g[l]
      OBVIOUS
    <3>1. CASE l = 0
      BY <1>4, <3>1
    <3>2. CASE l # 0
      <4>1. before[l] \in 0 .. m /\ before[l] <= k
        <5>1. before[l] \in 0 .. l - 1
          BY <1>0, <3>2
        <5> QED BY <5>1
      <4>2. f[before[l]] = g[before[l]]
        BY <2>2, <4>1
      <4>3. f[l] = step[l][f[before[l]]] /\ g[l] = step[l][g[before[l]]]
        BY <1>4, <3>2
      <4> QED BY <4>2, <4>3
    <3> QED BY <3>1, <3>2
  <2>3. k \in Nat /\ k \in Same
    <3> HIDE DEF Same
    <3> QED BY <2>1, <2>2, NumberInduction
  <2> QED BY <2>3
<1> DEFINE part == [n \in Nat |-> CHOOSE f : Solves(f, n)]
           whole == [n \in Nat |-> part[n][n]]
<1>5. ASSUME NEW n \in Nat PROVE Solves(part[n], n)
  <2>1. Solves(CHOOSE f : Solves(f, n), n)
    <3> HIDE DEF Solves
    <3> QED BY <1>3
  <2>2. part[n] = CHOOSE f : Solves(f, n)
    <3> HIDE DEF Solves
    <3> QED OBVIOUS
  <2> HIDE DEF part, Solves
  <2> QED BY <2>1, <2>2
<1>6. whole \in [Nat -> V]
  <2> HIDE DEF part
  <2>1. \A n \in Nat : part[n][n] \in V
    BY <1>5
  <2> QED BY <2>1
<1>7. ASSUME NEW n \in Nat PROVE whole[n] = Value(whole, n)
  <2> HIDE DEF part
  <2>1. CASE n = 0
    BY <1>5, <2>1
  <2>2. CASE n # 0
    <3>1. before[n] \in 0 .. n - 1 /\ before[n] \in 0 .. n /\ before[n] \in Nat
      BY <1>0, <2>2
    <3>2. part[n][n] = step[n][part[n][before[n]]]
      BY <1>5, <2>2
    <3>3. part[before[n]][before[n]] = part[n][before[n]]
      <4> HIDE DEF Solves
      <4> QED BY <1>4, <1>5, <3>1
    <3> QED BY <2>2, <3>1, <3>2, <3>3
  <2> QED BY <2>1, <2>2
<1> HIDE DEF whole
<1> QED BY <1>6, <1>7 DEF Defined

-----------------------------------------------------------------------------
(* The sum of a function over a finite set: MapThenSumSet takes the elements *)
(* in the order of CHOOSE.                                                    *)

Chosen(s) == CHOOSE x \in s : TRUE

Total(h, g, s) == IF s = {} THEN 0 ELSE h[Chosen(s)] + g[s \ {Chosen(s)}]

\* g[T] is the sum of h over T, for the subsets T of S.
Totals(h, S, g) == g = [s \in SUBSET S |-> Total(h, g, s)]

\* The element taken first is one of the set.
LEMMA ChosenElement == ASSUME NEW s, s # {} PROVE Chosen(s) \in s
BY DEF Chosen

\* The recursion that defines the sum over a finite set has a solution,
LEMMA TotalsExist ==
  ASSUME NEW S, IsFiniteSet(S), NEW h
  PROVE  \E g : Totals(h, S, g)
<1> DEFINE UpTo(n) == {s \in SUBSET S : Cardinality(s) <= n}
           A == {n \in Nat : \E g : \A s \in UpTo(n) : g[s] = Total(h, g, s)}
<1>0. ASSUME NEW s \in SUBSET S
      PROVE  /\ Cardinality(s) \in Nat /\ Cardinality(s) <= Cardinality(S)
             /\ s # {} => /\ s \ {Chosen(s)} \in SUBSET S
                          /\ Cardinality(s \ {Chosen(s)}) = Cardinality(s) - 1
             /\ Cardinality(s) = 0 <=> s = {}
  BY FS_Subset, FS_CardinalityType, FS_EmptySet, FS_RemoveElement, ChosenElement
<1>1. 0 \in A
  <2> DEFINE g == [s \in SUBSET S |-> 0]
  <2>1. ASSUME NEW s \in UpTo(0) PROVE s = {}
    <3>1. s \in SUBSET S /\ Cardinality(s) <= 0
      OBVIOUS
    <3>2. Cardinality(s) \in Nat /\ (Cardinality(s) = 0 <=> s = {})
      BY <1>0, <3>1
    <3> QED BY <3>1, <3>2
  <2>2. \A s \in UpTo(0) : g[s] = Total(h, g, s)
    BY <2>1 DEF Total
  <2> QED BY <2>2
<1>2. ASSUME NEW n \in Nat, n \in A PROVE n + 1 \in A
  <2>1. PICK f : \A s \in UpTo(n) : f[s] = Total(h, f, s)
    BY <1>2
  <2> DEFINE g == [s \in SUBSET S |-> IF Cardinality(s) <= n THEN f[s] ELSE Total(h, f, s)]
  <2>2. ASSUME NEW s \in UpTo(n + 1) PROVE g[s] = Total(h, g, s)
    <3>1. g[s] = Total(h, f, s)
      BY <2>1
    <3>2. CASE s = {}
      BY <3>1, <3>2 DEF Total
    <3>3. CASE s # {}
      <4>1. s \ {Chosen(s)} \in SUBSET S /\ Cardinality(s \ {Chosen(s)}) <= n
        BY <1>0, <3>3
      <4>2. g[s \ {Chosen(s)}] = f[s \ {Chosen(s)}]
        BY <4>1
      <4> HIDE DEF g
      <4> QED BY <3>1, <3>3, <4>2 DEF Total
    <3> QED BY <3>2, <3>3
  <2> HIDE DEF g
  <2> QED BY <2>2
<1>3. Cardinality(S) \in A
  <2>1. Cardinality(S) \in Nat
    BY <1>0
  <2> HIDE DEF A
  <2> QED BY <1>1, <1>2, <2>1, NumberInduction
<1>4. PICK f : \A s \in SUBSET S : f[s] = Total(h, f, s)
  <2>1. UpTo(Cardinality(S)) = SUBSET S
    BY <1>0
  <2> HIDE DEF UpTo
  <2> QED BY <1>3, <2>1
<1> DEFINE g == [s \in SUBSET S |-> f[s]]
<1>5. ASSUME NEW s \in SUBSET S PROVE f[s] = Total(h, g, s)
  BY <1>0, <1>4 DEF Total
<1>6. g = [s \in SUBSET S |-> Total(h, g, s)]
  <2>1. \A s \in SUBSET S : f[s] = Total(h, g, s)
    BY <1>5
  <2> QED BY <2>1
<1> QED BY <1>6 DEF Totals

\* and only one.
LEMMA TotalsUnique ==
  ASSUME NEW S, IsFiniteSet(S), NEW h, NEW f, NEW g, Totals(h, S, f), Totals(h, S, g)
  PROVE  f = g
<1> DEFINE A == {T \in SUBSET S : f[T] = g[T]}
<1>1. ASSUME NEW T \in SUBSET S, \A U \in SUBSET T : U # T => U \in A
      PROVE  T \in A
  <2>1. f[T] = Total(h, f, T) /\ g[T] = Total(h, g, T)
    BY DEF Totals
  <2>2. CASE T = {}
    BY <2>1, <2>2 DEF Total
  <2>3. CASE T # {}
    <3>1. T \ {Chosen(T)} \in SUBSET T /\ T \ {Chosen(T)} # T
      BY <2>3, ChosenElement
    <3> QED BY <1>1, <2>1, <2>3, <3>1 DEF Total
  <2> QED BY <2>2, <2>3
<1>2. \A T \in SUBSET S : T \in A
  <2> HIDE DEF A
  <2> QED BY <1>1, SubsetInduction
<1>3. \A T \in SUBSET S : f[T] = g[T]
  BY <1>2
<1> QED BY <1>3 DEF Totals

SumOf(h, S) == (CHOOSE g : Totals(h, S, g))[S]

\* Any solution gives the sum.
LEMMA SumOfIs ==
  ASSUME NEW S, IsFiniteSet(S), NEW h, NEW g, Totals(h, S, g)
  PROVE  SumOf(h, S) = g[S]
<1>1. Totals(h, S, CHOOSE f : Totals(h, S, f))
  OBVIOUS
<1> QED BY <1>1, TotalsUnique DEF SumOf

\* The sum over no elements is 0.
LEMMA SumOfEmpty ==
  ASSUME NEW h
  PROVE  SumOf(h, {}) = 0
<1>1. IsFiniteSet({})
  BY FS_EmptySet
<1>2. PICK g : Totals(h, {}, g)
  BY <1>1, TotalsExist
<1>3. g[{}] = 0
  BY <1>2 DEF Totals, Total
<1> QED BY <1>1, <1>2, <1>3, SumOfIs

\* The totals over a set are those over its subsets.
LEMMA SumOfSubset ==
  ASSUME NEW S, IsFiniteSet(S), NEW h, NEW g, Totals(h, S, g), NEW T \in SUBSET S
  PROVE  SumOf(h, T) = g[T]
<1> DEFINE f == [s \in SUBSET T |-> g[s]]
<1>1. ASSUME NEW s \in SUBSET T PROVE f[s] = Total(h, f, s)
  <2>1. g[s] = Total(h, g, s)
    BY DEF Totals
  <2>2. s # {} => s \ {Chosen(s)} \in SUBSET T
    OBVIOUS
  <2> QED BY <2>1, <2>2 DEF Total
<1>2. Totals(h, T, f)
  <2>1. f = [s \in SUBSET T |-> f[s]]
    OBVIOUS
  <2> HIDE DEF f
  <2> QED BY <1>1, <2>1 DEF Totals
<1>3. IsFiniteSet(T) /\ f[T] = g[T]
  BY FS_Subset
<1> HIDE DEF f
<1> QED BY <1>2, <1>3, SumOfIs

\* The sum is that of the rest, and the element taken first.
LEMMA SumOfChosen ==
  ASSUME NEW S, IsFiniteSet(S), NEW h, S # {}
  PROVE  SumOf(h, S) = h[Chosen(S)] + SumOf(h, S \ {Chosen(S)})
<1>1. PICK g : Totals(h, S, g)
  BY TotalsExist
<1>2. g[S] = h[Chosen(S)] + g[S \ {Chosen(S)}]
  BY <1>1 DEF Totals, Total
<1>3. SumOf(h, S) = g[S] /\ SumOf(h, S \ {Chosen(S)}) = g[S \ {Chosen(S)}]
  BY <1>1, SumOfSubset
<1> QED BY <1>2, <1>3

\* Numbers add up to a number.
LEMMA SumOfNat ==
  ASSUME NEW S, IsFiniteSet(S), NEW h, \A x \in S : h[x] \in Nat
  PROVE  SumOf(h, S) \in Nat
<1> DEFINE A == {T \in SUBSET S : SumOf(h, T) \in Nat}
<1>1. ASSUME NEW T \in SUBSET S, \A U \in SUBSET T : U # T => U \in A
      PROVE  T \in A
  <2>1. CASE T = {}
    BY <2>1, SumOfEmpty
  <2>2. CASE T # {}
    <3>1. Chosen(T) \in T /\ IsFiniteSet(T)
      BY <2>2, ChosenElement, FS_Subset
    <3>2. SumOf(h, T \ {Chosen(T)}) \in Nat
      BY <1>1, <3>1
    <3>3. SumOf(h, T) = h[Chosen(T)] + SumOf(h, T \ {Chosen(T)})
      BY <2>2, <3>1, SumOfChosen
    <3>4. h[Chosen(T)] \in Nat
      BY <3>1
    <3> QED BY <3>2, <3>3, <3>4
  <2> QED BY <2>1, <2>2
<1>2. S \in A
  <2> HIDE DEF A
  <2> QED BY <1>1, SubsetInduction
<1> QED BY <1>2

\* The sum does not depend on the element that is taken first.
LEMMA SumOfElement ==
  ASSUME NEW S, IsFiniteSet(S), NEW h, \A x \in S : h[x] \in Nat, NEW e \in S
  PROVE  SumOf(h, S) = h[e] + SumOf(h, S \ {e})
<1> DEFINE A == {T \in SUBSET S : \A x \in T : SumOf(h, T) = h[x] + SumOf(h, T \ {x})}
<1>1. ASSUME NEW T \in SUBSET S, \A U \in SUBSET T : U # T => U \in A, NEW x \in T
      PROVE  SumOf(h, T) = h[x] + SumOf(h, T \ {x})
  <2> DEFINE y == Chosen(T)
  <2>1. y \in T /\ IsFiniteSet(T) /\ IsFiniteSet(T \ {x, y})
    BY ChosenElement, FS_Subset
  <2>2. SumOf(h, T) = h[y] + SumOf(h, T \ {y})
    BY <2>1, SumOfChosen
  <2>3. CASE x = y
    BY <2>2, <2>3
  <2>4. CASE x # y
    <3> HIDE DEF y
    <3>1. T \ {y} \in A /\ T \ {x} \in A
      BY <1>1, <2>1
    <3>2. (T \ {y}) \ {x} = T \ {x, y} /\ (T \ {x}) \ {y} = T \ {x, y}
      OBVIOUS
    <3>3. SumOf(h, T \ {y}) = h[x] + SumOf(h, T \ {x, y})
      BY <2>4, <3>1, <3>2
    <3>4. SumOf(h, T \ {x}) = h[y] + SumOf(h, T \ {x, y})
      BY <2>1, <2>4, <3>1, <3>2
    <3>5. SumOf(h, T \ {x, y}) \in Nat /\ h[x] \in Nat /\ h[y] \in Nat
      BY <2>1, SumOfNat
    <3> QED BY <2>2, <3>3, <3>4, <3>5
  <2> QED BY <2>3, <2>4
<1>2. S \in A
  <2>1. ASSUME NEW T \in SUBSET S, \A U \in SUBSET T : U # T => U \in A PROVE T \in A
    BY <1>1, <2>1
  <2> HIDE DEF A
  <2> QED BY <2>1, SubsetInduction
<1> QED BY <1>2

\* A new element adds its value to the sum.
LEMMA SumOfAdded ==
  ASSUME NEW S, IsFiniteSet(S), NEW e, e \notin S,
         NEW h, \A x \in S \cup {e} : h[x] \in Nat
  PROVE  IsFiniteSet(S \cup {e}) /\ SumOf(h, S \cup {e}) = h[e] + SumOf(h, S)
<1>1. IsFiniteSet(S \cup {e}) /\ (S \cup {e}) \ {e} = S
  BY FS_AddElement
<1> QED BY <1>1, SumOfElement

\* Only the values on the set matter.
LEMMA SumOfSame ==
  ASSUME NEW S, IsFiniteSet(S), NEW f, NEW h, \A x \in S : f[x] = h[x]
  PROVE  SumOf(f, S) = SumOf(h, S)
<1>1. PICK g : Totals(f, S, g)
  BY TotalsExist
<1>2. ASSUME NEW s \in SUBSET S PROVE Total(f, g, s) = Total(h, g, s)
  BY ChosenElement DEF Total
<1>3. Totals(h, S, g)
  BY <1>1, <1>2 DEF Totals
<1> QED BY <1>1, <1>3, SumOfIs

\* A larger set of numbers has no smaller sum.
LEMMA SumOfMore ==
  ASSUME NEW T, IsFiniteSet(T), NEW h, \A x \in T : h[x] \in Nat, NEW S \in SUBSET T
  PROVE  SumOf(h, S) <= SumOf(h, T)
<1> DEFINE A == {D \in SUBSET (T \ S) : SumOf(h, S) <= SumOf(h, S \cup D)}
<1>1. ASSUME NEW U \in SUBSET T PROVE IsFiniteSet(U) /\ SumOf(h, U) \in Nat
  BY FS_Subset, SumOfNat
<1>2. ASSUME NEW D \in SUBSET (T \ S), \A E \in SUBSET D : E # D => E \in A
      PROVE  D \in A
  <2>1. CASE D = {}
    <3>1. S \cup D = S
      BY <2>1
    <3> QED BY <1>1, <3>1
  <2>2. CASE D # {}
    <3>1. PICK d : d \in D
      BY <2>2
    <3>2. PICK U : U = S \cup (D \ {d})
      OBVIOUS
    <3>3. U \in SUBSET T /\ d \notin U /\ S \cup D = U \cup {d} /\ d \in T
      BY <3>1, <3>2
    <3>4. SumOf(h, S) <= SumOf(h, U)
      <4>1. D \ {d} \in A
        BY <1>2, <3>1
      <4> QED BY <3>2, <4>1
    <3>5. SumOf(h, U \cup {d}) = h[d] + SumOf(h, U)
      BY <1>1, <3>3, SumOfAdded
    <3>6. h[d] \in Nat /\ SumOf(h, U) \in Nat /\ SumOf(h, S) \in Nat
      BY <1>1, <3>3
    <3>7. SumOf(h, S) <= SumOf(h, S \cup D)
      BY <3>3, <3>4, <3>5, <3>6
    <3> QED BY <3>7
  <2> QED BY <2>1, <2>2
<1>3. T \ S \in A
  <2>1. PICK R : R = T \ S /\ IsFiniteSet(R)
    BY <1>1
  <2>2. \A D \in SUBSET R : (\A E \in SUBSET D : E # D => E \in A) => D \in A
    BY <1>2, <2>1
  <2>3. R \in A
    <3>1. IsFiniteSet(R)
      BY <2>1
    <3> HIDE DEF A
    <3>2. \A D \in SUBSET R : D \in A
      BY <2>2, <3>1, SubsetInduction
    <3> QED BY <3>2
  <2> QED BY <2>1, <2>3
<1>4. S \cup (T \ S) = T
  OBVIOUS
<1> QED BY <1>3, <1>4

-----------------------------------------------------------------------------
(* Powers of two: 2 ^ n counts the subsets of 1 .. n *)

\* A set of n elements has 2 ^ n subsets.
LEMMA PowerIs ==
  ASSUME NEW S, IsFiniteSet(S)
  PROVE  IsFiniteSet(SUBSET S) /\ Cardinality(SUBSET S) = 2 ^ Cardinality(S)
BY FS_SUBSET

\* Those of 1 .. n are as many as any.
LEMMA PowerCounts ==
  ASSUME NEW n \in Nat
  PROVE  /\ IsFiniteSet(1 .. n) /\ Cardinality(1 .. n) = n
         /\ IsFiniteSet(SUBSET (1 .. n)) /\ Cardinality(SUBSET (1 .. n)) = 2 ^ n
<1>1. IsFiniteSet(1 .. n) /\ Cardinality(1 .. n) = n
  BY FS_Interval
<1>2. IsFiniteSet(SUBSET (1 .. n)) /\ Cardinality(SUBSET (1 .. n)) = 2 ^ Cardinality(1 .. n)
  BY <1>1, PowerIs
<1> QED BY <1>1, <1>2

\* A power of two is a positive number.
LEMMA PowerNat ==
  ASSUME NEW n \in Nat
  PROVE  2 ^ n \in Nat \ {0}
<1>1. {} \in SUBSET (1 .. n)
  OBVIOUS
<1>2. Cardinality(SUBSET (1 .. n)) \in Nat /\ Cardinality(SUBSET (1 .. n)) # 0
  BY <1>1, PowerCounts, FS_CardinalityType, FS_EmptySet
<1> QED BY <1>2, PowerCounts

\* A larger exponent does not give a smaller power.
LEMMA PowerMonotone ==
  ASSUME NEW n \in Nat, NEW m \in 0 .. n
  PROVE  2 ^ m <= 2 ^ n
<1>1. m \in Nat /\ 1 .. m \subseteq 1 .. n
  OBVIOUS
<1>2. SUBSET (1 .. m) \in SUBSET (SUBSET (1 .. n))
  BY <1>1
<1>3. /\ IsFiniteSet(SUBSET (1 .. n)) /\ Cardinality(SUBSET (1 .. n)) = 2 ^ n
      /\ Cardinality(SUBSET (1 .. m)) = 2 ^ m
  BY <1>1, PowerCounts
<1>4. Cardinality(SUBSET (1 .. m)) <= Cardinality(SUBSET (1 .. n))
  BY <1>2, <1>3, FS_Subset
<1> QED BY <1>3, <1>4

\* The recursion of the powers of two: the first one,
LEMMA PowerZero == 2 ^ 0 = 1
<1>1. 1 .. 0 = {} /\ SUBSET (1 .. 0) = {{}}
  OBVIOUS
<1>2. Cardinality({{}}) = 1
  BY FS_Singleton
<1>3. Cardinality(SUBSET (1 .. 0)) = 2 ^ 0
  BY PowerCounts
<1> QED BY <1>1, <1>2, <1>3

\* and each is twice the one before.
LEMMA PowerDoubles ==
  ASSUME NEW n \in Nat
  PROVE  2 ^ (n + 1) = 2 * 2 ^ n
<1> DEFINE k == n + 1
           Without == SUBSET (1 .. n)
           With == {T \cup {k} : T \in Without}
<1>1. SUBSET (1 .. k) = Without \cup With
  <2>1. 1 .. k = (1 .. n) \cup {k}
    OBVIOUS
  <2>2. ASSUME NEW T \in SUBSET (1 .. k) PROVE T \in Without \cup With
    <3>1. CASE k \in T
      <4>1. T \ {k} \in Without /\ T = (T \ {k}) \cup {k}
        BY <2>1, <3>1
      <4> QED BY <4>1
    <3>2. CASE k \notin T
      BY <2>1, <3>2
    <3> QED BY <3>1, <3>2
  <2>3. ASSUME NEW T \in Without PROVE T \in SUBSET (1 .. k) /\ T \cup {k} \in SUBSET (1 .. k)
    BY <2>1
  <2>4. SUBSET (1 .. k) \subseteq Without \cup With
    BY <2>2
  <2>5. Without \subseteq SUBSET (1 .. k) /\ With \subseteq SUBSET (1 .. k)
    BY <2>3
  <2> QED BY <2>4, <2>5
<1>2. Without \cap With = {}
  <2>1. k \notin 1 .. n
    OBVIOUS
  <2> QED BY <2>1
<1>3. IsFiniteSet(With) /\ Cardinality(With) = Cardinality(Without)
  <2> DEFINE f == [T \in Without |-> T \cup {k}]
  <2>1. k \notin 1 .. n
    OBVIOUS
  <2>2. f \in Bijection(Without, With)
    <3>1. \A T, U \in Without : T \cup {k} = U \cup {k} => T = U
      BY <2>1
    <3>2. \A T, U \in Without : f[T] = f[U] => T = U
      BY <3>1
    <3>3. f \in [Without -> With] /\ \A W \in With : \E T \in Without : f[T] = W
      OBVIOUS
    <3> HIDE DEF f, With, Without
    <3> QED BY <3>2, <3>3, Fun_IsBij
  <2>3. ExistsBijection(Without, With)
    BY <2>2 DEF ExistsBijection
  <2> QED BY <2>3, PowerCounts, FS_Bijection
<1>4. IsFiniteSet(Without) /\ Cardinality(Without) = 2 ^ n /\ 2 ^ n \in Nat
  BY PowerCounts, PowerNat
<1>5. Cardinality(SUBSET (1 .. k)) = 2 ^ k
  <2>1. k \in Nat
    OBVIOUS
  <2> HIDE DEF k
  <2> QED BY <2>1, PowerCounts
<1>6. /\ Cardinality(Without \cup With)
           = Cardinality(Without) + Cardinality(With) - Cardinality(Without \cap With)
      /\ Cardinality(Without \cap With) = 0
  <2> HIDE DEF With, Without
  <2> QED BY <1>2, <1>3, <1>4, FS_Union, FS_EmptySet
<1>7. 2 ^ k = 2 * 2 ^ n
  <2> HIDE DEF With, Without, k
  <2>1. Cardinality(Without \cup With) = 2 ^ k
    BY <1>1, <1>5
  <2>2. PICK c \in Nat : c = 2 ^ n
    BY <1>4
  <2>3. Cardinality(Without) = c /\ Cardinality(With) = c
    BY <1>3, <1>4, <2>2
  <2>4. Cardinality(Without \cup With) = 2 * c
    BY <1>6, <2>3
  <2> QED BY <2>1, <2>2, <2>4
<1> QED BY <1>7

\* A number is less than its power.
LEMMA PowerAbove ==
  ASSUME NEW n \in Nat
  PROVE  n < 2 ^ n
<1> DEFINE A == {m \in Nat : m < 2 ^ m}
<1>1. 0 \in A
  BY PowerZero
<1>2. ASSUME NEW m \in Nat, m \in A PROVE m + 1 \in A
  <2>1. 2 ^ (m + 1) = 2 * 2 ^ m /\ 2 ^ m \in Nat
    BY PowerDoubles, PowerNat
  <2>2. m < 2 ^ m
    BY <1>2
  <2>3. m + 1 < 2 ^ (m + 1)
    BY <2>1, <2>2
  <2> QED BY <2>3
<1>3. n \in A
  <2> HIDE DEF A
  <2> QED BY <1>1, <1>2, NumberInduction
<1> QED BY <1>3

\* A positive number lies between a power of two and the next.
LEMMA BetweenPowers ==
  ASSUME NEW n \in Nat \ {0}
  PROVE  \E k \in 0 .. n : 2 ^ k <= n /\ n < 2 ^ (k + 1)
<1> DEFINE A == {m \in Nat : m # 0 => \E k \in 0 .. m : 2 ^ k <= m /\ m < 2 ^ (k + 1)}
<1>1. 0 \in A
  OBVIOUS
<1>2. ASSUME NEW m \in Nat, m \in A PROVE m + 1 \in A
  <2>1. CASE m = 0
    <3>1. 2 ^ 0 = 1 /\ 2 ^ (0 + 1) = 2
      BY PowerZero, PowerDoubles
    <3>2. PICK j : j = 0
      OBVIOUS
    <3>3. j \in 0 .. m + 1 /\ 2 ^ j <= m + 1 /\ m + 1 < 2 ^ (j + 1)
      BY <2>1, <3>1, <3>2
    <3> QED BY <3>3
  <2>2. CASE m # 0
    <3>1. PICK k \in 0 .. m : 2 ^ k <= m /\ m < 2 ^ (k + 1)
      BY <1>2, <2>2
    <3>2. PICK p \in Nat, q \in Nat, r \in Nat :
            /\ p = 2 ^ k /\ q = 2 ^ (k + 1) /\ r = 2 ^ ((k + 1) + 1) /\ r = 2 * q
      <4>1. k \in Nat /\ k + 1 \in Nat /\ (k + 1) + 1 \in Nat
        OBVIOUS
      <4>2. 2 ^ ((k + 1) + 1) = 2 * 2 ^ (k + 1)
        BY <4>1, PowerDoubles
      <4> QED BY <4>1, <4>2, PowerNat
    <3>3. CASE m + 1 < q
      <4>1. k \in 0 .. m + 1 /\ 2 ^ k <= m + 1 /\ m + 1 < 2 ^ (k + 1)
        BY <3>1, <3>2, <3>3
      <4> QED BY <4>1
    <3>4. CASE ~(m + 1 < q)
      <4>1. PICK j : j = k + 1
        OBVIOUS
      <4>2. j \in 0 .. m + 1 /\ 2 ^ j <= m + 1 /\ m + 1 < 2 ^ (j + 1)
        BY <3>1, <3>2, <3>4, <4>1
      <4> QED BY <4>2
    <3> QED BY <3>3, <3>4
  <2> QED BY <2>1, <2>2
<1>3. n \in A
  <2> HIDE DEF A
  <2> QED BY <1>1, <1>2, NumberInduction
<1> QED BY <1>3

\* The exponents of smaller powers are smaller.
LEMMA PowerOrder ==
  ASSUME NEW m \in Nat, NEW n \in Nat, 2 ^ m < 2 ^ n
  PROVE  m < n
<1>1. ~(n <= m)
  <2> SUFFICES ASSUME n <= m PROVE FALSE
    OBVIOUS
  <2>1. 2 ^ n <= 2 ^ m /\ 2 ^ n \in Nat /\ 2 ^ m \in Nat
    BY PowerMonotone, PowerNat
  <2> QED BY <2>1
<1> QED BY <1>1

\* Doubling a number m times keeps it between the same powers, m further on.
LEMMA Doubling ==
  ASSUME NEW x \in Nat, NEW k \in Nat, 2 ^ k <= x, x < 2 ^ (k + 1), NEW m \in Nat
  PROVE  2 ^ (k + m) <= x * 2 ^ m /\ x * 2 ^ m < 2 ^ (k + 1 + m)
<1> DEFINE A == {n \in Nat : 2 ^ (k + n) <= x * 2 ^ n /\ x * 2 ^ n < 2 ^ (k + 1 + n)}
<1>1. 0 \in A
  <2>1. k + 0 = k /\ k + 1 + 0 = k + 1 /\ x * 2 ^ 0 = x
    BY PowerZero
  <2> QED BY <2>1
<1>2. ASSUME NEW n \in Nat, n \in A PROVE n + 1 \in A
  <2>1. PICK p \in Nat, q \in Nat, r \in Nat : p = 2 ^ (k + n) /\ q = 2 ^ n /\ r = 2 ^ (k + 1 + n)
    BY PowerNat
  <2>2. 2 ^ (k + (n + 1)) = 2 * p /\ 2 ^ (n + 1) = 2 * q /\ 2 ^ (k + 1 + (n + 1)) = 2 * r
    <3>1. k + (n + 1) = (k + n) + 1 /\ k + 1 + (n + 1) = (k + 1 + n) + 1
      OBVIOUS
    <3>2. 2 ^ ((k + n) + 1) = 2 * 2 ^ (k + n)
      BY PowerDoubles
    <3>3. 2 ^ ((k + 1 + n) + 1) = 2 * 2 ^ (k + 1 + n)
      BY PowerDoubles
    <3> QED BY <2>1, <3>1, <3>2, <3>3, PowerDoubles
  <2>3. p <= x * q /\ x * q < r
    BY <1>2, <2>1
  <2>4. x * q \in Nat /\ x * (2 * q) = 2 * (x * q)
    OBVIOUS
  <2>5. 2 * p <= 2 * (x * q) /\ 2 * (x * q) < 2 * r
    BY <2>3, <2>4
  <2>6. 2 ^ (k + (n + 1)) <= x * 2 ^ (n + 1) /\ x * 2 ^ (n + 1) < 2 ^ (k + 1 + (n + 1))
    BY <2>2, <2>4, <2>5
  <2> QED BY <2>6
<1>3. m \in A
  <2> HIDE DEF A
  <2> QED BY <1>1, <1>2, NumberInduction
<1> QED BY <1>3
=============================================================================
