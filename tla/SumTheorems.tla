----------------------------- MODULE SumTheorems -----------------------------
(***************************************************************************)
(* What the proofs of the ledgers need to know of sums over finite sets    *)
(* (SumFunctionOnSet of the community module Functions): that the recursion *)
(* behind it has a solution, and how the sum changes when the function     *)
(* changes.  Inductions are by WFMin: a set of counterexamples that is not *)
(* empty has a minimal element.                                            *)
(***************************************************************************)
EXTENDS Functions, FiniteSetTheorems, TLAPS

\* Induction on natural numbers, for a set of them.
LEMMA NatSetInduction ==
    ASSUME NEW G, 0 \in G, \A n \in Nat : n \in G => n + 1 \in G
    PROVE  \A n \in Nat : n \in G
  <1> SUFFICES ASSUME NEW m \in Nat, m \notin G PROVE FALSE OBVIOUS
  <1> DEFINE T == Nat \ G
             R == OpToRel(<, Nat)
  <1>1. T \subseteq Nat /\ T # {} OBVIOUS
  <1>2. IsWellFoundedOn(R, Nat) BY NatLessThanWellFounded
  <1> HIDE DEF T, R
  <1>3. PICK x \in T : \A y \in T : ~(<<y, x>> \in R) BY <1>1, <1>2, WFMin
  <1>4. x \in Nat /\ x \notin G BY <1>3 DEF T
  <1>5. x # 0 BY <1>4
  <1>6. x - 1 \in Nat /\ (x - 1) + 1 = x /\ x - 1 < x BY <1>4, <1>5
  <1>7. x - 1 \notin G BY <1>4, <1>6
  <1>8. x - 1 \in T BY <1>6, <1>7 DEF T
  <1>9. <<x - 1, x>> \in R BY <1>4, <1>6 DEF R, OpToRel
  <1>10. QED BY <1>3, <1>8, <1>9

\* Induction on the subsets of a finite set, for a set of them.
LEMMA SubsetInduction ==
    ASSUME NEW S, IsFiniteSet(S), NEW G,
           \A T \in SUBSET S : (\A U \in SUBSET T : U # T => U \in G) => T \in G
    PROVE  \A T \in SUBSET S : T \in G
  <1> SUFFICES ASSUME NEW B \in SUBSET S, B \notin G PROVE FALSE OBVIOUS
  <1> DEFINE T == (SUBSET S) \ G
             R == StrictSubsetOrdering(S)
  <1>1. T \subseteq SUBSET S /\ T # {} OBVIOUS
  <1>2. IsWellFoundedOn(R, SUBSET S)
    <2>1. FiniteSubsetsOf(S) = SUBSET S BY FS_FiniteSubsetsOfFinite
    <2>2. IsWellFoundedOn(StrictSubsetOrdering(S), FiniteSubsetsOf(S))
      BY FS_StrictSubsetOrderingWellFounded
    <2>3. QED BY <2>1, <2>2
  <1> HIDE DEF T, R
  <1>3. PICK x \in T : \A y \in T : ~(<<y, x>> \in R) BY <1>1, <1>2, WFMin
  <1>4. x \in SUBSET S /\ x \notin G BY <1>3 DEF T
  <1>5. PICK u \in SUBSET x : u # x /\ u \notin G BY <1>4
  <1>6. u \in T BY <1>4, <1>5 DEF T
  <1>7. <<u, x>> \in R BY <1>4, <1>5 DEF R, StrictSubsetOrdering
  <1>8. QED BY <1>3, <1>6, <1>7

\* The element that a sum over T takes first.
Pick(T) == CHOOSE x \in T : TRUE

\* Taking it leaves a smaller set.
LEMMA PickFacts ==
    ASSUME NEW S, IsFiniteSet(S), NEW T \in SUBSET S, T # {}
    PROVE  /\ Pick(T) \in T /\ T \ {Pick(T)} \in SUBSET S
           /\ T \ {Pick(T)} # T
           /\ Cardinality(T) \in Nat /\ Cardinality(T \ {Pick(T)}) \in Nat
           /\ Cardinality(T \ {Pick(T)}) + 1 = Cardinality(T)
  <1>1. Pick(T) \in T BY DEF Pick
  <1>2. IsFiniteSet(T) BY FS_Subset
  <1>3. Cardinality(T) \in Nat BY <1>2, FS_CardinalityType
  <1>4. /\ IsFiniteSet(T \ {Pick(T)})
        /\ Cardinality(T \ {Pick(T)}) = Cardinality(T) - 1
    BY <1>1, <1>2, FS_RemoveElement
  <1>5. Cardinality(T \ {Pick(T)}) \in Nat BY <1>4, FS_CardinalityType
  <1>6. QED BY <1>1, <1>3, <1>4, <1>5

\* The recursion behind SumFunctionOnSet: the partial sums g give those of
\* the sets with one more element.
SumStep(f, S, g) ==
    [T \in SUBSET S |-> IF T = {} THEN 0 ELSE f[Pick(T)] + g[T \ {Pick(T)}]]

\* It has a solution.
LEMMA SumExists ==
    ASSUME NEW S, IsFiniteSet(S), NEW f \in [S -> Int]
    PROVE  \E g : g = SumStep(f, S, g)
  <1> DEFINE D(n) == {T \in SUBSET S : Cardinality(T) <= n}
             Solves(g, n) == \A T \in D(n) :
                 g[T] = IF T = {} THEN 0 ELSE f[Pick(T)] + g[T \ {Pick(T)}]
             G == {n \in Nat : \E g : Solves(g, n)}
  <1>1. 0 \in G
    <2> DEFINE g == [T \in SUBSET S |-> 0]
    <2>1. \A T \in D(0) : T = {}
      <3> SUFFICES ASSUME NEW T \in D(0) PROVE T = {} OBVIOUS
      <3>1. T \in SUBSET S /\ IsFiniteSet(T) BY FS_Subset
      <3>2. Cardinality(T) \in Nat /\ Cardinality(T) <= 0 BY <3>1, FS_CardinalityType
      <3>3. Cardinality(T) = 0 BY <3>2
      <3>4. QED BY <3>1, <3>3, FS_EmptySet
    <2>2. Solves(g, 0) BY <2>1
    <2>3. QED BY <2>2
  <1>2. ASSUME NEW n \in Nat, n \in G
        PROVE  n + 1 \in G
    <2>1. PICK g : Solves(g, n) BY <1>2
    <2> DEFINE h == [T \in SUBSET S |->
                       IF T \in D(n) THEN g[T] ELSE f[Pick(T)] + g[T \ {Pick(T)}]]
    <2>2. ASSUME NEW T \in D(n + 1)
          PROVE  h[T] = IF T = {} THEN 0 ELSE f[Pick(T)] + h[T \ {Pick(T)}]
      <3>1. CASE T = {}
        <4>1. T \in D(n) BY <3>1, FS_EmptySet
        <4>2. h[T] = g[T] BY <4>1
        <4>3. QED BY <2>1, <3>1, <4>1, <4>2
      <3>2. CASE T # {}
        <4> DEFINE U == T \ {Pick(T)}
        <4>1. /\ U \in SUBSET S /\ Cardinality(U) \in Nat /\ Cardinality(T) \in Nat
              /\ Cardinality(U) + 1 = Cardinality(T)
          BY <3>2, PickFacts
        <4>2. Cardinality(T) <= n + 1 OBVIOUS
        <4>3. U \in D(n) BY <4>1, <4>2
        <4>4. h[U] = g[U] BY <4>3
        <4>5. h[T] = f[Pick(T)] + g[U]
          <5>1. CASE T \in D(n) BY <2>1, <3>2, <5>1
          <5>2. CASE T \notin D(n) BY <5>2
          <5>3. QED BY <5>1, <5>2
        <4>6. QED BY <3>2, <4>4, <4>5
      <3>3. QED BY <3>1, <3>2
    <2>3. Solves(h, n + 1) BY <2>2
    <2> HIDE DEF h, Solves
    <2>4. \E k : Solves(k, n + 1) BY <2>3
    <2>5. n + 1 \in Nat OBVIOUS
    <2>6. QED BY <2>4, <2>5
  <1> HIDE DEF G
  <1>3. \A n \in Nat : n \in G BY <1>1, <1>2, NatSetInduction
  <1>4. Cardinality(S) \in Nat BY FS_CardinalityType
  <1>5. PICK g : Solves(g, Cardinality(S)) BY <1>3, <1>4 DEF G
  <1>6. \A T \in SUBSET S : T \in D(Cardinality(S)) BY FS_Subset
  <1>7. \A T \in SUBSET S : g[T] = IF T = {} THEN 0 ELSE f[Pick(T)] + g[T \ {Pick(T)}]
    BY <1>5, <1>6
  <1> DEFINE h == [T \in SUBSET S |-> g[T]]
  <1>8. h = SumStep(f, S, h)
    <2>1. \A T \in SUBSET S : h[T] = IF T = {} THEN 0 ELSE f[Pick(T)] + h[T \ {Pick(T)}]
      BY <1>7, PickFacts
    <2>2. QED BY <2>1 DEF SumStep
  <1> HIDE DEF h
  <1>9. QED BY <1>8

\* The partial sums: every subset has one, the empty set 0, the others what
\* one element adds to the rest.
PartialSums(f, S, g) ==
    /\ g \in [SUBSET S -> Int]
    /\ g[{}] = 0
    /\ \A T \in SUBSET S : T # {} => g[T] = f[Pick(T)] + g[T \ {Pick(T)}]

\* SumFunctionOnSet is the last of the partial sums.
LEMMA SumIsPartial ==
    ASSUME NEW S, IsFiniteSet(S), NEW f \in [S -> Int]
    PROVE  \E g : PartialSums(f, S, g) /\ SumFunctionOnSet(f, S) = g[S]
  <1> DEFINE g == CHOOSE k : k = SumStep(f, S, k)
  <1>1. \E k : k = SumStep(f, S, k) BY SumExists
  <1>2. g = SumStep(f, S, g) BY <1>1
  <1>3. SumFunctionOnSet(f, S) = g[S]
    BY DEF SumFunctionOnSet, FoldFunctionOnSet, MapThenFoldSet, SumStep, Pick
  <1> HIDE DEF g
  <1>4. /\ g[{}] = 0
        /\ \A T \in SUBSET S : T # {} => g[T] = f[Pick(T)] + g[T \ {Pick(T)}]
    <2>1. \A T \in SUBSET S : g[T] = IF T = {} THEN 0 ELSE f[Pick(T)] + g[T \ {Pick(T)}]
      BY <1>2 DEF SumStep
    <2>2. QED BY <2>1
  <1>5. \A T \in SUBSET S : g[T] \in Int
    <2> DEFINE G == {T \in SUBSET S : g[T] \in Int}
    <2>1. ASSUME NEW T \in SUBSET S, \A U \in SUBSET T : U # T => U \in G
          PROVE  T \in G
      <3>1. CASE T = {} BY <1>4, <3>1
      <3>2. CASE T # {}
        <4>1. Pick(T) \in S /\ T \ {Pick(T)} \in SUBSET T /\ T \ {Pick(T)} # T
          BY <3>2, PickFacts
        <4>2. g[T \ {Pick(T)}] \in Int /\ f[Pick(T)] \in Int BY <2>1, <4>1
        <4>3. g[T] = f[Pick(T)] + g[T \ {Pick(T)}] BY <1>4, <3>2
        <4>4. g[T] \in Int BY <4>2, <4>3
        <4>5. QED BY <4>4
      <3>3. QED BY <3>1, <3>2
    <2> HIDE DEF G
    <2>2. \A T \in SUBSET S : T \in G BY <2>1, SubsetInduction
    <2>3. QED BY <2>2 DEF G
  <1>6. g \in [SUBSET S -> Int]
    <2>1. g = [T \in SUBSET S |-> g[T]] BY <1>2 DEF SumStep
    <2>2. QED BY <1>5, <2>1
  <1>7. PartialSums(f, S, g) BY <1>4, <1>6 DEF PartialSums
  <1>8. QED BY <1>3, <1>7

\* A sum of integers is an integer.
THEOREM SumType ==
    ASSUME NEW S, IsFiniteSet(S), NEW f \in [S -> Int]
    PROVE  SumFunctionOnSet(f, S) \in Int
  <1>1. PICK g : PartialSums(f, S, g) /\ SumFunctionOnSet(f, S) = g[S]
    BY SumIsPartial
  <1>2. QED BY <1>1 DEF PartialSums

\* The sum of a pointwise sum is the sum of the sums.
THEOREM SumAdd ==
    ASSUME NEW S, IsFiniteSet(S), NEW f \in [S -> Int], NEW d \in [S -> Int],
           NEW h \in [S -> Int], \A x \in S : h[x] = f[x] + d[x]
    PROVE  SumFunctionOnSet(h, S) = SumFunctionOnSet(f, S) + SumFunctionOnSet(d, S)
  <1>1. PICK a : PartialSums(f, S, a) /\ SumFunctionOnSet(f, S) = a[S]
    BY SumIsPartial
  <1>2. PICK b : PartialSums(d, S, b) /\ SumFunctionOnSet(d, S) = b[S]
    BY SumIsPartial
  <1>3. PICK c : PartialSums(h, S, c) /\ SumFunctionOnSet(h, S) = c[S]
    BY SumIsPartial
  <1> DEFINE G == {T \in SUBSET S : c[T] = a[T] + b[T]}
  <1>4. ASSUME NEW T \in SUBSET S, \A U \in SUBSET T : U # T => U \in G
        PROVE  T \in G
    <2>1. CASE T = {} BY <1>1, <1>2, <1>3, <2>1 DEF PartialSums
    <2>2. CASE T # {}
      <3> DEFINE x == Pick(T)
                 U == T \ {Pick(T)}
      <3>1. x \in S /\ U \in SUBSET T /\ U \in SUBSET S /\ U # T
        BY <2>2, PickFacts
      <3>2. /\ a[T] = f[x] + a[U] /\ b[T] = d[x] + b[U] /\ c[T] = h[x] + c[U]
        BY <1>1, <1>2, <1>3, <2>2 DEF PartialSums
      <3>3. c[U] = a[U] + b[U] BY <1>4, <3>1
      <3>4. h[x] = f[x] + d[x] BY <3>1
      <3>5. f[x] \in Int /\ d[x] \in Int /\ a[U] \in Int /\ b[U] \in Int
        BY <1>1, <1>2, <3>1 DEF PartialSums
      <3> HIDE DEF x, U
      <3>6. c[T] = a[T] + b[T] BY <3>2, <3>3, <3>4, <3>5
      <3>7. QED BY <3>6
    <2>3. QED BY <2>1, <2>2
  <1> HIDE DEF G
  <1>5. S \in G
    <2>1. \A T \in SUBSET S : T \in G BY <1>4, SubsetInduction
    <2>2. QED BY <2>1
  <1>6. QED BY <1>1, <1>2, <1>3, <1>5 DEF G

\* A sum of natural numbers is one, and at least each of its terms.
THEOREM SumNat ==
    ASSUME NEW S, IsFiniteSet(S), NEW f \in [S -> Nat]
    PROVE  /\ SumFunctionOnSet(f, S) \in Nat
           /\ \A x \in S : f[x] <= SumFunctionOnSet(f, S)
  <1>1. f \in [S -> Int] OBVIOUS
  <1>2. PICK a : PartialSums(f, S, a) /\ SumFunctionOnSet(f, S) = a[S]
    BY <1>1, SumIsPartial
  <1> DEFINE G == {T \in SUBSET S : a[T] \in Nat /\ \A x \in T : f[x] <= a[T]}
  <1>3. ASSUME NEW T \in SUBSET S, \A U \in SUBSET T : U # T => U \in G
        PROVE  T \in G
    <2>1. CASE T = {} BY <1>2, <2>1 DEF PartialSums
    <2>2. CASE T # {}
      <3> DEFINE x == Pick(T)
                 U == T \ {Pick(T)}
      <3>1. x \in S /\ U \in SUBSET T /\ U # T /\ T = U \cup {x}
        BY SMTT(30), <2>2, PickFacts
      <3>2. a[T] = f[x] + a[U] BY <1>2, <2>2 DEF PartialSums
      <3>3. a[U] \in Nat /\ \A y \in U : f[y] <= a[U] BY <1>3, <3>1
      <3> HIDE DEF x, U
      <3>4. a[T] \in Nat /\ f[x] <= a[T] BY <3>1, <3>2, <3>3
      <3>5. \A y \in U : f[y] <= a[T] BY <3>1, <3>2, <3>3
      <3>6. QED BY <3>1, <3>4, <3>5
    <2>3. QED BY <2>1, <2>2
  <1> HIDE DEF G
  <1>4. S \in G
    <2>1. \A T \in SUBSET S : T \in G BY <1>3, SubsetInduction
    <2>2. QED BY <2>1
  <1>5. QED BY <1>2, <1>4 DEF G

\* The sum of a function that is 0 everywhere but in one place.
THEOREM SumOne ==
    ASSUME NEW S, IsFiniteSet(S), NEW f \in [S -> Int], NEW x \in S,
           \A y \in S : y # x => f[y] = 0
    PROVE  SumFunctionOnSet(f, S) = f[x]
  <1>1. PICK a : PartialSums(f, S, a) /\ SumFunctionOnSet(f, S) = a[S]
    BY SumIsPartial
  <1> DEFINE G == {T \in SUBSET S : a[T] = IF x \in T THEN f[x] ELSE 0}
  <1>2. ASSUME NEW T \in SUBSET S, \A U \in SUBSET T : U # T => U \in G
        PROVE  T \in G
    <2>1. CASE T = {} BY <1>1, <2>1 DEF PartialSums
    <2>2. CASE T # {}
      <3> DEFINE z == Pick(T)
                 U == T \ {Pick(T)}
      <3>1. z \in S /\ z \in T /\ U \in SUBSET T /\ U # T /\ (x \in U <=> x \in T /\ x # z)
        BY <2>2, PickFacts
      <3>2. a[T] = f[z] + a[U] BY <1>1, <2>2 DEF PartialSums
      <3>3. a[U] = IF x \in U THEN f[x] ELSE 0 BY <1>2, <3>1
      <3>4. f[x] \in Int /\ f[z] \in Int BY <3>1
      <3> HIDE DEF z, U
      <3>5. CASE z = x BY <3>1, <3>2, <3>3, <3>4, <3>5
      <3>6. CASE z # x BY <3>1, <3>2, <3>3, <3>4, <3>6
      <3>7. QED BY <3>5, <3>6
    <2>3. QED BY <2>1, <2>2
  <1> HIDE DEF G
  <1>3. S \in G
    <2>1. \A T \in SUBSET S : T \in G BY <1>2, SubsetInduction
    <2>2. QED BY <2>1
  <1>4. QED BY <1>1, <1>3 DEF G

\* The sum of a function that is 0 everywhere.
THEOREM SumZero ==
    ASSUME NEW S, IsFiniteSet(S), NEW f \in [S -> Int], \A y \in S : f[y] = 0
    PROVE  SumFunctionOnSet(f, S) = 0
  <1>1. \A y \in S : f[y] = f[y] + f[y] OBVIOUS
  <1>2. SumFunctionOnSet(f, S) = SumFunctionOnSet(f, S) + SumFunctionOnSet(f, S)
    BY <1>1, SumAdd
  <1>3. SumFunctionOnSet(f, S) \in Int BY SumType
  <1>4. \A n \in Int : n = n + n => n = 0 OBVIOUS
  <1>5. QED BY <1>2, <1>3, <1>4, Zenon

\* What changes in one place changes the sum by as much.
THEOREM SumUpdate ==
    ASSUME NEW S, IsFiniteSet(S), NEW f \in [S -> Int], NEW x \in S, NEW v \in Int
    PROVE  SumFunctionOnSet([f EXCEPT ![x] = v], S) = SumFunctionOnSet(f, S) + (v - f[x])
  <1> DEFINE d == [y \in S |-> IF y = x THEN v - f[x] ELSE 0]
             h == [f EXCEPT ![x] = v]
  <1>1. d \in [S -> Int] /\ h \in [S -> Int] OBVIOUS
  <1>2. \A y \in S : h[y] = f[y] + d[y] OBVIOUS
  <1>3. d[x] = v - f[x] /\ \A y \in S : y # x => d[y] = 0 OBVIOUS
  <1> HIDE DEF d, h
  <1>4. SumFunctionOnSet(h, S) = SumFunctionOnSet(f, S) + SumFunctionOnSet(d, S)
    BY <1>1, <1>2, SumAdd
  <1>5. SumFunctionOnSet(d, S) = v - f[x] BY <1>1, <1>3, SumOne
  <1>6. QED BY <1>4, <1>5 DEF h

\* The same, for a change by k.
THEOREM SumShift ==
    ASSUME NEW S, IsFiniteSet(S), NEW f \in [S -> Int], NEW x \in S, NEW k \in Int,
           NEW g, g = [f EXCEPT ![x] = f[x] + k]
    PROVE  SumFunctionOnSet(g, S) = SumFunctionOnSet(f, S) + k
  <1>1. f[x] \in Int /\ f[x] + k \in Int OBVIOUS
  <1>2. SumFunctionOnSet([f EXCEPT ![x] = f[x] + k], S)
          = SumFunctionOnSet(f, S) + ((f[x] + k) - f[x])
    BY <1>1, SumUpdate
  <1>3. SumFunctionOnSet(f, S) \in Int BY SumType
  <1>4. QED BY <1>1, <1>2, <1>3

\* The function f on the set U, and 0 elsewhere.
OnlyOn(f, U, S) == [x \in S |-> IF x \in U THEN f[x] ELSE 0]

\* One more element adds its value to the sum over S.
LEMMA SumOneMore ==
    ASSUME NEW S, IsFiniteSet(S), NEW T \in SUBSET S, NEW f \in [T -> Int],
           NEW U \in SUBSET T, NEW z \in U
    PROVE  SumFunctionOnSet(OnlyOn(f, U, S), S)
             = f[z] + SumFunctionOnSet(OnlyOn(f, U \ {z}, S), S)
  <1> DEFINE h == OnlyOn(f, U, S)
             k == OnlyOn(f, U \ {z}, S)
             d == [x \in S |-> IF x = z THEN f[z] ELSE 0]
  <1>1. h \in [S -> Int] /\ k \in [S -> Int] /\ d \in [S -> Int] BY DEF OnlyOn
  <1>2. \A x \in S : h[x] = d[x] + k[x] BY DEF OnlyOn
  <1>3. z \in S /\ d[z] = f[z] /\ \A x \in S : x # z => d[x] = 0 OBVIOUS
  <1> HIDE DEF h, k, d
  <1>4. SumFunctionOnSet(h, S) = SumFunctionOnSet(d, S) + SumFunctionOnSet(k, S)
    BY <1>1, <1>2, SumAdd
  <1>5. SumFunctionOnSet(d, S) = f[z] BY <1>1, <1>3, SumOne
  <1>6. QED BY <1>4, <1>5 DEF h, k

\* A sum over a part of S is a sum over S of a function that is 0 elsewhere.
THEOREM SumPart ==
    ASSUME NEW S, IsFiniteSet(S), NEW T \in SUBSET S, NEW f \in [T -> Int]
    PROVE  SumFunctionOnSet(f, T) = SumFunctionOnSet(OnlyOn(f, T, S), S)
  <1>0. IsFiniteSet(T) BY FS_Subset
  <1>1. PICK a : PartialSums(f, T, a) /\ SumFunctionOnSet(f, T) = a[T]
    BY <1>0, SumIsPartial
  <1> DEFINE G == {U \in SUBSET T : SumFunctionOnSet(OnlyOn(f, U, S), S) = a[U]}
  <1>2. ASSUME NEW U \in SUBSET T, \A V \in SUBSET U : V # U => V \in G
        PROVE  U \in G
    <2>1. CASE U = {}
      <3> DEFINE h == OnlyOn(f, U, S)
      <3>1. h \in [S -> Int] /\ \A x \in S : h[x] = 0 BY <2>1 DEF OnlyOn
      <3> HIDE DEF h
      <3>2. SumFunctionOnSet(h, S) = 0 BY <3>1, SumZero
      <3>3. QED BY <1>1, <2>1, <3>2 DEF h, PartialSums
    <2>2. CASE U # {}
      <3> DEFINE z == Pick(U)
                 V == U \ {Pick(U)}
      <3>1. z \in U /\ V \in SUBSET U /\ V # U BY <1>0, <2>2, PickFacts
      <3>2. a[U] = f[z] + a[V] BY <1>1, <2>2 DEF PartialSums
      <3>3. SumFunctionOnSet(OnlyOn(f, V, S), S) = a[V] BY <1>2, <3>1
      <3>4. SumFunctionOnSet(OnlyOn(f, U, S), S) = f[z] + SumFunctionOnSet(OnlyOn(f, V, S), S)
        BY <3>1, SumOneMore
      <3> HIDE DEF z, V
      <3>5. QED BY <3>2, <3>3, <3>4
    <2>3. QED BY <2>1, <2>2
  <1> HIDE DEF G
  <1>3. T \in G
    <2>1. \A U \in SUBSET T : U \in G BY <1>0, <1>2, SubsetInduction
    <2>2. QED BY <2>1
  <1>4. QED BY <1>1, <1>3 DEF G

\* The sum of a constant over a part of S.
THEOREM SumConstant ==
    ASSUME NEW S, IsFiniteSet(S), NEW T \in SUBSET S, NEW c \in Int,
           NEW f \in [T -> Int], \A x \in T : f[x] = c
    PROVE  SumFunctionOnSet(OnlyOn(f, T, S), S) = c * Cardinality(T)
  <1>0. IsFiniteSet(T) BY FS_Subset
  <1> DEFINE G == {U \in SUBSET T : SumFunctionOnSet(OnlyOn(f, U, S), S) = c * Cardinality(U)}
  <1>2. ASSUME NEW U \in SUBSET T, \A V \in SUBSET U : V # U => V \in G
        PROVE  U \in G
    <2>1. CASE U = {}
      <3> DEFINE h == OnlyOn(f, U, S)
      <3>1. h \in [S -> Int] /\ \A x \in S : h[x] = 0 BY <2>1 DEF OnlyOn
      <3> HIDE DEF h
      <3>2. SumFunctionOnSet(h, S) = 0 BY <3>1, SumZero
      <3>3. Cardinality(U) = 0 BY <2>1, FS_EmptySet
      <3>4. QED BY <3>2, <3>3 DEF h
    <2>2. CASE U # {}
      <3> DEFINE z == Pick(U)
                 V == U \ {Pick(U)}
      <3>1. /\ z \in U /\ V \in SUBSET U /\ V # U /\ Cardinality(V) \in Nat
            /\ Cardinality(V) + 1 = Cardinality(U)
        BY <1>0, <2>2, PickFacts
      <3>2. f[z] = c BY <3>1
      <3>3. SumFunctionOnSet(OnlyOn(f, V, S), S) = c * Cardinality(V) BY <1>2, <3>1
      <3>4. SumFunctionOnSet(OnlyOn(f, U, S), S) = f[z] + SumFunctionOnSet(OnlyOn(f, V, S), S)
        BY <3>1, SumOneMore
      <3> HIDE DEF z, V
      <3>5. PICK n \in Nat : n = Cardinality(V) BY <3>1
      <3>6. c + c * n = c * (n + 1) OBVIOUS
      <3>7. SumFunctionOnSet(OnlyOn(f, U, S), S) = c * Cardinality(U)
        BY <3>1, <3>2, <3>3, <3>4, <3>5, <3>6
      <3>8. QED BY <3>7
    <2>3. QED BY <2>1, <2>2
  <1> HIDE DEF G
  <1>3. T \in G
    <2>1. \A U \in SUBSET T : U \in G BY <1>0, <1>2, SubsetInduction
    <2>2. QED BY <2>1
  <1>4. QED BY <1>3 DEF G

=============================================================================
