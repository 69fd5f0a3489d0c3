--------------------------- MODULE KnapsackProofs ---------------------------
(***************************************************************************)
(* Facts about the vocabulary of Knapsack for any functions, sets and      *)
(* lists: what a sum is when an element is added, what one more job does   *)
(* to the shortest durations, and what restricting a list keeps.           *)
(*                                                                         *)
(* Induction is stated for sets, not for predicates: a set of numbers that *)
(* is not all of Nat has a least number it misses.                         *)
(***************************************************************************)
EXTENDS Knapsack, FiniteSetTheorems, WellFoundedInduction, TLAPS

----------------------------------------------------------------------------
(* Induction                                                               *)

\* A set of natural numbers has a least element.
LEMMA LeastNatural ==
    ASSUME NEW T \in SUBSET Nat, T # {}
    PROVE  \E n \in T : \A m \in T : n <= m
<1> DEFINE R == {p \in Nat \X Nat : p[1] < p[2]}
<1>1. IsWellFoundedOn(R, Nat)
  BY NatLessThanWellFounded DEF OpToRel
<1>2. \A m, n \in Nat : m < n => <<m, n>> \in R
  OBVIOUS
<1> HIDE DEF R
<1>3. PICK n \in T : \A m \in T : <<m, n>> \notin R
  BY <1>1, WFMin
<1>4. ASSUME NEW m \in T PROVE n <= m
  <2>1. <<m, n>> \notin R
    BY <1>3
  <2>2. m \in Nat /\ n \in Nat
    OBVIOUS
  <2>3. ~ (m < n)
    BY <1>2, <2>1, <2>2
  <2> QED
    BY <2>2, <2>3
<1> QED
  BY <1>4

\* Induction on numbers.
LEMMA NaturalSet ==
    ASSUME NEW G, 0 \in G, \A n \in Nat : n \in G => n + 1 \in G
    PROVE  \A n \in Nat : n \in G
<1> DEFINE Bad == Nat \ G
<1> SUFFICES ASSUME Bad # {} PROVE FALSE
  OBVIOUS
<1>1. PICK n \in Bad : \A m \in Bad : n <= m
  BY LeastNatural
<1>2. n \in Nat /\ n # 0
  OBVIOUS
<1>3. n - 1 \in Nat /\ n - 1 \notin Bad
  BY <1>1, <1>2
<1>4. (n - 1) + 1 \in G
  BY <1>3
<1> QED
  BY <1>2, <1>4

\* A bounded set of natural numbers has a greatest element.
LEMMA GreatestNatural ==
    ASSUME NEW T \in SUBSET Nat, T # {}, NEW b \in Nat, \A t \in T : t <= b
    PROVE  \E n \in T : \A m \in T : m <= n
<1> DEFINE U == {m \in Nat : \A t \in T : t <= m}
<1>1. PICK n \in U : \A m \in U : n <= m
  <2>1. b \in U /\ U \in SUBSET Nat
    OBVIOUS
  <2> QED
    BY <2>1, LeastNatural
<1>2. n \in Nat /\ \A t \in T : t <= n
  OBVIOUS
<1>3. n \in T
  <2> SUFFICES ASSUME n \notin T PROVE FALSE
    OBVIOUS
  <2>1. \A t \in T : t \in Nat /\ t < n
    BY <1>2
  <2>2. n - 1 \in Nat
    <3>1. PICK t \in T : t \in Nat /\ t < n
      BY <2>1
    <3> QED
      BY <1>2, <3>1
  <2>3. n - 1 \in U
    BY <1>2, <2>1, <2>2
  <2> QED
    BY <1>1, <1>2, <2>3
<1> QED
  BY <1>2, <1>3

\* A set of n + 1 elements is not empty, and without one of them has n.
LEMMA OneSmaller ==
    ASSUME NEW s, IsFiniteSet(s), NEW n \in Nat, Cardinality(s) = n + 1
    PROVE  /\ s # {}
           /\ \A x \in s : Cardinality(s \ {x}) = n
<1>1. s # {}
  <2>1. n + 1 # 0
    OBVIOUS
  <2> QED
    BY <2>1, FS_EmptySet
<1>2. ASSUME NEW x \in s PROVE Cardinality(s \ {x}) = n
  <2>1. Cardinality(s \ {x}) = Cardinality(s) - 1
    BY FS_RemoveElement
  <2> QED
    BY <2>1
<1> QED
  BY <1>1, <1>2

\* Induction on the subsets of a finite set.
LEMMA SubsetInduction ==
    ASSUME NEW S, IsFiniteSet(S), NEW G, {} \in G,
           \A T \in SUBSET S : T \in G =>
               \A x \in S \ T : T \union {x} \in G
    PROVE  \A T \in SUBSET S : T \in G
<1> DEFINE N == {n \in Nat : \A T \in SUBSET S : Cardinality(T) = n => T \in G}
<1>1. \A T \in SUBSET S : IsFiniteSet(T) /\ Cardinality(T) \in Nat
  BY FS_Subset, FS_CardinalityType
<1>2. 0 \in N
  BY <1>1, FS_EmptySet
<1>3. ASSUME NEW n \in Nat, n \in N PROVE n + 1 \in N
  <2> SUFFICES ASSUME NEW T \in SUBSET S, Cardinality(T) = n + 1
               PROVE  T \in G
    OBVIOUS
  <2>1. T # {} /\ \A x \in T : Cardinality(T \ {x}) = n
    BY <1>1, OneSmaller
  <2>2. PICK x \in T : Cardinality(T \ {x}) = n
    BY <2>1
  <2>3. T \ {x} \in G
    BY <1>3, <2>2
  <2>4. x \in S \ (T \ {x}) /\ (T \ {x}) \in SUBSET S
    OBVIOUS
  <2>5. (T \ {x}) \union {x} = T
    OBVIOUS
  <2>6. (T \ {x}) \union {x} \in G
    BY <2>3, <2>4
  <2> QED
    BY <2>5, <2>6
<1>4. \A n \in Nat : n \in N
  <2> HIDE DEF N
  <2> QED
    BY <1>2, <1>3, NaturalSet
<1> QED
  BY <1>1, <1>4

----------------------------------------------------------------------------
(* Sums                                                                    *)

Pick(s) == CHOOSE x \in s : TRUE

\* g sums f over the sets it is defined on, one element after the other.
Summing(g, f) ==
    \A s \in DOMAIN g : g[s] = IF s = {} THEN 0 ELSE f[Pick(s)] + g[s \ {Pick(s)}]

LEMMA PickIn == ASSUME NEW s, s # {} PROVE Pick(s) \in s
  BY DEF Pick

\* There is such a function, which is what a recursive definition needs.
LEMMA SummingExists ==
    ASSUME NEW S, IsFiniteSet(S), NEW f, \A x \in S : f[x] \in Nat
    PROVE  \E g \in [SUBSET S -> Nat] : Summing(g, f)
<1> DEFINE Small(n) == {s \in SUBSET S : Cardinality(s) <= n}
           N == {n \in Nat : \E g \in [Small(n) -> Nat] : Summing(g, f)}
<1>1. \A s \in SUBSET S : IsFiniteSet(s) /\ Cardinality(s) \in Nat
  BY FS_Subset, FS_CardinalityType
<1>2. 0 \in N
  <2> DEFINE g == [s \in Small(0) |-> 0]
  <2>1. \A s \in Small(0) : s = {}
    BY <1>1, FS_EmptySet
  <2>2. g \in [Small(0) -> Nat] /\ Summing(g, f)
    BY <2>1 DEF Summing
  <2> QED
    BY <2>2
<1>3. ASSUME NEW n \in Nat, n \in N PROVE n + 1 \in N
  <2>1. PICK g \in [Small(n) -> Nat] : Summing(g, f)
    BY <1>3
  <2> DEFINE h == [s \in Small(n + 1) |->
                      IF s = {} THEN 0 ELSE f[Pick(s)] + g[s \ {Pick(s)}]]
  <2>2. \A s \in Small(n + 1) : s # {} =>
            s \ {Pick(s)} \in Small(n) /\ f[Pick(s)] \in Nat
    <3> SUFFICES ASSUME NEW s \in Small(n + 1), s # {}
                 PROVE  s \ {Pick(s)} \in Small(n) /\ f[Pick(s)] \in Nat
      OBVIOUS
    <3>1. Pick(s) \in s
      BY PickIn
    <3>2. Cardinality(s \ {Pick(s)}) = Cardinality(s) - 1
      BY <1>1, <3>1, FS_RemoveElement
    <3> QED
      BY <1>1, <3>1, <3>2
  <2>3. h \in [Small(n + 1) -> Nat]
    <3> SUFFICES ASSUME NEW s \in Small(n + 1) PROVE h[s] \in Nat
      OBVIOUS
    <3>1. CASE s = {}
      BY <3>1
    <3>2. CASE s # {}
      <4>1. g[s \ {Pick(s)}] \in Nat /\ f[Pick(s)] \in Nat
        BY <2>1, <2>2, <3>2
      <4> QED
        BY <3>2, <4>1
    <3> QED
      BY <3>1, <3>2
  <2>4. \A s \in Small(n) : s \in Small(n + 1) /\ h[s] = g[s]
    BY <1>1, <2>1 DEF Summing
  <2>5. Summing(h, f)
    BY <2>2, <2>4 DEF Summing
  <2>6. \E k \in [Small(n + 1) -> Nat] : Summing(k, f)
    <3> HIDE DEF h, Small
    <3> QED
      BY <2>3, <2>5
  <2> QED
    <3> HIDE DEF h, Small
    <3>1. n + 1 \in Nat
      OBVIOUS
    <3> QED
      BY <2>6, <3>1
<1>4. \A n \in Nat : n \in N
  <2> HIDE DEF N
  <2> QED
    BY <1>2, <1>3, NaturalSet
<1>5. Cardinality(S) \in N
  BY <1>1, <1>4
<1>6. Small(Cardinality(S)) = SUBSET S
  BY <1>1, FS_Subset
<1> QED
  BY <1>5, <1>6

\* Two such functions agree where both are defined.
LEMMA SummingUnique ==
    ASSUME NEW S, IsFiniteSet(S), NEW f,
           NEW g, SUBSET S \subseteq DOMAIN g,
           NEW h, SUBSET S \subseteq DOMAIN h,
           Summing(g, f), Summing(h, f)
    PROVE  g[S] = h[S]
<1> DEFINE N == {n \in Nat : \A s \in SUBSET S : Cardinality(s) = n => g[s] = h[s]}
<1>1. \A s \in SUBSET S : IsFiniteSet(s) /\ Cardinality(s) \in Nat
  BY FS_Subset, FS_CardinalityType
<1>2. 0 \in N
  BY <1>1, FS_EmptySet DEF Summing
<1>3. ASSUME NEW n \in Nat, n \in N PROVE n + 1 \in N
  <2> SUFFICES ASSUME NEW s \in SUBSET S, Cardinality(s) = n + 1
               PROVE  g[s] = h[s]
    OBVIOUS
  <2>1. s # {} /\ \A x \in s : Cardinality(s \ {x}) = n
    BY <1>1, OneSmaller
  <2>2. Cardinality(s \ {Pick(s)}) = n
    BY <2>1, PickIn
  <2>3. g[s \ {Pick(s)}] = h[s \ {Pick(s)}]
    BY <1>3, <2>2
  <2> QED
    BY <2>1, <2>3 DEF Summing
<1>4. \A n \in Nat : n \in N
  <2> HIDE DEF N
  <2> QED
    BY <1>2, <1>3, NaturalSet
<1> QED
  BY <1>1, <1>4

\* Sum is the value of such a function.
LEMMA SumIsSumming ==
    ASSUME NEW S, IsFiniteSet(S), NEW f, \A x \in S : f[x] \in Nat
    PROVE  \E g \in [SUBSET S -> Nat] : Summing(g, f) /\ Sum(f, S) = g[S]
<1> DEFINE Def(g) == g = [s \in SUBSET S |-> IF s = {} THEN 0
                                             ELSE f[Pick(s)] + g[s \ {Pick(s)}]]
           c == CHOOSE g : Def(g)
<1>1. Sum(f, S) = c[S]
  BY DEF Sum, MapThenSumSet, MapThenFoldSet, Pick
<1>2. PICK g \in [SUBSET S -> Nat] : Summing(g, f)
  BY SummingExists
<1>3. Def(g)
  BY <1>2 DEF Summing
<1>4. Def(c)
  BY <1>3
<1>5. DOMAIN c = SUBSET S /\ Summing(c, f)
  <2>1. c = [s \in SUBSET S |-> IF s = {} THEN 0 ELSE f[Pick(s)] + c[s \ {Pick(s)}]]
    BY <1>4
  <2> HIDE DEF c
  <2> QED
    BY <2>1 DEF Summing
<1> HIDE DEF c
<1>6. c[S] = g[S]
  BY <1>2, <1>5, SummingUnique
<1> QED
  BY <1>1, <1>2, <1>6

\* The sum of the empty set, and the type of a sum.
LEMMA SumEmpty == ASSUME NEW f PROVE Sum(f, {}) = 0
<1>1. PICK g \in [SUBSET {} -> Nat] : Summing(g, f) /\ Sum(f, {}) = g[{}]
  BY SumIsSumming, FS_EmptySet
<1> QED
  BY <1>1 DEF Summing

LEMMA SumType ==
    ASSUME NEW S, IsFiniteSet(S), NEW f, \A x \in S : f[x] \in Nat
    PROVE  Sum(f, S) \in Nat
<1>1. PICK g \in [SUBSET S -> Nat] : Sum(f, S) = g[S]
  BY SumIsSumming
<1> QED
  BY <1>1

\* The element a sum begins with.
LEMMA SumPick ==
    ASSUME NEW S, IsFiniteSet(S), S # {}, NEW f, \A x \in S : f[x] \in Nat
    PROVE  Sum(f, S) = f[Pick(S)] + Sum(f, S \ {Pick(S)})
<1> DEFINE T == S \ {Pick(S)}
<1>1. PICK g \in [SUBSET S -> Nat] : Summing(g, f) /\ Sum(f, S) = g[S]
  BY SumIsSumming
<1>2. IsFiniteSet(T) /\ \A x \in T : f[x] \in Nat
  BY FS_RemoveElement
<1>3. PICK h \in [SUBSET T -> Nat] : Summing(h, f) /\ Sum(f, T) = h[T]
  BY <1>2, SumIsSumming
<1>4. g[T] = h[T]
  BY <1>1, <1>2, <1>3, SummingUnique
<1> QED
  BY <1>1, <1>3, <1>4 DEF Summing

\* A sum may begin with any of its elements.
LEMMA SumRemove ==
    ASSUME NEW S, IsFiniteSet(S), NEW f, \A x \in S : f[x] \in Nat, NEW x \in S
    PROVE  Sum(f, S) = f[x] + Sum(f, S \ {x})
<1> DEFINE N == {n \in Nat : \A s \in SUBSET S : Cardinality(s) = n =>
                    \A y \in s : Sum(f, s) = f[y] + Sum(f, s \ {y})}
<1>1. \A s \in SUBSET S : IsFiniteSet(s) /\ Cardinality(s) \in Nat
  BY FS_Subset, FS_CardinalityType
<1>2. 0 \in N
  BY <1>1, FS_EmptySet
<1>3. ASSUME NEW n \in Nat, n \in N PROVE n + 1 \in N
  <2> SUFFICES ASSUME NEW s \in SUBSET S, Cardinality(s) = n + 1, NEW y \in s
               PROVE  Sum(f, s) = f[y] + Sum(f, s \ {y})
    OBVIOUS
  <2> DEFINE p == Pick(s)
  <2>1. p \in s
    BY PickIn
  <2>2. Sum(f, s) = f[p] + Sum(f, s \ {p})
    BY <1>1, SumPick
  <2>3. CASE y = p
    BY <2>2, <2>3
  <2>4. CASE y # p
    <3>1. Cardinality(s \ {p}) = n /\ Cardinality(s \ {y}) = n
      BY <1>1, <2>1, OneSmaller
    <3>2. Sum(f, s \ {p}) = f[y] + Sum(f, (s \ {p}) \ {y})
      BY <1>3, <2>4, <3>1
    <3>3. Sum(f, s \ {y}) = f[p] + Sum(f, (s \ {y}) \ {p})
      BY <1>3, <2>1, <2>4, <3>1
    <3>4. (s \ {p}) \ {y} = (s \ {y}) \ {p}
      OBVIOUS
    <3>5. f[p] \in Nat /\ f[y] \in Nat /\ Sum(f, (s \ {y}) \ {p}) \in Nat
      <4>1. IsFiniteSet((s \ {y}) \ {p})
        BY <1>1, FS_RemoveElement
      <4> QED
        BY <2>1, <4>1, SumType
    <3> HIDE DEF p
    <3> QED
      BY <2>2, <3>2, <3>3, <3>4, <3>5
  <2> QED
    BY <2>3, <2>4
<1>4. \A n \in Nat : n \in N
  <2> HIDE DEF N
  <2> QED
    BY <1>2, <1>3, NaturalSet
<1> QED
  BY <1>1, <1>4

\* What an element adds to a sum.
LEMMA SumAdd ==
    ASSUME NEW S, IsFiniteSet(S), NEW x, x \notin S,
           NEW f, \A y \in S \union {x} : f[y] \in Nat
    PROVE  Sum(f, S \union {x}) = f[x] + Sum(f, S)
<1>1. IsFiniteSet(S \union {x}) /\ (S \union {x}) \ {x} = S
  BY FS_AddElement
<1> QED
  BY <1>1, SumRemove

\* More elements, no smaller sum.
LEMMA SumMonotonic ==
    ASSUME NEW S, IsFiniteSet(S), NEW f, \A x \in S : f[x] \in Nat,
           NEW T \in SUBSET S
    PROVE  Sum(f, T) <= Sum(f, S)
<1> DEFINE G == {U \in SUBSET (S \ T) : Sum(f, T) <= Sum(f, T \union U)}
<1>1. \A U \in SUBSET S : IsFiniteSet(U) /\ Sum(f, U) \in Nat
  BY FS_Subset, SumType
<1>2. {} \in G
  <2>1. T \union {} = T
    OBVIOUS
  <2> QED
    BY <1>1, <2>1
<1>3. ASSUME NEW U \in SUBSET (S \ T), U \in G, NEW x \in (S \ T) \ U
      PROVE  U \union {x} \in G
  <2>1. T \union (U \union {x}) = (T \union U) \union {x}
    OBVIOUS
  <2>2. Sum(f, T \union (U \union {x})) = f[x] + Sum(f, T \union U)
    BY <1>1, <2>1, SumAdd
  <2>3. Sum(f, T) <= Sum(f, T \union U) /\ f[x] \in Nat
    BY <1>3
  <2>4. Sum(f, T) \in Nat /\ Sum(f, T \union U) \in Nat
    BY <1>1
  <2> QED
    BY <2>2, <2>3, <2>4
<1>4. S \ T \in G
  <2> DEFINE D == S \ T
  <2>1. IsFiniteSet(D)
    BY <1>1
  <2>2. \A U \in SUBSET D : U \in G => \A x \in D \ U : U \union {x} \in G
    BY <1>3
  <2>3. D \in SUBSET D
    OBVIOUS
  <2> HIDE DEF D, G
  <2>4. D \in G
    BY <1>2, <2>1, <2>2, <2>3, SubsetInduction
  <2> QED
    BY <2>4 DEF D
<1>5. T \union (S \ T) = S
  OBVIOUS
<1> QED
  BY <1>4, <1>5

----------------------------------------------------------------------------
(* Shortest durations                                                      *)

\* n is the duration of a subset of C that earns v, and no other is shorter.
IsShortest(e, d, C, v, n) ==
    /\ \E S \in SUBSET C : Sum(e, S) = v /\ Sum(d, S) = n
    /\ \A S \in SUBSET C : Sum(e, S) = v => n <= Sum(d, S)

\* If no set earns v, it is unreached, and only then.
LEMMA ShortestUnreached ==
    ASSUME NEW C, NEW e, NEW d, NEW v,
           \A S \in SUBSET C : Sum(e, S) # v
    PROVE  Shortest(e, d, C, v) = Unreached
  BY DEF Shortest

LEMMA ShortestIs ==
    ASSUME NEW C, IsFiniteSet(C), NEW e, NEW d, \A x \in C : d[x] \in Nat, NEW v,
           \E S \in SUBSET C : Sum(e, S) = v
    PROVE  /\ Shortest(e, d, C, v) \in Nat
           /\ IsShortest(e, d, C, v, Shortest(e, d, C, v))
<1> DEFINE D == {Sum(d, S) : S \in {S \in SUBSET C : Sum(e, S) = v}}
<1>1. D # {}
  OBVIOUS
<1>2. D \in SUBSET Nat
  BY FS_Subset, SumType
<1>3. Shortest(e, d, C, v) = Min(D)
  BY <1>1 DEF Shortest
<1>4. Min(D) \in D /\ \A n \in D : Min(D) <= n
  <2> HIDE DEF D
  <2>1. \E n \in D : \A m \in D : n <= m
    BY <1>1, <1>2, LeastNatural
  <2> QED
    BY <2>1 DEF Min
<1> QED
  BY <1>1, <1>2, <1>3, <1>4 DEF IsShortest

LEMMA ShortestType ==
    ASSUME NEW C, IsFiniteSet(C), NEW e, NEW d, \A x \in C : d[x] \in Nat, NEW v
    PROVE  Shortest(e, d, C, v) \in Nat \union {Unreached}
  BY ShortestUnreached, ShortestIs

\* The duration is determined by this.
LEMMA ShortestUnique ==
    ASSUME NEW C, IsFiniteSet(C), NEW e, NEW d, \A x \in C : d[x] \in Nat, NEW v,
           NEW n, IsShortest(e, d, C, v, n)
    PROVE  Shortest(e, d, C, v) = n
<1>1. PICK S \in SUBSET C : Sum(e, S) = v /\ Sum(d, S) = n
  BY DEF IsShortest
<1>2. n \in Nat
  BY <1>1, FS_Subset, SumType
<1> DEFINE m == Shortest(e, d, C, v)
<1>3. m \in Nat /\ IsShortest(e, d, C, v, m)
  BY <1>1, ShortestIs
<1>4. PICK T \in SUBSET C : Sum(e, T) = v /\ Sum(d, T) = m
  BY <1>3 DEF IsShortest
<1>5. n <= m /\ m <= n
  BY <1>1, <1>3, <1>4 DEF IsShortest
<1> HIDE DEF m
<1>6. m = n
  BY <1>2, <1>3, <1>5
<1> QED
  BY <1>6 DEF m

\* Without candidates only 0 can be earned.
LEMMA ShortestOfNone ==
    ASSUME NEW e, NEW d, NEW v
    PROVE  Shortest(e, d, {}, v) = IF v = 0 THEN 0 ELSE Unreached
<1>1. \A S \in SUBSET {} : S = {} /\ Sum(e, S) = 0 /\ Sum(d, S) = 0
  BY SumEmpty
<1>2. CASE v = 0
  <2>1. {} \in SUBSET {} /\ Sum(e, {}) = v /\ Sum(d, {}) = 0
    BY <1>1, <1>2
  <2>2. \A S \in SUBSET {} : 0 <= Sum(d, S)
    BY <1>1
  <2>3. IsShortest(e, d, {}, v, 0)
    BY <2>1, <2>2 DEF IsShortest
  <2> QED
    BY <1>2, <2>3, ShortestUnique, FS_EmptySet
<1>3. CASE v # 0
  <2>1. \A S \in SUBSET {} : Sum(e, S) # v
    BY <1>1, <1>3
  <2> QED
    BY <1>3, <2>1, ShortestUnreached
<1> QED
  BY <1>2, <1>3
\* What a set gains by one more element.
LEMMA SumWith ==
    ASSUME NEW C, IsFiniteSet(C), NEW x, x \notin C,
           NEW f, \A y \in C \union {x} : f[y] \in Nat
    PROVE  /\ \A S \in SUBSET C : /\ Sum(f, S) \in Nat
                                 /\ Sum(f, S \union {x}) = f[x] + Sum(f, S)
           /\ \A S \in SUBSET (C \union {x}) :
                 x \in S => Sum(f, S) = f[x] + Sum(f, S \ {x})
<1>1. \A S \in SUBSET C : IsFiniteSet(S)
  BY FS_Subset
<1>2. \A S \in SUBSET C : /\ Sum(f, S) \in Nat
                         /\ Sum(f, S \union {x}) = f[x] + Sum(f, S)
  BY <1>1, SumAdd, SumType
<1>3. ASSUME NEW S \in SUBSET (C \union {x}), x \in S
      PROVE  Sum(f, S) = f[x] + Sum(f, S \ {x})
  <2>1. S \ {x} \in SUBSET C /\ (S \ {x}) \union {x} = S
    BY <1>3
  <2> QED
    BY <1>2, <2>1
<1> QED
  BY <1>2, <1>3

\* Candidate x gives an amount v a set that is new, or shorter than those of C.
Improving(e, d, C, x, v) ==
    LET rest == Shortest(e, d, C, v - e[x])
        old == Shortest(e, d, C, v)
    IN  /\ e[x] <= v
        /\ rest # Unreached
        /\ old = Unreached \/ rest + d[x] < old

\* The recurrence of the table: with x, the shortest duration for v is that
\* without x, or that for the rest and x.
LEMMA ShortestStep ==
    ASSUME NEW C, IsFiniteSet(C), NEW x, x \notin C,
           NEW e, NEW d, \A y \in C \union {x} : e[y] \in Nat /\ d[y] \in Nat,
           NEW v \in Nat
    PROVE  Shortest(e, d, C \union {x}, v) =
               IF Improving(e, d, C, x, v)
               THEN Shortest(e, d, C, v - e[x]) + d[x]
               ELSE Shortest(e, d, C, v)
<1> DEFINE B == C \union {x}
           rest == Shortest(e, d, C, v - e[x])
           old == Shortest(e, d, C, v)
<1>1. IsFiniteSet(B) /\ \A y \in B : d[y] \in Nat
  BY FS_AddElement
<1>2. \A S \in SUBSET C : /\ S \union {x} \in SUBSET B /\ S \in SUBSET B
                         /\ Sum(e, S) \in Nat /\ Sum(d, S) \in Nat
                         /\ Sum(e, S \union {x}) = e[x] + Sum(e, S)
                         /\ Sum(d, S \union {x}) = d[x] + Sum(d, S)
  BY SumWith
<1>3. \A S \in SUBSET B : x \in S =>
          /\ S \ {x} \in SUBSET C
          /\ Sum(e, S) = e[x] + Sum(e, S \ {x})
          /\ Sum(d, S) = d[x] + Sum(d, S \ {x})
  BY SumWith
<1>4. \A S \in SUBSET B : x \notin S => S \in SUBSET C
  OBVIOUS
<1>5. e[x] \in Nat /\ d[x] \in Nat
  OBVIOUS
\* What is known of the cells without x.
<1>6. ASSUME NEW u, NEW S \in SUBSET C, Sum(e, S) = u
      PROVE  /\ Shortest(e, d, C, u) \in Nat
             /\ Shortest(e, d, C, u) <= Sum(d, S)
  BY <1>6, ShortestIs DEF IsShortest
<1>7. ASSUME NEW u, Shortest(e, d, C, u) # Unreached
      PROVE  \E S \in SUBSET C : Sum(e, S) = u /\ Sum(d, S) = Shortest(e, d, C, u)
  BY <1>7, ShortestIs, ShortestUnreached DEF IsShortest
<1> HIDE DEF B
<1>8. CASE Improving(e, d, C, x, v)
  <2>1. rest # Unreached /\ (old = Unreached \/ rest + d[x] < old)
    BY <1>8 DEF Improving
  <2>2. PICK T \in SUBSET C : Sum(e, T) = v - e[x] /\ Sum(d, T) = rest
    BY <1>7, <2>1
  <2>3. Sum(e, T \union {x}) = v /\ Sum(d, T \union {x}) = rest + d[x]
    BY <1>2, <1>5, <2>2
  <2>4. ASSUME NEW S \in SUBSET B, Sum(e, S) = v
        PROVE  rest + d[x] <= Sum(d, S)
    <3>1. CASE x \in S
      <4>1. S \ {x} \in SUBSET C /\ Sum(e, S \ {x}) = v - e[x]
        BY <1>2, <1>3, <1>5, <2>4, <3>1
      <4>2. rest \in Nat /\ rest <= Sum(d, S \ {x}) /\ Sum(d, S \ {x}) \in Nat
        BY <1>2, <1>6, <4>1
      <4>3. Sum(d, S) = d[x] + Sum(d, S \ {x})
        BY <1>3, <3>1
      <4> HIDE DEF rest
      <4> QED
        BY <1>5, <4>2, <4>3
    <3>2. CASE x \notin S
      <4>1. old \in Nat /\ old <= Sum(d, S) /\ Sum(d, S) \in Nat
        BY <1>2, <1>4, <1>6, <2>4, <3>2
      <4>2. rest + d[x] < old
        BY <2>1, <4>1 DEF Unreached
      <4>3. rest \in Nat
        BY <1>2, <2>2
      <4> QED
        BY <1>5, <4>1, <4>2, <4>3
    <3> QED
      BY <3>1, <3>2
  <2>5. IsShortest(e, d, B, v, rest + d[x])
    BY <1>2, <2>3, <2>4 DEF IsShortest
  <2>6. Shortest(e, d, B, v) = rest + d[x]
    BY <1>1, <2>5, ShortestUnique
  <2> QED
    BY <1>8, <2>6 DEF B
<1>9. CASE ~ Improving(e, d, C, x, v)
  <2>1. ASSUME NEW S \in SUBSET B, Sum(e, S) = v
        PROVE  old \in Nat /\ old <= Sum(d, S)
    <3>1. CASE x \in S
      <4>1. S \ {x} \in SUBSET C /\ Sum(e, S \ {x}) = v - e[x] /\ e[x] <= v
        BY <1>2, <1>3, <1>5, <2>1, <3>1
      <4>2. rest \in Nat /\ rest <= Sum(d, S \ {x}) /\ Sum(d, S \ {x}) \in Nat
        BY <1>2, <1>6, <4>1
      <4>3. old # Unreached /\ ~ (rest + d[x] < old)
        BY <1>9, <4>1, <4>2 DEF Improving, Unreached
      <4>4. old \in Nat
        BY <1>2, <1>7, <4>3
      <4>5. Sum(d, S) = d[x] + Sum(d, S \ {x})
        BY <1>3, <3>1
      <4> HIDE DEF rest, old
      <4> QED
        BY <1>5, <4>2, <4>3, <4>4, <4>5
    <3>2. CASE x \notin S
      BY <1>4, <1>6, <2>1, <3>2
    <3> QED
      BY <3>1, <3>2
  <2>2. CASE old = Unreached
    <3>1. \A S \in SUBSET B : Sum(e, S) # v
      BY <2>1, <2>2 DEF Unreached
    <3>2. Shortest(e, d, B, v) = Unreached
      BY <3>1, ShortestUnreached
    <3> QED
      BY <1>9, <2>2, <3>2 DEF B
  <2>3. CASE old # Unreached
    <3>1. PICK T \in SUBSET C : Sum(e, T) = v /\ Sum(d, T) = old
      BY <1>7, <2>3
    <3>2. IsShortest(e, d, B, v, old)
      BY <1>2, <2>1, <3>1 DEF IsShortest
    <3>3. Shortest(e, d, B, v) = old
      BY <1>1, <3>2, ShortestUnique
    <3> QED
      BY <1>9, <3>3 DEF B
  <2> QED
    BY <2>2, <2>3
<1> QED
  BY <1>8, <1>9
----------------------------------------------------------------------------
(* Sets that just reach an amount                                          *)

\* If all of C earns t, some subset does that exceeds t by one element at most.
LEMMA JustEnough ==
    ASSUME NEW C, IsFiniteSet(C), NEW e, NEW m \in Nat,
           \A x \in C : e[x] \in Nat /\ e[x] <= m,
           NEW t \in Nat, t <= Sum(e, C)
    PROVE  \E S \in SUBSET C : t <= Sum(e, S) /\ Sum(e, S) <= t + m
<1> DEFINE Just(S) == t <= Sum(e, S) /\ Sum(e, S) <= t + m
           G == {T \in SUBSET C : t <= Sum(e, T) => \E S \in SUBSET T : Just(S)}
<1>1. \A T \in SUBSET C : IsFiniteSet(T) /\ Sum(e, T) \in Nat
  BY FS_Subset, SumType
<1>2. {} \in G
  BY SumEmpty
<1>3. ASSUME NEW T \in SUBSET C, T \in G, NEW x \in C \ T
      PROVE  T \union {x} \in G
  <2> SUFFICES ASSUME t <= Sum(e, T \union {x})
               PROVE  \E S \in SUBSET (T \union {x}) : Just(S)
    OBVIOUS
  <2>1. CASE t <= Sum(e, T)
    BY <1>3, <2>1
  <2>2. CASE ~ (t <= Sum(e, T))
    <3>1. Sum(e, T \union {x}) = e[x] + Sum(e, T)
      BY <1>1, SumAdd
    <3>2. Just(T \union {x})
      BY <1>1, <2>2, <3>1
    <3> QED
      BY <3>2
  <2> QED
    BY <2>1, <2>2
<1>4. C \in G
  <2> HIDE DEF G
  <2>1. \A T \in SUBSET C : T \in G => \A x \in C \ T : T \union {x} \in G
    BY <1>3
  <2>2. C \in SUBSET C
    OBVIOUS
  <2> QED
    BY <1>2, <2>1, <2>2, SubsetInduction
<1> QED
  BY <1>4

\* Max and Min are what they say, for bounded sets.
LEMMA MaxIs ==
    ASSUME NEW T \in SUBSET Nat, T # {}, NEW b \in Nat, \A t \in T : t <= b
    PROVE  Max(T) \in T /\ \A t \in T : t <= Max(T)
<1>1. \E n \in T : \A m \in T : n >= m
  <2>1. PICK n \in T : \A m \in T : m <= n
    BY GreatestNatural
  <2>2. \A m \in T : n >= m
    BY <2>1
  <2> QED
    BY <2>2
<1>2. Max(T) \in T /\ \A t \in T : Max(T) >= t
  BY <1>1 DEF Max
<1> QED
  BY <1>2

LEMMA MinOfTwo ==
    ASSUME NEW a \in Nat, NEW b \in Nat
    PROVE  /\ Min({a, b}) \in {a, b}
           /\ Min({a, b}) <= a /\ Min({a, b}) <= b
<1>1. \E n \in {a, b} : \A m \in {a, b} : n <= m
  BY LeastNatural
<1> QED
  BY <1>1 DEF Min

----------------------------------------------------------------------------
(* Restricted lists                                                        *)

\* A list without repetitions is as long as the set of its elements is large.
LEMMA LengthIsCardinality ==
    ASSUME NEW X, NEW s \in Seq(X), IsInjective(s)
    PROVE  IsFiniteSet(Range(s)) /\ Cardinality(Range(s)) = Len(s)
<1>1. s \in [1 .. Len(s) -> Range(s)] /\ Len(s) \in Nat
  BY DEF Range
<1>2. ExistsBijection(1 .. Len(s), Range(s))
  <2>1. s \in Bijection(1 .. Len(s), Range(s))
    BY <1>1 DEF Bijection, Injection, Surjection, IsInjective, Range
  <2> QED
    BY <2>1 DEF ExistsBijection
<1> QED
  BY <1>1, <1>2, FS_CountingElements, FS_NatBijection

LEMMA AppendFacts ==
    ASSUME NEW X, NEW s \in Seq(X), NEW x \in X
    PROVE  /\ Append(s, x) \in Seq(X)
           /\ Range(Append(s, x)) = Range(s) \union {x}
           /\ IsInjective(s) /\ x \notin Range(s) => IsInjective(Append(s, x))
<1>1. /\ Append(s, x) \in Seq(X) /\ Len(s) \in Nat
      /\ DOMAIN s = 1 .. Len(s)
      /\ DOMAIN Append(s, x) = 1 .. Len(s) + 1
      /\ \A k \in 1 .. Len(s) : Append(s, x)[k] = s[k]
      /\ Append(s, x)[Len(s) + 1] = x
  OBVIOUS
<1>2. Range(Append(s, x)) = Range(s) \union {x}
  BY <1>1 DEF Range
<1>3. IsInjective(s) /\ x \notin Range(s) => IsInjective(Append(s, x))
  BY <1>1 DEF Range, IsInjective
<1> QED
  BY <1>1, <1>2, <1>3

\* g gives for each n the list of those of the first n elements that are in T.
Parting(g, s, T) ==
    \A n \in DOMAIN g : g[n] = IF n = 0 THEN <<>>
                             ELSE IF s[n] \in T THEN Append(g[n - 1], s[n])
                             ELSE g[n - 1]

LEMMA PartingExists ==
    ASSUME NEW X, NEW s \in Seq(X), NEW T
    PROVE  \E g \in [0 .. Len(s) -> Seq(X)] : Parting(g, s, T)
<1> DEFINE N == {n \in Nat : n <= Len(s) =>
                     \E g \in [0 .. n -> Seq(X)] : Parting(g, s, T)}
<1>1. 0 \in N
  <2> DEFINE g == [n \in 0 .. 0 |-> <<>>]
  <2>1. g \in [0 .. 0 -> Seq(X)] /\ Parting(g, s, T)
    BY DEF Parting
  <2> QED
    BY <2>1
<1>2. ASSUME NEW n \in Nat, n \in N PROVE n + 1 \in N
  <2> SUFFICES ASSUME n + 1 <= Len(s)
               PROVE  \E g \in [0 .. n + 1 -> Seq(X)] : Parting(g, s, T)
    OBVIOUS
  <2>1. PICK g \in [0 .. n -> Seq(X)] : Parting(g, s, T)
    BY <1>2
  <2> DEFINE last == IF s[n + 1] \in T THEN Append(g[n], s[n + 1]) ELSE g[n]
             h == [k \in 0 .. n + 1 |-> IF k = n + 1 THEN last ELSE g[k]]
  <2>2. s[n + 1] \in X /\ g[n] \in Seq(X)
    BY <2>1
  <2>3. last \in Seq(X)
    BY <2>2, AppendFacts
  <2>4. h \in [0 .. n + 1 -> Seq(X)]
    <3> HIDE DEF last
    <3> QED
      BY <2>1, <2>3
  <2>5. ASSUME NEW k \in 0 .. n + 1
        PROVE  h[k] = IF k = 0 THEN <<>>
                      ELSE IF s[k] \in T THEN Append(h[k - 1], s[k])
                      ELSE h[k - 1]
    <3>1. CASE k = n + 1
      <4>1. h[k] = last /\ h[k - 1] = g[n] /\ k # 0
        BY <3>1
      <4> HIDE DEF h
      <4> QED
        BY <3>1, <4>1
    <3>2. CASE k # n + 1
      <4>1. k \in 0 .. n /\ (k # 0 => k - 1 \in 0 .. n)
        BY <3>2
      <4>2. h[k] = g[k] /\ (k # 0 => h[k - 1] = g[k - 1])
        BY <4>1
      <4> HIDE DEF h
      <4> QED
        BY <2>1, <4>1, <4>2 DEF Parting
    <3> QED
      BY <3>1, <3>2
  <2>6. Parting(h, s, T)
    <3>1. DOMAIN h = 0 .. n + 1
      OBVIOUS
    <3> HIDE DEF h
    <3> QED
      BY <2>5, <3>1 DEF Parting
  <2> HIDE DEF h
  <2> QED
    BY <2>4, <2>6
<1>3. Len(s) \in N
  <2> HIDE DEF N
  <2> QED
    BY <1>1, <1>2, NaturalSet
<1> QED
  BY <1>3
\* Selected gives the elements that are in T, and repeats none s does not.
LEMMA SelectedFacts ==
    ASSUME NEW X, NEW s \in Seq(X), IsInjective(s), NEW T
    PROVE  /\ Selected(s, T) \in Seq(X)
           /\ IsInjective(Selected(s, T))
           /\ Range(Selected(s, T)) = Range(s) \intersect T
<1> DEFINE Def(g) == g = [n \in 0 .. Len(s) |->
                             IF n = 0 THEN <<>>
                             ELSE IF s[n] \in T THEN Append(g[n - 1], s[n])
                             ELSE g[n - 1]]
           part == CHOOSE g : Def(g)
<1>1. Selected(s, T) = part[Len(s)]
  BY DEF Selected
<1>2. PICK g \in [0 .. Len(s) -> Seq(X)] : Parting(g, s, T)
  BY PartingExists
<1>3. Def(g)
  BY <1>2 DEF Parting
<1>4. Def(part)
  BY <1>3
<1>5. DOMAIN part = 0 .. Len(s) /\ Parting(part, s, T)
  <2> HIDE DEF part
  <2> QED
    BY <1>4 DEF Parting
<1> HIDE DEF part
<1> DEFINE N == {n \in Nat : n <= Len(s) =>
                     /\ part[n] \in Seq(X)
                     /\ IsInjective(part[n])
                     /\ Range(part[n]) = Front(s, n) \intersect T}
<1>6. 0 \in N
  <2>1. part[0] = <<>>
    BY <1>5 DEF Parting
  <2>2. Front(s, 0) = {} /\ Range(<<>>) = {} /\ IsInjective(<<>>)
    BY DEF Front, Range, IsInjective
  <2>3. <<>> \in Seq(X)
    OBVIOUS
  <2> QED
    BY <2>1, <2>2, <2>3
<1>7. ASSUME NEW n \in Nat, n \in N PROVE n + 1 \in N
  <2> SUFFICES ASSUME n + 1 <= Len(s)
               PROVE  /\ part[n + 1] \in Seq(X)
                      /\ IsInjective(part[n + 1])
                      /\ Range(part[n + 1]) = Front(s, n + 1) \intersect T
    OBVIOUS
  <2> DEFINE x == s[n + 1]
  <2>1. /\ part[n] \in Seq(X) /\ IsInjective(part[n])
        /\ Range(part[n]) = Front(s, n) \intersect T
    BY <1>7
  <2>2. part[n + 1] = IF x \in T THEN Append(part[n], x) ELSE part[n]
    <3>1. n + 1 \in DOMAIN part /\ n + 1 # 0 /\ (n + 1) - 1 = n
      BY <1>5
    <3> QED
      BY <1>5, <3>1 DEF Parting
  <2>3. x \in X /\ x \notin Front(s, n) /\ Front(s, n + 1) = Front(s, n) \union {x}
    <3>1. 1 .. n + 1 = (1 .. n) \union {n + 1} /\ n + 1 \notin 1 .. n
      OBVIOUS
    <3>2. \A k \in 1 .. n : s[k] # s[n + 1]
      BY DEF IsInjective
    <3> QED
      BY <3>1, <3>2 DEF Front
  <2> HIDE DEF x
  <2>4. CASE x \in T
    BY <2>1, <2>2, <2>3, <2>4, AppendFacts
  <2>5. CASE x \notin T
    BY <2>1, <2>2, <2>3, <2>5
  <2> QED
    BY <2>4, <2>5
<1>8. Len(s) \in N
  <2> HIDE DEF N
  <2> QED
    BY <1>6, <1>7, NaturalSet
<1>9. Front(s, Len(s)) = Range(s)
  BY DEF Front, Range
<1> QED
  BY <1>1, <1>8, <1>9

\* The first n elements are elements; a list that is short enough is kept whole.
LEMMA FirstOfFacts ==
    ASSUME NEW X, NEW s \in Seq(X), IsInjective(s), NEW n \in Nat
    PROVE  /\ FirstOf(s, n) \in Seq(X)
           /\ IsInjective(FirstOf(s, n))
           /\ Len(s) <= n => FirstOf(s, n) = s
<1> DEFINE m == IF Len(s) < n THEN Len(s) ELSE n
<1>1. m \in 0 .. Len(s) /\ (Len(s) <= n => m = Len(s))
  OBVIOUS
<1>2. FirstOf(s, n) = SubSeq(s, 1, m)
  BY DEF FirstOf
<1> HIDE DEF m
<1>3. /\ SubSeq(s, 1, m) \in Seq(X)
      /\ DOMAIN SubSeq(s, 1, m) = 1 .. m
      /\ \A k \in 1 .. m : SubSeq(s, 1, m)[k] = s[k]
  BY <1>1
<1>4. IsInjective(SubSeq(s, 1, m))
  BY <1>1, <1>3 DEF IsInjective
<1>5. m = Len(s) => SubSeq(s, 1, m) = s
  BY <1>3
<1> QED
  BY <1>1, <1>2, <1>3, <1>4, <1>5

\* Each element adds itself to the elements before it.
LEMMA FrontFacts ==
    ASSUME NEW X, NEW s \in Seq(X), IsInjective(s)
    PROVE  /\ Front(s, 0) = {} /\ Front(s, Len(s)) = Range(s)
           /\ \A k \in 0 .. Len(s) : Front(s, k) \subseteq Range(s)
           /\ \A k \in 1 .. Len(s) :
                 /\ s[k] \in Range(s) \ Front(s, k - 1)
                 /\ Front(s, k) = Front(s, k - 1) \union {s[k]}
<1>1. DOMAIN s = 1 .. Len(s) /\ Len(s) \in Nat
  OBVIOUS
<1>2. Front(s, 0) = {} /\ Front(s, Len(s)) = Range(s)
  BY <1>1 DEF Front, Range
<1>3. \A k \in 0 .. Len(s) : Front(s, k) \subseteq Range(s)
  BY <1>1 DEF Front, Range
<1>4. ASSUME NEW k \in 1 .. Len(s)
      PROVE  /\ s[k] \in Range(s) \ Front(s, k - 1)
             /\ Front(s, k) = Front(s, k - 1) \union {s[k]}
  <2>1. s[k] \in Range(s)
    BY <1>1 DEF Range
  <2>2. s[k] \notin Front(s, k - 1)
    BY <1>1 DEF Front, IsInjective
  <2>3. 1 .. k = (1 .. k - 1) \union {k}
    BY <1>1
  <2> QED
    BY <2>1, <2>2, <2>3 DEF Front
<1> QED
  BY <1>2, <1>3, <1>4
=============================================================================
