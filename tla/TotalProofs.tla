----------------------------- MODULE TotalProofs -----------------------------
(***************************************************************************)
(* Induction and sums.  A statement to be shown by induction is given as   *)
(* the set of the numbers, or of the finite sets, that it is true of.      *)
(***************************************************************************)
EXTENDS Totals, FiniteSetTheorems, WellFoundedInduction, TLAPS

-----------------------------------------------------------------------------
(* Induction *)

LEMMA LeastNumber ==
    ASSUME NEW S \in SUBSET Nat, S # {}
    PROVE  \E n \in S : \A m \in S : n <= m
<1>1. PICK n \in S : \A m \in S : ~ (<<m, n>> \in OpToRel(<, Nat))
  BY NatLessThanWellFounded, WFMin
<1>2. \A m \in S : ~ (m < n)
  BY <1>1 DEF OpToRel
<1>. QED
  BY <1>2

LEMMA OnNumbers ==
    ASSUME NEW Good, 0 \in Good, \A n \in Nat : n \in Good => n + 1 \in Good
    PROVE  Nat \subseteq Good
<1>1. SUFFICES ASSUME ~ (Nat \subseteq Good)
               PROVE  FALSE
  OBVIOUS
<1>2. Nat \ Good # {}
  BY <1>1
<1>3. PICK n \in Nat \ Good : \A m \in Nat \ Good : n <= m
  BY <1>2, LeastNumber
<1>4. n - 1 \in Nat /\ (n - 1) + 1 = n
  BY <1>3
<1>5. n - 1 \in Good
  BY <1>3, <1>4
<1>. QED
  BY <1>3, <1>4, <1>5

\* What a first value and a step determine: a recursion over the numbers to n.
Recurs(f, n, first, step) ==
    f[0] = first /\ \A i \in 1..n : f[i] = step[i][f[i - 1]]

LEMMA Recursion ==
    ASSUME NEW n \in Nat, NEW V, NEW first \in V, NEW step \in [1..n -> [V -> V]]
    PROVE  \E f \in [0..n -> V] : Recurs(f, n, first, step)
<1> DEFINE Good == {m \in Nat : m <= n => \E f \in [0..m -> V] : Recurs(f, m, first, step)}
<1>1. 0 \in Good
  <2> DEFINE f == [i \in 0..0 |-> first]
  <2>1. f \in [0..0 -> V] /\ Recurs(f, 0, first, step)
    BY DEF Recurs
  <2>. QED
    BY <2>1
<1>2. ASSUME NEW m \in Nat, m \in Good, m + 1 <= n
      PROVE  \E f \in [0..(m + 1) -> V] : Recurs(f, m + 1, first, step)
  <2>1. PICK f \in [0..m -> V] : Recurs(f, m, first, step)
    BY <1>2
  <2> DEFINE g == [i \in 0..(m + 1) |-> IF i = m + 1 THEN step[m + 1][f[m]] ELSE f[i]]
  <2>2. step[m + 1][f[m]] \in V
    <3>1. m + 1 \in 1..n /\ m \in 0..m
      BY <1>2
    <3>2. step[m + 1] \in [V -> V] /\ f[m] \in V
      BY <2>1, <3>1
    <3>. QED
      BY <3>2
  <2>3. g \in [0..(m + 1) -> V]
    BY <2>1, <2>2
  <2>4. g[0] = first
    BY <2>1 DEF Recurs
  <2>5. ASSUME NEW i \in 1..(m + 1)
        PROVE  g[i] = step[i][g[i - 1]]
    <3>1. i - 1 \in 0..m /\ g[i - 1] = f[i - 1]
      OBVIOUS
    <3>2. CASE i = m + 1
      BY <3>1, <3>2
    <3>3. CASE i # m + 1
      <4>1. i \in 1..m /\ g[i] = f[i]
        BY <3>3
      <4> HIDE DEF g
      <4>. QED
        BY <2>1, <3>1, <4>1 DEF Recurs
    <3>. QED
      BY <3>2, <3>3
  <2>6. Recurs(g, m + 1, first, step)
    BY <2>4, <2>5 DEF Recurs
  <2>. QED
    BY <2>3, <2>6
<1>3. ASSUME NEW m \in Nat, m \in Good
      PROVE  m + 1 \in Good
  BY <1>2, <1>3
<1>4. Nat \subseteq Good
  <2> HIDE DEF Good
  <2>. QED
    BY <1>1, <1>3, OnNumbers
<1>. QED
  BY <1>4

LEMMA OnFiniteSets ==
    ASSUME NEW S, IsFiniteSet(S), NEW Good,
           \A T \in SUBSET S : (\A x \in T : T \ {x} \in Good) => T \in Good
    PROVE  SUBSET S \subseteq Good
<1> DEFINE Size == {n \in Nat : \A T \in SUBSET S : Cardinality(T) = n => T \in Good}
<1>1. 0 \in Size
  BY FS_Subset, FS_EmptySet
<1>2. ASSUME NEW n \in Nat, n \in Size
      PROVE  n + 1 \in Size
  <2>1. ASSUME NEW T \in SUBSET S, Cardinality(T) = n + 1, NEW x \in T
        PROVE  T \ {x} \in Good
    <3>1. Cardinality(T \ {x}) = Cardinality(T) - 1
      BY FS_Subset, FS_RemoveElement
    <3>2. Cardinality(T \ {x}) = n /\ T \ {x} \in SUBSET S
      BY <2>1, <3>1
    <3>. QED
      BY <1>2, <3>2
  <2>. QED
    BY <2>1
<1>3. Nat \subseteq Size
  <2> HIDE DEF Size
  <2>. QED
    BY <1>1, <1>2, OnNumbers
<1>. QED
  BY <1>3, FS_Subset, FS_CardinalityType

-----------------------------------------------------------------------------
(* The fold is the sum *)

Pick(s) == CHOOSE x \in s : TRUE

Sum(f, g, s) == IF s = {} THEN 0 ELSE f[Pick(s)] + g[s \ {Pick(s)}]

\* Some function adds up f over every subset of S.
LEMMA SumExists ==
    ASSUME NEW S, IsFiniteSet(S), NEW f
    PROVE  \E g : g = [s \in SUBSET S |-> Sum(f, g, s)]
<1> DEFINE Within(n) == {s \in SUBSET S : Cardinality(s) <= n}
           Good == {n \in Nat : \E g : \A s \in Within(n) : g[s] = Sum(f, g, s)}
<1>1. 0 \in Good
  <2>1. \A s \in Within(0) : s = {}
    BY FS_Subset, FS_CardinalityType, FS_EmptySet
  <2>2. \A s \in Within(0) : [t \in SUBSET S |-> 0][s] = Sum(f, [t \in SUBSET S |-> 0], s)
    BY <2>1 DEF Sum
  <2>. QED
    BY <2>2
<1>2. ASSUME NEW n \in Nat, n \in Good
      PROVE  n + 1 \in Good
  <2>1. PICK g : \A s \in Within(n) : g[s] = Sum(f, g, s)
    BY <1>2
  <2> DEFINE h == [s \in SUBSET S |-> Sum(f, g, s)]
  <2>2. \A s \in Within(n) : h[s] = g[s]
    BY <2>1
  <2>3. ASSUME NEW s \in Within(n + 1)
        PROVE  h[s] = Sum(f, h, s)
    <3>1. CASE s = {}
      BY <3>1 DEF Sum
    <3>2. CASE s # {}
      <4>1. Pick(s) \in s /\ IsFiniteSet(s)
        BY <3>2, FS_Subset DEF Pick
      <4>2. s \ {Pick(s)} \in Within(n)
        <5>1. Cardinality(s \ {Pick(s)}) = Cardinality(s) - 1
          BY <4>1, FS_RemoveElement
        <5>2. Cardinality(s) \in Nat /\ Cardinality(s) <= n + 1
          BY <4>1, FS_CardinalityType
        <5>. QED
          BY <5>1, <5>2
      <4>3. h[s \ {Pick(s)}] = g[s \ {Pick(s)}]
        BY <2>2, <4>2
      <4>4. h[s] = Sum(f, g, s)
        OBVIOUS
      <4> HIDE DEF h
      <4>. QED
        BY <4>3, <4>4 DEF Sum
    <3>. QED
      BY <3>1, <3>2
  <2>4. \E r : \A s \in Within(n + 1) : r[s] = Sum(f, r, s)
    <3> HIDE DEF h
    <3>. QED
      BY <2>3
  <2>. QED
    BY <2>4
<1>3. Nat \subseteq Good
  <2> HIDE DEF Good
  <2>. QED
    BY <1>1, <1>2, OnNumbers
<1>4. Cardinality(S) \in Nat /\ \A s \in SUBSET S : s \in Within(Cardinality(S))
  BY FS_CardinalityType, FS_Subset
<1>5. PICK g : \A s \in SUBSET S : g[s] = Sum(f, g, s)
  BY <1>3, <1>4
<1> DEFINE h == [s \in SUBSET S |-> g[s]]
<1>6. \A s \in SUBSET S : s \ {Pick(s)} \in SUBSET S
  OBVIOUS
<1>7. \A s \in SUBSET S : Sum(f, h, s) = Sum(f, g, s)
  BY <1>6 DEF Sum
<1>8. h = [s \in SUBSET S |-> Sum(f, h, s)]
  <2>1. \A s \in SUBSET S : h[s] = Sum(f, h, s)
    BY <1>5, <1>7
  <2>. QED
    BY <2>1
<1>. QED
  BY <1>8

Iter(f, S) == CHOOSE g : g = [s \in SUBSET S |-> Sum(f, g, s)]

LEMMA TotalIsIter == \A f, S : Total(f, S) = Iter(f, S)[S]
BY DEF Total, FoldFunctionOnSet, MapThenFoldSet, Iter, Sum, Pick

LEMMA IterIs ==
    ASSUME NEW S, IsFiniteSet(S), NEW f
    PROVE  \A s \in SUBSET S : Iter(f, S)[s] = Sum(f, Iter(f, S), s)
<1>1. Iter(f, S) = [s \in SUBSET S |-> Sum(f, Iter(f, S), s)]
  BY SumExists DEF Iter
<1>. QED
  BY <1>1

\* ... and the sum over a set does not depend on the set it was asked of.
LEMMA IterAgrees ==
    ASSUME NEW S, IsFiniteSet(S), NEW T \in SUBSET S, NEW f
    PROVE  Iter(f, S)[T] = Iter(f, T)[T]
<1> DEFINE Good == {U \in SUBSET T : Iter(f, S)[U] = Iter(f, T)[U]}
<1>1. IsFiniteSet(T)
  BY FS_Subset
<1>2. ASSUME NEW U \in SUBSET T, \A x \in U : U \ {x} \in Good
      PROVE  U \in Good
  <2>1. Iter(f, S)[U] = Sum(f, Iter(f, S), U) /\ Iter(f, T)[U] = Sum(f, Iter(f, T), U)
    BY <1>1, IterIs
  <2>2. CASE U = {}
    BY <2>1, <2>2 DEF Sum
  <2>3. CASE U # {}
    <3>1. Pick(U) \in U
      BY <2>3 DEF Pick
    <3>2. Iter(f, S)[U \ {Pick(U)}] = Iter(f, T)[U \ {Pick(U)}]
      BY <1>2, <3>1
    <3>. QED
      BY <2>1, <2>3, <3>2 DEF Sum
  <2>. QED
    BY <2>2, <2>3
<1>3. SUBSET T \subseteq Good
  <2> HIDE DEF Good
  <2>. QED
    BY <1>1, <1>2, OnFiniteSets
<1>. QED
  BY <1>3

LEMMA TotalEmpty == \A f : Total(f, {}) = 0
BY FS_EmptySet, IterIs, TotalIsIter DEF Sum

LEMMA TotalPick ==
    ASSUME NEW S, IsFiniteSet(S), S # {}, NEW f
    PROVE  /\ Pick(S) \in S
           /\ Total(f, S) = f[Pick(S)] + Total(f, S \ {Pick(S)})
<1>1. Pick(S) \in S
  BY DEF Pick
<1>2. Iter(f, S)[S] = f[Pick(S)] + Iter(f, S)[S \ {Pick(S)}]
  BY IterIs DEF Sum
<1>3. Iter(f, S)[S \ {Pick(S)}] = Iter(f, S \ {Pick(S)})[S \ {Pick(S)}]
  BY IterAgrees
<1>. QED
  BY <1>1, <1>2, <1>3, TotalIsIter

-----------------------------------------------------------------------------
(* Sums *)

LEMMA TotalType ==
    ASSUME NEW S, IsFiniteSet(S), NEW f, \A x \in S : f[x] \in Int
    PROVE  Total(f, S) \in Int
<1> DEFINE Good == {T \in SUBSET S : Total(f, T) \in Int}
<1>1. ASSUME NEW T \in SUBSET S, \A x \in T : T \ {x} \in Good
      PROVE  T \in Good
  <2>1. CASE T = {}
    BY <2>1, TotalEmpty
  <2>2. CASE T # {}
    <3>1. Pick(T) \in T /\ Total(f, T) = f[Pick(T)] + Total(f, T \ {Pick(T)})
      BY <2>2, FS_Subset, TotalPick
    <3>. QED
      BY <1>1, <3>1
  <2>. QED
    BY <2>1, <2>2
<1>2. SUBSET S \subseteq Good
  <2> HIDE DEF Good
  <2>. QED
    BY <1>1, OnFiniteSets
<1>. QED
  BY <1>2

\* Any element may be taken out first.
LEMMA TotalWithout ==
    ASSUME NEW S, IsFiniteSet(S), NEW f, \A x \in S : f[x] \in Int, NEW x \in S
    PROVE  Total(f, S) = f[x] + Total(f, S \ {x})
<1> DEFINE Good == {T \in SUBSET S : \A y \in T : Total(f, T) = f[y] + Total(f, T \ {y})}
<1>1. ASSUME NEW T \in SUBSET S, \A y \in T : T \ {y} \in Good, NEW y \in T
      PROVE  Total(f, T) = f[y] + Total(f, T \ {y})
  <2> DEFINE p == Pick(T)
  <2>1. IsFiniteSet(T) /\ IsFiniteSet(T \ {p}) /\ IsFiniteSet(T \ {y})
    BY FS_Subset, FS_RemoveElement
  <2>2. p \in T /\ Total(f, T) = f[p] + Total(f, T \ {p})
    BY <2>1, TotalPick
  <2> HIDE DEF p
  <2>3. CASE y = p
    BY <2>2, <2>3
  <2>4. CASE y # p
    <3> DEFINE R == T \ {p, y}
    <3>1. y \in T \ {p} /\ p \in T \ {y} /\ (T \ {p}) \ {y} = R /\ (T \ {y}) \ {p} = R
      BY <2>2, <2>4
    <3>2. Total(f, T \ {p}) = f[y] + Total(f, R)
      BY <1>1, <2>2, <3>1
    <3>3. Total(f, T \ {y}) = f[p] + Total(f, R)
      BY <1>1, <3>1
    <3>4. f[y] \in Int /\ f[p] \in Int /\ Total(f, R) \in Int
      BY <2>1, <2>2, FS_Subset, TotalType
    <3> HIDE DEF R
    <3>. QED
      BY ONLY <2>2, <3>2, <3>3, <3>4
  <2>. QED
    BY <2>3, <2>4
<1>2. SUBSET S \subseteq Good
  <2>1. \A T \in SUBSET S : (\A y \in T : T \ {y} \in Good) => T \in Good
    BY <1>1
  <2> HIDE DEF Good
  <2>. QED
    BY <2>1, OnFiniteSets
<1>. QED
  BY <1>2

LEMMA TotalWith ==
    ASSUME NEW S, IsFiniteSet(S), NEW x, x \notin S, NEW f, \A y \in S \cup {x} : f[y] \in Int
    PROVE  Total(f, S \cup {x}) = Total(f, S) + f[x]
<1>1. IsFiniteSet(S \cup {x}) /\ (S \cup {x}) \ {x} = S
  BY FS_AddElement
<1>2. Total(f, S \cup {x}) = f[x] + Total(f, S)
  BY <1>1, TotalWithout
<1>3. Total(f, S) \in Int /\ f[x] \in Int
  BY TotalType
<1>. QED
  BY <1>2, <1>3

\* Only the values on the set count.
LEMMA TotalSame ==
    ASSUME NEW S, IsFiniteSet(S), NEW f, NEW g, \A x \in S : f[x] = g[x]
    PROVE  Total(f, S) = Total(g, S)
<1> DEFINE Good == {T \in SUBSET S : Total(f, T) = Total(g, T)}
<1>1. ASSUME NEW T \in SUBSET S, \A x \in T : T \ {x} \in Good
      PROVE  T \in Good
  <2>1. CASE T = {}
    BY <2>1, TotalEmpty
  <2>2. CASE T # {}
    <3>1. Pick(T) \in T /\ Total(f, T) = f[Pick(T)] + Total(f, T \ {Pick(T)})
          /\ Total(g, T) = g[Pick(T)] + Total(g, T \ {Pick(T)})
      BY <2>2, FS_Subset, TotalPick
    <3>. QED
      BY <1>1, <3>1
  <2>. QED
    BY <2>1, <2>2
<1>2. SUBSET S \subseteq Good
  <2> HIDE DEF Good
  <2>. QED
    BY <1>1, OnFiniteSets
<1>. QED
  BY <1>2

\* Of two sums over a set, the one with the larger terms is larger.
LEMMA TotalMonotonic ==
    ASSUME NEW S, IsFiniteSet(S), NEW f, NEW g,
           \A x \in S : f[x] \in Int /\ g[x] \in Int /\ f[x] <= g[x]
    PROVE  Total(f, S) <= Total(g, S)
<1> DEFINE Good == {T \in SUBSET S : Total(f, T) <= Total(g, T)}
<1>1. ASSUME NEW T \in SUBSET S, \A x \in T : T \ {x} \in Good
      PROVE  T \in Good
  <2>1. CASE T = {}
    BY <2>1, TotalEmpty
  <2>2. CASE T # {}
    <3> DEFINE p == Pick(T)
               U == T \ {p}
    <3>1. p \in T /\ Total(f, T) = f[p] + Total(f, U) /\ Total(g, T) = g[p] + Total(g, U)
      BY <2>2, FS_Subset, TotalPick
    <3>2. Total(f, U) \in Int /\ Total(g, U) \in Int
      <4>1. IsFiniteSet(U)
        BY FS_Subset, FS_RemoveElement
      <4>. QED
        BY <4>1, TotalType
    <3>3. f[p] \in Int /\ g[p] \in Int /\ f[p] <= g[p] /\ Total(f, U) <= Total(g, U)
      BY <1>1, <3>1
    <3> HIDE DEF p, U
    <3>. QED
      BY <3>1, <3>2, <3>3
  <2>. QED
    BY <2>1, <2>2
<1>2. SUBSET S \subseteq Good
  <2> HIDE DEF Good
  <2>. QED
    BY <1>1, OnFiniteSets
<1>. QED
  BY <1>2

LEMMA TotalUnion ==
    ASSUME NEW S, IsFiniteSet(S), NEW R, IsFiniteSet(R), S \cap R = {},
           NEW f, \A x \in S \cup R : f[x] \in Int
    PROVE  Total(f, S \cup R) = Total(f, S) + Total(f, R)
<1> DEFINE Good == {T \in SUBSET R : Total(f, S \cup T) = Total(f, S) + Total(f, T)}
<1>0. Total(f, S) \in Int
  BY TotalType
<1>1. ASSUME NEW T \in SUBSET R, \A x \in T : T \ {x} \in Good
      PROVE  T \in Good
  <2>1. CASE T = {}
    BY <1>0, <2>1, TotalEmpty
  <2>2. CASE T # {}
    <3>1. PICK p \in T : TRUE
      BY <2>2
    <3>2. IsFiniteSet(T) /\ IsFiniteSet(S \cup T) /\ IsFiniteSet(T \ {p})
      BY FS_Subset, FS_Union, FS_RemoveElement
    <3>3. Total(f, T) = f[p] + Total(f, T \ {p})
      BY <3>2, TotalWithout
    <3>4. (S \cup T) \ {p} = S \cup (T \ {p})
      OBVIOUS
    <3>5. Total(f, S \cup T) = f[p] + Total(f, S \cup (T \ {p}))
      BY <3>2, <3>4, TotalWithout
    <3>6. Total(f, S \cup (T \ {p})) = Total(f, S) + Total(f, T \ {p})
      BY <1>1
    <3>7. f[p] \in Int /\ Total(f, T \ {p}) \in Int
      BY <3>2, TotalType
    <3>8. Total(f, S \cup T) = Total(f, S) + Total(f, T)
      BY ONLY <1>0, <3>3, <3>5, <3>6, <3>7
    <3>. QED
      BY <3>8
  <2>. QED
    BY <2>1, <2>2
<1>2. SUBSET R \subseteq Good
  <2> HIDE DEF Good
  <2>. QED
    BY <1>1, OnFiniteSets
<1>. QED
  BY <1>2

LEMMA TotalNat ==
    ASSUME NEW S, IsFiniteSet(S), NEW f, \A x \in S : f[x] \in Nat
    PROVE  /\ Total(f, S) \in Nat
           /\ \A T \in SUBSET S : Total(f, T) \in Nat /\ Total(f, T) <= Total(f, S)
<1>1. \A T \in SUBSET S : Total(f, T) \in Nat
  <2> DEFINE zero == [x \in S |-> 0]
             Good == {T \in SUBSET S : Total(f, T) \in Nat}
  <2>1. ASSUME NEW T \in SUBSET S, \A x \in T : T \ {x} \in Good
        PROVE  T \in Good
    <3>1. CASE T = {}
      BY <3>1, TotalEmpty
    <3>2. CASE T # {}
      <4>1. Pick(T) \in T /\ Total(f, T) = f[Pick(T)] + Total(f, T \ {Pick(T)})
        BY <3>2, FS_Subset, TotalPick
      <4>. QED
        BY <2>1, <4>1
    <3>. QED
      BY <3>1, <3>2
  <2>2. SUBSET S \subseteq Good
    <3> HIDE DEF Good
    <3>. QED
      BY <2>1, OnFiniteSets
  <2>. QED
    BY <2>2
<1>2. ASSUME NEW T \in SUBSET S
      PROVE  Total(f, T) <= Total(f, S)
  <2>1. IsFiniteSet(T) /\ IsFiniteSet(S \ T)
    BY FS_Subset
  <2>2. T \cup (S \ T) = S
    OBVIOUS
  <2>3. Total(f, S) = Total(f, T) + Total(f, S \ T)
    BY <2>1, <2>2, TotalUnion
  <2>4. Total(f, T) \in Nat /\ Total(f, S \ T) \in Nat
    BY <1>1
  <2>. QED
    BY ONLY <2>3, <2>4
<1>. QED
  BY <1>1, <1>2

\* A sum may be taken class by class.
LEMMA TotalByClass ==
    ASSUME NEW S, IsFiniteSet(S), NEW K, IsFiniteSet(K), NEW class,
           NEW f, \A x \in S : f[x] \in Int
    PROVE  Total([k \in K |-> Total(f, {x \in S : class[x] = k})], K) =
               Total(f, {x \in S : class[x] \in K})
<1> DEFINE g == [k \in K |-> Total(f, {x \in S : class[x] = k})]
           In(T) == {x \in S : class[x] \in T}
           Good == {T \in SUBSET K : Total(g, T) = Total(f, In(T))}
<1>0. \A R \in SUBSET S : IsFiniteSet(R) /\ Total(f, R) \in Int
  BY FS_Subset, TotalType
<1>1. ASSUME NEW T \in SUBSET K, \A k \in T : T \ {k} \in Good
      PROVE  T \in Good
  <2>1. CASE T = {}
    <3>1. In(T) = {}
      BY <2>1
    <3>. QED
      BY <2>1, <3>1, TotalEmpty
  <2>2. CASE T # {}
    <3>1. PICK k \in T : TRUE
      BY <2>2
    <3>2. g[k] = Total(f, In({k})) /\ \A l \in T : g[l] \in Int
      <4>1. In({k}) = {x \in S : class[x] = k} /\ \A l \in T : {x \in S : class[x] = l} \in SUBSET S
        OBVIOUS
      <4>. QED
        BY <1>0, <4>1
    <3>3. Total(g, T) = g[k] + Total(g, T \ {k})
      <4> HIDE DEF g
      <4>. QED
        BY <3>1, <3>2, FS_Subset, TotalWithout
    <3>4. Total(g, T \ {k}) = Total(f, In(T \ {k}))
      BY <1>1, <3>1
    <3>5. Total(f, In(T)) = Total(f, In({k})) + Total(f, In(T \ {k}))
      <4>1. /\ In(T) = In({k}) \cup In(T \ {k}) /\ In({k}) \cap In(T \ {k}) = {}
            /\ In({k}) \in SUBSET S /\ In(T \ {k}) \in SUBSET S
        BY <3>1
      <4> DEFINE A == In({k})
                 B == In(T \ {k})
      <4>2. A \cap B = {} /\ IsFiniteSet(A) /\ IsFiniteSet(B) /\ \A x \in A \cup B : f[x] \in Int
        BY <1>0, <4>1
      <4>3. Total(f, A \cup B) = Total(f, A) + Total(f, B)
        <5> HIDE DEF A, B
        <5>. QED
          BY ONLY <4>2, TotalUnion
      <4>. QED
        BY <4>1, <4>3
    <3>6. Total(g, T) = Total(f, In(T))
      BY ONLY <3>2, <3>3, <3>4, <3>5
    <3>. QED
      BY <3>6
  <2>. QED
    BY <2>1, <2>2
<1>2. SUBSET K \subseteq Good
  <2> HIDE DEF Good
  <2>. QED
    BY <1>1, OnFiniteSets
<1>. QED
  BY <1>2

LEMMA TotalZero ==
    ASSUME NEW S, IsFiniteSet(S), NEW f, \A x \in S : f[x] = 0
    PROVE  Total(f, S) = 0
<1> DEFINE Good == {T \in SUBSET S : Total(f, T) = 0}
<1>1. ASSUME NEW T \in SUBSET S, \A x \in T : T \ {x} \in Good
      PROVE  T \in Good
  <2>1. CASE T = {}
    BY <2>1, TotalEmpty
  <2>2. CASE T # {}
    <3>1. Pick(T) \in T /\ Total(f, T) = f[Pick(T)] + Total(f, T \ {Pick(T)})
      BY <2>2, FS_Subset, TotalPick
    <3>. QED
      BY <1>1, <3>1
  <2>. QED
    BY <2>1, <2>2
<1>2. SUBSET S \subseteq Good
  <2> HIDE DEF Good
  <2>. QED
    BY <1>1, OnFiniteSets
<1>. QED
  BY <1>2

\* One term changes.
LEMMA TotalChanged ==
    ASSUME NEW S, IsFiniteSet(S), NEW f, NEW g, \A y \in S : f[y] \in Int /\ g[y] \in Int,
           NEW x \in S, \A y \in S \ {x} : g[y] = f[y]
    PROVE  Total(g, S) = Total(f, S) - f[x] + g[x]
<1> DEFINE R == S \ {x}
<1>1. IsFiniteSet(R)
  BY FS_RemoveElement
<1>2. Total(f, R) = Total(g, R)
  <2>1. \A y \in R : g[y] = f[y]
    OBVIOUS
  <2> HIDE DEF R
  <2>. QED
    BY <1>1, <2>1, TotalSame
<1>3. Total(f, S) = f[x] + Total(f, R) /\ Total(g, S) = g[x] + Total(g, R)
  BY TotalWithout
<1>4. f[x] \in Int /\ g[x] \in Int /\ Total(f, R) \in Int
  BY <1>1, TotalType
<1> HIDE DEF R
<1>. QED
  BY <1>2, <1>3, <1>4

\* Terms that are larger by one, on some of the set.
LEMMA TotalCount ==
    ASSUME NEW S, IsFiniteSet(S), NEW C \in SUBSET S, NEW f, NEW g,
           \A x \in S : g[x] \in Int /\ f[x] = (IF x \in C THEN g[x] + 1 ELSE g[x])
    PROVE  Total(f, S) = Total(g, S) + Cardinality(C)
<1> DEFINE Good == {T \in SUBSET S : Total(f, T) = Total(g, T) + Cardinality(T \cap C)}
<1>1. ASSUME NEW T \in SUBSET S, \A x \in T : T \ {x} \in Good
      PROVE  T \in Good
  <2>1. CASE T = {}
    <3>1. T \cap C = {}
      BY <2>1
    <3>. QED
      BY <2>1, <3>1, TotalEmpty, FS_EmptySet
  <2>2. CASE T # {}
    <3> DEFINE p == Pick(T)
               U == T \ {p}
    <3>1. p \in T /\ Total(f, T) = f[p] + Total(f, U) /\ Total(g, T) = g[p] + Total(g, U)
      BY <2>2, FS_Subset, TotalPick
    <3>2. /\ IsFiniteSet(U) /\ IsFiniteSet(T \cap C) /\ IsFiniteSet(U \cap C)
          /\ Cardinality(U \cap C) \in Nat /\ Cardinality(T \cap C) \in Nat
      BY FS_Subset, FS_CardinalityType
    <3>3. Total(g, U) \in Int /\ g[p] \in Int
      BY <3>1, <3>2, TotalType
    <3>4. Total(f, U) = Total(g, U) + Cardinality(U \cap C)
      BY <1>1, <3>1
    <3>5. CASE p \in C
      <4>1. U \cap C = (T \cap C) \ {p} /\ p \in T \cap C
        BY <3>1, <3>5
      <4>2. Cardinality(U \cap C) = Cardinality(T \cap C) - 1
        <5> DEFINE A == T \cap C
        <5>1. IsFiniteSet(A) /\ p \in A /\ U \cap C = A \ {p}
          BY <3>2, <4>1
        <5> HIDE DEF A, p
        <5>2. Cardinality(A \ {p}) = Cardinality(A) - 1
          BY ONLY <5>1, FS_RemoveElement
        <5>. QED
          BY <5>1, <5>2 DEF A
      <4>3. f[p] = g[p] + 1
        BY <3>1, <3>5
      <4> HIDE DEF p, U
      <4>. QED
        BY <3>1, <3>2, <3>3, <3>4, <4>2, <4>3
    <3>6. CASE p \notin C
      <4>1. U \cap C = T \cap C /\ f[p] = g[p]
        BY <3>1, <3>6
      <4> HIDE DEF p, U
      <4>. QED
        BY <3>1, <3>2, <3>3, <3>4, <4>1
    <3>. QED
      BY <3>5, <3>6
  <2>. QED
    BY <2>1, <2>2
<1>2. SUBSET S \subseteq Good
  <2> HIDE DEF Good
  <2>. QED
    BY <1>1, OnFiniteSets
<1>3. S \cap C = C
  OBVIOUS
<1>. QED
  BY <1>2, <1>3

-----------------------------------------------------------------------------
(* Products *)

LEMMA TimesMonotonic ==
    ASSUME NEW a \in Nat, NEW b \in Nat, a <= b, NEW c \in Nat
    PROVE  a * c \in Nat /\ b * c \in Nat /\ a * c <= b * c
OBVIOUS

\* divmod: the quotient times the divisor, and a rest smaller than it.
LEMMA DivMod ==
    ASSUME NEW a \in Nat, NEW b \in Nat \ {0}
    PROVE  /\ a \div b \in Nat /\ a % b \in Nat /\ a % b < b
           /\ a = b * (a \div b) + (a % b)
<1>1. a \in Int /\ b \in Int /\ b > 0
  OBVIOUS
<1>2. a = b * (a \div b) + (a % b)
  BY ONLY <1>1, Z3
<1>3. a \div b \in Nat /\ a % b \in Nat /\ a % b < b
  BY SMT
<1>. QED
  BY <1>2, <1>3

\* A multiple of every part.
LEMMA TotalTimes ==
    ASSUME NEW S, IsFiniteSet(S), NEW f, NEW g, NEW c \in Int,
           \A x \in S : f[x] \in Int /\ g[x] = f[x] * c
    PROVE  Total(g, S) = Total(f, S) * c
<1> DEFINE Good == {T \in SUBSET S : Total(g, T) = Total(f, T) * c}
<1>1. ASSUME NEW T \in SUBSET S, \A x \in T : T \ {x} \in Good
      PROVE  T \in Good
  <2>1. CASE T = {}
    BY <2>1, TotalEmpty
  <2>2. CASE T # {}
    <3> DEFINE p == Pick(T)
               a == Total(f, T \ {p})
    <3>1. /\ p \in T /\ IsFiniteSet(T \ {p})
          /\ Total(f, T) = f[p] + a /\ Total(g, T) = g[p] + Total(g, T \ {p})
      BY <2>2, FS_Subset, TotalPick
    <3>2. a \in Int /\ f[p] \in Int /\ g[p] = f[p] * c
      BY <3>1, TotalType
    <3>3. Total(g, T \ {p}) = a * c
      BY <1>1, <3>1
    <3> HIDE DEF a, p
    <3>4. (f[p] + a) * c = f[p] * c + a * c
      BY ONLY <3>2, c \in Int
    <3>. QED
      BY <3>1, <3>2, <3>3, <3>4
  <2>. QED
    BY <2>1, <2>2
<1>2. SUBSET S \subseteq Good
  <2> HIDE DEF Good
  <2>. QED
    BY <1>1, OnFiniteSets
<1>. QED
  BY <1>2

\* One part grows while none becomes less.
LEMMA TotalGrows ==
    ASSUME NEW S, IsFiniteSet(S), NEW f, NEW g,
           \A y \in S : f[y] \in Int /\ g[y] \in Int /\ f[y] <= g[y],
           NEW x \in S, f[x] + 1 <= g[x]
    PROVE  Total(f, S) + 1 <= Total(g, S)
<1> DEFINE R == S \ {x}
<1>1. IsFiniteSet(R)
  BY FS_RemoveElement
<1>2. Total(f, S) = f[x] + Total(f, R) /\ Total(g, S) = g[x] + Total(g, R)
  BY TotalWithout
<1>3. Total(f, R) \in Int /\ Total(g, R) \in Int /\ f[x] \in Int /\ g[x] \in Int
  BY <1>1, TotalType
<1>4. Total(f, R) <= Total(g, R)
  BY <1>1, TotalMonotonic
<1> HIDE DEF R
<1>. QED
  BY <1>2, <1>3, <1>4
=============================================================================
