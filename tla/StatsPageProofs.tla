--------------------------- MODULE StatsPageProofs ---------------------------
(* Proofs about StatsPage: the view counter and the window of latencies,    *)
(* for any number of articles, visitors, exports and pages.                 *)
EXTENDS StatsPage, WellFoundedInduction, FiniteSetTheorems, FunctionTheorems, SequenceTheorems,
        TLAPS

-----------------------------------------------------------------------------
(* Numbers: induction over a set of naturals.                              *)

LEMMA Least == ASSUME NEW S \in SUBSET Nat, S # {} PROVE \E m \in S : \A n \in S : m <= n
  <1>1. PICK m \in S : \A n \in S : ~ (<<n, m>> \in OpToRel(<, Nat))
    BY NatLessThanWellFounded, WFMin, Zenon
  <1>2. ASSUME NEW n \in S, n < m PROVE FALSE
    <2>1. <<n, m>> \in Nat \X Nat /\ <<n, m>>[1] = n /\ <<n, m>>[2] = m
      OBVIOUS
    <2>2. <<n, m>> \in OpToRel(<, Nat)
      BY <1>2, <2>1, Zenon DEF OpToRel
    <2>3. QED
      BY <1>1, <2>2
  <1>3. QED
    BY <1>2

LEMMA Induction ==
  ASSUME NEW S, 0 \in S, \A n \in Nat : n \in S => n + 1 \in S PROVE \A n \in Nat : n \in S
  <1>1. SUFFICES ASSUME Nat \ S # {} PROVE FALSE
    OBVIOUS
  <1>2. PICK m \in Nat \ S : \A n \in Nat \ S : m <= n
    BY <1>1, Least
  <1>3. m # 0 /\ m \in Nat
    BY <1>2
  <1>4. m - 1 \in Nat /\ m - 1 \in S
    BY <1>2, <1>3
  <1>5. (m - 1) + 1 \in S
    BY <1>4
  <1>6. QED
    BY <1>3, <1>5
-----------------------------------------------------------------------------
(* Sums, which the folds of the library compute element by element.        *)

One(s) == CHOOSE x \in s : TRUE
IsFold(f, S, g) == g = [s \in SUBSET S |-> IF s = {} THEN 0 ELSE f[One(s)] + g[s \ {One(s)}]]
SumOver(f, S) == (CHOOSE g : IsFold(f, S, g))[S]

LEMMA FoldSeqIsSum == ASSUME NEW s PROVE FoldSeq(+, 0, s) = SumOver(s, DOMAIN s)
  BY DEF FoldSeq, FoldFunction, FoldFunctionOnSet, MapThenFoldSet, SumOver, IsFold, One
LEMMA SumFunctionIsSum == ASSUME NEW f PROVE SumFunction(f) = SumOver(f, DOMAIN f)
  BY DEF SumFunction, SumFunctionOnSet, FoldFunctionOnSet, MapThenFoldSet, SumOver, IsFold, One

LEMMA OneOf == \A s : s # {} => One(s) \in s
  BY DEF One

\* The same set has the same fold, whatever sets it is folded within.
Both(f, S, T, g, h, U) ==
  IsFold(f, S, g) /\ IsFold(f, T, h) /\ U \subseteq S /\ U \subseteq T /\ IsFiniteSet(U)

LEMMA FoldsAgree == ASSUME NEW f
                    PROVE  \A S, T, g, h, U : Both(f, S, T, g, h, U) => g[U] = h[U]
  <1> DEFINE Same(n) == \A S, T, g, h, U :
                          Both(f, S, T, g, h, U) /\ Cardinality(U) = n => g[U] = h[U]
             Good == {n \in Nat : Same(n)}
  <1>1. 0 \in Good
    <2> SUFFICES ASSUME NEW S, NEW T, NEW g, NEW h, NEW U, Both(f, S, T, g, h, U), Cardinality(U) = 0
                 PROVE  g[U] = h[U]
      OBVIOUS
    <2>1. U = {}
      BY FS_EmptySet DEF Both
    <2>2. g[U] = 0 /\ h[U] = 0
      BY <2>1 DEF IsFold, Both
    <2>3. QED
      BY <2>2
  <1>2. ASSUME NEW n \in Nat, n \in Good PROVE n + 1 \in Good
    <2>0. Same(n)
      BY <1>2
    <2> SUFFICES ASSUME NEW S, NEW T, NEW g, NEW h, NEW U, Both(f, S, T, g, h, U),
                        Cardinality(U) = n + 1
                 PROVE  g[U] = h[U]
      OBVIOUS
    <2>1. U # {}
      BY FS_EmptySet
    <2>2. PICK x, V : x = One(U) /\ x \in U /\ V = U \ {x}
      BY <2>1, OneOf
    <2>3. Both(f, S, T, g, h, V) /\ Cardinality(V) = n
      BY <2>2, FS_RemoveElement DEF Both
    <2>4. g[V] = h[V]
      BY <2>0, <2>3
    <2>5. g[U] = f[x] + g[V] /\ h[U] = f[x] + h[V]
      BY <2>1, <2>2 DEF IsFold, Both
    <2>6. QED
      BY <2>4, <2>5
  <1>3. \A n \in Nat : n \in Good
    <2> HIDE DEF Good
    <2>1. QED
      BY <1>1, <1>2, Induction
  <1>4. \A n \in Nat : Same(n)
    BY <1>3
  <1>5. QED
    <2> SUFFICES ASSUME NEW S, NEW T, NEW g, NEW h, NEW U, Both(f, S, T, g, h, U)
                 PROVE  g[U] = h[U]
      OBVIOUS
    <2>1. Cardinality(U) \in Nat
      BY FS_CardinalityType DEF Both
    <2>2. QED
      BY <1>4, <2>1

\* Every finite set has a fold.
LEMMA FoldExists == ASSUME NEW f, NEW S, IsFiniteSet(S) PROVE \E g : IsFold(f, S, g)
  <1> DEFINE Has(n) == \A T : IsFiniteSet(T) /\ Cardinality(T) <= n => \E g : IsFold(f, T, g)
             Good == {n \in Nat : Has(n)}
  <1>0. \A T : IsFiniteSet(T) => Cardinality(T) \in Nat
    BY FS_CardinalityType
  <1>1. 0 \in Good
    <2> SUFFICES ASSUME NEW T, IsFiniteSet(T), Cardinality(T) <= 0 PROVE \E g : IsFold(f, T, g)
      OBVIOUS
    <2>1. T = {}
      BY <1>0, FS_EmptySet
    <2>2. IsFold(f, T, [s \in SUBSET T |-> 0])
      BY <2>1 DEF IsFold
    <2>3. QED
      BY <2>2
  <1>2. ASSUME NEW n \in Nat, n \in Good PROVE n + 1 \in Good
    <2>0. Has(n)
      BY <1>2
    <2> SUFFICES ASSUME NEW T, IsFiniteSet(T), Cardinality(T) <= n + 1
                 PROVE  \E g : IsFold(f, T, g)
      OBVIOUS
    <2> DEFINE Rest(s) == s \ {One(s)}
               H(U)    == CHOOSE h : IsFold(f, U, h)
               g       == [s \in SUBSET T |-> IF s = {} THEN 0 ELSE f[One(s)] + H(Rest(s))[Rest(s)]]
    <2>1. ASSUME NEW s \in SUBSET T, s # {}
          PROVE  IsFiniteSet(Rest(s)) /\ Rest(s) \subseteq s /\ IsFold(f, Rest(s), H(Rest(s)))
      <3>1. IsFiniteSet(s) /\ Cardinality(s) <= n + 1
        BY <1>0, FS_Subset
      <3>2. IsFiniteSet(Rest(s)) /\ Cardinality(Rest(s)) <= n
        BY <1>0, <2>1, <3>1, OneOf, FS_RemoveElement
      <3>3. \E h : IsFold(f, Rest(s), h)
        BY <2>0, <3>2
      <3>4. QED
        BY <3>2, <3>3
    <2>2. ASSUME NEW s \in SUBSET T, s # {} PROVE g[Rest(s)] = H(Rest(s))[Rest(s)]
      <3> DEFINE U == Rest(s)
      <3>1. U \in SUBSET T /\ IsFiniteSet(U) /\ IsFold(f, U, H(U))
        BY <2>1, <2>2
      <3>2. CASE U = {}
        <4>1. H(U)[U] = 0
          BY <3>1, <3>2 DEF IsFold
        <4>2. g[U] = 0
          BY <3>2
        <4>3. QED
          BY <4>1, <4>2
      <3>3. CASE U # {}
        <4>1. Rest(U) \subseteq U /\ IsFiniteSet(Rest(U)) /\ IsFold(f, Rest(U), H(Rest(U)))
          BY <2>1, <3>1, <3>3
        <4>2. H(U)[Rest(U)] = H(Rest(U))[Rest(U)]
          <5>1. PICK h, k, V : h = H(U) /\ k = H(V) /\ V = Rest(U)
            OBVIOUS
          <5>2. Both(f, U, V, h, k, V)
            BY <3>1, <4>1, <5>1 DEF Both
          <5>3. h[V] = k[V]
            BY <5>2, FoldsAgree
          <5> HIDE DEF H, Rest
          <5>4. QED
            BY <5>1, <5>3
        <4>3. H(U)[U] = f[One(U)] + H(U)[Rest(U)]
          BY <3>1, <3>3 DEF IsFold
        <4>4. g[U] = f[One(U)] + H(Rest(U))[Rest(U)]
          BY <3>1, <3>3
        <4>5. QED
          BY <4>2, <4>3, <4>4
      <3>4. QED
        BY <3>2, <3>3
    <2>3. g = [s \in SUBSET T |-> IF s = {} THEN 0 ELSE f[One(s)] + g[Rest(s)]]
      <3> DEFINE e(s) == IF s = {} THEN 0 ELSE f[One(s)] + H(Rest(s))[Rest(s)]
                 d(s) == IF s = {} THEN 0 ELSE f[One(s)] + g[Rest(s)]
      <3>1. ASSUME NEW s \in SUBSET T PROVE e(s) = d(s)
        <4>1. CASE s = {}
          BY <4>1
        <4>2. CASE s # {}
          <5>1. g[Rest(s)] = H(Rest(s))[Rest(s)]
            BY <2>2, <4>2
          <5>2. e(s) = f[One(s)] + H(Rest(s))[Rest(s)] /\ d(s) = f[One(s)] + g[Rest(s)]
            BY <4>2, Zenon
          <5> HIDE DEF e, d, g, H, Rest
          <5>3. QED
            BY <5>1, <5>2
        <4>3. QED
          BY <4>1, <4>2
      <3>2. g = [s \in SUBSET T |-> e(s)]
        OBVIOUS
      <3> HIDE DEF e, d, g
      <3>3. g = [s \in SUBSET T |-> d(s)]
        BY <3>1, <3>2
      <3>4. QED
        BY <3>3 DEF d
    <2>4. IsFold(f, T, g)
      BY <2>3 DEF IsFold
    <2>5. QED
      BY <2>4
  <1>3. \A n \in Nat : n \in Good
    <2> HIDE DEF Good
    <2>1. QED
      BY <1>1, <1>2, Induction
  <1>4. QED
    BY <1>0, <1>3

LEMMA SumStep ==
  ASSUME NEW f, NEW S, IsFiniteSet(S), S # {}
  PROVE  \E x \in S : SumOver(f, S) = f[x] + SumOver(f, S \ {x})
  <1> DEFINE x == One(S)
             T == S \ {x}
             g == CHOOSE h : IsFold(f, S, h)
             k == CHOOSE h : IsFold(f, T, h)
  <1>1. x \in S /\ IsFiniteSet(T)
    BY OneOf, FS_RemoveElement
  <1>2. IsFold(f, S, g) /\ IsFold(f, T, k)
    BY <1>1, FoldExists
  <1>3. g[T] = k[T]
    <2>1. Both(f, S, T, g, k, T)
      BY <1>1, <1>2 DEF Both
    <2> HIDE DEF g, k, T
    <2>2. QED
      BY <2>1, FoldsAgree
  <1>4. g[S] = f[x] + g[T]
    BY <1>2 DEF IsFold
  <1>5. QED
    BY <1>1, <1>3, <1>4 DEF SumOver

LEMMA SumEmpty == ASSUME NEW f PROVE SumOver(f, {}) = 0
  <1>1. IsFold(f, {}, CHOOSE g : IsFold(f, {}, g))
    BY FoldExists, FS_EmptySet
  <1>2. QED
    BY <1>1 DEF SumOver, IsFold

LEMMA Distribute == ASSUME NEW m \in Int, NEW n \in Int PROVE m * (n + 1) = m * n + m
  OBVIOUS
LEMMA Quotient ==
  ASSUME NEW a \in Nat, NEW n \in Nat, n > 0
  PROVE  a \div n \in Nat /\ (a \div n) * n <= a /\ a < (a \div n) * n + n
  OBVIOUS

\* A sum of naturals lies between as many of their least and of their greatest.
LEMMA SumBounds ==
  ASSUME NEW f, NEW low \in Nat, NEW high \in Nat
  PROVE  \A S : IsFiniteSet(S) /\ (\A x \in S : f[x] \in low..high)
                => /\ SumOver(f, S) \in Nat
                   /\ low * Cardinality(S) <= SumOver(f, S)
                   /\ SumOver(f, S) <= high * Cardinality(S)
  <1> DEFINE Bound(S) == /\ SumOver(f, S) \in Nat
                         /\ low * Cardinality(S) <= SumOver(f, S)
                         /\ SumOver(f, S) <= high * Cardinality(S)
             Holds(n) == \A S : IsFiniteSet(S) /\ Cardinality(S) = n /\ (\A x \in S : f[x] \in low..high)
                               => Bound(S)
             Good == {n \in Nat : Holds(n)}
  <1>1. 0 \in Good
    <2> SUFFICES ASSUME NEW S, IsFiniteSet(S), Cardinality(S) = 0 PROVE Bound(S)
      OBVIOUS
    <2>1. S = {}
      BY FS_EmptySet
    <2>2. SumOver(f, S) = 0
      BY <2>1, SumEmpty
    <2>3. low * 0 = 0 /\ high * 0 = 0
      OBVIOUS
    <2>4. QED
      BY <2>2, <2>3
  <1>2. ASSUME NEW n \in Nat, n \in Good PROVE n + 1 \in Good
    <2>0. Holds(n)
      BY <1>2
    <2> SUFFICES ASSUME NEW S, IsFiniteSet(S), Cardinality(S) = n + 1, \A x \in S : f[x] \in low..high
                 PROVE  Bound(S)
      OBVIOUS
    <2>1. S # {}
      BY FS_EmptySet
    <2>2. PICK x \in S : SumOver(f, S) = f[x] + SumOver(f, S \ {x})
      BY <2>1, SumStep
    <2>3. IsFiniteSet(S \ {x}) /\ Cardinality(S \ {x}) = n
      BY FS_RemoveElement
    <2>4. Bound(S \ {x}) /\ f[x] \in low..high
      BY <2>0, <2>3
    <2>5. PICK y, z, c, d : y = f[x] /\ z = SumOver(f, S \ {x}) /\ c = low * n /\ d = high * n
      OBVIOUS
    <2>6. z \in Nat /\ c <= z /\ z <= d /\ y \in low..high
      BY <2>3, <2>4, <2>5
    <2>7. low * (n + 1) = c + low /\ high * (n + 1) = d + high
      BY <2>5, Distribute
    <2>8. SumOver(f, S) = y + z
      BY <2>2, <2>5
    <2>x. c \in Nat /\ d \in Nat
      BY <2>5
    <2>9. y + z \in Nat /\ c + low <= y + z /\ y + z <= d + high
      BY <2>6, <2>x
    <2>10. QED
      BY <2>7, <2>8, <2>9
  <1>3. \A n \in Nat : n \in Good
    <2> HIDE DEF Good
    <2>1. QED
      BY <1>1, <1>2, Induction
  <1>4. \A n \in Nat : Holds(n)
    BY <1>3
  <1>5. \A S : IsFiniteSet(S) => Cardinality(S) \in Nat
    BY FS_CardinalityType
  <1>6. QED
    BY <1>4, <1>5
-----------------------------------------------------------------------------
(* Sorting.                                                                *)
Orders(p, s, n) ==
  /\ p \in [1..n -> 1..n]
  /\ \A i, j \in 1..n : p[i] = p[j] => i = j
  /\ \A k \in 1..n : \E i \in 1..n : p[i] = k
  /\ \A i, j \in 1..n : i <= j => s[p[i]] <= s[p[j]]

\* Insertion: one more place, at position k of the order so far.
Inserted(p, n, k) == [i \in 1..(n + 1) |-> IF i < k THEN p[i] ELSE IF i = k THEN n + 1 ELSE p[i - 1]]

LEMMA InsertionOrders ==
  ASSUME NEW n \in Nat, NEW s, NEW p, Orders(p, s, n), \A i \in 1..(n + 1) : s[i] \in Nat,
         NEW k \in 1..(n + 1),
         \A i \in 1..n : i < k => s[p[i]] <= s[n + 1],
         \A i \in 1..n : i >= k => s[n + 1] <= s[p[i]]
  PROVE  Orders(Inserted(p, n, k), s, n + 1)
  <1> DEFINE q == Inserted(p, n, k)
  <1>1. ASSUME NEW i \in 1..(n + 1)
        PROVE  \/ i < k /\ i \in 1..n /\ q[i] = p[i]
               \/ i = k /\ q[i] = n + 1
               \/ i > k /\ i - 1 \in 1..n /\ q[i] = p[i - 1]
    BY DEF Inserted
  <1>2. \A i \in 1..n : p[i] \in 1..n
    BY DEF Orders
  <1>3. q \in [1..(n + 1) -> 1..(n + 1)]
    <2>1. q = [i \in 1..(n + 1) |-> q[i]]
      BY DEF Inserted
    <2> HIDE DEF q
    <2>2. \A i \in 1..(n + 1) : q[i] \in 1..(n + 1)
      BY <1>1, <1>2
    <2>3. QED
      BY <2>1, <2>2
  <1> HIDE DEF q
  <1>4. ASSUME NEW i \in 1..(n + 1), NEW j \in 1..(n + 1), q[i] = q[j] PROVE i = j
    <2>1. \A a, b \in 1..n : p[a] = p[b] => a = b
      BY DEF Orders
    <2>2. QED
      BY <1>1, <1>2, <1>4, <2>1
  <1>5. ASSUME NEW x \in 1..(n + 1) PROVE \E i \in 1..(n + 1) : q[i] = x
    <2>1. CASE x = n + 1
      BY <1>1, <2>1
    <2>2. CASE x # n + 1
      <3>1. PICK i \in 1..n : p[i] = x
        BY <2>2 DEF Orders
      <3>2. CASE i < k
        <4>1. i \in 1..(n + 1) /\ q[i] = p[i]
          BY <1>1, <3>2
        <4>2. QED
          BY <3>1, <4>1
      <3>3. CASE i >= k
        <4>1. i + 1 \in 1..(n + 1) /\ i + 1 > k
          BY <3>3
        <4>2. q[i + 1] = p[i]
          BY <1>1, <4>1
        <4>3. QED
          BY <3>1, <4>1, <4>2
      <3>4. QED
        BY <3>2, <3>3
    <2>3. QED
      BY <2>1, <2>2
  <1>6. ASSUME NEW i \in 1..(n + 1), NEW j \in 1..(n + 1), i <= j PROVE s[q[i]] <= s[q[j]]
    <2>1. \A a, b \in 1..n : a <= b => s[p[a]] <= s[p[b]]
      BY DEF Orders
    <2>2. s[n + 1] \in Nat /\ \A a \in 1..n : s[p[a]] \in Nat
      BY <1>2
    <2>3. CASE i < k
      <3>1. i \in 1..n /\ q[i] = p[i]
        BY <1>1, <2>3
      <3>2. CASE j < k
        BY <1>1, <1>6, <2>1, <3>1, <3>2
      <3>3. CASE j = k
        BY <1>1, <2>3, <3>1, <3>3
      <3>4. CASE j > k
        <4>1. j - 1 \in 1..n /\ q[j] = p[j - 1] /\ i <= j - 1
          BY <1>1, <2>3, <3>4
        <4>2. QED
          BY <2>1, <3>1, <4>1
      <3>5. QED
        BY <3>2, <3>3, <3>4
    <2>4. CASE i = k
      <3>1. q[i] = n + 1
        BY <1>1, <2>4
      <3>2. CASE j = k
        BY <1>1, <2>2, <2>4, <3>2
      <3>3. CASE j > k
        <4>1. j - 1 \in 1..n /\ q[j] = p[j - 1] /\ j - 1 >= k
          BY <1>1, <3>3
        <4>2. QED
          BY <3>1, <4>1
      <3>4. QED
        BY <1>6, <2>4, <3>2, <3>3
    <2>5. CASE i > k
      <3>1. i - 1 \in 1..n /\ q[i] = p[i - 1] /\ j - 1 \in 1..n /\ q[j] = p[j - 1] /\ i - 1 <= j - 1
        BY <1>1, <1>6, <2>5
      <3>2. QED
        BY <2>1, <3>1
    <2>6. QED
      BY <2>3, <2>4, <2>5
  <1>7. QED
    BY <1>3, <1>4, <1>5, <1>6 DEF Orders, q

\* Every window can be put in order.
LEMMA OrderExists ==
  ASSUME NEW s, NEW m \in Nat, \A i \in 1..m : s[i] \in Nat
  PROVE  \E p : Orders(p, s, m)
  <1> DEFINE Good == {n \in Nat : n <= m => \E p : Orders(p, s, n)}
  <1>1. 0 \in Good
    <2>1. Orders(<<>>, s, 0)
      BY DEF Orders
    <2>2. QED
      BY <2>1
  <1>2. ASSUME NEW n \in Nat, n \in Good PROVE n + 1 \in Good
    <2> SUFFICES ASSUME n + 1 <= m PROVE \E q : Orders(q, s, n + 1)
      OBVIOUS
    <2>1. PICK p : Orders(p, s, n)
      BY <1>2
    <2>2. \A i \in 1..(n + 1) : s[i] \in Nat
      OBVIOUS
    <2>3. \A i \in 1..n : p[i] \in 1..n /\ s[p[i]] \in Nat
      BY <2>1, <2>2 DEF Orders
    <2> DEFINE Later == {i \in 1..(n + 1) : i = n + 1 \/ s[p[i]] > s[n + 1]}
    <2>4. PICK k \in Later : \A i \in Later : k <= i
      <3>1. Later \in SUBSET Nat /\ n + 1 \in Later
        OBVIOUS
      <3> HIDE DEF Later
      <3>2. QED
        BY <3>1, Least
    <2>5. \A i \in 1..n : i < k => s[p[i]] <= s[n + 1]
      <3>1. SUFFICES ASSUME NEW i \in 1..n, i < k, ~(s[p[i]] <= s[n + 1]) PROVE FALSE
        OBVIOUS
      <3>2. s[p[i]] > s[n + 1]
        BY <2>2, <2>3, <3>1
      <3>3. i \in Later
        BY <3>2
      <3>4. QED
        BY <2>4, <3>1, <3>3
    <2>6. \A i \in 1..n : i >= k => s[n + 1] <= s[p[i]]
      <3> SUFFICES ASSUME NEW i \in 1..n, i >= k PROVE s[n + 1] <= s[p[i]]
        OBVIOUS
      <3>1. k \in 1..n /\ s[p[k]] > s[n + 1]
        BY <2>4
      <3>2. s[p[k]] <= s[p[i]]
        BY <2>1, <3>1 DEF Orders
      <3>3. QED
        BY <2>2, <2>3, <3>1, <3>2
    <2>7. Orders(Inserted(p, n, k), s, n + 1)
      BY <2>1, <2>2, <2>4, <2>5, <2>6, InsertionOrders
    <2>8. QED
      BY <2>7
  <1>3. \A n \in Nat : n \in Good
    <2> HIDE DEF Good
    <2>1. QED
      BY <1>1, <1>2, Induction
  <1>4. QED
    BY <1>3

LEMMA SortedIs ==
  ASSUME NEW s \in Seq(Nat), NEW n \in Nat, n = Len(s)
  PROVE  \E p : Orders(p, s, n) /\ Sorted(s) = [i \in 1..n |-> s[p[i]]]
  <1> DEFINE InOrder(p) == \A i, j \in 1..n : i <= j => s[p[i]] <= s[p[j]]
             place == CHOOSE p \in Bijection(1..n, 1..n) : InOrder(p)
  <1>1. DOMAIN s = 1..n /\ \A i \in 1..n : s[i] \in Nat
    BY LenProperties, ElementOfSeq
  <1>2. Sorted(s) = [i \in 1..n |-> s[place[i]]]
    BY <1>1 DEF Sorted
  <1>3. \E p \in Bijection(1..n, 1..n) : InOrder(p)
    <2>1. PICK p : Orders(p, s, n)
      BY <1>1, OrderExists
    <2>2. p \in Bijection(1..n, 1..n)
      BY <2>1, Fun_IsBij DEF Orders
    <2>3. InOrder(p)
      BY <2>1 DEF Orders
    <2>4. QED
      BY <2>2, <2>3
  <1>4. place \in Bijection(1..n, 1..n) /\ InOrder(place)
    <2> HIDE DEF InOrder
    <2>1. QED
      BY <1>3
  <1> HIDE DEF place
  <1>5. Orders(place, s, n)
    <2>1. /\ place \in [1..n -> 1..n]
          /\ \A i, j \in 1..n : place[i] = place[j] => i = j
          /\ \A k \in 1..n : \E i \in 1..n : place[i] = k
      <3>1. PICK q, I : q = place /\ I = 1..n
        OBVIOUS
      <3>2. q \in Bijection(I, I)
        BY <1>4, <3>1
      <3>3. /\ q \in [I -> I]
            /\ \A i, j \in I : q[i] = q[j] => i = j
            /\ \A k \in I : \E i \in I : q[i] = k
        <4>1. q \in [I -> I]
          BY <3>2, Fun_BijectionProperties
        <4>2. \A i, j \in I : q[i] = q[j] => i = j
          BY <3>2, Fun_BijectionProperties
        <4>3. \A k \in I : \E i \in I : q[i] = k
          BY <3>2, Fun_BijectionProperties
        <4>4. QED
          BY <4>1, <4>2, <4>3
      <3>4. QED
        BY <3>1, <3>3
    <2>2. QED
      BY <1>4, <2>1 DEF Orders
  <1>6. QED
    BY <1>2, <1>5

NoMore(s, n, x) == {j \in 1..n : s[j] <= x}
NoLess(s, n, x) == {j \in 1..n : s[j] >= x}

\* At least i places hold no more than the i-th in order, and at least n - i + 1 no less.
LEMMA Ranks ==
  ASSUME NEW s, NEW n \in Nat, NEW p, Orders(p, s, n), NEW i \in 1..n
  PROVE  /\ Cardinality(NoMore(s, n, s[p[i]])) \in Nat
         /\ Cardinality(NoMore(s, n, s[p[i]])) >= i
         /\ Cardinality(NoLess(s, n, s[p[i]])) \in Nat
         /\ Cardinality(NoLess(s, n, s[p[i]])) >= n - i + 1
  <1> DEFINE Low  == NoMore(s, n, s[p[i]])
             High == NoLess(s, n, s[p[i]])
             f == [a \in 1..i |-> p[a]]
             g == [a \in i..n |-> p[a]]
  <1>0. IsFiniteSet(Low) /\ IsFiniteSet(High)
    BY FS_Interval, FS_Subset DEF NoMore, NoLess
  <1>1. f \in Injection(1..i, Low)
    <2>1. \A a \in 1..i : a \in 1..n /\ p[a] \in 1..n /\ s[p[a]] <= s[p[i]]
      BY DEF Orders
    <2>2. f \in [1..i -> Low]
      BY <2>1 DEF NoMore
    <2>3. \A a, b \in 1..i : f[a] = f[b] => a = b
      BY <2>1 DEF Orders
    <2>4. QED
      BY <2>2, <2>3, Fun_IsInj
  <1>2. g \in Injection(i..n, High)
    <2>1. \A a \in i..n : a \in 1..n /\ p[a] \in 1..n /\ s[p[a]] >= s[p[i]]
      BY DEF Orders
    <2>2. g \in [i..n -> High]
      BY <2>1 DEF NoLess
    <2>3. \A a, b \in i..n : g[a] = g[b] => a = b
      BY <2>1 DEF Orders
    <2>4. QED
      BY <2>2, <2>3, Fun_IsInj
  <1>3. Cardinality(1..i) = i /\ Cardinality(i..n) = n - i + 1
    BY FS_Interval
  <1> HIDE DEF Low, High, f, g
  <1>4. i <= Cardinality(Low) /\ n - i + 1 <= Cardinality(High)
    BY <1>0, <1>1, <1>2, <1>3, FS_Injection
  <1>5. Cardinality(Low) \in Nat /\ Cardinality(High) \in Nat
    BY <1>0, FS_CardinalityType
  <1>6. QED
    BY <1>4, <1>5 DEF Low, High

Percents == {50, 95, 99}

\* The place that GetPercentile takes, of n places.
Place(n, p) == Smallest((n * p) \div 100, n - 1) + 1

LEMMA PlaceFits ==
  ASSUME NEW n \in Nat, n > 0, NEW p \in Percents
  PROVE  /\ Place(n, p) \in 1..n
         /\ 100 * Place(n, p) > p * n
         /\ 100 * (n - Place(n, p) + 1) >= (100 - p) * n
  <1>1. CASE p = 50
    BY <1>1 DEF Place, Smallest
  <1>2. CASE p = 95
    BY <1>2 DEF Place, Smallest
  <1>3. CASE p = 99
    BY <1>3 DEF Place, Smallest
  <1>4. QED
    BY <1>1, <1>2, <1>3 DEF Percents

LEMMA PlacesRise ==
  ASSUME NEW n \in Nat, n > 0
  PROVE  Place(n, 50) <= Place(n, 95) /\ Place(n, 95) <= Place(n, 99)
  BY DEF Place, Smallest

LEMMA PercentileIs ==
  ASSUME latencies \in Seq(Nat), latencies # <<>>
  PROVE  \E n \in Nat : \E order : /\ n = Len(latencies) /\ n > 0 /\ DOMAIN latencies = 1..n
                                   /\ Orders(order, latencies, n)
                                   /\ \A p \in Percents : GetPercentile(p) = latencies[order[Place(n, p)]]
  <1>1. PICK n \in Nat : n = Len(latencies) /\ n > 0 /\ DOMAIN latencies = 1..n
    BY EmptySeq, LenProperties
  <1>2. PICK order : Orders(order, latencies, n) /\ Sorted(latencies) = [i \in 1..n |-> latencies[order[i]]]
    BY <1>1, SortedIs
  <1>3. ASSUME NEW p \in Percents PROVE GetPercentile(p) = latencies[order[Place(n, p)]]
    <2>1. GetPercentile(p) = Sorted(latencies)[Place(n, p)]
      BY <1>1 DEF GetPercentile, Place
    <2>2. Place(n, p) \in 1..n
      BY <1>1, PlaceFits
    <2>3. QED
      BY <1>2, <2>1, <2>2
  <1>4. QED
    BY <1>1, <1>2, <1>3

LEMMA PercentilesRise ==
  ASSUME latencies \in Seq(Nat)
  PROVE  GetPercentile(50) <= GetPercentile(95) /\ GetPercentile(95) <= GetPercentile(99)
  <1>1. CASE latencies = <<>>
    BY <1>1 DEF GetPercentile
  <1>2. CASE latencies # <<>>
    <2>1. PICK n, order : /\ n \in Nat /\ n > 0
                          /\ Orders(order, latencies, n)
                          /\ \A p \in Percents : GetPercentile(p) = latencies[order[Place(n, p)]]
      BY <1>2, PercentileIs
    <2>2. {50, 95, 99} \subseteq Percents
      BY DEF Percents
    <2>3. \A p \in {50, 95, 99} : Place(n, p) \in 1..n
      BY <2>1, <2>2, PlaceFits
    <2>4. Place(n, 50) <= Place(n, 95) /\ Place(n, 95) <= Place(n, 99)
      BY <2>1, PlacesRise
    <2>5. \A i, j \in 1..n : i <= j => latencies[order[i]] <= latencies[order[j]]
      BY <2>1 DEF Orders
    <2>6. QED
      BY <2>1, <2>2, <2>3, <2>4, <2>5
  <1>3. QED
    BY <1>1, <1>2

LEMMA AverageInside ==
  ASSUME latencies \in Seq(Nat), latencies # <<>>
  PROVE  /\ \E i \in DOMAIN latencies : latencies[i] <= GetAverage
         /\ \E i \in DOMAIN latencies : latencies[i] >= GetAverage
  <1>1. PICK n, I : n \in Nat /\ n = Len(latencies) /\ n > 0 /\ I = DOMAIN latencies /\ I = 1..n
    BY EmptySeq, LenProperties
  <1>2. IsFiniteSet(I) /\ Cardinality(I) = n /\ \A i \in I : latencies[i] \in Nat
    <2>1. IsFiniteSet(1..n) /\ Cardinality(1..n) = n
      <3>1. n \in Int /\ 1 \in Int /\ ~(1 > n) /\ n - 1 + 1 = n
        BY <1>1
      <3>2. QED
        BY <3>1, FS_Interval
    <2>2. \A i \in 1..n : latencies[i] \in Nat
      BY <1>1, ElementOfSeq
    <2>3. QED
      BY <1>1, <2>1, <2>2
  <1>3. PICK sum, avg : sum = SumOver(latencies, I) /\ avg = sum \div n
    OBVIOUS
  <1>4. GetAverage = avg
    BY <1>1, <1>3, FoldSeqIsSum DEF GetAverage
  <1>5. ASSUME NEW low \in Nat, NEW high \in Nat, \A i \in I : latencies[i] \in low..high
        PROVE  sum \in Nat /\ low * n <= sum /\ sum <= high * n
    BY <1>2, <1>3, <1>5, SumBounds
  <1>6. \E high \in Nat : \A i \in I : latencies[i] <= high
    <2>1. PICK order : Orders(order, latencies, n)
      BY <1>1, <1>2, OrderExists
    <2>2. \A i \in I : latencies[i] <= latencies[order[n]]
      <3>1. ASSUME NEW i \in I PROVE latencies[i] <= latencies[order[n]]
        <4>1. PICK k \in 1..n : order[k] = i
          BY <1>1, <2>1 DEF Orders
        <4>2. \A a, b \in 1..n : a <= b => latencies[order[a]] <= latencies[order[b]]
          BY <2>1 DEF Orders
        <4>3. n \in 1..n /\ k <= n
          BY <1>1
        <4>4. QED
          BY <4>1, <4>2, <4>3
      <3>2. QED
        BY <3>1
    <2>3. latencies[order[n]] \in Nat
      BY <1>1, <1>2, <2>1 DEF Orders
    <2>4. QED
      BY <2>2, <2>3
  <1>7. sum \in Nat
    <2>1. PICK high \in Nat : \A i \in I : latencies[i] <= high
      BY <1>6
    <2>2. \A i \in I : latencies[i] \in 0..high
      BY <1>2, <2>1
    <2>3. QED
      BY <1>5, <2>2
  <1>8. avg \in Nat /\ avg * n <= sum /\ sum < avg * n + n
    BY <1>1, <1>3, <1>7, Quotient
  <1>9. \E i \in I : latencies[i] <= avg
    <2>1. SUFFICES ASSUME \A i \in I : ~(latencies[i] <= avg) PROVE FALSE
      OBVIOUS
    <2>2. PICK high \in Nat : \A i \in I : latencies[i] <= high
      BY <1>6
    <2>3. avg + 1 \in Nat /\ \A i \in I : latencies[i] \in (avg + 1)..high
      BY <1>2, <1>8, <2>1, <2>2
    <2>4. (avg + 1) * n <= sum
      BY <1>5, <2>2, <2>3
    <2>5. (avg + 1) * n = avg * n + n
      BY <1>1, <1>8
    <2>6. QED
      <3>1. PICK m : m = avg * n
        OBVIOUS
      <3>2. m \in Nat
        BY <1>1, <1>8, <3>1
      <3>3. QED
        BY <1>1, <1>7, <1>8, <2>4, <2>5, <3>1, <3>2
  <1>10. \E i \in I : latencies[i] >= avg
    <2>1. SUFFICES ASSUME \A i \in I : ~(latencies[i] >= avg) PROVE FALSE
      OBVIOUS
    <2>2. 1 \in I /\ latencies[1] \in Nat
      BY <1>1, <1>2
    <2>3. avg - 1 \in Nat /\ \A i \in I : latencies[i] \in 0..(avg - 1)
      BY <1>2, <1>8, <2>1, <2>2
    <2>4. sum <= (avg - 1) * n
      BY <1>5, <2>3
    <2>5. (avg - 1) * n = avg * n - n
      BY <1>1, <1>8
    <2>6. QED
      <3>1. PICK m : m = avg * n
        OBVIOUS
      <3>2. m \in Nat
        BY <1>1, <1>8, <3>1
      <3>3. QED
        BY <1>1, <1>7, <1>8, <2>4, <2>5, <3>1, <3>2
  <1>11. QED
    BY <1>1, <1>4, <1>9, <1>10

\* GetPercentile and GetAverage, over any window.
LEMMA Quantiles == ASSUME latencies \in Seq(Nat) PROVE QuantilesRight
  <1> SUFFICES ASSUME latencies # <<>>
               PROVE  /\ \A p \in Percents :
                           /\ \E i \in DOMAIN latencies : latencies[i] = GetPercentile(p)
                           /\ 100 * Below(GetPercentile(p)) > p * Len(latencies)
                           /\ 100 * Above(GetPercentile(p)) >= (100 - p) * Len(latencies)
                      /\ Below(GetAverage) > 0 /\ Above(GetAverage) > 0
    BY Zenon DEF QuantilesRight, Percents
  <1>1. PICK n, order : /\ n \in Nat /\ n = Len(latencies) /\ n > 0 /\ DOMAIN latencies = 1..n
                        /\ Orders(order, latencies, n)
                        /\ \A p \in Percents : GetPercentile(p) = latencies[order[Place(n, p)]]
    BY PercentileIs
  <1>2. ASSUME NEW p \in Percents
        PROVE  /\ \E i \in DOMAIN latencies : latencies[i] = GetPercentile(p)
               /\ 100 * Below(GetPercentile(p)) > p * Len(latencies)
               /\ 100 * Above(GetPercentile(p)) >= (100 - p) * Len(latencies)
    <2>1. PICK k, x : k = Place(n, p) /\ x = GetPercentile(p)
      OBVIOUS
    <2>2. k \in 1..n /\ 100 * k > p * n /\ 100 * (n - k + 1) >= (100 - p) * n
      BY <1>1, <2>1, PlaceFits
    <2>3. x = latencies[order[k]] /\ order[k] \in 1..n
      BY <1>1, <2>1, <2>2 DEF Orders
    <2>4. /\ Below(x) \in Nat /\ Below(x) >= k
          /\ Above(x) \in Nat /\ Above(x) >= n - k + 1
      <3>1. x = latencies[order[k]] /\ Orders(order, latencies, n) /\ n \in Nat /\ k \in 1..n
        BY <1>1, <2>2, <2>3
      <3>2. /\ Below(x) = Cardinality(NoMore(latencies, n, x))
            /\ Above(x) = Cardinality(NoLess(latencies, n, x))
        BY <1>1 DEF Below, Above, NoMore, NoLess
      <3>3. QED
        BY <3>1, <3>2, Ranks
    <2>5. PICK lo, hi : lo = Below(x) /\ hi = Above(x)
      OBVIOUS
    <2>6. p \in Nat
      BY DEF Percents
    <2>7. 100 * lo >= 100 * k /\ 100 * hi >= 100 * (n - k + 1)
      BY <1>1, <2>2, <2>4, <2>5
    <2>8. 100 * lo > p * n /\ 100 * hi >= (100 - p) * n
      <3>1. PICK a, b : a = p * n /\ b = (100 - p) * n
        OBVIOUS
      <3>2. a \in Int /\ b \in Int
        BY <1>1, <2>6, <3>1
      <3>3. QED
        BY <1>1, <2>2, <2>4, <2>5, <2>7, <3>1, <3>2
    <2>9. QED
      BY <1>1, <2>1, <2>3, <2>5, <2>8
  <1>3. Below(GetAverage) > 0 /\ Above(GetAverage) > 0
    <2>1. IsFiniteSet(DOMAIN latencies)
      BY <1>1, FS_Interval
    <2>2. \A S \in SUBSET DOMAIN latencies : S # {} => Cardinality(S) > 0
      BY <2>1, FS_Subset, FS_EmptySet, FS_CardinalityType
    <2>3. QED
      BY <2>2, AverageInside DEF Below, Above
  <1>4. QED
    BY <1>2, <1>3
-----------------------------------------------------------------------------
(* The state.                                                              *)

USE DEF counter, visit, fates, tracker, Goto

Stages == {"start", "mark", "count", "save", "page", "answer", "done"}

Types ==
  /\ clock \in Nat /\ Window <= clock
  /\ views \in [Articles -> Nat] /\ mark \in [Articles -> [Addresses -> Nat]]
  /\ pc \in [Requests -> Stages]
  /\ shown \in [Requests -> Nat] /\ found \in [Requests -> Nat] /\ stamp \in [Requests -> Nat]
  /\ before \in [Requests -> SUBSET Requests] /\ seen \in [Requests -> SUBSET Visits]
Places ==
  /\ counted \subseteq Visits /\ skipped \subseteq Visits
  /\ \A r \in Requests :
       /\ pc[r] \in {"mark", "count"} => r \in Visits
       /\ pc[r] = "save" => r \in Exports
       /\ pc[r] = "page" => r \in Pages
       /\ r \in counted \cup skipped => pc[r] \in {"answer", "done"}
Typed == Types /\ Places

\* A visit that has left its lookup and its mark behind, and one that has a mark.
Past(v)   == pc[v] = "count" \/ (pc[v] \in {"answer", "done"} /\ v \in counted \cup failed)
Marked(v) == v \notin failed /\ (pc[v] = "count" \/ v \in counted)

\* Times: a mark is as old as the lookup at most, and older requests have older ones.
Timed ==
  \A r \in Requests :
    /\ stamp[r] <= clock
    /\ r \in Visits /\ pc[r] # "start" => Window <= stamp[r]
    /\ r \in Visits /\ (pc[r] = "count" \/ r \in counted) => found[r] + Window <= stamp[r]
    /\ \A v \in before[r] :
         /\ pc[v] = "done" /\ pc[r] # "start" /\ v # r
         /\ r \in Visits => stamp[v] <= stamp[r]

\* Every mark, and every mark that a visit found, was set by a visit.
Caused ==
  \A a \in Articles, w \in Addresses :
    \/ mark[a][w] = 0
    \/ \E v \in Visits : ArticleOf[v] = a /\ AddressOf[v] = w /\ Past(v) /\ stamp[v] = mark[a][w]
FoundCaused ==
  \A r \in Visits : pc[r] = "mark" =>
    found[r] = 0 \/ \E v \in SameVisitor(r) : Past(v) /\ stamp[v] = found[r]
Skipped ==
  \A r \in skipped : \E v \in SameVisitor(r) \ {r} : Past(v) /\ stamp[v] + Window > stamp[r]

\* A visit's mark is replaced by an older one only by a visit beside it; so a later visit
\* finds its mark, or one of a visit beside it, or a younger one.
Beside(v, time) ==
  \E u \in SameVisitor(v) : Overlap(u, v) /\ Past(u) /\ stamp[u] <= time
Followed == \A v \in Visits : Marked(v) => Beside(v, Mark(v))
Noticed  ==
  \A r \in Visits \ failed : pc[r] # "start" =>
    \A v \in before[r] \cap SameVisitor(r) : v \in counted \ failed => Beside(v, found[r])
Marks == Timed /\ Caused /\ FoundCaused /\ Skipped /\ Followed /\ Noticed

\* The count of an article's row, and what an export that will save it has read.
At(s, a) == {v \in s : ArticleOf[v] = a}
Between(n, s) == n <= Cardinality(s) /\ Cardinality(s \ wiped) <= n
Counts ==
  /\ wiped \subseteq counted
  /\ \A a \in Articles : Between(views[a], CountedAt(a))
  /\ \A r \in Exports : pc[r] = "save" =>
       seen[r] \subseteq counted /\ Between(shown[r], At(seen[r], ArticleOf[r]))

Latest ==
  /\ latencies \in Seq(Nat) /\ recorded \in Seq(Nat)
  /\ WindowIsLatest

\* The steps that other parts of the system take beside the counter.
PageStep(r) == PageBegins(r) \/ PageReads(r)

LEMMA Steps ==
  ASSUME [Next]_vars
  PROVE  \/ Tick /\ UNCHANGED tracker
         \/ \E r \in Requests :
              /\ pc[r] # "done"
              /\ \/ Count(r) /\ UNCHANGED tracker
                 \/ PageStep(r) /\ UNCHANGED tracker
                 \/ Answer(r)
         \/ Restart
         \/ UNCHANGED <<counter, tracker>>
  BY DEF Next, vars, PageStep, PageBegins, PageReads

\* What a page does to the counter: only its own place moves, and its query may fail.
LEMMA PageEffect ==
  ASSUME Typed, NEW r \in Requests, PageStep(r)
  PROVE  /\ UNCHANGED <<clock, views, mark, shown, found, stamp, counted, skipped, wiped, seen>>
         /\ r \notin Visits /\ r \notin Exports
         /\ failed \subseteq failed' /\ failed' \subseteq failed \cup {r}
         /\ \E p \in {"page", "answer"} : pc' = [pc EXCEPT ![r] = p]
         /\ \/ pc[r] = "page" /\ UNCHANGED before
            \/ Begins(r)
  <1>1. PICK p \in {"page", "answer"} : pc' = [pc EXCEPT ![r] = p]
    BY DEF PageStep, PageBegins, PageReads, Read
  <1>2. failed \subseteq failed' /\ failed' \subseteq failed \cup {r}
    <2>1. PICK ok : Noted(ok, r)
      BY DEF PageStep, PageBegins, PageReads, Read
    <2>2. QED
      BY <2>1 DEF Noted
  <1>3. QED
    BY <1>1, <1>2, StatsAssumption
    DEF PageStep, PageBegins, PageReads, Typed, Places, StatsAssumption

\* What the end of the process does to it: what was under way is over.
LEMMA RestartEffect ==
  ASSUME Typed, Restart
  PROVE  /\ UNCHANGED <<clock, views, mark, shown, found, stamp, counted, skipped, wiped, before, seen>>
         /\ \A r \in Requests : pc'[r] = IF pc[r] = "start" THEN "start" ELSE "done"
         /\ pc' \in [Requests -> {"start", "done"}]
         /\ failed \subseteq failed'
         /\ \A r \in Requests : pc[r] \in {"mark", "count", "save", "page"} => r \in failed'
  BY DEF Restart

\* What the answer to a request does to it.
LEMMA AnswerEffect ==
  ASSUME Typed, NEW r \in Requests, Answer(r)
  PROVE  /\ UNCHANGED <<clock, views, mark, shown, found, stamp, counted, skipped, failed, wiped,
                        before, seen>>
         /\ pc[r] = "answer" /\ pc' = [pc EXCEPT ![r] = "done"]
  BY DEF Answer

\* Types.
LEMMA TypedStep == Typed /\ [Next]_vars => Typed'
  <1> SUFFICES ASSUME Typed, [Next]_vars PROVE Typed'
    OBVIOUS
  <1> USE ViewAssumption, StatsAssumption DEF Typed, ViewAssumption, StatsAssumption
  <1>1. CASE Tick
    BY <1>1 DEF Tick, Types, Places
  <1>2. ASSUME NEW r \in Requests, VisitLook(r) PROVE Typed'
    <2>1. PICK ok \in BOOLEAN :
            /\ found' = [found EXCEPT ![r] = IF ok THEN Mark(r) ELSE 0]
            /\ failed' = IF ok THEN failed ELSE failed \cup {r}
      BY <1>2 DEF VisitLook, Outcomes, Noted
    <2>2. r \in Visits /\ Mark(r) \in Nat
      BY <1>2 DEF VisitLook, Mark, Types
    <2>3. found' \in [Requests -> Nat]
      BY <2>1, <2>2 DEF Types
    <2>4. before' \in [Requests -> SUBSET Requests]
      BY <1>2 DEF VisitLook, Begins, Types
    <2>5. Types'
      BY <1>2, <2>3, <2>4 DEF VisitLook, Types, Stages
    <2>6. Places'
      BY <1>2, <2>1, <2>2 DEF VisitLook, Begins, Types, Places
    <2>7. QED
      BY <2>5, <2>6
  <1>3. ASSUME NEW r \in Requests, VisitMark(r) PROVE Typed'
    <2>1. PICK now \in stamp[r]..clock, ok \in BOOLEAN :
            /\ stamp' = [stamp EXCEPT ![r] = now]
            /\ mark' = IF ok THEN [mark EXCEPT ![ArticleOf[r]][AddressOf[r]] = now] ELSE mark
            /\ failed' = IF ok THEN failed ELSE failed \cup {r}
      BY <1>3 DEF VisitMark, Outcomes, Noted
    <2>2. r \in Visits /\ now \in Nat
      BY <1>3 DEF VisitMark, Types, Places
    <2>3. stamp' \in [Requests -> Nat] /\ mark' \in [Articles -> [Addresses -> Nat]]
      BY <2>1, <2>2 DEF Types
    <2>4. Types'
      BY <1>3, <2>3 DEF VisitMark, Types, Stages
    <2>5. Places'
      BY <1>3, <2>1, <2>2 DEF VisitMark, Types, Places
    <2>6. QED
      BY <2>4, <2>5
  <1>4. ASSUME NEW r \in Requests, VisitSkip(r) PROVE Typed'
    BY <1>4 DEF VisitSkip, Types, Places, Stages
  <1>5. ASSUME NEW r \in Requests, VisitCount(r) PROVE Typed'
    <2>1. r \in Visits
      BY <1>5 DEF VisitCount, Places
    <2>2. views[ArticleOf[r]] + 1 \in Nat
      BY <2>1 DEF Types
    <2>3. views' \in [Articles -> Nat]
      BY <1>5, <2>2 DEF VisitCount, Types
    <2>4. Types'
      BY <1>5, <2>3 DEF VisitCount, Types, Stages
    <2>5. Places'
      BY <1>5, <2>1 DEF VisitCount, Types, Places
    <2>6. QED
      BY <2>4, <2>5
  <1>6. ASSUME NEW r \in Requests, VisitCountFails(r) PROVE Typed'
    BY <1>6 DEF VisitCountFails, Types, Places, Stages
  <1>7. ASSUME NEW r \in Requests, ExportTake(r) PROVE Typed'
    <2>1. shown' \in [Requests -> Nat] /\ seen' \in [Requests -> SUBSET Visits]
      BY <1>7 DEF ExportTake, Types, Places
    <2>2. before' \in [Requests -> SUBSET Requests]
      BY <1>7 DEF ExportTake, Begins, Types
    <2>3. Types'
      BY <1>7, <2>1, <2>2 DEF ExportTake, Types, Stages
    <2>4. Places'
      BY <1>7 DEF ExportTake, Begins, Types, Places
    <2>5. QED
      BY <2>3, <2>4
  <1>8. ASSUME NEW r \in Requests, ExportSave(r) PROVE Typed'
    BY <1>8 DEF ExportSave, Types, Places, Stages
  <1>9. ASSUME NEW r \in Requests, ExportFails(r) PROVE Typed'
    BY <1>9 DEF ExportFails, Types, Places, Stages
  <1>10. ASSUME NEW r \in Requests, PageStep(r) PROVE Typed'
    <2>1. PICK p \in {"page", "answer"} : pc' = [pc EXCEPT ![r] = p]
      BY <1>10, PageEffect
    <2>2. before' \in [Requests -> SUBSET Requests]
      BY <1>10, PageEffect DEF Begins, Types
    <2>3. Types'
      BY <1>10, <2>1, <2>2, PageEffect DEF Types, Stages
    <2>4. r \in Pages
      BY <1>10 DEF PageStep, PageBegins, PageReads, Places
    <2>5. UNCHANGED <<counted, skipped>> /\ pc[r] \notin {"answer", "done"} /\ r \notin Visits
      BY <1>10, PageEffect DEF PageStep, PageBegins, PageReads, Begins
    <2>6. Places'
      BY <2>1, <2>4, <2>5 DEF Types, Places
    <2>7. QED
      BY <2>3, <2>6
  <1>11. ASSUME NEW r \in Requests, Answer(r) PROVE Typed'
    BY <1>11, AnswerEffect DEF Types, Places, Stages
  <1>12. CASE UNCHANGED counter
    BY <1>12 DEF Types, Places
  <1>13. CASE Restart
    BY <1>13, RestartEffect DEF Types, Places, Stages
  <1>14. QED
    BY <1>1, <1>2, <1>3, <1>4, <1>5, <1>6, <1>7, <1>8, <1>9, <1>10, <1>11, <1>12, <1>13, Steps
    DEF Count, Visit, Export, Arrive

-----------------------------------------------------------------------------
(* The window of the tracker.                                              *)

\* w is the last m places of s, a sequence of length n.
LastOf(w, m, s, n) ==
  w \in Seq(Nat) /\ Len(w) = m /\ \A i \in 1..m : w[i] = s[n - m + i]

LEMMA LastPlaces ==
  ASSUME NEW s \in Seq(Nat), NEW n \in Nat, Len(s) = n, NEW m \in Nat, m <= n
  PROVE  LastOf(SubSeq(s, n - m + 1, n), m, s, n)
  <1> DEFINE a == n - m + 1
             t == SubSeq(s, a, n)
  <1>1. a \in Int /\ n \in Int /\ a >= 1
    OBVIOUS
  <1>2. \A i \in a..n : s[i] \in Nat
    BY <1>1
  <1>3. n - a + 1 = m /\ (a <= n <=> m # 0) /\ \A i \in 1..m : a + i - 1 = n - m + i
    OBVIOUS
  <1> HIDE DEF a
  <1>4. /\ t \in Seq(Nat) /\ Len(t) = (IF a <= n THEN n - a + 1 ELSE 0)
        /\ \A i \in 1..(n - a + 1) : t[i] = s[a + i - 1]
    <2>1. t \in Seq(Nat)
      BY <1>1, <1>2, SubSeqProperties
    <2>2. Len(t) = (IF a <= n THEN n - a + 1 ELSE 0)
      BY <1>1, <1>2, SubSeqProperties
    <2>3. \A i \in 1..(n - a + 1) : t[i] = s[a + i - 1]
      BY <1>1, <1>2, SubSeqProperties
    <2>4. QED
      BY <2>1, <2>2, <2>3
  <1> HIDE DEF t
  <1>5. t \in Seq(Nat) /\ Len(t) = m /\ \A i \in 1..m : t[i] = s[n - m + i]
    BY <1>3, <1>4
  <1>6. QED
    BY <1>5 DEF LastOf, t, a

LEMMA LastOfAppend ==
  ASSUME NEW s \in Seq(Nat), NEW l \in Nat
  PROVE  Append(s, l)[Len(s) + 1] = l
  OBVIOUS

LEMMA NotEmpty == ASSUME NEW w \in Seq(Nat), Len(w) > 0 PROVE w # <<>>
  <1>1. Len(<<>>) = 0
    BY EmptySeq
  <1>2. QED
    BY <1>1

\* A full window slides: w and v are the last m places of s, and of s with one more.
LEMMA WindowSlides ==
  ASSUME NEW s \in Seq(Nat), NEW l \in Nat, NEW n \in Nat, NEW m \in Nat \ {0}, Len(s) = n, m <= n,
         NEW k, k = n + 1,
         NEW w, LastOf(w, m, s, n), NEW v, LastOf(v, m, Append(s, l), k)
  PROVE  v = Append(Tail(w), l)
  <1> USE DEF LastOf
  <1>1. \A i \in 1..n : Append(s, l)[i] = s[i]
    OBVIOUS
  <1>2. Append(s, l)[k] = l
    BY LastOfAppend, Zenon
  <1>3. w # <<>>
    BY NotEmpty
  <1>4. Tail(w) \in Seq(Nat) /\ Len(Tail(w)) = m - 1
    BY <1>3
  <1>5. \A i \in 1..(m - 1) : Tail(w)[i] = w[i + 1]
    BY <1>3
  <1> DEFINE t == Append(Tail(w), l)
  <1>6. t \in Seq(Nat) /\ Len(t) = m
    BY <1>4
  <1>7. t[m] = l
    BY <1>4
  <1>8. \A i \in 1..(m - 1) : t[i] = Tail(w)[i]
    BY <1>4
  <1> HIDE DEF t
  <1>9. ASSUME NEW i \in 1..m PROVE v[i] = t[i]
    <2>1. CASE i = m
      <3>1. k - m + i = k
        BY <2>1
      <3>2. QED
        BY <1>2, <1>7, <2>1, <3>1
    <2>2. CASE i # m
      <3>1. i \in 1..(m - 1) /\ i + 1 \in 1..m
        BY <2>2
      <3>2. k - m + i \in 1..n /\ k - m + i = n - m + (i + 1)
        BY <3>1
      <3>3. v[i] = s[n - m + (i + 1)]
        BY <1>1, <3>2
      <3>4. QED
        BY <1>5, <1>8, <3>1, <3>3
    <2>3. QED
      BY <2>1, <2>2
  <1>10. v = t
    BY <1>6, <1>9, SeqEqual
  <1>11. QED
    BY <1>10 DEF t

LEMMA RecordKeeps ==
  ASSUME Latest, NEW l \in Nat, Record(l) PROVE Latest'
  <1>1. PICK s, w, n, m, z, k :
          /\ s = recorded /\ w = latencies /\ n = Len(s) /\ m = Smallest(MaxSize, n)
          /\ z = recorded' /\ k = n + 1
    OBVIOUS
  <1>2. /\ s \in Seq(Nat) /\ w \in Seq(Nat) /\ n \in Nat /\ Len(s) = n /\ MaxSize \in Nat \ {0}
        /\ w = SubSeq(s, n - m + 1, n) /\ total = n
    BY <1>1, TrackerAssumption DEF Latest, WindowIsLatest, TrackerAssumption
  <1>3. z = Append(s, l) /\ latencies' = Append(IF Len(w) >= MaxSize THEN Tail(w) ELSE w, l)
    BY <1>1 DEF Record
  <1>4. z \in Seq(Nat) /\ Len(z) = k /\ k \in Nat /\ total' = k
    BY <1>1, <1>2, <1>3 DEF Record
  <1>5. /\ m \in Nat /\ m <= n
        /\ n < MaxSize => m = n /\ Smallest(MaxSize, k) = k
        /\ n >= MaxSize => m = MaxSize /\ Smallest(MaxSize, k) = m
    BY <1>1, <1>2 DEF Smallest
  <1>6. LastOf(w, m, s, n)
    BY <1>2, <1>5, LastPlaces
  <1>7. latencies' = SubSeq(z, k - Smallest(MaxSize, k) + 1, k)
    <2>1. CASE n >= MaxSize
      <3>1. m \in Nat \ {0} /\ m <= n /\ m \in Nat /\ m <= k /\ Smallest(MaxSize, k) = m
        BY <1>1, <1>2, <1>5, <2>1
      <3>2. PICK u : u = SubSeq(z, k - m + 1, k)
        OBVIOUS
      <3>3. LastOf(u, m, z, k)
        BY <1>4, <3>1, <3>2, LastPlaces
      <3>4. u = Append(Tail(w), l)
        <4>1. LastOf(u, m, Append(s, l), k)
          BY <1>3, <3>3
        <4>2. s \in Seq(Nat) /\ n \in Nat /\ Len(s) = n /\ k = n + 1
          BY <1>1, <1>2
        <4>3. QED
          BY <1>6, <3>1, <4>1, <4>2, WindowSlides
      <3>5. latencies' = Append(Tail(w), l)
        BY <1>3, <1>5, <1>6, <2>1, <3>1 DEF LastOf
      <3>6. QED
        BY <3>1, <3>2, <3>4, <3>5
    <2>2. CASE n < MaxSize
      <3>1. m = n /\ Smallest(MaxSize, k) = k /\ k - k + 1 = 1
        BY <1>1, <1>2, <1>5, <2>2
      <3>2. \A i \in 1..n : n - n + i = i
        BY <1>2
      <3>3. \A i \in 1..Len(w) : w[i] = s[i]
        BY <1>6, <3>1, <3>2 DEF LastOf
      <3>4. w = s
        BY <1>2, <1>6, <3>1, <3>3, SeqEqual DEF LastOf
      <3>5. latencies' = z
        <4>1. ~(Len(w) >= MaxSize)
          BY <1>2, <2>2, <3>4
        <4>2. QED
          BY <1>3, <3>4, <4>1
      <3>6. z = SubSeq(z, 1, k)
        BY <1>4, SubSeqFull
      <3>7. QED
        BY <3>1, <3>5, <3>6
    <2>3. QED
      BY <1>2, <2>1, <2>2
  <1>8. latencies' \in Seq(Nat)
    <2>1. CASE Len(w) >= MaxSize
      <3>0. Len(w) > 0
        BY <1>2, <2>1
      <3>1. w # <<>>
        BY <1>2, <3>0, NotEmpty
      <3>2. Tail(w) \in Seq(Nat)
        BY <1>2, <3>1
      <3>3. QED
        BY <1>3, <2>1, <3>2
    <2>2. CASE ~(Len(w) >= MaxSize)
      BY <1>2, <1>3, <2>2
    <2>3. QED
      BY <2>1, <2>2
  <1>9. recorded' = z
    BY <1>1
  <1>10. latencies' = SubSeq(recorded', Len(recorded') - Smallest(MaxSize, Len(recorded')) + 1,
                             Len(recorded'))
    BY <1>4, <1>7, <1>9
  <1>11. QED
    BY <1>4, <1>8, <1>9, <1>10 DEF Latest, WindowIsLatest

\* The tracker that a process begins with.
LEMMA LatestBegins == ASSUME latencies = <<>>, total = 0, recorded = <<>> PROVE Latest
  <1>1. Len(recorded) = 0 /\ recorded \in Seq(Nat) /\ latencies \in Seq(Nat) /\ total = 0
    BY EmptySeq
  <1>2. Smallest(MaxSize, 0) = 0
    BY TrackerAssumption DEF TrackerAssumption, Smallest
  <1>3. SubSeq(recorded, 1, 0) = <<>>
    BY SubSeqEmpty
  <1>4. Len(recorded) - Smallest(MaxSize, Len(recorded)) + 1 = 1
    BY <1>1, <1>2
  <1>5. QED
    BY <1>1, <1>3, <1>4 DEF Latest, WindowIsLatest

LEMMA LatestStep == Latest /\ [Next]_vars => Latest'
  <1>1. ASSUME Latest, UNCHANGED tracker PROVE Latest'
    BY <1>1 DEF Latest, WindowIsLatest
  <1>2. ASSUME Latest, NEW r \in Requests, Answer(r) PROVE Latest'
    BY <1>2, RecordKeeps, StatsAssumption DEF Answer, StatsAssumption
  <1>3. ASSUME Restart PROVE Latest'
    <2>1. latencies' = <<>> /\ total' = 0 /\ recorded' = <<>>
      BY <1>3 DEF Restart
    <2>2. (latencies = <<>> /\ total = 0 /\ recorded = <<>>)' => Latest'
      BY LatestBegins, PTL
    <2>3. QED
      BY <2>1, <2>2
  <1>4. QED
    BY <1>1, <1>2, <1>3, Steps

-----------------------------------------------------------------------------
(* The views of an article.                                                *)

LEMMA VisitsFinite == IsFiniteSet(Visits)
  <1>1. IsFiniteSet(Requests)
    BY ViewAssumption DEF ViewAssumption
  <1>2. Visits \in SUBSET Requests
    BY ViewAssumption DEF ViewAssumption
  <1>3. QED
    BY <1>1, <1>2, FS_Subset

LEMMA BetweenKept ==
  ASSUME NEW n \in Nat, NEW s, IsFiniteSet(s), NEW t, t \subseteq s, NEW u, IsFiniteSet(u), s \subseteq u,
         Cardinality(t) <= n, n <= Cardinality(s), NEW v, v \subseteq t
  PROVE  Cardinality(v) <= n /\ n <= Cardinality(u)
  <1>1. IsFiniteSet(t) /\ Cardinality(t) \in Nat /\ Cardinality(s) \in Nat /\ Cardinality(u) \in Nat
    BY FS_Subset, FS_CardinalityType
  <1>2. IsFiniteSet(v) /\ Cardinality(v) \in Nat /\ Cardinality(v) <= Cardinality(t)
    BY <1>1, FS_Subset, FS_CardinalityType
  <1>3. Cardinality(s) <= Cardinality(u)
    BY FS_Subset
  <1>4. QED
    BY <1>1, <1>2, <1>3

\* An export saves the count it read, and what was counted since is wiped.
LEMMA CountsSave == ASSUME Typed, Counts, NEW r \in Requests, ExportSave(r) PROVE Counts'
  <1> USE ViewAssumption DEF ViewAssumption, Typed
  <1>1. /\ r \in Exports /\ ArticleOf[r] \in Articles
        /\ pc' = [pc EXCEPT ![r] = "answer"] /\ UNCHANGED <<counted, shown, seen>>
        /\ views' = [views EXCEPT ![ArticleOf[r]] = shown[r]]
        /\ wiped' = wiped \cup Overrun(r)
    BY DEF ExportSave, Places
  <1>2. IsFiniteSet(Visits)
    BY VisitsFinite
  <1>3. \A s, a : s \subseteq counted => IsFiniteSet(At(s, a)) /\ At(s, a) \subseteq CountedAt(a)
    <2>1. \A s, a : s \subseteq counted => At(s, a) \subseteq Visits
      BY DEF At, Places
    <2>2. QED
      BY <1>2, <2>1, FS_Subset DEF At, CountedAt
  <1>4. \A a : CountedAt(a) = At(counted, a) /\ IsFiniteSet(CountedAt(a))
    BY <1>3 DEF CountedAt, At
  <1>5. ASSUME NEW a \in Articles PROVE Between(views[a], CountedAt(a))'
    <2>1. CountedAt(a)' = CountedAt(a)
      BY <1>1 DEF CountedAt
    <2>2. CASE a = ArticleOf[r]
      <3> DEFINE s == At(seen[r], a)
      <3>1. views'[a] = shown[r] /\ shown[r] \in Nat
        BY <1>1, <2>2 DEF Types
      <3>2. Cardinality(s \ wiped) <= shown[r] /\ shown[r] <= Cardinality(s)
        BY <1>1, <2>2 DEF Counts, Between, ExportSave
      <3>3. IsFiniteSet(s) /\ s \subseteq CountedAt(a)
        BY <1>1, <1>3 DEF Counts, ExportSave
      <3>4. CountedAt(a) \ wiped' \subseteq s \ wiped
        BY <1>1, <2>2 DEF CountedAt, At, Overrun
      <3>5. Cardinality(CountedAt(a) \ wiped') <= shown[r] /\ shown[r] <= Cardinality(CountedAt(a))
        <4> HIDE DEF s
        <4>1. QED
          BY <1>4, <3>1, <3>2, <3>3, <3>4, BetweenKept
      <3>6. QED
        BY <2>1, <3>1, <3>5 DEF Between
    <2>3. CASE a # ArticleOf[r]
      <3> DEFINE s == CountedAt(a)
      <3>1. views'[a] = views[a] /\ views[a] \in Nat
        BY <1>1, <2>3 DEF Types
      <3>2. Cardinality(s \ wiped) <= views[a] /\ views[a] <= Cardinality(s)
        BY DEF Counts, Between
      <3>3. IsFiniteSet(s)
        BY <1>4
      <3>4. s \ wiped' \subseteq s \ wiped
        BY <1>1
      <3>5. Cardinality(s \ wiped') <= views[a] /\ views[a] <= Cardinality(s)
        <4> HIDE DEF s
        <4>1. QED
          BY <3>1, <3>2, <3>3, <3>4, BetweenKept
      <3>6. QED
        BY <2>1, <3>1, <3>5 DEF Between
    <2>4. QED
      BY <2>2, <2>3
  <1>6. ASSUME NEW q \in Exports, pc'[q] = "save"
        PROVE  seen'[q] \subseteq counted' /\ Between(shown[q], At(seen[q], ArticleOf[q]))'
    <2>1. pc[q] = "save" /\ shown'[q] = shown[q] /\ seen'[q] = seen[q]
      BY <1>1, <1>6 DEF Types
    <2> DEFINE s == At(seen[q], ArticleOf[q])
    <2>2. Cardinality(s \ wiped) <= shown[q] /\ shown[q] <= Cardinality(s) /\ seen[q] \subseteq counted
      BY <2>1 DEF Counts, Between
    <2>3. IsFiniteSet(s) /\ shown[q] \in Nat
      BY <1>3, <2>2 DEF Types
    <2>4. s \ wiped' \subseteq s \ wiped
      BY <1>1
    <2>5. Cardinality(s \ wiped') <= shown[q]
      <3> HIDE DEF s
      <3>1. QED
        BY <2>2, <2>3, <2>4, BetweenKept
    <2>6. At(seen[q], ArticleOf[q])' = s
      BY <2>1 DEF At
    <2>7. QED
      BY <1>1, <2>1, <2>2, <2>5, <2>6 DEF Between
  <1>7. wiped' \subseteq counted'
    BY <1>1 DEF Counts, Overrun
  <1>8. QED
    BY <1>5, <1>6, <1>7 DEF Counts

\* A visit is counted.
LEMMA CountsVisit == ASSUME Typed, Counts, NEW r \in Requests, VisitCount(r) PROVE Counts'
  <1> USE ViewAssumption DEF ViewAssumption, Typed
  <1>1. /\ r \in Visits /\ r \notin counted /\ ArticleOf[r] \in Articles
        /\ pc' = [pc EXCEPT ![r] = "answer"] /\ UNCHANGED <<wiped, shown, seen>>
        /\ views' = [views EXCEPT ![ArticleOf[r]] = @ + 1]
        /\ counted' = counted \cup {r}
    BY DEF VisitCount, Places
  <1>2. \A a : IsFiniteSet(CountedAt(a)) /\ IsFiniteSet(CountedAt(a) \ wiped)
    <2>1. IsFiniteSet(Visits)
      BY VisitsFinite
    <2>2. \A a : CountedAt(a) \subseteq Visits /\ CountedAt(a) \ wiped \subseteq Visits
      BY DEF CountedAt, Places
    <2>3. QED
      BY <2>1, <2>2, FS_Subset
  <1>3. ASSUME NEW a \in Articles PROVE Between(views[a], CountedAt(a))'
    <2> DEFINE s == CountedAt(a)
               t == CountedAt(a) \ wiped
    <2>1. IsFiniteSet(s) /\ IsFiniteSet(t) /\ r \notin s /\ r \notin t
      BY <1>1, <1>2 DEF CountedAt
    <2>2. views[a] <= Cardinality(s) /\ Cardinality(t) <= views[a] /\ views[a] \in Nat
      BY DEF Counts, Between, Types
    <2>3. Cardinality(s) \in Nat /\ Cardinality(t) \in Nat
      BY <2>1, FS_CardinalityType
    <2>4. Cardinality(s \cup {r}) = Cardinality(s) + 1
      BY <2>1, FS_AddElement
    <2>5. Cardinality(t \cup {r}) = Cardinality(t) + 1
      BY <2>1, FS_AddElement
    <2>6. CASE a = ArticleOf[r]
      <3>1. views'[a] = views[a] + 1
        BY <1>1, <2>6 DEF Types
      <3>2. CountedAt(a)' = s \cup {r} /\ CountedAt(a)' \ wiped' = t \cup {r}
        BY <1>1, <2>6 DEF CountedAt, Counts
      <3> HIDE DEF s, t
      <3>3. views[a] + 1 <= Cardinality(s \cup {r}) /\ Cardinality(t \cup {r}) <= views[a] + 1
        BY <2>2, <2>3, <2>4, <2>5
      <3>4. QED
        BY <3>1, <3>2, <3>3 DEF Between
    <2>7. CASE a # ArticleOf[r]
      <3>1. views'[a] = views[a]
        BY <1>1, <2>7 DEF Types
      <3>2. CountedAt(a)' = s /\ CountedAt(a)' \ wiped' = t
        BY <1>1, <2>7 DEF CountedAt
      <3> HIDE DEF s, t
      <3>3. QED
        BY <2>2, <3>1, <3>2 DEF Between
    <2>8. QED
      BY <2>6, <2>7
  <1>4. ASSUME NEW q \in Exports, pc'[q] = "save"
        PROVE  seen'[q] \subseteq counted' /\ Between(shown[q], At(seen[q], ArticleOf[q]))'
    <2>1. pc[q] = "save"
      BY <1>1, <1>4 DEF Types
    <2>2. QED
      BY <1>1, <2>1 DEF Counts, Between, At
  <1>5. QED
    BY <1>1, <1>3, <1>4 DEF Counts

LEMMA CountsStep == ASSUME Typed, Counts, [Next]_vars PROVE Counts'
  <1> USE ViewAssumption DEF ViewAssumption, Typed
  <1>1. ASSUME UNCHANGED <<views, shown, counted, wiped, seen>>,
               \A q \in Exports : pc'[q] = "save" => pc[q] = "save"
        PROVE  Counts'
    BY <1>1 DEF Counts, Between, CountedAt, At
  <1>2. CASE Tick
    BY <1>1, <1>2 DEF Tick
  <1>3. ASSUME NEW r \in Requests, VisitLook(r) PROVE Counts'
    BY <1>1, <1>3 DEF VisitLook, Types
  <1>4. ASSUME NEW r \in Requests, VisitSkip(r) \/ VisitMark(r) \/ VisitCountFails(r) PROVE Counts'
    BY <1>1, <1>4 DEF VisitSkip, VisitMark, VisitCountFails, Types
  <1>5. ASSUME NEW r \in Requests, ExportTake(r) PROVE Counts'
    <2>1. /\ UNCHANGED <<views, counted, wiped>> /\ r \in Exports /\ ArticleOf[r] \in Articles
          /\ shown' = [shown EXCEPT ![r] = views[ArticleOf[r]]]
          /\ seen' = [seen EXCEPT ![r] = counted]
          /\ pc' = [pc EXCEPT ![r] = "save"]
      BY <1>5 DEF ExportTake
    <2>2. \A a \in Articles : Between(views[a], CountedAt(a))'
      BY <2>1 DEF Counts, Between, CountedAt
    <2>3. ASSUME NEW q \in Exports, pc'[q] = "save"
          PROVE  seen'[q] \subseteq counted' /\ Between(shown[q], At(seen[q], ArticleOf[q]))'
      <3>1. CASE q = r
        <4>1. seen'[q] = counted /\ shown'[q] = views[ArticleOf[r]]
          BY <2>1, <3>1 DEF Types
        <4>2. At(seen[q], ArticleOf[q])' = CountedAt(ArticleOf[r])
          BY <3>1, <4>1 DEF At, CountedAt
        <4>3. QED
          BY <2>1, <4>1, <4>2 DEF Counts, Between
      <3>2. CASE q # r
        <4>1. pc[q] = "save" /\ seen'[q] = seen[q] /\ shown'[q] = shown[q]
          BY <2>1, <2>3, <3>2 DEF Types
        <4>2. QED
          BY <2>1, <4>1 DEF Counts, Between, At
      <3>3. QED
        BY <3>1, <3>2
    <2>4. QED
      BY <2>1, <2>2, <2>3 DEF Counts
  <1>6. ASSUME NEW r \in Requests, ExportFails(r) PROVE Counts'
    BY <1>1, <1>6 DEF ExportFails, Types
  <1>7. ASSUME NEW r \in Requests, PageStep(r) PROVE Counts'
    BY <1>1, <1>7, PageEffect DEF Types
  <1>8. ASSUME NEW r \in Requests, Answer(r) PROVE Counts'
    BY <1>1, <1>8, AnswerEffect DEF Types
  <1>9. CASE UNCHANGED counter
    BY <1>1, <1>9
  <1>10. CASE Restart
    BY <1>1, <1>10, RestartEffect DEF Types
  <1>11. QED
    BY <1>2, <1>3, <1>4, <1>5, <1>6, <1>7, <1>8, <1>9, <1>10, Steps, CountsSave, CountsVisit
    DEF Count, Visit, Export, Arrive

-----------------------------------------------------------------------------
(* The marks.                                                              *)

\* What every step does to the places and times of requests.
Begun(v) == pc'[v] # "start" /\ before'[v] = {q \in Requests : pc[q] = "done"}
Progress ==
  /\ clock <= clock' /\ counted \subseteq counted' /\ failed \subseteq failed'
  /\ \A v \in Requests :
       /\ pc[v] = "done" => pc'[v] = "done" /\ stamp'[v] = stamp[v]
       /\ pc[v] # "start" => pc'[v] # "start" /\ before'[v] = before[v]
       /\ pc[v] = "start" => Begun(v) \/ (pc'[v] = "start" /\ before'[v] = before[v])
       /\ stamp[v] <= stamp'[v] /\ stamp'[v] <= clock'
  /\ \A v \in Visits : Past(v) => Past(v)' /\ stamp'[v] = stamp[v]

LEMMA ProgressMade == ASSUME Typed, Timed, [Next]_vars PROVE Progress
  <1> USE ViewAssumption DEF ViewAssumption, Typed, Types
  <1>1. CASE Tick
    BY <1>1 DEF Tick, Progress, Past, Timed
  <1>2. ASSUME NEW r \in Requests, VisitLook(r) PROVE Progress
    <2>1. /\ r \in Visits /\ pc[r] = "start" /\ UNCHANGED <<clock, counted>>
          /\ before' = [before EXCEPT ![r] = {q \in Requests : pc[q] = "done"}]
          /\ pc' = [pc EXCEPT ![r] = "mark"] /\ stamp' = [stamp EXCEPT ![r] = clock]
          /\ failed \subseteq failed'
      BY <1>2 DEF VisitLook, Begins, Noted
    <2>2. QED
      BY <2>1 DEF Progress, Begun, Past, Timed
  <1>3. ASSUME NEW r \in Requests, VisitMark(r) PROVE Progress
    <2>1. PICK now \in stamp[r]..clock :
            /\ pc[r] = "mark" /\ UNCHANGED <<clock, counted, before>>
            /\ pc' = [pc EXCEPT ![r] = "count"] /\ stamp' = [stamp EXCEPT ![r] = now]
            /\ failed \subseteq failed'
      BY <1>3 DEF VisitMark, Noted
    <2>2. now \in Nat /\ stamp[r] <= now /\ now <= clock
      BY <2>1
    <2>3. QED
      BY <2>1, <2>2 DEF Progress, Begun, Past, Timed
  <1>4. ASSUME NEW r \in Requests, VisitSkip(r) PROVE Progress
    BY <1>4 DEF VisitSkip, Progress, Past, Timed
  <1>5. ASSUME NEW r \in Requests, VisitCount(r) PROVE Progress
    BY <1>5 DEF VisitCount, Progress, Past, Timed
  <1>6. ASSUME NEW r \in Requests, VisitCountFails(r) PROVE Progress
    BY <1>6 DEF VisitCountFails, Progress, Past, Timed
  <1>7. ASSUME NEW r \in Requests, ExportTake(r) PROVE Progress
    BY <1>7 DEF ExportTake, Begins, Progress, Begun, Past, Timed
  <1>8. ASSUME NEW r \in Requests, ExportSave(r) \/ ExportFails(r) PROVE Progress
    BY <1>8 DEF ExportSave, ExportFails, Progress, Past, Timed
  <1>9. ASSUME NEW r \in Requests, PageStep(r) PROVE Progress
    <2>1. PICK p \in {"page", "answer"} : pc' = [pc EXCEPT ![r] = p]
      BY <1>9, PageEffect
    <2>2. r \notin Visits /\ UNCHANGED <<clock, counted, stamp>> /\ failed \subseteq failed'
      BY <1>9, PageEffect
    <2>3. CASE pc[r] = "page" /\ UNCHANGED before
      BY <2>1, <2>2, <2>3 DEF Progress, Past, Timed
    <2>4. CASE Begins(r)
      BY <2>1, <2>2, <2>4 DEF Begins, Progress, Begun, Past, Timed
    <2>5. QED
      BY <1>9, <2>3, <2>4, PageEffect
  <1>10. ASSUME NEW r \in Requests, Answer(r) PROVE Progress
    BY <1>10, AnswerEffect DEF Progress, Past, Timed
  <1>11. CASE UNCHANGED counter
    BY <1>11 DEF Progress, Past, Timed
  <1>12. CASE Restart
    BY <1>12, RestartEffect DEF Progress, Past, Timed, Stages
  <1>13. QED
    BY <1>1, <1>2, <1>3, <1>4, <1>5, <1>6, <1>7, <1>8, <1>9, <1>10, <1>11, <1>12, Steps
    DEF Count, Visit, Export, Arrive

\* The steps that look a mark up or set it, and what the others leave as it is.
LEMMA OtherSteps ==
  ASSUME Typed, [Next]_vars,
         ~(\E r \in Requests : VisitLook(r) \/ VisitMark(r) \/ VisitSkip(r))
  PROVE  /\ UNCHANGED <<mark, found, stamp, skipped>>
         /\ \A r \in Visits : /\ pc'[r] = "mark" => pc[r] = "mark"
                              /\ pc'[r] = "count" => pc[r] = "count"
                              /\ pc[r] = "start" => pc'[r] = "start"
                              /\ r \in counted' => r \in counted \/ pc[r] = "count"
  <1> USE ViewAssumption DEF ViewAssumption, Typed, Types
  <1> DEFINE Same == /\ UNCHANGED <<mark, found, stamp, skipped>>
                     /\ \A r \in Visits : /\ pc'[r] = "mark" => pc[r] = "mark"
                                          /\ pc'[r] = "count" => pc[r] = "count"
                                          /\ pc[r] = "start" => pc'[r] = "start"
                                          /\ r \in counted' => r \in counted \/ pc[r] = "count"
  <1>1. CASE Tick
    BY <1>1 DEF Tick
  <1>2. ASSUME NEW r \in Requests, VisitCount(r) \/ VisitCountFails(r) PROVE Same
    BY <1>2 DEF VisitCount, VisitCountFails
  <1>3. ASSUME NEW r \in Requests, ExportTake(r) \/ ExportSave(r) \/ ExportFails(r) PROVE Same
    <2>1. r \in Exports
      BY <1>3 DEF ExportTake, ExportSave, ExportFails, Places
    <2>2. QED
      BY <1>3, <2>1 DEF ExportTake, ExportSave, ExportFails
  <1>4. ASSUME NEW r \in Requests, PageStep(r) PROVE Same
    BY <1>4, PageEffect
  <1>5. ASSUME NEW r \in Requests, Answer(r) PROVE Same
    BY <1>5, AnswerEffect
  <1>6. CASE UNCHANGED counter
    BY <1>6
  <1>7. CASE Restart
    BY <1>7, RestartEffect
  <1>8. QED
    BY <1>1, <1>2, <1>3, <1>4, <1>5, <1>6, <1>7, Steps DEF Count, Visit, Export, Arrive

\* The lookup, the mark and the skipped visit, as they change places and times.
LEMMA LookEffect ==
  ASSUME Typed, NEW r \in Requests, VisitLook(r)
  PROVE  /\ r \in Visits /\ pc[r] = "start" /\ r \notin counted
         /\ pc' = [pc EXCEPT ![r] = "mark"] /\ stamp' = [stamp EXCEPT ![r] = clock]
         /\ before' = [before EXCEPT ![r] = {q \in Requests : pc[q] = "done"}]
         /\ UNCHANGED <<clock, mark, counted, skipped>>
         /\ \A q \in Requests : q # r => found'[q] = found[q]
         /\ found'[r] = Mark(r) \/ (found'[r] = 0 /\ r \in failed')
         /\ failed \subseteq failed' /\ failed' \subseteq failed \cup {r}
  <1>1. PICK ok \in BOOLEAN :
          /\ found' = [found EXCEPT ![r] = IF ok THEN Mark(r) ELSE 0]
          /\ failed' = IF ok THEN failed ELSE failed \cup {r}
    BY DEF VisitLook, Outcomes, Noted
  <1>2. found'[r] = (IF ok THEN Mark(r) ELSE 0) /\ \A q \in Requests : q # r => found'[q] = found[q]
    BY <1>1 DEF Typed, Types
  <1>3. found'[r] = Mark(r) \/ (found'[r] = 0 /\ r \in failed')
    BY <1>1, <1>2
  <1>4. failed \subseteq failed' /\ failed' \subseteq failed \cup {r}
    BY <1>1
  <1>5. r \in Visits /\ pc[r] = "start" /\ r \notin counted
    BY DEF VisitLook, Begins, Typed, Places
  <1>6. QED
    BY <1>2, <1>3, <1>4, <1>5 DEF VisitLook, Begins

LEMMA MarkEffect ==
  ASSUME Typed, NEW r \in Requests, VisitMark(r)
  PROVE  \E now \in Nat :
         /\ r \in Visits /\ pc[r] = "mark" /\ r \notin counted
         /\ stamp[r] <= now /\ now <= clock /\ found[r] + Window <= now
         /\ pc' = [pc EXCEPT ![r] = "count"] /\ stamp' = [stamp EXCEPT ![r] = now]
         /\ UNCHANGED <<clock, before, found, counted, skipped>>
         /\ \/ mark' = [mark EXCEPT ![ArticleOf[r]][AddressOf[r]] = now] /\ failed' = failed
            \/ mark' = mark /\ failed' = failed \cup {r}
  <1>1. PICK now \in stamp[r]..clock, ok \in BOOLEAN :
          /\ found[r] + Window <= now
          /\ stamp' = [stamp EXCEPT ![r] = now]
          /\ mark' = IF ok THEN [mark EXCEPT ![ArticleOf[r]][AddressOf[r]] = now] ELSE mark
          /\ failed' = IF ok THEN failed ELSE failed \cup {r}
    BY DEF VisitMark, Outcomes, Noted
  <1>2. now \in Nat /\ stamp[r] <= now /\ now <= clock
    BY <1>1 DEF Typed, Types
  <1>3. r \in Visits /\ pc[r] = "mark" /\ r \notin counted
    BY DEF VisitMark, Typed, Places
  <1>4. \/ mark' = [mark EXCEPT ![ArticleOf[r]][AddressOf[r]] = now] /\ failed' = failed
        \/ mark' = mark /\ failed' = failed \cup {r}
    BY <1>1
  <1>5. QED
    BY <1>1, <1>2, <1>3, <1>4 DEF VisitMark

LEMMA SkipEffect ==
  ASSUME Typed, NEW r \in Requests, VisitSkip(r)
  PROVE  /\ r \in Visits /\ pc[r] = "mark" /\ found[r] + Window > stamp[r]
         /\ pc' = [pc EXCEPT ![r] = "answer"] /\ skipped' = skipped \cup {r}
         /\ UNCHANGED <<clock, mark, found, stamp, counted, failed, before>>
  BY DEF VisitSkip, Typed, Places

LEMMA TimedStep == ASSUME Typed, Typed', Timed, Progress, [Next]_vars PROVE Timed'
  <1> USE ViewAssumption DEF ViewAssumption, Typed
  <1>0. /\ \A r \in Requests : stamp[r] \in Nat /\ stamp'[r] \in Nat /\ found[r] \in Nat /\ found'[r] \in Nat
        /\ clock \in Nat /\ clock' \in Nat /\ Window <= clock /\ Window \in Nat
        /\ \A r \in Requests : before[r] \subseteq Requests /\ before'[r] \subseteq Requests
    BY DEF Types
  <1>1. ASSUME NEW r \in Visits, pc[r] = "start", pc'[r] # "start"
        PROVE  stamp'[r] = clock /\ pc'[r] = "mark"
    <2>1. CASE \E q \in Requests : VisitLook(q)
      BY <1>1, <2>1, LookEffect DEF Types
    <2>2. CASE \E q \in Requests : VisitMark(q)
      BY <1>1, <2>2, MarkEffect DEF Types
    <2>3. CASE \E q \in Requests : VisitSkip(q)
      BY <1>1, <2>3, SkipEffect DEF Types
    <2>4. QED
      BY <1>1, <2>1, <2>2, <2>3, OtherSteps
  <1>2. ASSUME NEW r \in Visits, pc'[r] = "count" \/ r \in counted'
        PROVE  found'[r] + Window <= stamp'[r]
    <2>1. CASE \E q \in Requests : VisitLook(q)
      <3>1. PICK q \in Requests : VisitLook(q)
        BY <2>1
      <3>2. q # r /\ (pc[r] = "count" \/ r \in counted)
        BY <1>2, <3>1, LookEffect DEF Types
      <3>3. found'[r] = found[r] /\ stamp'[r] = stamp[r]
        BY <3>1, <3>2, LookEffect DEF Types
      <3>4. QED
        BY <3>2, <3>3 DEF Timed
    <2>2. CASE \E q \in Requests : VisitMark(q)
      <3>1. PICK q \in Requests : VisitMark(q)
        BY <2>2
      <3>2. PICK now \in Nat :
              /\ found[q] + Window <= now /\ UNCHANGED <<found, counted>>
              /\ pc' = [pc EXCEPT ![q] = "count"] /\ stamp' = [stamp EXCEPT ![q] = now]
        BY <3>1, MarkEffect
      <3>3. CASE q = r
        BY <3>2, <3>3 DEF Types
      <3>4. CASE q # r
        BY <1>2, <3>2, <3>4 DEF Types, Timed
      <3>5. QED
        BY <3>3, <3>4
    <2>3. CASE \E q \in Requests : VisitSkip(q)
      BY <1>2, <2>3, SkipEffect DEF Types, Timed
    <2>4. QED
      BY <1>2, <2>1, <2>2, <2>3, OtherSteps DEF Timed
  <1>3. ASSUME NEW r \in Visits, pc'[r] # "start" PROVE Window <= stamp'[r]
    <2>1. CASE pc[r] = "start"
      BY <1>0, <1>1, <1>3, <2>1
    <2>2. CASE pc[r] # "start"
      <3>1. Window <= stamp[r] /\ stamp[r] <= stamp'[r]
        BY <2>2 DEF Timed, Progress
      <3>2. QED
        BY <1>0, <3>1
    <2>3. QED
      BY <2>1, <2>2
  <1>4. ASSUME NEW r \in Requests, NEW v \in before'[r]
        PROVE  /\ pc'[v] = "done" /\ pc'[r] # "start" /\ v # r
               /\ r \in Visits => stamp'[v] <= stamp'[r]
    <2>0. v \in Requests
      BY <1>0
    <2>1. CASE pc[r] = "start" /\ Begun(r)
      <3>1. pc[v] = "done" /\ pc'[v] = "done" /\ stamp'[v] = stamp[v] /\ pc'[r] # "start" /\ v # r
        BY <1>4, <2>0, <2>1 DEF Begun, Progress
      <3>2. r \in Visits => stamp'[r] = clock
        BY <1>1, <2>1, <3>1
      <3>3. stamp[v] <= clock
        BY <2>0 DEF Timed
      <3>4. QED
        BY <3>1, <3>2, <3>3
    <2>2. CASE before'[r] = before[r] /\ (pc[r] # "start" => pc'[r] # "start")
      <3>1. /\ pc[v] = "done" /\ pc[r] # "start" /\ v # r
            /\ r \in Visits => stamp[v] <= stamp[r]
        BY <1>4, <2>2 DEF Timed
      <3>2. pc'[v] = "done" /\ stamp'[v] = stamp[v] /\ stamp[r] <= stamp'[r]
        BY <2>0, <3>1 DEF Progress
      <3>3. QED
        BY <1>0, <2>0, <2>2, <3>1, <3>2
    <2>3. QED
      BY <2>1, <2>2 DEF Progress
  <1>5. \A r \in Requests : stamp'[r] <= clock'
    BY DEF Progress
  <1>6. QED
    BY <1>2, <1>3, <1>4, <1>5 DEF Timed

LEMMA CausedStep == ASSUME Typed, Caused, Progress, [Next]_vars PROVE Caused'
  <1> USE ViewAssumption DEF ViewAssumption, Typed
  <1> SUFFICES ASSUME NEW a \in Articles, NEW w \in Addresses
               PROVE  \/ mark'[a][w] = 0
                      \/ \E v \in Visits : /\ ArticleOf[v] = a /\ AddressOf[v] = w
                                           /\ Past(v)' /\ stamp'[v] = mark'[a][w]
    BY DEF Caused
  <1>1. CASE mark'[a][w] = mark[a][w]
    BY <1>1 DEF Caused, Progress
  <1>2. CASE mark'[a][w] # mark[a][w]
    <2>1. PICK r \in Requests : VisitMark(r)
      BY <1>2, LookEffect, SkipEffect, OtherSteps
    <2>2. PICK now \in Nat :
            /\ r \in Visits
            /\ pc' = [pc EXCEPT ![r] = "count"] /\ stamp' = [stamp EXCEPT ![r] = now]
            /\ mark' = mark \/ mark' = [mark EXCEPT ![ArticleOf[r]][AddressOf[r]] = now]
      BY <2>1, MarkEffect
    <2>3. ArticleOf[r] = a /\ AddressOf[r] = w /\ mark'[a][w] = now
      <3>1. PICK b, u : b = ArticleOf[r] /\ u = AddressOf[r]
        OBVIOUS
      <3>2. mark' = [mark EXCEPT ![b][u] = now]
        BY <1>2, <2>2, <3>1
      <3>3. b \in Articles /\ u \in Addresses
        BY <2>2, <3>1
      <3> HIDE ViewAssumption
      <3>4. QED
        BY <1>2, <3>1, <3>2, <3>3 DEF Types
    <2>4. Past(r)' /\ stamp'[r] = now
      BY <2>2 DEF Past, Types
    <2>5. QED
      BY <2>2, <2>3, <2>4
  <1>3. QED
    BY <1>1, <1>2

LEMMA FoundCausedStep ==
  ASSUME Typed, Caused, FoundCaused, Progress, [Next]_vars PROVE FoundCaused'
  <1> USE ViewAssumption DEF ViewAssumption, Typed
  <1> SUFFICES ASSUME NEW r \in Visits, pc'[r] = "mark"
               PROVE  found'[r] = 0 \/ \E v \in SameVisitor(r) : Past(v)' /\ stamp'[v] = found'[r]
    BY DEF FoundCaused, SameVisitor
  <1>1. CASE pc[r] = "mark" /\ found'[r] = found[r]
    BY <1>1 DEF FoundCaused, SameVisitor, Progress
  <1>2. CASE VisitLook(r)
    <2>1. found'[r] = Mark(r) \/ found'[r] = 0
      BY <1>2, LookEffect
    <2>2. CASE found'[r] = Mark(r)
      <3>1. \/ Mark(r) = 0
            \/ \E v \in Visits : /\ ArticleOf[v] = ArticleOf[r] /\ AddressOf[v] = AddressOf[r]
                                 /\ Past(v) /\ stamp[v] = Mark(r)
        BY DEF Caused, Mark
      <3>2. QED
        BY <2>2, <3>1 DEF SameVisitor, Progress
    <2>3. QED
      BY <2>1, <2>2
  <1>3. ASSUME ~VisitLook(r) PROVE pc[r] = "mark" /\ found'[r] = found[r]
    <2>1. CASE \E q \in Requests : VisitLook(q)
      <3>1. PICK q \in Requests : VisitLook(q)
        BY <2>1
      <3>2. q # r
        BY <1>3, <3>1
      <3>3. QED
        BY <3>1, <3>2, LookEffect DEF Types
    <2>2. CASE \E q \in Requests : VisitMark(q)
      BY <2>2, MarkEffect DEF Types
    <2>3. CASE \E q \in Requests : VisitSkip(q)
      BY <2>3, SkipEffect DEF Types
    <2>4. QED
      BY <2>1, <2>2, <2>3, OtherSteps
  <1>4. QED
    BY <1>1, <1>2, <1>3

\* A visit that is skipped found a mark, set by another visit, that is young enough.
LEMMA SkippedStep ==
  ASSUME Typed, Timed, FoundCaused, Skipped, Progress, [Next]_vars PROVE Skipped'
  <1> USE ViewAssumption DEF ViewAssumption, Typed
  <1>1. ASSUME NEW r \in skipped
        PROVE  \E v \in SameVisitor(r) \ {r} : Past(v)' /\ stamp'[v] + Window > stamp'[r]
    <2>1. r \in Requests /\ pc[r] \in {"answer", "done"}
      BY DEF Places
    <2>2. stamp'[r] = stamp[r]
      <3>1. CASE \E q \in Requests : VisitLook(q)
        BY <2>1, <3>1, LookEffect DEF Types
      <3>2. CASE \E q \in Requests : VisitMark(q)
        <4>1. PICK q \in Requests : VisitMark(q)
          BY <3>2
        <4>2. PICK now \in Nat : pc[q] = "mark" /\ stamp' = [stamp EXCEPT ![q] = now]
          BY <4>1, MarkEffect
        <4>3. QED
          BY <2>1, <4>2 DEF Types
      <3>3. CASE \E q \in Requests : VisitSkip(q)
        BY <3>3, SkipEffect
      <3>4. QED
        BY <3>1, <3>2, <3>3, OtherSteps
    <2>3. PICK v \in SameVisitor(r) \ {r} : Past(v) /\ stamp[v] + Window > stamp[r]
      BY DEF Skipped
    <2>4. Past(v)' /\ stamp'[v] = stamp[v]
      BY <2>3 DEF Progress, SameVisitor
    <2>5. QED
      BY <2>2, <2>3, <2>4
  <1>2. ASSUME NEW r \in Requests, VisitSkip(r)
        PROVE  \E v \in SameVisitor(r) \ {r} : Past(v)' /\ stamp'[v] + Window > stamp'[r]
    <2>1. /\ r \in Visits /\ pc[r] = "mark" /\ found[r] + Window > stamp[r] /\ stamp'[r] = stamp[r]
          /\ found[r] \in Nat /\ stamp[r] \in Nat
      BY <1>2, SkipEffect DEF Types
    <2>2. found[r] # 0
      BY <2>1 DEF Timed
    <2>3. PICK v \in SameVisitor(r) : Past(v) /\ stamp[v] = found[r]
      BY <2>1, <2>2 DEF FoundCaused
    <2>4. v # r
      BY <2>1, <2>3 DEF Past
    <2>5. Past(v)' /\ stamp'[v] = stamp[v]
      BY <2>3 DEF Progress, SameVisitor
    <2>6. QED
      BY <2>1, <2>3, <2>4, <2>5
  <1>3. ASSUME NEW r \in skipped', r \notin skipped PROVE VisitSkip(r)
    <2>1. CASE \E q \in Requests : VisitLook(q)
      BY <1>3, <2>1, LookEffect
    <2>2. CASE \E q \in Requests : VisitMark(q)
      BY <1>3, <2>2, MarkEffect
    <2>3. CASE \E q \in Requests : VisitSkip(q)
      BY <1>3, <2>3, SkipEffect
    <2>4. QED
      BY <1>3, <2>1, <2>2, <2>3, OtherSteps
  <1>4. ASSUME NEW r \in skipped', r \notin skipped PROVE r \in Requests
    <2>1. CASE \E q \in Requests : VisitSkip(q)
      BY <1>4, <2>1, SkipEffect
    <2>2. QED
      BY <1>4, <2>1, LookEffect, MarkEffect, OtherSteps
  <1>5. ASSUME NEW r \in skipped'
        PROVE  \E v \in SameVisitor(r) \ {r} : Past(v)' /\ stamp'[v] + Window > stamp'[r]
    BY <1>1, <1>2, <1>3, <1>4
  <1>6. QED
    BY <1>5 DEF Skipped, SameVisitor

\* Whoever stood beside a visit goes on doing so.
LEMMA BesideKept ==
  ASSUME Typed, Progress, NEW v \in Visits, pc[v] # "start", NEW t, Beside(v, t)
  PROVE  Beside(v, t)'
  <1> USE ViewAssumption DEF ViewAssumption, Typed
  <1>1. PICK u \in SameVisitor(v) : Overlap(u, v) /\ Past(u) /\ stamp[u] <= t
    BY DEF Beside
  <1>2. u \in Visits /\ u \in Requests /\ v \in Requests /\ pc[u] # "start"
    BY <1>1 DEF SameVisitor, Past
  <1>3. before'[u] = before[u] /\ before'[v] = before[v] /\ Past(u)' /\ stamp'[u] = stamp[u]
    BY <1>1, <1>2 DEF Progress
  <1>4. QED
    BY <1>1, <1>3 DEF Beside, Overlap, SameVisitor

LEMMA FollowedStep == ASSUME Typed, Typed', Timed, Timed', Followed, Progress, [Next]_vars PROVE Followed'
  <1> USE ViewAssumption DEF ViewAssumption, Typed
  <1> SUFFICES ASSUME NEW v \in Visits, Marked(v)' PROVE Beside(v, Mark(v))'
    BY DEF Followed
  <1>0. v \in Requests /\ v \notin failed
    BY DEF Marked, Progress
  <1>1. CASE \E r \in Requests : VisitMark(r)
    <2>1. PICK r \in Requests : VisitMark(r)
      BY <1>1
    <2>2. PICK now \in Nat :
            /\ r \in Visits /\ pc[r] = "mark" /\ stamp[r] <= now
            /\ pc' = [pc EXCEPT ![r] = "count"] /\ stamp' = [stamp EXCEPT ![r] = now]
            /\ UNCHANGED <<before, counted>>
            /\ \/ mark' = [mark EXCEPT ![ArticleOf[r]][AddressOf[r]] = now] /\ failed' = failed
               \/ mark' = mark /\ failed' = failed \cup {r}
      BY <2>1, MarkEffect
    <2>3. Past(r)' /\ stamp'[r] = now
      BY <2>2 DEF Past, Types
    <2>4. CASE /\ r \in SameVisitor(v)
               /\ mark' = [mark EXCEPT ![ArticleOf[r]][AddressOf[r]] = now]
      <3>1. Mark(v)' = now
        BY <2>2, <2>4 DEF Mark, SameVisitor, Types
      <3>2. CASE v \in before'[r]
        <4>1. stamp'[v] <= now /\ pc'[v] = "done" /\ v # r
          BY <2>2, <2>3, <3>2 DEF Timed
        <4>2. Past(v)' /\ v \notin before'[v]
          BY <4>1, <1>0 DEF Marked, Past, Timed
        <4>3. v \in SameVisitor(v)
          BY DEF SameVisitor
        <4>4. QED
          BY <3>1, <4>1, <4>2, <4>3 DEF Beside, Overlap, SameVisitor
      <3>3. CASE v \notin before'[r]
        <4>1. r \notin before'[v]
          BY <1>0, <2>2 DEF Timed
        <4>2. QED
          BY <2>3, <2>4, <3>1, <3>3, <4>1 DEF Beside, Overlap, SameVisitor
      <3>4. QED
        BY <3>2, <3>3
    <2>5. CASE r \notin SameVisitor(v) \/ (mark' = mark /\ failed' = failed \cup {r})
      <3>1. Mark(v)' = Mark(v)
        <4>1. CASE mark' = mark
          BY <4>1 DEF Mark
        <4>2. CASE /\ r \notin SameVisitor(v)
                   /\ mark' = [mark EXCEPT ![ArticleOf[r]][AddressOf[r]] = now]
          <5>1. ArticleOf[r] # ArticleOf[v] \/ AddressOf[r] # AddressOf[v]
            BY <2>2, <4>2 DEF SameVisitor
          <5>2. ArticleOf[v] \in Articles /\ AddressOf[v] \in Addresses
            OBVIOUS
          <5>3. QED
            BY <4>2, <5>1, <5>2 DEF Mark, Types
        <4>3. QED
          BY <2>2, <2>5, <4>1, <4>2
      <3>2. v # r
        BY <2>2, <2>5 DEF SameVisitor, Marked
      <3>3. Marked(v) /\ pc[v] # "start"
        BY <1>0, <2>2, <3>2 DEF Marked, Types, Places
      <3>4. PICK t : t = Mark(v)
        OBVIOUS
      <3>5. Beside(v, t)'
        BY <3>3, <3>4, BesideKept DEF Followed
      <3>6. QED
        BY <3>1, <3>4, <3>5 DEF Beside, SameVisitor
    <2>6. QED
      BY <2>2, <2>4, <2>5
  <1>2. CASE ~\E r \in Requests : VisitMark(r)
    <2>1. Marked(v) /\ mark' = mark
      <3>1. CASE \E q \in Requests : VisitLook(q)
        BY <1>0, <3>1, LookEffect DEF Marked, Types
      <3>2. CASE \E q \in Requests : VisitSkip(q)
        BY <1>0, <3>2, SkipEffect DEF Marked, Types
      <3>3. QED
        BY <1>0, <1>2, <3>1, <3>2, OtherSteps DEF Marked
    <2>2. pc[v] # "start" /\ Mark(v)' = Mark(v)
      BY <1>0, <2>1 DEF Marked, Places, Mark
    <2>3. PICK t : t = Mark(v)
      OBVIOUS
    <2>4. Beside(v, t)'
      BY <2>1, <2>2, <2>3, BesideKept DEF Followed
    <2>5. QED
      BY <2>2, <2>3, <2>4 DEF Beside, SameVisitor
  <1>3. QED
    BY <1>1, <1>2

LEMMA NoticedStep ==
  ASSUME Typed, Typed', Timed, Timed', Followed, Noticed, Progress, [Next]_vars PROVE Noticed'
  <1> USE ViewAssumption DEF ViewAssumption, Typed
  <1> SUFFICES ASSUME NEW r \in Visits \ failed', pc'[r] # "start",
                      NEW v \in before'[r] \cap SameVisitor(r), v \in counted' \ failed'
               PROVE  Beside(v, found[r])'
    BY DEF Noticed, SameVisitor
  <1>0. v \in Visits /\ v \in Requests /\ r \in Requests /\ r \notin failed /\ v \notin failed
    BY DEF SameVisitor, Progress
  <1>1. CASE pc[r] = "start"
    <2>1. VisitLook(r)
      <3>1. CASE \E q \in Requests : VisitLook(q)
        BY <1>1, <3>1, LookEffect DEF Types
      <3>2. CASE \E q \in Requests : VisitMark(q)
        BY <1>1, <3>2, MarkEffect DEF Types
      <3>3. CASE \E q \in Requests : VisitSkip(q)
        BY <1>1, <3>3, SkipEffect DEF Types
      <3>4. QED
        BY <1>1, <3>1, <3>2, <3>3, OtherSteps
    <2>2. found'[r] = Mark(r) /\ counted' = counted /\ pc[v] = "done"
      BY <1>0, <2>1, LookEffect DEF Types
    <2>3. Mark(v) = Mark(r)
      BY DEF Mark, SameVisitor
    <2>4. Beside(v, Mark(v))
      BY <1>0, <2>2 DEF Followed, Marked
    <2>5. PICK t : t = Mark(v)
      OBVIOUS
    <2>6. Beside(v, t)'
      BY <1>0, <2>2, <2>4, <2>5, BesideKept
    <2>7. QED
      BY <2>2, <2>3, <2>5, <2>6 DEF Beside, SameVisitor
  <1>2. CASE pc[r] # "start"
    <2>1. before'[r] = before[r] /\ v \in before[r] /\ pc[v] = "done"
      BY <1>0, <1>2 DEF Progress, Timed
    <2>2. found'[r] = found[r] /\ v \in counted
      <3>1. CASE \E q \in Requests : VisitLook(q)
        BY <1>0, <1>2, <3>1, LookEffect
      <3>2. CASE \E q \in Requests : VisitMark(q)
        BY <3>2, MarkEffect
      <3>3. CASE \E q \in Requests : VisitSkip(q)
        BY <3>3, SkipEffect
      <3>4. QED
        BY <1>0, <2>1, <3>1, <3>2, <3>3, OtherSteps
    <2>3. Beside(v, found[r])
      BY <1>0, <1>2, <2>1, <2>2 DEF Noticed
    <2>4. PICK t : t = found[r]
      OBVIOUS
    <2>5. Beside(v, t)'
      BY <1>0, <2>1, <2>3, <2>4, BesideKept
    <2>6. QED
      BY <2>2, <2>4, <2>5 DEF Beside, SameVisitor
  <1>3. QED
    BY <1>1, <1>2

-----------------------------------------------------------------------------
(* The totals that pages show.                                             *)

IsSeq(s) == \E S : s \in Seq(S)
Shown(r) == Len(page[r]) = Shows.total

\* A page belongs to the life it began in, or to an earlier one if it was cut off.
Lives ==
  /\ life \in Nat /\ born \in [Requests -> Nat]
  /\ \A r \in Pages : born[r] <= life /\ (pc[r] \in {"page", "answer"} => born[r] = life)

\* A page has read nothing, or some of its figures, or all when it is to be answered;
\* its total is of requests recorded before, its own not among them.
Filled ==
  /\ page = [r \in Requests |-> page[r]]
  /\ \A r \in Pages :
       /\ IsSeq(page[r]) /\ Len(page[r]) \in 0..Shows.total
       /\ pc[r] = "start" => page[r] = <<>>
       /\ pc[r] = "page" => ~Shown(r)
       /\ pc[r] = "answer" => Shown(r)
       /\ Shown(r) => pc[r] \in {"answer", "done"} /\ page[r][Shows.total] \in Nat
       /\ Shown(r) /\ born[r] = life => page[r][Shows.total] <= total
       /\ Shown(r) /\ born[r] = life /\ pc[r] = "done" => page[r][Shows.total] < total

\* A page asked for after another was answered by the same process shows a larger total.
TotalsRise ==
  \A q \in Complete : \A p \in Complete \cap before[q] :
    born[p] = born[q] => page[q][Shows.total] > page[p][Shows.total]
Paged == Lives /\ Filled /\ TotalsRise

LEMMA Appended ==
  ASSUME NEW s, NEW e, IsSeq(s)
  PROVE  /\ IsSeq(Append(s, e)) /\ Len(s) \in Nat /\ Len(Append(s, e)) = Len(s) + 1
         /\ Append(s, e)[Len(s) + 1] = e
         /\ \A i \in 1..Len(s) : Append(s, e)[i] = s[i]
  <1>1. PICK S : s \in Seq(S)
    BY DEF IsSeq
  <1>2. PICK T : T = S \cup {e}
    OBVIOUS
  <1>3. S \subseteq T /\ e \in T
    BY <1>2
  <1>4. s \in Seq(T)
    BY <1>1, <1>3, SeqMonotonic
  <1>5. Append(s, e) \in Seq(T) /\ Len(s) \in Nat /\ Len(Append(s, e)) = Len(s) + 1
        /\ Append(s, e)[Len(s) + 1] = e
        /\ \A i \in 1..Len(s) : Append(s, e)[i] = s[i]
    BY <1>3, <1>4
  <1>6. QED
    BY <1>5 DEF IsSeq

\* What a page's step does to it: one figure more, the total when four are there.
LEMMA ReadEffect ==
  ASSUME Typed, Filled, NEW r \in Requests, PageStep(r)
  PROVE  /\ r \in Pages /\ pc[r] \in {"start", "page"}
         /\ page' = [page EXCEPT ![r] = page'[r]]
         /\ IsSeq(page'[r]) /\ Len(page'[r]) \in 0..5
         /\ Len(page'[r]) = 5 => page'[r][5] = total
         /\ pc' = [pc EXCEPT ![r] = IF Len(page'[r]) = 5 THEN "answer" ELSE "page"]
         /\ UNCHANGED life
         /\ \/ pc[r] = "start" /\ born' = [born EXCEPT ![r] = life]
            \/ pc[r] = "page" /\ UNCHANGED born
  <1>1. /\ r \in Pages /\ pc[r] \in {"start", "page"} /\ Read(r) /\ UNCHANGED life
        /\ \/ pc[r] = "start" /\ born' = [born EXCEPT ![r] = life]
           \/ pc[r] = "page" /\ UNCHANGED born
    BY DEF PageStep, PageBegins, PageReads, Begins, Typed, Places
  <1>2. IsSeq(page[r]) /\ Len(page[r]) \in 0..4
    <2>1. IsSeq(page[r]) /\ Len(page[r]) \in 0..5 /\ Len(page[r]) # 5
      BY <1>1 DEF Filled, Shown, Shows
    <2>2. QED
      BY <2>1
  <1>3. PICK k, e : /\ k = Len(page[r]) + 1 /\ (k # 1 => e = Reading(k))
                    /\ page' = [page EXCEPT ![r] = Append(page[r], e)]
    BY <1>1 DEF Read, Shows
  <1>4. page' = [page EXCEPT ![r] = Append(page[r], e)]
    BY <1>3
  <1>5. page'[r] = Append(page[r], e)
    BY <1>4 DEF Filled
  <1>6. IsSeq(page'[r]) /\ Len(page'[r]) = k /\ page'[r][k] = e
    BY <1>2, <1>3, <1>5, Appended
  <1>7. k = 5 => e = total
    BY <1>3 DEF Reading, Shows
  <1>8. pc' = [pc EXCEPT ![r] = IF k = 5 THEN "answer" ELSE "page"]
    BY <1>1, <1>3 DEF Read, Shows
  <1>9. k \in 0..5
    <2>1. PICK n \in 0..4 : n = Len(page[r])
      BY <1>2
    <2>2. n + 1 \in 0..5
      OBVIOUS
    <2>3. QED
      BY <1>3, <2>1, <2>2
  <1>10. QED
    BY <1>1, <1>2, <1>3, <1>4, <1>5, <1>6, <1>7, <1>8, <1>9

LEMMA LivesStep == ASSUME Typed, Paged, [Next]_vars PROVE Lives'
  <1> USE StatsAssumption DEF StatsAssumption, Typed
  <1>1. ASSUME NEW r \in Requests, PageStep(r) PROVE Lives'
    <2>1. /\ r \in Pages /\ UNCHANGED life
          /\ \/ pc[r] = "start" /\ born' = [born EXCEPT ![r] = life]
             \/ pc[r] = "page" /\ UNCHANGED born
          /\ \A q \in Requests \ {r} : pc'[q] = pc[q]
      BY <1>1, ReadEffect DEF Paged, Types
    <2>2. QED
      BY <2>1 DEF Paged, Lives
  <1>2. ASSUME UNCHANGED <<life, born>>,
               \A q \in Pages : pc'[q] \in {"page", "answer"} => pc[q] \in {"page", "answer"}
        PROVE  Lives'
    BY <1>2 DEF Paged, Lives
  <1>3. ASSUME NEW r \in Requests, Answer(r) PROVE Lives'
    BY <1>2, <1>3 DEF Answer, Types, pages
  <1>4. CASE Restart
    BY <1>4, RestartEffect DEF Restart, Paged, Lives
  <1>5. ASSUME NEW r \in Requests, Count(r), UNCHANGED pages PROVE Lives'
    <2>1. UNCHANGED <<life, born>>
      BY <1>5 DEF pages
    <2>2. r \notin Pages
      BY <1>5 DEF Count, Visit, Export, Arrive, VisitLook, VisitMark, VisitSkip, VisitCount,
                  VisitCountFails, ExportTake, ExportSave, ExportFails, Places
    <2>3. \A q \in Requests \ {r} : pc'[q] = pc[q]
      BY <1>5 DEF Count, Visit, Export, Arrive, VisitLook, VisitMark, VisitSkip, VisitCount,
                  VisitCountFails, ExportTake, ExportSave, ExportFails, Types
    <2>4. QED
      BY <1>2, <2>1, <2>2, <2>3
  <1>6. CASE (Tick /\ UNCHANGED pages) \/ UNCHANGED vars
    BY <1>2, <1>6 DEF Tick, vars, pages
  <1>7. QED
    BY <1>1, <1>3, <1>4, <1>5, <1>6 DEF Next, PageStep, PageBegins, PageReads

\* A page's own step.
LEMMA PagedRead ==
  ASSUME Typed, Typed', Timed, Latest, Paged, NEW r \in Requests, PageStep(r), UNCHANGED tracker
  PROVE  Filled' /\ TotalsRise'
  <1> USE StatsAssumption DEF StatsAssumption, Typed
  <1>0. total \in Nat /\ total' = total
    BY LenProperties DEF Latest, WindowIsLatest
  <1>1. /\ r \in Pages /\ pc[r] \in {"start", "page"}
        /\ page' = [page EXCEPT ![r] = page'[r]]
        /\ IsSeq(page'[r]) /\ Len(page'[r]) \in 0..5
        /\ Len(page'[r]) = 5 => page'[r][5] = total
        /\ pc' = [pc EXCEPT ![r] = IF Len(page'[r]) = 5 THEN "answer" ELSE "page"]
        /\ UNCHANGED life
        /\ \/ pc[r] = "start" /\ born' = [born EXCEPT ![r] = life]
           \/ pc[r] = "page" /\ UNCHANGED born
    BY ReadEffect DEF Paged
  <1>2. \A q \in Requests \ {r} : page'[q] = page[q] /\ pc'[q] = pc[q] /\ born'[q] = born[q]
    BY <1>1 DEF Paged, Filled, Types, Lives
  <1>3. pc'[r] = (IF Len(page'[r]) = 5 THEN "answer" ELSE "page") /\ born'[r] = life
    BY <1>1 DEF Types, Paged, Lives
  <1>4. Filled'
    <2>1. page' = [q \in Requests |-> page'[q]]
      BY <1>1 DEF Paged, Filled
    <2>2. ASSUME NEW q \in Pages
          PROVE  /\ IsSeq(page'[q]) /\ Len(page'[q]) \in 0..5
                 /\ pc'[q] = "start" => page'[q] = <<>>
                 /\ pc'[q] = "page" => Len(page'[q]) # 5
                 /\ pc'[q] = "answer" => Len(page'[q]) = 5
                 /\ Len(page'[q]) = 5 => pc'[q] \in {"answer", "done"} /\ page'[q][5] \in Nat
                 /\ Len(page'[q]) = 5 /\ born'[q] = life => page'[q][5] <= total
                 /\ Len(page'[q]) = 5 /\ born'[q] = life /\ pc'[q] = "done" => page'[q][5] < total
      <3>1. CASE q = r
        <4>1. Len(page'[r]) \in 0..5 /\ (Len(page'[r]) = 5 => page'[r][5] <= total)
          <5>1. total <= total
            BY <1>0
          <5>2. QED
            BY <1>1, <5>1, Zenon
        <4>2. pc'[r] \notin {"start", "done"} /\ (pc'[r] = "answer" <=> Len(page'[r]) = 5)
              /\ (pc'[r] = "page" <=> Len(page'[r]) # 5)
          BY <1>3
        <4>3. QED
          BY <1>0, <1>1, <3>1, <4>1, <4>2
      <3>2. CASE q # r
        BY <1>2, <3>2 DEF Paged, Filled, Shown, Shows
      <3>3. QED
        BY <3>1, <3>2
    <2>3. QED
      BY <1>0, <1>1, <2>1, <2>2 DEF Filled, Shown, Shows, IsSeq
  <1>5. ASSUME NEW q \in Complete', NEW p \in Complete', p \in before'[q], born'[p] = born'[q]
        PROVE  page'[q][5] > page'[p][5]
    <2>1. q \in Pages /\ q \in Requests /\ p \in Pages /\ p \in Requests
          /\ Len(page'[q]) = 5 /\ Len(page'[p]) = 5
      BY DEF Complete, Shows
    <2>2. CASE q = r
      <3>1. pc[p] = "done" /\ p # r
        <4>1. CASE pc[r] = "start"
          BY <1>1, <1>5, <2>1, <2>2, <4>1 DEF PageStep, PageBegins, PageReads, Begins, Types
        <4>2. CASE pc[r] = "page"
          BY <1>1, <1>5, <2>1, <2>2, <4>2 DEF PageStep, PageBegins, PageReads, Begins, Timed
        <4>3. QED
          BY <1>1, <4>1, <4>2
      <3>2. page'[r][5] = total /\ page'[p] = page[p] /\ born[p] = life
        BY <1>1, <1>2, <1>3, <1>5, <2>1, <2>2, <3>1
      <3>3. page[p][5] < total /\ page[p][5] \in Nat
        BY <2>1, <3>1, <3>2 DEF Paged, Filled, Shown, Shows
      <3>4. QED
        BY <1>0, <2>2, <3>2, <3>3
    <2>3. CASE q # r
      <3>1. page'[q] = page[q] /\ born'[q] = born[q] /\ before'[q] = before[q]
        BY <1>2, <2>1, <2>3 DEF PageStep, PageBegins, PageReads, Begins, Types
      <3>2. pc[p] = "done"
        BY <1>5, <2>1, <3>1 DEF Timed
      <3>3. page'[p] = page[p] /\ born'[p] = born[p]
        BY <1>1, <1>2, <2>1, <3>2
      <3>4. q \in Complete /\ p \in Complete
        BY <2>1, <3>1, <3>3 DEF Complete, Shows
      <3>5. page[q][5] > page[p][5]
        BY <1>5, <3>1, <3>3, <3>4 DEF Paged, TotalsRise, Shows
      <3>6. QED
        BY <3>1, <3>3, <3>5
    <2>4. QED
      BY <2>2, <2>3
  <1>6. TotalsRise'
    BY <1>5 DEF TotalsRise, Shows
  <1>7. QED
    BY <1>4, <1>6

\* Steps of other requests, after which pages stand where they stood.
LEMMA PagedElse ==
  ASSUME Paged, UNCHANGED <<page, total, life, born>>,
         \A q \in Pages : pc'[q] = pc[q] /\ before'[q] = before[q]
  PROVE  Filled' /\ TotalsRise'
  <1>1. Complete' = Complete /\ Complete \subseteq Pages
    BY DEF Complete
  <1>2. TotalsRise'
    BY <1>1 DEF Paged, TotalsRise
  <1>3. \A q \in Pages : Shown(q)' = Shown(q)
    BY DEF Shown
  <1>4. Filled'
    BY <1>3 DEF Paged, Filled, IsSeq
  <1>5. QED
    BY <1>2, <1>4

LEMMA PagedStep ==
  ASSUME Typed, Typed', Timed, Latest, Paged, [Next]_vars PROVE Paged'
  <1> USE StatsAssumption DEF StatsAssumption, Typed
  <1> DEFINE Goal == Filled' /\ TotalsRise'
  <1>0. total \in Nat
    BY LenProperties DEF Latest, WindowIsLatest
  <1>1. ASSUME NEW r \in Requests, PageStep(r), UNCHANGED tracker PROVE Goal
    BY <1>1, PagedRead
  <1>2. ASSUME NEW r \in Requests, Answer(r) PROVE Goal
    <2>1. UNCHANGED <<page, born, life, before>> /\ total' = total + 1 /\ pc[r] = "answer"
          /\ pc' = [pc EXCEPT ![r] = "done"]
      BY <1>2 DEF Answer, Record, pages
    <2>2. \A q \in Pages : /\ pc'[q] \in {"answer", "done"} <=> pc[q] \in {"answer", "done"}
                           /\ pc'[q] = "start" <=> pc[q] = "start"
                           /\ pc'[q] = "page" <=> pc[q] = "page"
                           /\ pc'[q] = "answer" => pc[q] = "answer"
      BY <2>1 DEF Types
    <2>3. ASSUME NEW q \in Pages
          PROVE  /\ IsSeq(page[q]) /\ Len(page[q]) \in 0..5
                 /\ pc'[q] = "start" => page[q] = <<>>
                 /\ pc'[q] = "page" => Len(page[q]) # 5
                 /\ pc'[q] = "answer" => Len(page[q]) = 5
                 /\ Len(page[q]) = 5 => pc'[q] \in {"answer", "done"} /\ page[q][5] \in Nat
                 /\ Len(page[q]) = 5 /\ born[q] = life => page[q][5] < total' /\ page[q][5] <= total'
      <3>1. /\ IsSeq(page[q]) /\ Len(page[q]) \in 0..5
            /\ pc[q] = "start" => page[q] = <<>>
            /\ pc[q] = "page" => Len(page[q]) # 5
            /\ pc[q] = "answer" => Len(page[q]) = 5
            /\ Len(page[q]) = 5 => pc[q] \in {"answer", "done"} /\ page[q][5] \in Nat
            /\ Len(page[q]) = 5 /\ born[q] = life => page[q][5] <= total
        BY DEF Paged, Filled, Shown, Shows
      <3>2. \A n \in Nat : n <= total => n < total' /\ n <= total'
        BY <1>0, <2>1
      <3>3. QED
        BY <2>2, <3>1, <3>2
    <2>4. \A q \in Pages : Shown(q)' <=> Len(page[q]) = 5
      BY <2>1 DEF Shown, Shows
    <2>5. Filled'
      <3>1. page' = [q \in Requests |-> page'[q]]
        BY <2>1 DEF Paged, Filled
      <3>2. QED
        BY <2>1, <2>3, <2>4, <3>1 DEF Filled, Shows, IsSeq
    <2>6. Complete' = Complete
      BY <2>1 DEF Complete
    <2>7. TotalsRise'
      BY <2>1, <2>6 DEF Paged, TotalsRise
    <2>8. QED
      BY <2>5, <2>7
  <1>3. ASSUME Restart PROVE Goal
    <2>1. UNCHANGED <<page, before, born>> /\ life' = life + 1 /\ total' = 0
      BY <1>3 DEF Restart
    <2>2. \A q \in Pages : born[q] # life'
      BY <2>1 DEF Paged, Lives
    <2>3. \A q \in Pages : /\ pc'[q] = "start" => pc[q] = "start"
                           /\ pc'[q] \in {"start", "done"}
                           /\ pc[q] \in {"answer", "done"} => pc'[q] = "done"
      BY <1>3, RestartEffect
    <2>4. Filled'
      <3>1. page' = [q \in Requests |-> page'[q]]
        BY <2>1 DEF Paged, Filled
      <3>2. QED
        BY <2>1, <2>2, <2>3, <3>1 DEF Paged, Filled, Shown, IsSeq
    <2>5. Complete' = Complete
      BY <2>1 DEF Complete
    <2>6. TotalsRise'
      BY <2>1, <2>5 DEF Paged, TotalsRise
    <2>7. QED
      BY <2>4, <2>6
  <1>4. ASSUME NEW r \in Requests, Count(r), UNCHANGED <<tracker, pages>> PROVE Goal
    <2>1. r \notin Pages
      BY <1>4 DEF Count, Visit, Export, Arrive, VisitLook, VisitMark, VisitSkip, VisitCount,
                  VisitCountFails, ExportTake, ExportSave, ExportFails, Places
    <2>2. \A q \in Requests \ {r} : pc'[q] = pc[q] /\ before'[q] = before[q]
      BY <1>4 DEF Count, Visit, Export, Arrive, VisitLook, VisitMark, VisitSkip, VisitCount,
                  VisitCountFails, ExportTake, ExportSave, ExportFails, Begins, Types
    <2>3. \A q \in Pages : pc'[q] = pc[q] /\ before'[q] = before[q]
      BY <2>1, <2>2
    <2>4. UNCHANGED <<page, total, life, born>>
      BY <1>4 DEF pages
    <2>5. QED
      BY <2>3, <2>4, PagedElse
  <1>5. ASSUME (Tick /\ UNCHANGED <<tracker, pages>>) \/ UNCHANGED vars PROVE Goal
    <2>1. UNCHANGED <<page, total, life, born, pc, before>>
      BY <1>5 DEF Tick, vars, pages
    <2>2. QED
      BY <2>1, PagedElse
  <1>6. Goal
    BY <1>1, <1>2, <1>3, <1>4, <1>5 DEF Next, PageStep, PageBegins, PageReads
  <1>7. QED
    BY <1>6, LivesStep DEF Paged

-----------------------------------------------------------------------------
(* The other figures: views, and percentiles.                              *)

\* Visits counted of the articles in A.
Of(A) == {v \in counted : ArticleOf[v] \in A}

\* The sum of the counts of some rows lies between the visits counted of them, and
\* those of these that no export wrote over.
LEMMA SumOfCounts ==
  ASSUME Typed, Counts
  PROVE  \A A : A \subseteq Articles /\ IsFiniteSet(A)
                  => SumOver(views, A) \in Nat /\ Between(SumOver(views, A), Of(A))
  <1> DEFINE Fits(A) == SumOver(views, A) \in Nat /\ Between(SumOver(views, A), Of(A))
             Holds(n) == \A A : A \subseteq Articles /\ IsFiniteSet(A) /\ Cardinality(A) = n => Fits(A)
             Good == {n \in Nat : Holds(n)}
  <1>0. \A s \in SUBSET counted : IsFiniteSet(s) /\ Cardinality(s) \in Nat
    BY VisitsFinite, FS_Subset, FS_CardinalityType DEF Typed, Places
  <1>1. 0 \in Good
    <2> SUFFICES ASSUME NEW A, IsFiniteSet(A), Cardinality(A) = 0 PROVE Fits(A)
      OBVIOUS
    <2>1. A = {}
      BY FS_EmptySet
    <2>2. SumOver(views, A) = 0
      BY <2>1, SumEmpty
    <2>3. Of(A) = {} /\ Of(A) \ wiped = {}
      BY <2>1 DEF Of
    <2>4. Cardinality({}) = 0
      BY FS_EmptySet
    <2>5. QED
      BY <2>2, <2>3, <2>4 DEF Between
  <1>2. ASSUME NEW n \in Nat, n \in Good PROVE n + 1 \in Good
    <2>0. Holds(n)
      BY <1>2
    <2> SUFFICES ASSUME NEW A, A \subseteq Articles, IsFiniteSet(A), Cardinality(A) = n + 1
                 PROVE  Fits(A)
      OBVIOUS
    <2>1. A # {}
      BY FS_EmptySet
    <2>2. PICK a, B : a \in A /\ B = A \ {a} /\ SumOver(views, A) = views[a] + SumOver(views, B)
      <3>1. PICK a \in A : SumOver(views, A) = views[a] + SumOver(views, A \ {a})
        BY <2>1, SumStep
      <3>2. QED
        BY <3>1
    <2>3. IsFiniteSet(B) /\ Cardinality(B) = n /\ B \subseteq Articles
      BY <2>2, FS_RemoveElement
    <2>4. Fits(B)
      BY <2>0, <2>3
    <2>5. a \in Articles /\ views[a] \in Nat /\ Between(views[a], CountedAt(a))
      BY <2>2 DEF Counts, Typed, Types
    <2>6. /\ Of(A) = Of(B) \cup CountedAt(a)
          /\ Of(B) \cap CountedAt(a) = {}
      BY <2>2 DEF Of, CountedAt
    <2>7. ASSUME NEW s \in SUBSET counted, NEW t \in SUBSET counted, s \cap t = {}
          PROVE  Cardinality(s \cup t) = Cardinality(s) + Cardinality(t)
      <3>1. Cardinality(s \cup t) = Cardinality(s) + Cardinality(t) - Cardinality(s \cap t)
        BY <1>0, FS_Union
      <3>2. Cardinality(s \cap t) = 0
        BY <2>7, FS_EmptySet
      <3>3. QED
        BY <1>0, <3>1, <3>2
    <2>8. Cardinality(Of(A)) = Cardinality(Of(B)) + Cardinality(CountedAt(a))
      BY <2>6, <2>7 DEF Of, CountedAt
    <2>9. Cardinality(Of(A) \ wiped) = Cardinality(Of(B) \ wiped) + Cardinality(CountedAt(a) \ wiped)
      <3>1. /\ Of(A) \ wiped = (Of(B) \ wiped) \cup (CountedAt(a) \ wiped)
            /\ (Of(B) \ wiped) \cap (CountedAt(a) \ wiped) = {}
        BY <2>6
      <3>2. Of(B) \ wiped \in SUBSET counted /\ CountedAt(a) \ wiped \in SUBSET counted
        BY DEF Of, CountedAt
      <3>3. QED
        BY <2>7, <3>1, <3>2
    <2>10. /\ Cardinality(Of(B)) \in Nat /\ Cardinality(Of(B) \ wiped) \in Nat
           /\ Cardinality(CountedAt(a)) \in Nat /\ Cardinality(CountedAt(a) \ wiped) \in Nat
      BY <1>0 DEF Of, CountedAt
    <2>11. QED
      BY <2>2, <2>4, <2>5, <2>8, <2>9, <2>10 DEF Between
  <1>3. \A n \in Nat : n \in Good
    <2> HIDE DEF Good
    <2>1. QED
      BY <1>1, <1>2, Induction
  <1>4. \A n \in Nat : Holds(n)
    BY <1>3
  <1>5. \A A : IsFiniteSet(A) => Cardinality(A) \in Nat
    BY FS_CardinalityType
  <1>6. QED
    BY <1>4, <1>5

\* The views that a page shows.
LEMMA ViewsOfPage ==
  ASSUME Typed, Counts
  PROVE  /\ SumFunction(views) \in Nat
         /\ SumFunction(views) <= Cardinality(counted)
         /\ Cardinality(counted) <= SumFunction(views) + Cardinality(wiped)
  <1>1. DOMAIN views = Articles /\ IsFiniteSet(Articles)
    BY ViewAssumption DEF ViewAssumption, Typed, Types
  <1>2. SumFunction(views) = SumOver(views, Articles)
    BY <1>1, SumFunctionIsSum
  <1>3. Of(Articles) = counted
    BY ViewAssumption DEF Of, ViewAssumption, Typed, Places
  <1>4. SumFunction(views) \in Nat /\ Between(SumFunction(views), counted)
    BY <1>1, <1>2, <1>3, SumOfCounts
  <1>5. wiped \subseteq counted /\ IsFiniteSet(counted) /\ IsFiniteSet(wiped)
    BY VisitsFinite, FS_Subset DEF Typed, Places, Counts
  <1>6. Cardinality(counted \ wiped) = Cardinality(counted) - Cardinality(counted \cap wiped)
    BY <1>5, FS_Difference
  <1>7. counted \cap wiped = wiped
    BY <1>5
  <1>8. Cardinality(counted) \in Nat /\ Cardinality(wiped) \in Nat
    BY <1>5, FS_CardinalityType
  <1>9. QED
    BY <1>4, <1>6, <1>7, <1>8 DEF Between

\* Each figure, and while no request is recorded the percentiles are those of the window.
Figures(r) ==
  LET n == Len(page[r]) IN
  /\ n >= 1 => page[r][1] \in Nat /\ page[r][1] <= Cardinality(counted)
  /\ n >= 2 /\ born[r] = life => since[r] <= total
  /\ born[r] = life /\ since[r] = total =>
       /\ n >= 2 => page[r][2] = GetPercentile(50)
       /\ n >= 3 => page[r][3] = GetPercentile(95)
       /\ n >= 4 => page[r][4] = GetPercentile(99)
  /\ n = 5 /\ page[r][5] = since[r] => page[r][2] <= page[r][3] /\ page[r][3] <= page[r][4]
FiguresFit == since \in [Requests -> Nat] /\ \A r \in Pages : Figures(r)

\* The views of a page fall short of those of an earlier one by no more than exports undid.
ViewsGoOn ==
  \A q \in Pages \ failed : Len(page[q]) >= 1 =>
    \A p \in Complete \cap before[q] : page[q][1] + Cardinality(wiped) >= page[p][1]
Agreeing == FiguresFit /\ ViewsGoOn

\* What a page's step reads.
LEMMA ReadAppends ==
  ASSUME Typed, Lives, Filled, NEW r \in Requests, PageStep(r)
  PROVE  \E n \in 0..4 :
           /\ n = Len(page[r]) /\ Len(page'[r]) = n + 1
           /\ \A i \in 1..n : page'[r][i] = page[r][i]
           /\ page'[r][n + 1] = Reading(n + 1) \/ (n = 0 /\ page'[r][n + 1] = 0 /\ r \in failed')
           /\ since' = IF n = 1 THEN [since EXCEPT ![r] = total] ELSE since
           /\ n >= 1 => UNCHANGED <<before, born>> /\ born[r] = life
  <1>1. r \in Pages /\ pc[r] \in {"start", "page"} /\ Read(r)
    BY DEF PageStep, PageBegins, PageReads, Begins, Typed, Places
  <1>2. IsSeq(page[r]) /\ Len(page[r]) \in 0..5 /\ Len(page[r]) # 5
    BY <1>1 DEF Filled, Shown, Shows
  <1>3. PICK n \in 0..4 : n = Len(page[r])
    BY <1>2
  <1>4. PICK e : /\ e = Reading(n + 1) \/ (n = 0 /\ e = 0 /\ r \in failed')
                 /\ page' = [page EXCEPT ![r] = Append(page[r], e)]
    <2>1. n + 1 = 1 <=> n = 0
      OBVIOUS
    <2>2. PICK ok : /\ page' = [page EXCEPT ![r] = Append(page[r], IF ok THEN Reading(n + 1) ELSE 0)]
                    /\ n = 0 \/ ok = TRUE
                    /\ failed' = IF ok THEN failed ELSE failed \cup {r}
      BY <1>1, <1>3, <2>1 DEF Read, Shows, Noted
    <2>3. CASE ok
      BY <2>2, <2>3
    <2>4. CASE ~ok
      BY <2>2, <2>4
    <2>5. QED
      BY <2>3, <2>4
  <1>5. page'[r] = Append(page[r], e)
    BY <1>1, <1>4, StatsAssumption DEF Filled, StatsAssumption
  <1>6. Len(page'[r]) = n + 1 /\ page'[r][n + 1] = e /\ \A i \in 1..n : page'[r][i] = page[r][i]
    BY <1>2, <1>3, <1>5, Appended
  <1>7. since' = IF n = 1 THEN [since EXCEPT ![r] = total] ELSE since
    <2>1. n + 1 = 2 <=> n = 1
      OBVIOUS
    <2>2. since' = IF n + 1 = 2 THEN [since EXCEPT ![r] = total] ELSE since
      BY <1>1, <1>3 DEF Read, Shows
    <2>3. QED
      BY <2>1, <2>2
  <1>8. n >= 1 => UNCHANGED <<before, born>> /\ born[r] = life
    <2>1. pc[r] = "start" => n = 0
      BY <1>1, <1>3, EmptySeq DEF Filled
    <2>2. pc[r] # "start" => UNCHANGED <<before, born>> /\ born[r] = life
      BY <1>1 DEF PageStep, PageBegins, PageReads, Begins, Lives
    <2>3. QED
      BY <2>1, <2>2
  <1>9. QED
    BY <1>3, <1>4, <1>6, <1>7, <1>8

LEMMA SameWindow ==
  ASSUME latencies' = latencies PROVE \A p : GetPercentile(p)' = GetPercentile(p)
  BY DEF GetPercentile

\* What the page reads at each place.
LEMMA Readings ==
  /\ Reading(1) = SumFunction(views)
  /\ Reading(2) = GetPercentile(50) /\ Reading(3) = GetPercentile(95) /\ Reading(4) = GetPercentile(99)
  /\ Reading(5) = total
  BY DEF Reading, Shows

LEMMA FiguresRead ==
  ASSUME Typed, Counts, Latest, Lives, Filled, FiguresFit, NEW r \in Requests, PageStep(r), UNCHANGED tracker
  PROVE  FiguresFit'
  <1>1. r \in Pages /\ page' = [page EXCEPT ![r] = page'[r]]
    BY ReadEffect
  <1>2. PICK n \in 0..4 :
           /\ n = Len(page[r]) /\ Len(page'[r]) = n + 1
           /\ \A i \in 1..n : page'[r][i] = page[r][i]
           /\ page'[r][n + 1] = Reading(n + 1) \/ (n = 0 /\ page'[r][n + 1] = 0 /\ r \in failed')
           /\ since' = IF n = 1 THEN [since EXCEPT ![r] = total] ELSE since
           /\ n >= 1 => UNCHANGED <<before, born>> /\ born[r] = life
    BY ReadAppends
  <1>3. total \in Nat /\ total' = total /\ latencies' = latencies
    <2>1. total \in Nat
      BY LenProperties DEF Latest, WindowIsLatest
    <2>2. QED
      BY <2>1
  <1>4. since' \in [Requests -> Nat] /\ \A q \in Requests \ {r} : since'[q] = since[q]
    BY <1>2, <1>3 DEF FiguresFit
  <1>5. counted' = counted /\ wiped' = wiped
    BY PageEffect
  <1>6. ASSUME NEW q \in Pages \ {r} PROVE Figures(q)'
    <2>0. UNCHANGED life /\ (born' = [born EXCEPT ![r] = life] \/ UNCHANGED born)
      BY ReadEffect
    <2>1. q \in Requests /\ page'[q] = page[q] /\ since'[q] = since[q]
          /\ born'[q] = born[q] /\ life' = life
      BY <1>1, <1>4, <2>0, StatsAssumption DEF Filled, Lives, StatsAssumption
    <2>2. Figures(q)
      BY DEF FiguresFit
    <2>3. QED
      BY <1>3, <1>5, <2>1, <2>2, SameWindow DEF Figures
  <1>7. Figures(r)'
    <2> DEFINE w == page'[r]
    <2>0. Figures(r) /\ since[r] \in Nat
          /\ life' = life /\ (n >= 1 => born[r] = life /\ born'[r] = life)
      BY <1>1, <1>2, ReadEffect DEF FiguresFit
    <2>1. CASE n = 0
      <3>1. Len(w) = 1 /\ (w[1] = SumFunction(views) \/ w[1] = 0)
        BY <1>2, <2>1, Readings
      <3>0. Cardinality(counted) \in Nat
        BY VisitsFinite, FS_Subset, FS_CardinalityType DEF Typed, Places
      <3>2. w[1] \in Nat /\ w[1] <= Cardinality(counted)
        BY <3>0, <3>1, ViewsOfPage
      <3>3. QED
        BY <1>5, <3>1, <3>2 DEF Figures
    <2>2. CASE n = 1
      <3>1. Len(w) = 2 /\ w[1] = page[r][1] /\ w[2] = GetPercentile(50) /\ since'[r] = total
        BY <1>1, <1>2, <2>2, Readings DEF FiguresFit
      <3>2. w[1] \in Nat /\ w[1] <= Cardinality(counted)
        BY <1>2, <2>0, <2>2, <3>1 DEF Figures
      <3>3. QED
        BY <1>3, <1>5, <3>1, <3>2, SameWindow DEF Figures
    <2>3. CASE n = 2
      <3>1. Len(w) = 3 /\ w[1] = page[r][1] /\ w[2] = page[r][2] /\ w[3] = GetPercentile(95)
            /\ since'[r] = since[r]
        BY <1>2, <2>3, Readings
      <3>2. /\ w[1] \in Nat /\ w[1] <= Cardinality(counted) /\ since[r] <= total
            /\ since[r] = total => w[2] = GetPercentile(50)
        BY <1>2, <2>0, <2>3, <3>1 DEF Figures
      <3>3. QED
        BY <1>3, <1>5, <3>1, <3>2, SameWindow DEF Figures
    <2>4. CASE n = 3
      <3>1. Len(w) = 4 /\ w[1] = page[r][1] /\ w[2] = page[r][2] /\ w[3] = page[r][3]
            /\ w[4] = GetPercentile(99) /\ since'[r] = since[r]
        BY <1>2, <2>4, Readings
      <3>2. /\ w[1] \in Nat /\ w[1] <= Cardinality(counted) /\ since[r] <= total
            /\ since[r] = total => w[2] = GetPercentile(50) /\ w[3] = GetPercentile(95)
        BY <1>2, <2>0, <2>4, <3>1 DEF Figures
      <3>3. QED
        BY <1>3, <1>5, <3>1, <3>2, SameWindow DEF Figures
    <2>5. CASE n = 4
      <3>1. Len(w) = 5 /\ w[1] = page[r][1] /\ w[2] = page[r][2] /\ w[3] = page[r][3]
            /\ w[4] = page[r][4] /\ w[5] = total /\ since'[r] = since[r]
        BY <1>2, <2>5, Readings
      <3>2. /\ w[1] \in Nat /\ w[1] <= Cardinality(counted) /\ since[r] <= total
            /\ since[r] = total => w[2] = GetPercentile(50) /\ w[3] = GetPercentile(95)
                                   /\ w[4] = GetPercentile(99)
        BY <1>2, <2>0, <2>5, <3>1 DEF Figures
      <3>3. since[r] = total => w[2] <= w[3] /\ w[3] <= w[4]
        BY <3>2, PercentilesRise DEF Latest
      <3>4. QED
        BY <1>3, <1>5, <3>1, <3>2, <3>3, SameWindow DEF Figures
    <2>6. QED
      BY <2>1, <2>2, <2>3, <2>4, <2>5
  <1>8. QED
    BY <1>4, <1>6, <1>7 DEF FiguresFit

\* A step that no page takes: visits are counted, views wiped, or a request is recorded.
LEMMA FiguresKept ==
  ASSUME Typed, Typed', Lives, FiguresFit, total \in Nat, UNCHANGED <<page, since, born>>,
         counted \subseteq counted',
         \/ UNCHANGED <<tracker, life>>
         \/ total' = total + 1 /\ UNCHANGED life
         \/ life' = life + 1
  PROVE  FiguresFit'
  <1>1. Cardinality(counted) \in Nat /\ Cardinality(counted') \in Nat
        /\ Cardinality(counted) <= Cardinality(counted')
    <2>1. IsFiniteSet(counted) /\ IsFiniteSet(counted')
      BY VisitsFinite, FS_Subset DEF Typed, Places
    <2>2. QED
      BY <2>1, FS_Subset, FS_CardinalityType
  <1>2. ASSUME NEW r \in Pages PROVE Figures(r)'
    <2>1. Figures(r) /\ since[r] \in Nat
      BY StatsAssumption DEF FiguresFit, StatsAssumption
    <2>2. CASE UNCHANGED <<tracker, life>>
      BY <1>1, <2>1, <2>2, SameWindow DEF Figures
    <2>3. CASE total' = total + 1 /\ UNCHANGED life
      BY <1>1, <2>1, <2>3 DEF Figures
    <2>4. CASE life' = life + 1
      <3>1. born[r] # life'
        BY <2>4 DEF Lives
      <3>2. QED
        BY <1>1, <2>1, <3>1 DEF Figures
    <2>5. QED
      BY <2>2, <2>3, <2>4
  <1>3. QED
    BY <1>2 DEF FiguresFit

\* The first figure of a page, when its earlier pages are answered.
LEMMA ViewsRead ==
  ASSUME Typed, Typed', Timed, Timed', Counts, Lives, Filled, FiguresFit, ViewsGoOn, NEW r \in Requests, PageStep(r)
  PROVE  ViewsGoOn'
  <1>1. /\ r \in Pages /\ pc[r] \in {"start", "page"}
        /\ page' = [page EXCEPT ![r] = page'[r]]
        /\ pc' = [pc EXCEPT ![r] = IF Len(page'[r]) = 5 THEN "answer" ELSE "page"]
    BY ReadEffect
  <1>2. PICK n \in 0..4 :
           /\ n = Len(page[r]) /\ Len(page'[r]) = n + 1
           /\ \A i \in 1..n : page'[r][i] = page[r][i]
           /\ page'[r][n + 1] = Reading(n + 1) \/ (n = 0 /\ page'[r][n + 1] = 0 /\ r \in failed')
           /\ n >= 1 => UNCHANGED before
    BY ReadAppends
  <1>3. wiped' = wiped /\ failed \subseteq failed' /\ \A q \in Requests \ {r} : page'[q] = page[q] /\ before'[q] = before[q]
    <2>1. \A q \in Requests \ {r} : page'[q] = page[q]
      BY <1>1 DEF Filled
    <2>2. \A q \in Requests \ {r} : before'[q] = before[q]
      BY PageEffect DEF Begins, Typed, Types
    <2>3. QED
      BY <2>1, <2>2, PageEffect
  <1>4. ASSUME NEW q \in Pages, NEW p \in Pages \cap before'[q]
        PROVE  p # r /\ pc[p] = "done" /\ p \in Requests /\ q \in Requests
    <2>1. p \in Requests /\ q \in Requests
      BY StatsAssumption DEF StatsAssumption
    <2>2. pc'[p] = "done"
      BY <2>1 DEF Timed
    <2>3. pc'[r] # "done"
      BY <1>1 DEF Typed, Types
    <2>4. QED
      BY <1>1, <2>1, <2>2, <2>3 DEF Typed, Types
  <1>5. ASSUME NEW q \in Pages \ failed', Len(page'[q]) >= 1, NEW p \in Complete' \cap before'[q]
        PROVE  page'[q][1] + Cardinality(wiped') >= page'[p][1]
    <2>0. p \in Pages
      BY DEF Complete
    <2>1. p # r /\ pc[p] = "done" /\ p \in Requests /\ q \in Requests /\ page'[p] = page[p]
          /\ p \in Complete /\ Len(page[p]) = 5 /\ q \notin failed
      BY <1>3, <1>4, <2>0 DEF Complete, Shows
    <2>2. CASE q = r /\ n = 0
      <3>1. page'[q][1] = SumFunction(views)
        BY <1>2, <2>2, Readings
      <3>2. page[p][1] \in Nat /\ page[p][1] <= Cardinality(counted)
        BY <2>0, <2>1 DEF FiguresFit, Figures
      <3>3. /\ Cardinality(counted) <= SumFunction(views) + Cardinality(wiped)
            /\ SumFunction(views) \in Nat
        BY ViewsOfPage
      <3>4. Cardinality(counted) \in Nat /\ Cardinality(wiped) \in Nat
        <4>1. IsFiniteSet(counted) /\ IsFiniteSet(wiped)
          BY VisitsFinite, FS_Subset DEF Typed, Places, Counts
        <4>2. QED
          BY <4>1, FS_CardinalityType
      <3>5. QED
        BY <1>3, <2>1, <3>1, <3>2, <3>3, <3>4
    <2>3. CASE q = r /\ n >= 1
      <3>1. page'[q][1] = page[q][1] /\ before'[q] = before[q] /\ Len(page[q]) >= 1
        BY <1>2, <2>3
      <3>2. QED
        BY <1>3, <2>1, <3>1 DEF ViewsGoOn
    <2>4. CASE q # r
      BY <1>3, <1>5, <2>1, <2>4 DEF ViewsGoOn
    <2>5. QED
      BY <1>2, <2>2, <2>3, <2>4
  <1>6. QED
    BY <1>5 DEF ViewsGoOn

LEMMA ViewsKeptOn ==
  ASSUME Typed, Typed', Counts, Counts', ViewsGoOn, UNCHANGED page, wiped \subseteq wiped',
         failed \subseteq failed',
         Timed, Filled, FiguresFit,
         \A q \in Pages : before'[q] = before[q]
  PROVE  ViewsGoOn'
  <1>1. Cardinality(wiped) \in Nat /\ Cardinality(wiped') \in Nat
        /\ Cardinality(wiped) <= Cardinality(wiped')
    <2>1. wiped \subseteq Visits /\ wiped' \subseteq Visits
      BY DEF Typed, Places, Counts
    <2>2. IsFiniteSet(wiped) /\ IsFiniteSet(wiped')
      BY <2>1, VisitsFinite, FS_Subset
    <2>3. QED
      BY <2>2, FS_Subset, FS_CardinalityType
  <1>2. ASSUME NEW q \in Pages \ failed', Len(page[q]) >= 1, NEW p \in Complete \cap before[q]
        PROVE  page[q][1] + Cardinality(wiped') >= page[p][1]
    <2>1. page[q][1] + Cardinality(wiped) >= page[p][1] /\ page[q][1] \in Nat
      BY <1>2 DEF ViewsGoOn, FiguresFit, Figures
    <2>2. page[p][1] \in Nat
      BY DEF Complete, Shows, FiguresFit, Figures
    <2>3. QED
      BY <1>1, <2>1, <2>2
  <1>3. Complete' = Complete
    BY DEF Complete
  <1>4. QED
    BY <1>2, <1>3 DEF ViewsGoOn

\* What the other requests do to what a page shows: nothing but to count, and to wipe.
LEMMA AgreeingStep ==
  ASSUME Typed, Typed', Timed, Timed', Counts, Counts', Latest, Lives, Filled, Agreeing, [Next]_vars
  PROVE  Agreeing'
  <1>0. total \in Nat
    BY LenProperties DEF Latest, WindowIsLatest
  <1>1. CASE \E r \in Requests : PageStep(r) /\ UNCHANGED tracker
    BY <1>1, FiguresRead, ViewsRead DEF Agreeing
  <1>2. ASSUME UNCHANGED <<page, since, born>>, counted \subseteq counted', wiped \subseteq wiped',
               failed \subseteq failed',
               \/ UNCHANGED <<tracker, life>>
               \/ total' = total + 1 /\ UNCHANGED life
               \/ life' = life + 1,
               \A q \in Pages : before'[q] = before[q]
        PROVE  Agreeing'
    BY <1>0, <1>2, FiguresKept, ViewsKeptOn DEF Agreeing
  <1>3. CASE \E r \in Requests : Answer(r)
    BY <1>2, <1>3 DEF Answer, Record, pages
  <1>4. ASSUME NEW r \in Requests, Count(r), UNCHANGED <<tracker, pages>> PROVE Agreeing'
    <2>1. r \notin Pages
      BY <1>4, StatsAssumption
      DEF Count, Visit, Export, Arrive, VisitLook, VisitMark, VisitSkip, VisitCount,
          VisitCountFails, ExportTake, ExportSave, ExportFails, Typed, Places, StatsAssumption
    <2>2. \A q \in Requests \ {r} : before'[q] = before[q]
      BY <1>4
      DEF Count, Visit, Export, Arrive, VisitLook, VisitMark, VisitSkip, VisitCount,
          VisitCountFails, ExportTake, ExportSave, ExportFails, Begins, Typed, Types
    <2>3. counted \subseteq counted' /\ wiped \subseteq wiped' /\ failed \subseteq failed'
      BY <1>4
      DEF Noted, Count, Visit, Export, Arrive, VisitLook, VisitMark, VisitSkip, VisitCount,
          VisitCountFails, ExportTake, ExportSave, ExportFails
    <2>4. \A q \in Pages : q \in Requests
      BY StatsAssumption DEF StatsAssumption
    <2>5. QED
      BY <1>2, <1>4, <2>1, <2>2, <2>3, <2>4 DEF pages
  <1>5. CASE (Tick /\ UNCHANGED <<tracker, pages>>) \/ UNCHANGED vars
    BY <1>2, <1>5 DEF Tick, vars, pages
  <1>6. CASE Restart
    BY <1>2, <1>6 DEF Restart
  <1>7. QED
    BY <1>1, <1>3, <1>4, <1>5, <1>6 DEF Next, PageStep, PageBegins, PageReads

LEMMA AgreeingInit == ASSUME Init PROVE Agreeing
  <1>1. \A r \in Pages : page[r] = <<>> /\ Len(page[r]) = 0
    BY EmptySeq, StatsAssumption DEF Init, StatsAssumption
  <1>2. since \in [Requests -> Nat]
    BY DEF Init
  <1>3. QED
    BY <1>1, <1>2 DEF Agreeing, FiguresFit, Figures, ViewsGoOn

LEMMA AgreeingAgrees == ASSUME Paged, Agreeing PROVE PagesAgree
  <1> SUFFICES ASSUME NEW q \in Complete
               PROVE  /\ page[q][5] = since[q] => page[q][2] <= page[q][3] /\ page[q][3] <= page[q][4]
                      /\ \A p \in Complete \cap before[q] :
                           /\ born[p] = born[q] => page[q][5] > page[p][5]
                           /\ q \notin failed => page[q][1] + Cardinality(wiped) >= page[p][1]
    BY DEF PagesAgree, Shows
  <1>1. q \in Pages /\ Len(page[q]) = 5
    BY DEF Complete, Shows
  <1>2. page[q][5] = since[q] => page[q][2] <= page[q][3] /\ page[q][3] <= page[q][4]
    BY <1>1 DEF Agreeing, FiguresFit, Figures
  <1>3. \A p \in Complete \cap before[q] : born[p] = born[q] => page[q][5] > page[p][5]
    BY DEF Paged, TotalsRise, Shows
  <1>4. q \notin failed =>
          \A p \in Complete \cap before[q] : page[q][1] + Cardinality(wiped) >= page[p][1]
    BY <1>1 DEF Agreeing, ViewsGoOn
  <1>5. QED
    BY <1>2, <1>3, <1>4

-----------------------------------------------------------------------------
IInv == Typed /\ Marks /\ Counts /\ Latest /\ Paged /\ Agreeing

LEMMA InitInv == ASSUME Init PROVE IInv
  <1> USE ViewAssumption DEF ViewAssumption, Init, CounterInit, TrackerInit
  <1>1. \A r \in Requests : pc[r] = "start" /\ before[r] = {} /\ stamp[r] = 0
    OBVIOUS
  <1>2. Typed
    <2>1. pc \in [Requests -> Stages]
      BY DEF Stages
    <2>2. Types
      BY <2>1 DEF Types
    <2>3. Places
      BY <1>1 DEF Places
    <2>4. QED
      BY <2>2, <2>3 DEF Typed
  <1>3. Marks
    <2>1. Timed
      BY <1>1 DEF Timed
    <2>2. Caused /\ FoundCaused /\ Skipped
      BY <1>1 DEF Caused, FoundCaused, Skipped
    <2>3. Followed /\ Noticed
      BY <1>1 DEF Followed, Noticed, Marked
    <2>4. QED
      BY <2>1, <2>2, <2>3 DEF Marks
  <1>4. Counts
    <2>1. \A a : CountedAt(a) = {} /\ CountedAt(a) \ wiped = {}
      BY DEF CountedAt
    <2>2. Cardinality({}) = 0
      BY FS_EmptySet
    <2>3. \A a \in Articles : Between(views[a], CountedAt(a))
      <3>1. \A a \in Articles : views[a] = 0
        OBVIOUS
      <3>2. \A a : Cardinality(CountedAt(a)) = 0 /\ Cardinality(CountedAt(a) \ wiped) = 0
        BY <2>1, <2>2
      <3>3. QED
        BY <3>1, <3>2 DEF Between
    <2>4. QED
      BY <1>1, <2>3 DEF Counts
  <1>5. Latest
    BY LatestBegins
  <1>6. Paged
    <2>1. \A r \in Pages : r \in Requests /\ page[r] = <<>> /\ pc[r] = "start"
      BY <1>1, StatsAssumption DEF StatsAssumption
    <2>2. <<>> \in Seq(Nat) /\ Len(<<>>) = 0
      BY EmptySeq
    <2>3. \A r \in Pages : ~Shown(r) /\ Len(page[r]) = 0
      BY <2>1, <2>2 DEF Shown, Shows
    <2>4. Complete = {}
      BY <2>3 DEF Complete, Shown
    <2>5. Lives
      BY <2>1 DEF Lives
    <2>6. Filled
      BY <2>1, <2>2, <2>3 DEF Filled, Shows, IsSeq
    <2>7. QED
      BY <2>4, <2>5, <2>6 DEF Paged, TotalsRise
  <1>7. QED
    BY <1>2, <1>3, <1>4, <1>5, <1>6, AgreeingInit DEF IInv

LEMMA Invariant == Spec => []IInv
  <1>1. IInv /\ [Next]_vars => IInv'
    <2> SUFFICES ASSUME IInv, [Next]_vars PROVE IInv'
      OBVIOUS
    <2>1. Typed /\ Typed' /\ Marks /\ Counts /\ Latest /\ Paged /\ Agreeing
      BY TypedStep DEF IInv
    <2>2. Progress
      BY <2>1, ProgressMade DEF Marks
    <2>3. Timed'
      BY <2>1, <2>2, TimedStep DEF Marks
    <2>4. Marks'
      BY <2>1, <2>2, <2>3, CausedStep, FoundCausedStep, SkippedStep, FollowedStep, NoticedStep DEF Marks
    <2>5. Counts' /\ Latest' /\ Paged'
      BY <2>1, CountsStep, LatestStep, PagedStep DEF Marks
    <2>6. Agreeing'
      BY <2>1, <2>3, <2>5, AgreeingStep DEF Marks, Paged
    <2>7. QED
      BY <2>1, <2>4, <2>5, <2>6 DEF IInv
  <1>2. QED
    BY InitInv, <1>1, PTL DEF Spec

\* UpdateArticleViews: two visits that follow each other are both counted only beside a third.
THEOREM CountedTwice == Spec => []OnlyOverlapCountsTwice
  <1>1. IInv => OnlyOverlapCountsTwice
    <2> SUFFICES ASSUME IInv, NEW r \in counted, NEW v \in counted,
                        v \in SameVisitor(r), v \in before[r], {r, v} \cap failed = {}
                 PROVE  \E u \in SameVisitor(r) : Overlap(u, v) /\ stamp[u] + Window <= stamp[r]
      BY DEF OnlyOverlapCountsTwice
    <2> USE ViewAssumption DEF ViewAssumption, IInv, Typed
    <2>1. r \in Visits /\ r \in Requests /\ pc[r] # "start" /\ found[r] + Window <= stamp[r]
      BY DEF Places, Marks, Timed
    <2>2. Beside(v, found[r])
      BY <2>1 DEF Marks, Noticed
    <2>3. PICK u \in SameVisitor(v) : Overlap(u, v) /\ stamp[u] <= found[r]
      BY <2>2 DEF Beside
    <2>4. u \in SameVisitor(r) /\ u \in Requests
      BY <2>3 DEF SameVisitor
    <2>5. stamp[u] \in Nat /\ found[r] \in Nat /\ stamp[r] \in Nat
      BY <2>1, <2>4 DEF Types
    <2>6. stamp[u] + Window <= stamp[r]
      BY <2>1, <2>3, <2>5
    <2>7. QED
      BY <2>3, <2>4, <2>6
  <1>2. QED
    BY Invariant, <1>1, PTL

\* UpdateArticleViews: a visit that is skipped has another one that stands for it.
THEOREM SkipsExplained == Spec => []SkippedHasCause
  <1>1. IInv => SkippedHasCause
    BY DEF IInv, Marks, Skipped, Past, SkippedHasCause
  <1>2. QED
    BY Invariant, <1>1, PTL

\* UpdateArticleViews and SyncToDify: only an export takes views back.
THEOREM ViewsKept == Spec => []OnlyExportsLoseViews
  <1>1. IInv => OnlyExportsLoseViews
    <2> SUFFICES ASSUME IInv, NEW a \in Articles
                 PROVE  /\ views[a] <= Cardinality(CountedAt(a))
                        /\ views[a] >= Cardinality(CountedAt(a) \ wiped)
      BY DEF OnlyExportsLoseViews
    <2>1. /\ views[a] <= Cardinality(CountedAt(a))
          /\ Cardinality(CountedAt(a) \ wiped) <= views[a]
      BY DEF IInv, Counts, Between
    <2>2. QED
      BY <2>1
  <1>2. QED
    BY Invariant, <1>1, PTL

\* LatencyTracker.Record: the window holds the latest latencies, for a window of any size.
THEOREM WindowsSlide == Spec => []WindowIsLatest
  <1>1. IInv => WindowIsLatest
    BY DEF IInv, Latest
  <1>2. QED
    BY Invariant, <1>1, PTL

\* GetPercentile and GetAverage: whatever the window holds, the percentiles are latencies of
\* the rank they are named for, and the average lies between two latencies.
THEOREM QuantilesHold == Spec => []QuantilesRight
  <1>1. IInv => QuantilesRight
    BY Quantiles DEF IInv, Latest
  <1>2. QED
    BY Invariant, <1>1, PTL

\* GetOverview: however many requests are served between the figures of a page, and however
\* often the process is restarted, it does not contradict itself, nor, unless its query
\* failed, a page that was over before it was asked for.
THEOREM PagesConsistent == Spec => []PagesAgree
  <1>1. IInv => PagesAgree
    BY AgreeingAgrees DEF IInv
  <1>2. QED
    BY Invariant, <1>1, PTL
=============================================================================
