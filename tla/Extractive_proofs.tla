------------------------- MODULE Extractive_proofs --------------------------
(***************************************************************************)
(* Proofs about the extractive selection, for every text, every clustering *)
(* and every limit: the summary covers the topics as far as its length     *)
(* goes, the takeaways are distinct and none better was passed over, and   *)
(* trimming loses the middle only.                                         *)
(***************************************************************************)
EXTENDS Extractive, FiniteSetTheorems, SequenceTheorems, WellFoundedInduction, TLAPS

-----------------------------------------------------------------------------
(***************************************************************************)
(* Recursion over the natural numbers.  Induction is the                   *)
(* well-foundedness of the strict subsets of a finite set, and the         *)
(* functions that recursive definitions choose are shown to exist by it.   *)
(***************************************************************************)

\* A set of natural numbers that is not empty has a least member.
LEMMA LeastNumber ==
  ASSUME NEW T \in SUBSET Nat, T # {}
  PROVE  \E m \in T : \A k \in T : m <= k
<1>1. PICK n \in T : TRUE
  OBVIOUS
<1> DEFINE S == 0 .. n
           I == {0 .. k : k \in T \cap (0 .. n)}
<1>2. IsFiniteSet(S) /\ n \in Nat
  BY <1>1, FS_Interval
<1>3. IsWellFoundedOn(StrictSubsetOrdering(S), SUBSET S)
  BY <1>2, FS_StrictSubsetOrderingWellFounded, FS_FiniteSubsetsOfFinite
<1>4. I \subseteq SUBSET S /\ I # {}
  BY <1>2
<1> HIDE DEF S
<1>5. PICK x \in I : \A y \in I : <<y, x>> \notin StrictSubsetOrdering(S)
  <2> HIDE DEF I
  <2>1. QED
    BY <1>3, <1>4, WFMin
<1>6. PICK m \in T \cap (0 .. n) : x = 0 .. m
  BY DEF I
<1>7. ASSUME NEW k \in T, k < m PROVE FALSE
  <2>0. k \in T \cap (0 .. n)
    <3>1. k \in Nat /\ m \in 0 .. n /\ n \in Nat /\ k < m
      BY <1>2, <1>6, <1>7
    <3>2. k \in 0 .. n
      BY <3>1
    <3>3. QED
      BY <3>2
  <2>1. k \in T \cap (0 .. n) /\ 0 .. k \in I
    BY <2>0
  <2>2. 0 .. k \subseteq 0 .. m /\ 0 .. k # 0 .. m
    <3>1. m \in 0 .. m /\ m \notin 0 .. k
      BY <1>7
    <3>2. 0 .. k \subseteq 0 .. m
      BY <1>7
    <3>3. QED
      BY <3>1, <3>2
  <2>3. <<0 .. k, x>> \in StrictSubsetOrdering(S)
    BY <1>4, <1>6, <2>1, <2>2 DEF StrictSubsetOrdering
  <2>4. QED
    BY <1>5, <2>1, <2>3
<1>8. QED
  BY <1>6, <1>7

\* Induction, over a set instead of a predicate.
LEMMA SetInduction ==
  ASSUME NEW S, 0 \in S, \A n \in Nat : n \in S => n + 1 \in S
  PROVE  Nat \subseteq S
<1> SUFFICES ASSUME Nat \ S # {} PROVE FALSE
  OBVIOUS
<1>1. PICK m \in Nat \ S : \A k \in Nat \ S : m <= k
  BY LeastNumber
<1>2. m # 0 /\ m - 1 \in Nat
  BY <1>1
<1>3. m - 1 \in S
  BY <1>1, <1>2
<1>4. QED
  BY <1>1, <1>2, <1>3

\* f is given by its first value and what each step makes of the value before.
Recursion(f, n, V, first, step) ==
    /\ f \in [0 .. n -> V] /\ f[0] = first
    /\ \A i \in 1 .. n : f[i] = step[i][f[i - 1]]

StepsOn(n, V) == [1 .. n -> [V -> V]]

\* Such a function exists.
LEMMA RecursionExists ==
  ASSUME NEW n \in Nat, NEW V, NEW first \in V, NEW step \in StepsOn(n, V)
  PROVE  \E f : Recursion(f, n, V, first, step)
<1> DEFINE S == {k \in Nat : k <= n => \E f : Recursion(f, k, V, first, step)}
<1>1. 0 \in S
  <2>1. Recursion([i \in 0 .. 0 |-> first], 0, V, first, step)
    BY DEF Recursion
  <2>2. QED
    BY <2>1
<1>2. ASSUME NEW k \in Nat, k \in S PROVE k + 1 \in S
  <2> SUFFICES ASSUME k + 1 <= n PROVE \E f : Recursion(f, k + 1, V, first, step)
    OBVIOUS
  <2>1. PICK f : Recursion(f, k, V, first, step)
    BY <1>2
  <2>2. k \in 0 .. k /\ f[k] \in V /\ k + 1 \in 1 .. n
    BY <2>1 DEF Recursion
  <2>3. PICK v \in V : v = step[k + 1][f[k]]
    BY <2>2 DEF StepsOn
  <2> DEFINE g == [i \in 0 .. k + 1 |-> IF i = k + 1 THEN v ELSE f[i]]
  <2>4. /\ g \in [0 .. k + 1 -> V] /\ g[k + 1] = v /\ \A i \in 0 .. k : g[i] = f[i]
    BY <2>1 DEF Recursion
  <2> HIDE DEF g
  <2>5. ASSUME NEW i \in 1 .. k + 1 PROVE g[i] = step[i][g[i - 1]]
    <3>1. CASE i = k + 1
      <4>1. i - 1 = k
        BY <3>1
      <4>2. QED
        BY <2>2, <2>3, <2>4, <3>1, <4>1
    <3>2. CASE i # k + 1
      <4>1. i \in 1 .. k /\ i \in 0 .. k /\ i - 1 \in 0 .. k
        BY <3>2
      <4>2. QED
        BY <2>1, <2>4, <4>1 DEF Recursion
    <3>3. QED
      BY <3>1, <3>2
  <2>6. g[0] = first
    BY <2>1, <2>4 DEF Recursion
  <2>7. Recursion(g, k + 1, V, first, step)
    BY <2>4, <2>5, <2>6 DEF Recursion
  <2>8. QED
    BY <2>7
<1>3. n \in S
  <2> HIDE DEF S
  <2>1. QED
    BY <1>1, <1>2, SetInduction
<1>4. QED
  BY <1>3

\* g goes up the same way as f.
Follows(g, f, n) == g[0] = f[0] /\ \A i \in 1 .. n : g[i - 1] = f[i - 1] => g[i] = f[i]

\* Functions that begin and go on alike are the same.
LEMMA SameRecursion ==
  ASSUME NEW n \in Nat, NEW f, NEW g, Follows(g, f, n)
  PROVE  \A i \in 0 .. n : g[i] = f[i]
<1> DEFINE S == {k \in Nat : k <= n => g[k] = f[k]}
<1>1. 0 \in S
  BY DEF Follows
<1>2. ASSUME NEW k \in Nat, k \in S PROVE k + 1 \in S
  <2> SUFFICES ASSUME k + 1 <= n PROVE g[k + 1] = f[k + 1]
    OBVIOUS
  <2>1. k + 1 \in 1 .. n /\ (k + 1) - 1 = k /\ g[k] = f[k]
    BY <1>2
  <2>2. QED
    BY <2>1 DEF Follows
<1>3. Nat \subseteq S
  <2> HIDE DEF S
  <2>1. QED
    BY <1>1, <1>2, SetInduction
<1>4. QED
  BY <1>3

-----------------------------------------------------------------------------
(***************************************************************************)
(* The greatest, the least, and the order of sets of numbers.              *)
(***************************************************************************)

LEMMA MinIs ==
  ASSUME NEW T \in SUBSET Int, T # {}, NEW low \in Int, \A x \in T : low <= x
  PROVE  Min(T) \in T /\ \A x \in T : Min(T) <= x
<1> DEFINE D == {d \in Nat : low + d \in T}
<1>1. D # {}
  <2>1. PICK x \in T : TRUE
    OBVIOUS
  <2>2. x - low \in Nat /\ low + (x - low) = x
    BY <2>1
  <2>3. QED
    BY <2>1, <2>2
<1>2. PICK m \in D : \A d \in D : m <= d
  <2> HIDE DEF D
  <2>1. D \in SUBSET Nat
    BY DEF D
  <2>2. QED
    BY <1>1, <2>1, LeastNumber
<1>3. low + m \in T /\ m \in Nat
  BY <1>2
<1>4. ASSUME NEW x \in T PROVE low + m <= x
  <2>1. x \in Int /\ x - low \in Nat /\ low + (x - low) = x
    OBVIOUS
  <2>2. m <= x - low
    BY <1>2, <2>1
  <2>3. QED
    BY <1>3, <2>1, <2>2
<1>5. QED
  BY <1>3, <1>4 DEF Min

LEMMA MaxIs ==
  ASSUME NEW T \in SUBSET Int, T # {}, NEW top \in Int, \A x \in T : x <= top
  PROVE  Max(T) \in T /\ \A x \in T : x <= Max(T)
<1> DEFINE U == {0 - x : x \in T}
<1>1. U \in SUBSET Int /\ U # {} /\ 0 - top \in Int /\ \A u \in U : 0 - top <= u
  <2>1. \A x \in T : x \in Int /\ 0 - x \in Int /\ 0 - top <= 0 - x
    OBVIOUS
  <2>2. U \in SUBSET Int /\ U # {}
    BY <2>1
  <2>3. \A u \in U : 0 - top <= u
    BY <2>1
  <2>4. QED
    BY <2>2, <2>3
<1>2. Min(U) \in U /\ \A u \in U : Min(U) <= u
  <2> HIDE DEF U
  <2>1. QED
    BY <1>1, MinIs
<1>3. PICK m \in T : Min(U) = 0 - m
  BY <1>2
<1>4. ASSUME NEW x \in T PROVE m >= x
  <2>1. 0 - m <= 0 - x
    BY <1>2, <1>3
  <2>2. QED
    BY <2>1
<1>5. Max(T) \in T /\ \A x \in T : Max(T) >= x
  BY <1>4 DEF Max
<1>6. QED
  BY <1>5

\* The first of the best exists.
LEMMA FirstMaxIs ==
  ASSUME NEW D \in SUBSET Nat, D # {}, NEW value \in [D -> Int], NEW top \in Int,
         \A i \in D : value[i] <= top
  PROVE  /\ FirstMax(value) \in D
         /\ \A j \in D : \/ value[j] < value[FirstMax(value)]
                         \/ value[j] = value[FirstMax(value)] /\ FirstMax(value) <= j
<1> DEFINE T == {value[i] : i \in D}
<1>1. T \in SUBSET Int /\ T # {} /\ \A x \in T : x <= top
  OBVIOUS
<1>2. PICK m \in T : \A x \in T : x <= m
  <2> HIDE DEF T
  <2>1. QED
    BY <1>1, MaxIs
<1> DEFINE I == {i \in D : value[i] = m}
<1>3. I \in SUBSET Nat /\ I # {}
  BY <1>2
<1>4. PICK f \in I : \A i \in I : f <= i
  <2> HIDE DEF I
  <2>1. QED
    BY <1>3, LeastNumber
<1>5. f \in D /\ \A j \in D : value[j] < value[f] \/ (value[j] = value[f] /\ f <= j)
  BY <1>2, <1>4
<1>6. DOMAIN value = D
  OBVIOUS
<1>7. \E i \in DOMAIN value :
        \A j \in DOMAIN value : value[j] < value[i] \/ (value[j] = value[i] /\ i <= j)
  BY <1>5, <1>6
<1>8. QED
  BY <1>6, <1>7 DEF FirstMax

\* A strict order of the members of S, as a set of pairs.
StrictOrder(S, before) ==
    \A x, y, z \in S : /\ <<x, x>> \notin before
                       /\ x # y => <<x, y>> \in before \/ <<y, x>> \in before
                       /\ <<x, y>> \in before /\ <<y, z>> \in before => <<x, z>> \in before

\* All members of S, each once, in their order.
InOrderOf(q, S, before) ==
    /\ q \in [1 .. Cardinality(S) -> S]
    /\ \A x \in S : \E k \in 1 .. Cardinality(S) : q[k] = x
    /\ \A i, j \in 1 .. Cardinality(S) : i < j => <<q[i], q[j]>> \in before

LEMMA SortedIs ==
  ASSUME NEW S, IsFiniteSet(S), NEW before, StrictOrder(S, before)
  PROVE  InOrderOf(Sorted(S, before), S, before)
<1> DEFINE n == Cardinality(S)
           Ahead(x) == {y \in S : <<y, x>> \in before}
           rank == [x \in S |-> Cardinality(Ahead(x)) + 1]
<1>1. n \in Nat
  BY FS_CardinalityType
<1>2. ASSUME NEW x \in S
      PROVE  Cardinality(Ahead(x)) \in Nat /\ Cardinality(Ahead(x)) < n /\ IsFiniteSet(Ahead(x))
  <2>1. Ahead(x) \in SUBSET S /\ x \notin Ahead(x)
    BY DEF StrictOrder
  <2>2. Ahead(x) # S /\ Ahead(x) \in SUBSET S
    BY <2>1
  <2> HIDE DEF Ahead
  <2>3. IsFiniteSet(Ahead(x)) /\ Cardinality(Ahead(x)) <= n /\ n # Cardinality(Ahead(x))
    BY <2>2, FS_Subset
  <2>4. Cardinality(Ahead(x)) \in Nat
    BY <2>3, FS_CardinalityType
  <2>5. QED
    BY <1>1, <2>3, <2>4
<1>3. ASSUME NEW x \in S, NEW y \in S, <<x, y>> \in before PROVE rank[x] < rank[y]
  <2>1. Ahead(x) \in SUBSET Ahead(y) /\ x \in Ahead(y) /\ x \notin Ahead(x)
    BY <1>3 DEF StrictOrder
  <2>2. Cardinality(Ahead(x)) < Cardinality(Ahead(y))
    <3> HIDE DEF Ahead
    <3>1. IsFiniteSet(Ahead(y)) /\ Ahead(x) # Ahead(y)
      BY <1>2, <2>1
    <3>2. QED
      BY <2>1, <3>1, FS_Subset, FS_CardinalityType
  <2>3. QED
    BY <1>2, <2>2
<1>4. rank \in [S -> 1 .. n]
  BY <1>1, <1>2
<1> HIDE DEF rank
<1>5. \A x, y \in S : rank[x] = rank[y] => x = y
  <2> SUFFICES ASSUME NEW x \in S, NEW y \in S, rank[x] = rank[y], x # y PROVE FALSE
    OBVIOUS
  <2>1. rank[x] < rank[y] \/ rank[y] < rank[x]
    BY <1>3 DEF StrictOrder
  <2>2. rank[x] \in 1 .. n /\ rank[y] \in 1 .. n
    BY <1>4
  <2>3. QED
    BY <1>1, <2>1, <2>2
<1>6. \A k \in 1 .. n : \E x \in S : rank[x] = k
  <2>1. rank \in Injection(S, 1 .. n)
    BY <1>4, <1>5 DEF Injection, IsInjective
  <2>2. IsFiniteSet(1 .. n) /\ Cardinality(1 .. n) = n
    BY <1>1, FS_Interval
  <2>3. rank \in Surjection(S, 1 .. n)
    BY <2>1, <2>2, FS_Injection
  <2>4. QED
    BY <2>3 DEF Surjection
<1> DEFINE q == [k \in 1 .. n |-> CHOOSE x \in S : Cardinality(Ahead(x)) = k - 1]
<1>7. ASSUME NEW k \in 1 .. n PROVE q[k] \in S /\ rank[q[k]] = k
  <2>1. PICK x \in S : rank[x] = k
    BY <1>6
  <2>2. Cardinality(Ahead(x)) = k - 1
    BY <1>2, <2>1 DEF rank
  <2>3. q[k] \in S /\ Cardinality(Ahead(q[k])) = k - 1
    BY <2>2
  <2>4. QED
    BY <1>1, <2>3 DEF rank
<1>8. Sorted(S, before) = q
  BY DEF Sorted
<1> HIDE DEF q
<1>9. q \in [1 .. n -> S]
  BY <1>7 DEF q
<1>10. ASSUME NEW x \in S PROVE \E k \in 1 .. n : q[k] = x
  <2>1. rank[x] \in 1 .. n
    BY <1>4
  <2>2. q[rank[x]] = x
    BY <1>5, <1>7, <2>1
  <2>3. QED
    BY <2>1, <2>2
<1>11. ASSUME NEW i \in 1 .. n, NEW j \in 1 .. n, i < j PROVE <<q[i], q[j]>> \in before
  <2>1. /\ q[i] \in S /\ q[j] \in S /\ rank[q[i]] = i /\ rank[q[j]] = j
    BY <1>7
  <2>2. q[i] # q[j]
    BY <1>11, <2>1
  <2>3. <<q[i], q[j]>> \in before \/ <<q[j], q[i]>> \in before
    BY <2>1, <2>2 DEF StrictOrder
  <2>4. <<q[j], q[i]>> \notin before
    BY <1>3, <1>11, <2>1, <1>1
  <2>5. QED
    BY <2>3, <2>4
<1>12. QED
  BY <1>8, <1>9, <1>10, <1>11 DEF InOrderOf

LEMMA DescendingIs ==
  ASSUME NEW D \in SUBSET Nat, IsFiniteSet(D), NEW value \in [D -> Int]
  PROVE  LET q == Descending(value)
             n == Cardinality(D) IN
         /\ q \in [1 .. n -> D] /\ \A x \in D : \E k \in 1 .. n : q[k] = x
         /\ \A i, j \in 1 .. n : i < j => \/ value[q[i]] > value[q[j]]
                                          \/ value[q[i]] = value[q[j]] /\ q[i] > q[j]
<1> DEFINE first(i, j) == value[i] > value[j] \/ (value[i] = value[j] /\ i > j)
           before == {pair \in D \X D : first(pair[1], pair[2])}
           n == Cardinality(D)
           q == Descending(value)
<1>1. \A i, j \in D : <<i, j>> \in before <=> first(i, j)
  OBVIOUS
<1>2. q = Sorted(D, before)
  BY DEF Descending
<1> HIDE DEF before, q, first
<1>3. StrictOrder(D, before)
  <2> SUFFICES ASSUME NEW x \in D, NEW y \in D, NEW z \in D
               PROVE  /\ ~first(x, x) /\ (x # y => first(x, y) \/ first(y, x))
                      /\ first(x, y) /\ first(y, z) => first(x, z)
    BY <1>1 DEF StrictOrder
  <2>1. /\ x \in Int /\ y \in Int /\ z \in Int
        /\ value[x] \in Int /\ value[y] \in Int /\ value[z] \in Int
    OBVIOUS
  <2>2. QED
    BY <2>1 DEF first
<1>4. InOrderOf(q, D, before)
  BY <1>2, <1>3, SortedIs
<1>5. QED
  BY <1>1, <1>4 DEF InOrderOf, q, first

LEMMA AscendingIs ==
  ASSUME NEW S \in SUBSET Nat, IsFiniteSet(S)
  PROVE  LET q == Ascending(S)
             n == Cardinality(S) IN
         /\ q \in [1 .. n -> S] /\ \A x \in S : \E k \in 1 .. n : q[k] = x
         /\ \A i, j \in 1 .. n : i < j => q[i] < q[j]
<1> DEFINE before == {pair \in S \X S : pair[1] < pair[2]}
           n == Cardinality(S)
           q == Ascending(S)
<1>1. \A i, j \in S : <<i, j>> \in before <=> i < j
  OBVIOUS
<1>2. q = Sorted(S, before)
  BY DEF Ascending
<1> HIDE DEF before, q
<1>3. StrictOrder(S, before)
  <2> SUFFICES ASSUME NEW x \in S, NEW y \in S, NEW z \in S
               PROVE  ~(x < x) /\ (x # y => x < y \/ y < x) /\ (x < y /\ y < z => x < z)
    BY <1>1 DEF StrictOrder
  <2>1. x \in Int /\ y \in Int /\ z \in Int
    OBVIOUS
  <2>2. QED
    BY <2>1
<1>4. InOrderOf(q, S, before)
  BY <1>2, <1>3, SortedIs
<1>5. QED
  BY <1>1, <1>4 DEF InOrderOf, q

\* A list without repetitions is as long as the set of its members is large.
LEMMA SetOfList ==
  ASSUME NEW S, NEW s \in Seq(S)
  PROVE  /\ ToSet(s) \in SUBSET S /\ IsFiniteSet(ToSet(s))
         /\ Cardinality(ToSet(s)) <= Len(s)
         /\ IsInjective(s) => Cardinality(ToSet(s)) = Len(s)
<1>1. Len(s) \in Nat /\ DOMAIN s = 1 .. Len(s) /\ s \in [1 .. Len(s) -> S]
  OBVIOUS
<1>2. ToSet(s) \in SUBSET S
  BY <1>1 DEF ToSet
<1>3. IsFiniteSet(1 .. Len(s)) /\ Cardinality(1 .. Len(s)) = Len(s)
  BY <1>1, FS_Interval
<1>4. s \in Surjection(1 .. Len(s), ToSet(s))
  BY <1>1 DEF Surjection, ToSet
<1>5. /\ IsFiniteSet(ToSet(s)) /\ Cardinality(ToSet(s)) <= Len(s)
      /\ Cardinality(ToSet(s)) = Len(s) <=> s \in Injection(1 .. Len(s), ToSet(s))
  BY <1>3, <1>4, FS_Surjection
<1>6. IsInjective(s) => s \in Injection(1 .. Len(s), ToSet(s))
  BY <1>1 DEF Injection, ToSet, IsInjective
<1>7. QED
  BY <1>2, <1>5, <1>6

\* One member more.
LEMMA SetOfAppend ==
  ASSUME NEW S, NEW s \in Seq(S), NEW x \in S
  PROVE  /\ Append(s, x) \in Seq(S) /\ ToSet(Append(s, x)) = ToSet(s) \cup {x}
         /\ IsInjective(s) /\ x \notin ToSet(s) => IsInjective(Append(s, x))
         /\ Front(Append(s, x)) = s
<1> DEFINE t == Append(s, x)
<1>1. /\ t \in Seq(S) /\ Len(s) \in Nat /\ Len(t) = Len(s) + 1 /\ t[Len(s) + 1] = x
      /\ \A i \in 1 .. Len(s) : t[i] = s[i]
  OBVIOUS
<1>2. DOMAIN s = 1 .. Len(s) /\ DOMAIN t = 1 .. Len(s) + 1
  BY <1>1
<1> HIDE DEF t
<1>3. ToSet(t) = ToSet(s) \cup {x}
  <2>1. ASSUME NEW y \in ToSet(t) PROVE y \in ToSet(s) \cup {x}
    <3>1. PICK i \in 1 .. Len(s) + 1 : y = t[i]
      BY <1>2 DEF ToSet
    <3>2. CASE i = Len(s) + 1
      BY <1>1, <3>1, <3>2
    <3>3. CASE i # Len(s) + 1
      <4>1. i \in 1 .. Len(s)
        BY <1>1, <3>3
      <4>2. QED
        BY <1>1, <1>2, <3>1, <4>1 DEF ToSet
    <3>4. QED
      BY <3>2, <3>3
  <2>2. ASSUME NEW y \in ToSet(s) PROVE y \in ToSet(t)
    BY <1>1, <1>2 DEF ToSet
  <2>3. x \in ToSet(t)
    BY <1>1, <1>2 DEF ToSet
  <2>4. QED
    BY <2>1, <2>2, <2>3
<1>4. ASSUME IsInjective(s), x \notin ToSet(s) PROVE IsInjective(t)
  <2>1. ASSUME NEW i \in 1 .. Len(s) + 1, NEW j \in 1 .. Len(s) + 1, t[i] = t[j] PROVE i = j
    <3>1. CASE i \in 1 .. Len(s) /\ j \in 1 .. Len(s)
      BY <1>1, <1>2, <1>4, <2>1, <3>1 DEF IsInjective
    <3>2. CASE i = Len(s) + 1 /\ j \in 1 .. Len(s)
      BY <1>1, <1>2, <1>4, <2>1, <3>2 DEF ToSet
    <3>3. CASE i \in 1 .. Len(s) /\ j = Len(s) + 1
      BY <1>1, <1>2, <1>4, <2>1, <3>3 DEF ToSet
    <3>4. QED
      BY <1>1, <3>1, <3>2, <3>3
  <2>2. QED
    BY <1>2, <2>1 DEF IsInjective
<1>5. Front(t) = s
  <2>1. Len(t) - 1 = Len(s)
    BY <1>1
  <2>2. SubSeq(t, 1, Len(s)) = s
    BY <1>1, SubSeqProperties DEF t
  <2>3. QED
    BY <2>1, <2>2 DEF Front
<1>6. QED
  BY <1>1, <1>3, <1>4, <1>5 DEF t

-----------------------------------------------------------------------------
(***************************************************************************)
(* What a text gives: words and similarities.                              *)
(***************************************************************************)

\* The function in the definition of WordsOf.
UpTo(s) == CHOOSE f : f = [i \in 0 .. Len(s) |-> IF i = 0 THEN 0 ELSE f[i - 1] + text.length[s[i]]]

LEMMA WordsOfIs == \A s : WordsOf(s) = UpTo(s)[Len(s)]
  BY DEF WordsOf, UpTo

LEMMA TextIs ==
  ASSUME text \in Input
  PROVE  /\ text.target \in Nat /\ text.count \in Nat
         /\ \A i \in Index : text.length[i] \in Nat /\ text.score[i] \in 0 .. Scale
         /\ text.score \in [Index -> Int]
         /\ \A i, j \in Index : Sim(i, j) \in 0 .. Scale /\ Sim(i, j) = Sim(j, i)
         /\ Index \in SUBSET Nat /\ IsFiniteSet(Index)
<1>1. /\ text.target \in Targets /\ text.count \in Counts /\ text.length \in [Index -> Lengths]
      /\ text.score \in [Index -> 0 .. Scale] /\ text.sim \in [Pairs -> 0 .. Scale]
  BY DEF Input
<1>2. text.target \in Nat /\ text.count \in Nat
  BY <1>1, TargetsAssumption, CountsAssumption
<1>3. \A i \in Index : text.length[i] \in Nat /\ text.score[i] \in 0 .. Scale
  BY <1>1, LengthsAssumption
<1>4. text.score \in [Index -> Int]
  BY <1>1, ScaleAssumption
<1>5. Index \in SUBSET Nat /\ IsFiniteSet(Index)
  BY SentencesAssumption, FS_Interval DEF Index
<1>6. ASSUME NEW i \in Index, NEW j \in Index
      PROVE  Sim(i, j) \in 0 .. Scale /\ Sim(i, j) = Sim(j, i)
  <2>1. i \in Nat /\ j \in Nat
    BY <1>5
  <2>2. CASE i = j
    BY <2>2, ScaleAssumption DEF Sim
  <2>3. CASE i < j
    <3>1. <<i, j>> \in Pairs
      BY <2>3 DEF Pairs
    <3>2. Sim(i, j) = text.sim[<<i, j>>] /\ Sim(j, i) = text.sim[<<i, j>>]
      BY <2>1, <2>3 DEF Sim
    <3>3. QED
      BY <1>1, <3>1, <3>2
  <2>4. CASE j < i
    <3>1. <<j, i>> \in Pairs
      BY <2>4 DEF Pairs
    <3>2. Sim(i, j) = text.sim[<<j, i>>] /\ Sim(j, i) = text.sim[<<j, i>>]
      BY <2>1, <2>4 DEF Sim
    <3>3. QED
      BY <1>1, <3>1, <3>2
  <2>5. QED
    BY <2>1, <2>2, <2>3, <2>4
<1>7. QED
  BY <1>2, <1>3, <1>4, <1>5, <1>6

\* Its recursive definition is satisfied.
CountsWords(W, s) == /\ W \in [0 .. Len(s) -> Nat] /\ W[0] = 0
                  /\ \A i \in 1 .. Len(s) : W[i] = W[i - 1] + text.length[s[i]]

LEMMA WordsCounted ==
  ASSUME text \in Input, NEW s \in Seq(Index)
  PROVE  CountsWords(UpTo(s), s)
<1>0. PICK n \in Nat : n = Len(s)
  OBVIOUS
<1> DEFINE len(i) == text.length[s[i]]
           step == [i \in 1 .. n |-> [x \in Nat |-> x + len(i)]]
           R(f) == [i \in 0 .. n |-> IF i = 0 THEN 0 ELSE f[i - 1] + len(i)]
           W == UpTo(s)
<1>1. \A i \in 1 .. n : len(i) \in Nat
  <2>1. \A i \in 1 .. n : s[i] \in Index
    BY <1>0
  <2>2. QED
    BY <2>1, TextIs
<1>2. W = CHOOSE f : f = R(f)
  BY <1>0 DEF UpTo
<1> HIDE DEF len, W
<1>3. step \in StepsOn(n, Nat)
  BY <1>1 DEF StepsOn
<1>4. \A i \in 1 .. n : \A x \in Nat : step[i][x] = x + len(i)
  OBVIOUS
<1> HIDE DEF step
<1>5. PICK f : Recursion(f, n, Nat, 0, step)
  <2>1. 0 \in Nat
    OBVIOUS
  <2>2. QED
    BY <1>3, <2>1, RecursionExists
<1>6. f \in [0 .. n -> Nat] /\ f[0] = 0 /\ \A i \in 1 .. n : f[i] = f[i - 1] + len(i)
  <2>1. \A i \in 1 .. n : i - 1 \in 0 .. n
    OBVIOUS
  <2>2. f \in [0 .. n -> Nat] /\ f[0] = 0 /\ \A i \in 1 .. n : f[i] = step[i][f[i - 1]]
    BY <1>5 DEF Recursion
  <2>3. \A i \in 1 .. n : f[i - 1] \in Nat
    BY <2>1, <2>2
  <2>4. QED
    BY <1>4, <2>2, <2>3
<1>7. f = R(f)
  <2>1. \A i \in 0 .. n : i # 0 => i \in 1 .. n
    OBVIOUS
  <2>2. QED
    BY <1>6, <2>1
<1>8. W = R(W)
  BY <1>2, <1>7
<1>9. W[0] = 0 /\ \A i \in 1 .. n : W[i] = W[i - 1] + len(i)
  <2>1. 0 \in 0 .. n /\ \A i \in 1 .. n : i # 0 /\ i \in 0 .. n
    OBVIOUS
  <2>2. \A i \in 0 .. n : W[i] = R(W)[i]
    BY <1>8
  <2>3. QED
    BY <2>1, <2>2
<1>10. \A i \in 0 .. n : W[i] = f[i]
  <2>1. Follows(W, f, n)
    BY <1>6, <1>9 DEF Follows
  <2>2. QED
    BY <2>1, SameRecursion
<1>11. W \in [0 .. n -> Nat]
  BY <1>6, <1>8, <1>10
<1>12. QED
  BY <1>0, <1>9, <1>11 DEF CountsWords, W, len

\* One sentence more adds its words.
LEMMA WordsGrow ==
  ASSUME text \in Input, NEW s \in Seq(Index), NEW x \in Index
  PROVE  /\ WordsOf(s) \in Nat /\ WordsOf(Append(s, x)) \in Nat
         /\ WordsOf(Append(s, x)) >= WordsOf(s)
<1>0. PICK n \in Nat : n = Len(s)
  OBVIOUS
<1> DEFINE t == Append(s, x)
           W == UpTo(s)
           V == UpTo(t)
<1>1. t \in Seq(Index) /\ Len(t) = n + 1 /\ t[n + 1] = x /\ \A i \in 1 .. n : t[i] = s[i]
  BY <1>0
<1> HIDE DEF t
<1>2. CountsWords(W, s) /\ CountsWords(V, t)
  BY <1>1, WordsCounted
<1> HIDE DEF W, V
<1>3. \A i \in 1 .. n : i \in 1 .. n + 1
  OBVIOUS
<1>4. Follows(V, W, n)
  <2>1. V[0] = W[0]
    BY <1>2 DEF CountsWords
  <2>2. \A i \in 1 .. n : /\ V[i] = V[i - 1] + text.length[s[i]]
                          /\ W[i] = W[i - 1] + text.length[s[i]]
    BY <1>0, <1>1, <1>2, <1>3 DEF CountsWords
  <2>3. QED
    BY <2>1, <2>2 DEF Follows
<1>5. n \in 0 .. n /\ V[n] = W[n] /\ W[n] \in Nat
  <2>1. n \in 0 .. n
    OBVIOUS
  <2>2. \A i \in 0 .. n : V[i] = W[i]
    BY <1>4, SameRecursion
  <2>3. QED
    BY <1>0, <1>2, <2>1, <2>2 DEF CountsWords
<1>6. V[n + 1] = V[n] + text.length[x]
  <2>1. n + 1 \in 1 .. n + 1 /\ (n + 1) - 1 = n
    OBVIOUS
  <2>2. V[n + 1] = V[(n + 1) - 1] + text.length[t[n + 1]]
    BY <1>1, <1>2, <2>1 DEF CountsWords
  <2>3. QED
    BY <1>1, <2>1, <2>2
<1>7. WordsOf(s) = W[n] /\ WordsOf(t) = V[n + 1]
  BY <1>0, <1>1, WordsOfIs DEF W, V
<1>8. text.length[x] \in Nat
  BY TextIs
<1>9. QED
  BY <1>5, <1>6, <1>7, <1>8 DEF t

LEMMA WordsOfAny ==
  ASSUME text \in Input, NEW s \in Seq(Index)
  PROVE  WordsOf(s) \in Nat
<1>1. CountsWords(UpTo(s), s) /\ Len(s) \in Nat /\ Len(s) \in 0 .. Len(s)
  BY WordsCounted
<1>2. QED
  BY <1>1, WordsOfIs DEF CountsWords

-----------------------------------------------------------------------------
(***************************************************************************)
(* The sentence limit.                                                     *)
(***************************************************************************)

\* All steps from the head stay before the tail.
LEMMA StepsFit ==
  ASSUME NEW m \in Nat \ {0}, NEW M \in Nat, m <= M
  PROVE  LET step == Max({1, M \div m}) IN
         /\ step \in Nat \ {0}
         /\ \A k \in 1 .. m : (k - 1) * step \in Nat /\ (k - 1) * step < M
<1> DEFINE q == M \div m
<1>1. q \in Nat /\ m * q <= M /\ M < m * (q + 1)
  OBVIOUS
<1> HIDE DEF q
<1>2. q >= 1
  <2> SUFFICES ASSUME q = 0 PROVE FALSE
    BY <1>1
  <2>1. m * (q + 1) = m
    OBVIOUS
  <2>2. QED
    BY <1>1, <2>1
<1>3. Max({1, q}) = q
  <2>1. q \in {1, q} /\ \A y \in {1, q} : q >= y
    BY <1>1, <1>2
  <2>2. Max({1, q}) \in {1, q} /\ \A y \in {1, q} : Max({1, q}) >= y
    BY <2>1 DEF Max
  <2>3. QED
    BY <1>1, <2>1, <2>2
<1>4. ASSUME NEW k \in 1 .. m PROVE (k - 1) * q \in Nat /\ (k - 1) * q < M
  <2>1. k - 1 \in Nat /\ m - 1 - (k - 1) \in Nat
    OBVIOUS
  <2>2. m * q = (k - 1) * q + (m - 1 - (k - 1)) * q + q
    BY <1>1
  <2>3. (k - 1) * q \in Nat /\ (m - 1 - (k - 1)) * q \in Nat
    BY <1>1, <2>1
  <2>4. QED
    BY <1>1, <1>2, <2>2, <2>3
<1> DEFINE step == Max({1, M \div m})
<1>5. step = q
  BY <1>3 DEF q
<1> HIDE DEF step
<1>6. step \in Nat \ {0} /\ \A k \in 1 .. m : (k - 1) * step \in Nat /\ (k - 1) * step < M
  BY <1>1, <1>2, <1>4, <1>5
<1>7. QED
  BY <1>6 DEF step

\* Which sentences stay of n when they are too many: Trim without its cases.
Head3 == SentenceLimit \div 3
Tail6 == SentenceLimit \div 6
Middle == SentenceLimit - Head3 - Tail6

LEMMA PartsAre ==
  /\ SentenceLimit \in Nat /\ Head3 \in Nat /\ Tail6 \in Nat /\ Middle \in Nat \ {0}
  /\ Head3 + Middle + Tail6 = SentenceLimit
<1>1. SentenceLimit \in Nat /\ SentenceLimit > 0
  BY SentenceLimitAssumption
<1>2. Head3 \in Nat /\ 3 * Head3 <= SentenceLimit
  BY <1>1 DEF Head3
<1>3. Tail6 \in Nat /\ 6 * Tail6 <= SentenceLimit
  BY <1>1 DEF Tail6
<1>4. QED
  BY <1>1, <1>2, <1>3 DEF Middle

\* The list of three parts.
LEMMA TrimOver ==
  ASSUME NEW n \in Nat, n > SentenceLimit
  PROVE  \E step \in Nat \ {0} :
            /\ (Middle - 1) * step < n - Tail6 - Head3
            /\ Trim(n) = [k \in 1 .. Head3 |-> k - 1]
                         \o [k \in 1 .. Middle |-> Head3 + (k - 1) * step]
                         \o [k \in 1 .. Tail6 |-> (n - Tail6) + k - 1]
<1> DEFINE end == n - Tail6
           M == end - Head3
           step == Max({1, M \div Middle})
           mid(k) == Head3 + (k - 1) * step
           D == {k \in 1 .. Middle : mid(k) < end}
<1>1. M \in Nat /\ Middle <= M /\ end \in Nat
  BY PartsAre
<1>2. step \in Nat \ {0} /\ \A k \in 1 .. Middle : (k - 1) * step \in Nat /\ (k - 1) * step < M
  <2> HIDE DEF M
  <2>1. QED
    BY <1>1, PartsAre, StepsFit
<1>3. Trim(n) = [k \in 1 .. Head3 |-> k - 1] \o [k \in D |-> mid(k)]
                \o [k \in 1 .. Tail6 |-> end + k - 1]
  <2>1. ~(n <= SentenceLimit)
    BY PartsAre
  <2>2. QED
    BY <2>1 DEF Trim, Head3, Tail6, Middle
<1> HIDE DEF step
<1>4. D = 1 .. Middle
  <2>1. ASSUME NEW k \in 1 .. Middle PROVE mid(k) < end
    <3>1. (k - 1) * step \in Nat /\ (k - 1) * step < end - Head3
      BY <1>2
    <3>2. QED
      BY <1>1, <3>1, PartsAre
  <2>2. QED
    BY <2>1
<1>5. (Middle - 1) * step < M
  <2>1. Middle \in 1 .. Middle
    BY PartsAre
  <2>2. QED
    BY <1>2, <2>1
<1>6. QED
  BY <1>2, <1>3, <1>4, <1>5

LEMMA TrimOf ==
  ASSUME NEW n \in Nat
  PROVE  LET kept == Trim(n) IN
         /\ Len(kept) = Min({n, SentenceLimit})
         /\ \A k \in 2 .. Len(kept) : kept[k - 1] < kept[k]
         /\ \A i \in 0 .. n - 1 : i < SentenceLimit \div 3 \/ i >= n - SentenceLimit \div 6
                => i \in ToSet(kept)
<1> DEFINE kept == Trim(n)
<1>0. SentenceLimit \in Nat
  BY PartsAre
<1>1. CASE n <= SentenceLimit
  <2>1. kept = [k \in 1 .. n |-> k - 1]
    BY <1>1 DEF Trim
  <2>2. Len(kept) = n /\ DOMAIN kept = 1 .. n /\ \A k \in 1 .. n : kept[k] = k - 1
    BY <2>1
  <2> HIDE DEF kept
  <2>3. Min({n, SentenceLimit}) = n
    <3>1. /\ {n, SentenceLimit} \in SUBSET Int /\ {n, SentenceLimit} # {} /\ 0 \in Int
          /\ \A x \in {n, SentenceLimit} : 0 <= x
      BY <1>0
    <3>2. /\ Min({n, SentenceLimit}) \in {n, SentenceLimit}
          /\ \A x \in {n, SentenceLimit} : Min({n, SentenceLimit}) <= x
      BY <3>1, MinIs
    <3>3. QED
      BY <1>0, <1>1, <3>2
  <2>4. \A k \in 2 .. Len(kept) : kept[k - 1] < kept[k]
    <3>1. \A k \in 2 .. n : k \in 1 .. n /\ k - 1 \in 1 .. n
      OBVIOUS
    <3>2. QED
      BY <2>2, <3>1
  <2>5. \A i \in 0 .. n - 1 : i \in ToSet(kept)
    <3>1. \A i \in 0 .. n - 1 : i + 1 \in 1 .. n /\ kept[i + 1] = i
      BY <2>2
    <3>2. QED
      BY <2>2, <3>1 DEF ToSet
  <2>6. QED
    BY <2>2, <2>3, <2>4, <2>5 DEF kept
<1>2. CASE n > SentenceLimit
  <2>1. PICK step \in Nat \ {0} :
            /\ (Middle - 1) * step < n - Tail6 - Head3
            /\ kept = [k \in 1 .. Head3 |-> k - 1]
                      \o [k \in 1 .. Middle |-> Head3 + (k - 1) * step]
                      \o [k \in 1 .. Tail6 |-> (n - Tail6) + k - 1]
    BY <1>2, TrimOver
  <2> HIDE DEF kept
  <2>2. PICK h \in Nat, t \in Nat, m \in Nat \ {0} :
            /\ h = Head3 /\ t = Tail6 /\ m = Middle /\ h + m + t = SentenceLimit
            /\ n - t - h > m /\ (m - 1) * step < n - t - h
    BY <1>2, <2>1, PartsAre
  <2> DEFINE A == [k \in 1 .. h |-> k - 1]
             B == [k \in 1 .. m |-> h + (k - 1) * step]
             C == [k \in 1 .. t |-> (n - t) + k - 1]
  <2>3. A \in Seq(Int) /\ Len(A) = h
    OBVIOUS
  <2>4. B \in Seq(Int) /\ Len(B) = m
    <3>1. \A k \in 1 .. m : (k - 1) * step \in Int
      BY <2>1
    <3>2. QED
      BY <3>1
  <2>5. C \in Seq(Int) /\ Len(C) = t
    OBVIOUS
  <2>6. kept = (A \o B) \o C
    BY <2>1, <2>2
  <2> HIDE DEF A, B, C
  <2>7. /\ Len(kept) = h + m + t /\ DOMAIN kept = 1 .. h + m + t
        /\ \A k \in 1 .. h + m + t :
              kept[k] = IF k <= h THEN A[k] ELSE IF k <= h + m THEN B[k - h] ELSE C[k - h - m]
    <3>1. PICK AB : AB = A \o B
      OBVIOUS
    <3>2. /\ AB \in Seq(Int) /\ Len(AB) = h + m
          /\ \A k \in 1 .. h + m : AB[k] = IF k <= h THEN A[k] ELSE B[k - h]
      <4>1. /\ A \o B \in Seq(Int) /\ Len(A \o B) = Len(A) + Len(B)
            /\ \A k \in 1 .. Len(A) + Len(B) :
                  (A \o B)[k] = IF k <= Len(A) THEN A[k] ELSE B[k - Len(A)]
        BY <2>3, <2>4, ConcatProperties
      <4>2. QED
        BY <2>3, <2>4, <3>1, <4>1
    <3>3. kept = AB \o C
      BY <2>6, <3>1
    <3>4. /\ kept \in Seq(Int) /\ Len(kept) = h + m + t
          /\ \A k \in 1 .. h + m + t : kept[k] = IF k <= h + m THEN AB[k] ELSE C[k - (h + m)]
      <4>1. /\ AB \o C \in Seq(Int) /\ Len(AB \o C) = Len(AB) + Len(C)
            /\ \A k \in 1 .. Len(AB) + Len(C) :
                  (AB \o C)[k] = IF k <= Len(AB) THEN AB[k] ELSE C[k - Len(AB)]
        BY <2>5, <3>2, ConcatProperties
      <4>2. QED
        BY <2>5, <3>2, <3>3, <4>1
    <3>5. DOMAIN kept = 1 .. h + m + t
      BY <3>4
    <3>6. \A k \in 1 .. h + m + t : k <= h + m => k \in 1 .. h + m
      OBVIOUS
    <3>7. \A k \in 1 .. h + m + t : /\ k <= h => k <= h + m
                                   /\ k - (h + m) = k - h - m
      OBVIOUS
    <3>8. QED
      BY <3>2, <3>4, <3>5, <3>6, <3>7
  <2>8. /\ \A k \in 1 .. h : kept[k] = k - 1
        /\ \A k \in 1 .. m : kept[h + k] = h + (k - 1) * step
        /\ \A k \in 1 .. t : kept[h + m + k] = (n - t) + k - 1
    <3>1. \A k \in 1 .. h : kept[k] = A[k]
      BY <2>7
    <3>2. \A k \in 1 .. m : kept[h + k] = B[k]
      BY <2>7
    <3>3. \A k \in 1 .. t : kept[h + m + k] = C[k]
      BY <2>7
    <3>4. QED
      BY <3>1, <3>2, <3>3 DEF A, B, C
  <2>9. Len(kept) = Min({n, SentenceLimit})
    <3>1. /\ {n, SentenceLimit} \in SUBSET Int /\ {n, SentenceLimit} # {} /\ 0 \in Int
          /\ \A x \in {n, SentenceLimit} : 0 <= x
      BY <1>0
    <3>2. /\ Min({n, SentenceLimit}) \in {n, SentenceLimit}
          /\ \A x \in {n, SentenceLimit} : Min({n, SentenceLimit}) <= x
      BY <3>1, MinIs
    <3>3. QED
      BY <1>0, <1>2, <2>2, <2>7, <3>2
  <2>10. ASSUME NEW k \in 2 .. h + m + t PROVE kept[k - 1] < kept[k]
    <3>1. CASE k <= h
      <4>1. k \in 1 .. h /\ k - 1 \in 1 .. h
        BY <3>1
      <4>2. QED
        BY <2>8, <4>1
    <3>2. CASE k > h /\ k <= h + m
      <4>1. PICK j \in 1 .. m : k = h + j
        <5>1. k - h \in 1 .. m /\ k = h + (k - h)
          BY <3>2
        <5>2. QED
          BY <5>1
      <4>2. CASE j = 1
        <5>1. h \in 1 .. h /\ k - 1 = h
          BY <4>1, <4>2
        <5>2. kept[k] = h + (1 - 1) * step
          BY <2>8, <4>1, <4>2
        <5>3. (1 - 1) * step = 0
          BY <2>1
        <5>4. QED
          BY <2>8, <5>1, <5>2, <5>3
      <4>3. CASE j # 1
        <5>1. j - 1 \in 1 .. m /\ k - 1 = h + (j - 1)
          BY <4>1, <4>3
        <5>2. kept[k] = h + (j - 1) * step /\ kept[k - 1] = h + (j - 1 - 1) * step
          BY <2>8, <4>1, <5>1
        <5>3. (j - 1) * step = (j - 1 - 1) * step + step /\ (j - 1 - 1) * step \in Int
          BY <2>1, <5>1
        <5>4. (j - 1 - 1) * step < (j - 1 - 1) * step + step
          BY <2>1, <5>3
        <5>5. h + (j - 1 - 1) * step < h + ((j - 1 - 1) * step + step)
          BY <2>1, <5>3, <5>4
        <5>6. QED
          BY <5>2, <5>3, <5>5
      <4>4. QED
        BY <4>2, <4>3
    <3>3. CASE k > h + m
      <4>1. PICK j \in 1 .. t : k = h + m + j
        <5>1. k - h - m \in 1 .. t /\ k = h + m + (k - h - m)
          BY <3>3
        <5>2. QED
          BY <5>1
      <4>2. CASE j = 1
        <5>1. m \in 1 .. m /\ k - 1 = h + m
          BY <4>1, <4>2
        <5>2. kept[k] = (n - t) + 1 - 1 /\ kept[k - 1] = h + (m - 1) * step
          BY <2>8, <4>1, <4>2, <5>1
        <5>3. (m - 1) * step \in Int
          BY <2>1
        <5>4. QED
          BY <2>2, <5>2, <5>3
      <4>3. CASE j # 1
        <5>1. j - 1 \in 1 .. t /\ k - 1 = h + m + (j - 1)
          BY <4>1, <4>3
        <5>2. kept[k] = (n - t) + j - 1 /\ kept[k - 1] = (n - t) + (j - 1) - 1
          BY <2>8, <4>1, <5>1
        <5>3. QED
          BY <5>2
      <4>4. QED
        BY <4>2, <4>3
    <3>4. QED
      BY <3>1, <3>2, <3>3
  <2>11. ASSUME NEW i \in 0 .. n - 1, i < h \/ i >= n - t PROVE i \in ToSet(kept)
    <3>1. CASE i < h
      <4>1. i + 1 \in 1 .. h /\ i + 1 \in 1 .. h + m + t
        BY <3>1
      <4>2. kept[i + 1] = i
        BY <2>8, <4>1
      <4>3. QED
        BY <2>7, <4>1, <4>2 DEF ToSet
    <3>2. CASE i >= n - t
      <4>1. PICK j \in 1 .. t : j = i - (n - t) + 1
        <5>1. i - (n - t) + 1 \in 1 .. t
          BY <3>2
        <5>2. QED
          BY <5>1
      <4>2. kept[h + m + j] = (n - t) + j - 1
        BY <2>8
      <4>3. h + m + j \in 1 .. h + m + t
        OBVIOUS
      <4>4. kept[h + m + j] = i
        BY <4>1, <4>2
      <4>5. QED
        BY <2>7, <4>3, <4>4 DEF ToSet
    <3>3. QED
      BY <2>11, <3>1, <3>2
  <2>12. SentenceLimit \div 3 = h /\ SentenceLimit \div 6 = t
    BY <2>2 DEF Head3, Tail6
  <2>13. QED
    BY <2>7, <2>9, <2>10, <2>11, <2>12 DEF kept
<1>3. QED
  BY <1>0, <1>1, <1>2

\* Trimming loses the middle only, for every number of sentences.
LEMMA TrimSound == TrimIsSound
<1>1. \A n \in 0 .. MaxSentences : n \in Nat
  BY MaxSentencesAssumption
<1>2. QED
  BY <1>1, TrimOf DEF TrimIsSound

-----------------------------------------------------------------------------
(***************************************************************************)
(* The clusters.                                                           *)
(***************************************************************************)

\* The next centroid is a sentence that is none yet.
LEMMA FurthestIs ==
  ASSUME text \in Input, NEW s \in Seq(Index), s # << >>, Index \ ToSet(s) # {}
  PROVE  Furthest(s) \in Index \ ToSet(s)
<1> DEFINE D == Index \ ToSet(s)
           sims(i) == {Sim(i, c) : c \in ToSet(s)}
           value == [i \in D |-> Scale - Min(sims(i))]
<1>1. ToSet(s) \in SUBSET Index /\ ToSet(s) # {}
  <2>1. Len(s) \in Nat /\ Len(s) # 0 /\ DOMAIN s = 1 .. Len(s) /\ 1 \in 1 .. Len(s)
    OBVIOUS
  <2>2. s[1] \in ToSet(s)
    BY <2>1 DEF ToSet
  <2>3. QED
    BY <2>2, SetOfList
<1>2. D \in SUBSET Nat /\ D # {}
  BY TextIs
<1>3. ASSUME NEW i \in D PROVE Min(sims(i)) \in 0 .. Scale
  <2>1. /\ sims(i) \in SUBSET (0 .. Scale) /\ sims(i) # {}
        /\ sims(i) \in SUBSET Int /\ \A x \in sims(i) : 0 <= x
    <3>1. \A c \in ToSet(s) : Sim(i, c) \in 0 .. Scale
      BY <1>1, TextIs
    <3>2. QED
      BY <1>1, <3>1
  <2> HIDE DEF sims
  <2>2. QED
    BY <2>1, MinIs
<1>4. value \in [D -> Int] /\ \A i \in D : value[i] <= Scale
  BY <1>3, ScaleAssumption
<1>5. Furthest(s) = FirstMax(value)
  BY DEF Furthest
<1> HIDE DEF D, value
<1>6. FirstMax(value) \in D
  BY <1>2, <1>4, ScaleAssumption, FirstMaxIs
<1>7. QED
  BY <1>5, <1>6 DEF D

LEMMA RoomLeft ==
  ASSUME NEW s \in Seq(Index), Len(s) < Sentences
  PROVE  Index \ ToSet(s) # {}
<1>1. IsFiniteSet(Index) /\ Cardinality(Index) = Sentences
  BY SentencesAssumption, FS_Interval DEF Index
<1>2. Cardinality(ToSet(s)) <= Len(s) /\ Len(s) \in Nat /\ ToSet(s) \in SUBSET Index
      /\ IsFiniteSet(ToSet(s))
  BY SetOfList
<1>3. Cardinality(ToSet(s)) \in Nat
  BY <1>2, FS_CardinalityType
<1>4. ToSet(s) # Index
  BY <1>1, <1>2, <1>3, SentencesAssumption
<1>5. QED
  BY <1>2, <1>4

\* As many centroids as clusters.
LEMMA CentroidsAre ==
  ASSUME text \in Input, Sentences > Clusters
  PROVE  Centroids \in Seq(Index) /\ Len(Centroids) = Clusters
<1>0. PICK n \in Nat : n + 1 = Clusters
  <2>1. Clusters - 1 \in Nat /\ (Clusters - 1) + 1 = Clusters
    BY ClustersAssumption
  <2>2. QED
    BY <2>1
<1> DEFINE V == {s \in Seq(Index) : s # << >>}
           more == [s \in V |-> IF Index \ ToSet(s) # {} THEN Append(s, Furthest(s)) ELSE s]
           step == [i \in 1 .. n |-> more]
           R(f) == [k \in 1 .. Clusters |->
                      IF k = 1 THEN <<1>> ELSE Append(f[k - 1], Furthest(f[k - 1]))]
           W == CHOOSE f : f = R(f)
<1>1. Centroids = W[Clusters]
  BY DEF Centroids
<1>2. <<1>> \in V /\ Len(<<1>>) = 1
  <2>1. 1 \in Index
    BY ClustersAssumption, SentencesAssumption DEF Index
  <2>2. QED
    BY <2>1
<1>3. ASSUME NEW s \in V, Index \ ToSet(s) # {}
      PROVE  /\ Append(s, Furthest(s)) \in V /\ Len(Append(s, Furthest(s))) = Len(s) + 1
             /\ more[s] = Append(s, Furthest(s))
  <2>1. Furthest(s) \in Index
    BY <1>3, FurthestIs
  <2>2. Append(s, Furthest(s)) \in Seq(Index) /\ Len(Append(s, Furthest(s))) = Len(s) + 1
        /\ Len(s) \in Nat
    BY <2>1
  <2>3. Append(s, Furthest(s)) # << >>
    BY <2>2
  <2>4. QED
    BY <1>3, <2>2, <2>3
<1>4. more \in [V -> V]
  <2>1. \A s \in V : (IF Index \ ToSet(s) # {} THEN Append(s, Furthest(s)) ELSE s) \in V
    BY <1>3
  <2> HIDE DEF V
  <2>2. QED
    BY <2>1
<1>5. step \in StepsOn(n, V) /\ \A i \in 1 .. n : step[i] = more
  <2> HIDE DEF more, V
  <2>1. QED
    BY <1>4 DEF StepsOn
<1>6. PICK f : Recursion(f, n, V, <<1>>, step)
  <2> HIDE DEF step, V
  <2>1. QED
    BY <1>2, <1>5, RecursionExists
<1>7. f \in [0 .. n -> V] /\ f[0] = <<1>> /\ \A i \in 1 .. n : f[i] = more[f[i - 1]]
  <2> HIDE DEF step, V, more
  <2>1. QED
    BY <1>5, <1>6 DEF Recursion
<1> HIDE DEF more, step
<1> DEFINE S == {i \in Nat : i <= n => Len(f[i]) = i + 1}
<1>8. 0 \in S
  <2>1. Len(f[0]) = 0 + 1
    BY <1>2, <1>7
  <2>2. QED
    BY <2>1
<1>9. ASSUME NEW s \in V, Len(s) < Sentences PROVE Index \ ToSet(s) # {}
  BY <1>9, RoomLeft
<1>10. ASSUME NEW i \in Nat, i \in S PROVE i + 1 \in S
  <2> SUFFICES ASSUME i + 1 <= n PROVE Len(f[i + 1]) = i + 1 + 1
    OBVIOUS
  <2>1. i \in 0 .. n /\ i + 1 \in 1 .. n /\ (i + 1) - 1 = i /\ Len(f[i]) = i + 1
    BY <1>10
  <2>2. f[i] \in V /\ Len(f[i]) < Sentences
    BY <1>0, <1>7, <2>1, SentencesAssumption
  <2>3. f[i + 1] = more[f[i]]
    BY <1>7, <2>1
  <2> HIDE DEF V
  <2>4. QED
    BY <1>3, <1>9, <2>1, <2>2, <2>3
<1>11. \A i \in 0 .. n : Len(f[i]) = i + 1
  <2>1. Nat \subseteq S
    <3> HIDE DEF S
    <3>1. QED
      BY <1>8, <1>10, SetInduction
  <2>2. QED
    BY <2>1
<1> HIDE DEF S
<1>12. \A i \in 1 .. n : f[i] = Append(f[i - 1], Furthest(f[i - 1]))
  <2> SUFFICES ASSUME NEW i \in 1 .. n PROVE f[i] = Append(f[i - 1], Furthest(f[i - 1]))
    OBVIOUS
  <2>1. i - 1 \in 0 .. n
    OBVIOUS
  <2>2. f[i - 1] \in V /\ Len(f[i - 1]) < Sentences
    BY <1>0, <1>7, <1>11, <2>1, SentencesAssumption
  <2> HIDE DEF V
  <2>3. QED
    BY <1>3, <1>7, <1>9, <2>2
<1> DEFINE g == [k \in 1 .. Clusters |-> f[k - 1]]
<1>13. g = R(g)
  <2>1. ASSUME NEW k \in 1 .. Clusters PROVE g[k] = R(g)[k]
    <3>1. CASE k = 1
      <4>1. g[k] = f[0]
        BY <3>1
      <4>2. R(g)[k] = <<1>>
        BY <3>1
      <4>3. QED
        BY <1>7, <4>1, <4>2
    <3>2. CASE k # 1
      <4>1. k - 1 \in 1 .. n /\ k - 1 \in 1 .. Clusters /\ (k - 1) - 1 \in 0 .. n
        BY <1>0, <3>2
      <4>2. g[k] = f[k - 1] /\ g[k - 1] = f[(k - 1) - 1]
        BY <4>1
      <4>3. R(g)[k] = Append(g[k - 1], Furthest(g[k - 1]))
        BY <3>2
      <4>4. QED
        BY <1>12, <4>1, <4>2, <4>3
    <3>3. QED
      BY <3>1, <3>2
  <2>2. \E G : G = g
    OBVIOUS
  <2>3. PICK G : G = g
    BY <2>2
  <2>4. DOMAIN G = 1 .. Clusters /\ G = [k \in 1 .. Clusters |-> G[k]]
    BY <2>3
  <2>5. \A k \in 1 .. Clusters : G[k] = R(G)[k]
    BY <2>1, <2>3
  <2>6. G = R(G)
    BY <2>4, <2>5
  <2>7. QED
    BY <2>3, <2>6
<1>14. W = R(W)
  <2>1. \E G : G = R(G)
    BY <1>13
  <2>2. QED
    BY <2>1
<1> HIDE DEF W, g
<1>15. /\ W[1] = <<1>>
       /\ \A k \in 2 .. Clusters : W[k] = Append(W[k - 1], Furthest(W[k - 1]))
  <2>1. 1 \in 1 .. Clusters /\ \A k \in 2 .. Clusters : k \in 1 .. Clusters /\ k # 1
    BY ClustersAssumption
  <2>2. \A k \in 1 .. Clusters : W[k] = R(W)[k]
    BY <1>14
  <2>3. R(W)[1] = <<1>>
    BY <2>1
  <2>4. \A k \in 2 .. Clusters : R(W)[k] = Append(W[k - 1], Furthest(W[k - 1]))
    BY <2>1
  <2> HIDE DEF R
  <2>5. W[1] = <<1>>
    BY <2>1, <2>2, <2>3
  <2>6. ASSUME NEW k \in 2 .. Clusters PROVE W[k] = Append(W[k - 1], Furthest(W[k - 1]))
    BY <2>1, <2>2, <2>4, Zenon
  <2>7. QED
    BY <2>5, <2>6
<1>16. \A i \in 0 .. n : W[i + 1] = f[i]
  <2> DEFINE T == {i \in Nat : i <= n => W[i + 1] = f[i]}
  <2>1. 0 \in T
    <3>1. 0 + 1 = 1 /\ 0 \in Nat
      OBVIOUS
    <3>2. W[1] = f[0]
      BY <1>7, <1>15
    <3>3. W[0 + 1] = f[0]
      BY <3>1, <3>2
    <3>4. QED
      BY <3>1, <3>3
  <2>2. ASSUME NEW i \in Nat, i \in T PROVE i + 1 \in T
    <3> SUFFICES ASSUME i + 1 <= n PROVE W[i + 1 + 1] = f[i + 1]
      OBVIOUS
    <3>1. /\ i + 1 + 1 \in 2 .. Clusters /\ (i + 1 + 1) - 1 = i + 1 /\ (i + 1) - 1 = i
          /\ i + 1 \in 1 .. n /\ W[i + 1] = f[i]
      BY <1>0, <2>2
    <3>2. W[i + 1 + 1] = Append(W[i + 1], Furthest(W[i + 1]))
      BY <1>15, <3>1
    <3>3. f[i + 1] = Append(f[i], Furthest(f[i]))
      BY <1>12, <3>1
    <3>4. QED
      BY <3>1, <3>2, <3>3
  <2>3. Nat \subseteq T
    <3> HIDE DEF T
    <3>1. QED
      BY <2>1, <2>2, SetInduction
  <2>4. QED
    BY <2>3
<1>17. n \in 0 .. n /\ W[Clusters] = f[n]
  BY <1>0, <1>16
<1>18. QED
  BY <1>0, <1>1, <1>7, <1>11, <1>17

LEMMA ClusterType ==
  ASSUME text \in Input
  PROVE  _cluster_sentences \in [Index -> 1 .. Sentences]
<1>1. CASE Sentences <= Clusters
  BY <1>1 DEF _cluster_sentences, Index
<1>2. CASE ~(Sentences <= Clusters)
  <2>0. Sentences > Clusters /\ Clusters \in Nat \ {0} /\ Sentences \in Nat
    BY <1>2, SentencesAssumption, ClustersAssumption
  <2>1. PICK centroids \in Seq(Index) : centroids = Centroids /\ Len(centroids) = Clusters
    BY <2>0, CentroidsAre
  <2>2. \A c \in 1 .. Clusters : centroids[c] \in Index
    BY <2>1
  <2>3. _cluster_sentences = [i \in Index |-> FirstMax([c \in 1 .. Clusters |-> Sim(i, centroids[c])])]
    BY <1>2, <2>1 DEF _cluster_sentences
  <2>4. ASSUME NEW i \in Index
        PROVE  FirstMax([c \in 1 .. Clusters |-> Sim(i, centroids[c])]) \in 1 .. Sentences
    <3> DEFINE D == 1 .. Clusters
               value == [c \in D |-> Sim(i, centroids[c])]
    <3>1. D \in SUBSET Nat /\ D # {}
      <4>1. 1 \in D
        BY <2>0
      <4>2. QED
        BY <4>1
    <3>2. \A c \in D : Sim(i, centroids[c]) \in 0 .. Scale
      BY <2>2, TextIs
    <3>3. value \in [D -> Int] /\ \A c \in D : value[c] <= Scale
      BY <3>2, ScaleAssumption
    <3> HIDE DEF value
    <3>4. FirstMax(value) \in D
      <4>1. Scale \in Int
        BY ScaleAssumption
      <4> HIDE DEF D
      <4>2. \E top \in Int : \A c \in D : value[c] <= top
        BY <3>3, <4>1
      <4>3. QED
        BY <3>1, <3>3, <4>2, FirstMaxIs
    <3>5. FirstMax(value) \in 1 .. Sentences
      BY <2>0, <3>4
    <3>6. QED
      BY <3>5 DEF value
  <2>5. QED
    BY <2>3, <2>4
<1>3. QED
  BY <1>1, <1>2

-----------------------------------------------------------------------------
(***************************************************************************)
(* The best sentences of the clusters.                                     *)
(***************************************************************************)

\* What ClusterBest gives, for any clustering: one sentence of each cluster, as
\* good as any of it, the best ones first.
BestOfEach(q, of) ==
    /\ q \in Seq(Index)
    /\ \A i, j \in 1 .. Len(q) : i < j => /\ of[q[i]] # of[q[j]]
                                          /\ text.score[q[i]] >= text.score[q[j]]
    /\ \A i \in Index : \E k \in 1 .. Len(q) :
          of[q[k]] = of[i] /\ text.score[q[k]] >= text.score[i]

LEMMA ClusterBestIs ==
  ASSUME text \in Input, NEW of \in [Index -> 1 .. Sentences]
  PROVE  BestOfEach(ClusterBest(of), of)
<1> DEFINE used == {of[i] : i \in Index}
           best(c) == FirstMax([i \in Members(c, of) |-> text.score[i]])
           value == [c \in used |-> text.score[best(c)]]
           order == Descending(value)
           n == Cardinality(used)
<1>1. ASSUME NEW c \in used
      PROVE  /\ best(c) \in Index /\ of[best(c)] = c
             /\ \A j \in Index : of[j] = c => text.score[best(c)] >= text.score[j]
  <2> DEFINE D == Members(c, of)
             v == [i \in D |-> text.score[i]]
  <2>1. \A i : i \in D <=> i \in Index /\ of[i] = c
    BY DEF Members
  <2> HIDE DEF D
  <2>2. D \in SUBSET Nat /\ D # {}
    BY <2>1, TextIs
  <2>3. \A i \in D : text.score[i] \in 0 .. Scale
    BY <2>1, TextIs
  <2>4. v \in [D -> Int] /\ \A i \in D : v[i] = text.score[i] /\ v[i] \in Int /\ v[i] <= Scale
    BY <2>3, ScaleAssumption
  <2>5. best(c) = FirstMax(v)
    BY DEF D
  <2> HIDE DEF v, best
  <2>6. \E top \in Int : \A i \in D : v[i] <= top
    BY <2>4, ScaleAssumption
  <2>7. /\ FirstMax(v) \in D
        /\ \A j \in D : v[j] < v[FirstMax(v)] \/ v[j] = v[FirstMax(v)]
    BY <2>2, <2>4, <2>6, FirstMaxIs
  <2>8. \A j \in D : v[FirstMax(v)] >= v[j]
    BY <2>4, <2>7
  <2>9. QED
    BY <2>1, <2>4, <2>5, <2>7, <2>8
<1>2. used \in SUBSET Nat /\ IsFiniteSet(used)
  <2>1. used \in SUBSET (1 .. Sentences) /\ IsFiniteSet(1 .. Sentences)
    BY SentencesAssumption, FS_Interval
  <2> HIDE DEF used
  <2>2. IsFiniteSet(used)
    BY <2>1, FS_Subset
  <2>3. QED
    BY <2>1, <2>2, SentencesAssumption
<1>3. value \in [used -> Int] /\ \A c \in used : value[c] = text.score[best(c)]
  <2>1. \A c \in used : text.score[best(c)] \in Int
    <3> HIDE DEF best
    <3>1. QED
      BY <1>1, TextIs, ScaleAssumption
  <2> HIDE DEF used, best
  <2>2. QED
    BY <2>1
<1>4. ClusterBest(of) = [k \in DOMAIN order |-> best(order[k])]
  BY DEF ClusterBest
<1>5. \A i \in Index : of[i] \in used
  OBVIOUS
<1> HIDE DEF value, best, used
<1>6. /\ order \in [1 .. n -> used] /\ \A x \in used : \E k \in 1 .. n : order[k] = x
      /\ \A i, j \in 1 .. n : i < j => \/ value[order[i]] > value[order[j]]
                                       \/ value[order[i]] = value[order[j]] /\ order[i] > order[j]
  BY <1>2, <1>3, DescendingIs
<1>7. n \in Nat
  BY <1>2, FS_CardinalityType
<1> HIDE DEF order, n
<1> DEFINE q == [k \in 1 .. n |-> best(order[k])]
<1>8. ClusterBest(of) = q
  BY <1>4, <1>6
<1>9. /\ q \in Seq(Index) /\ Len(q) = n
      /\ \A k \in 1 .. n : order[k] \in used /\ q[k] = best(order[k])
  <2>1. \A k \in 1 .. n : order[k] \in used /\ best(order[k]) \in Index
    BY <1>1, <1>6
  <2>2. QED
    BY <1>7, <2>1
<1> HIDE DEF q
<1>10. \A k \in 1 .. n : of[q[k]] = order[k] /\ text.score[q[k]] = value[order[k]]
                         /\ value[order[k]] \in Int
  BY <1>1, <1>3, <1>9
<1>11. ASSUME NEW i \in 1 .. n, NEW j \in 1 .. n, i < j
       PROVE  of[q[i]] # of[q[j]] /\ text.score[q[i]] >= text.score[q[j]]
  <2>1. order[i] \in Nat /\ order[j] \in Nat
    BY <1>2, <1>9
  <2>2. \/ value[order[i]] > value[order[j]]
        \/ value[order[i]] = value[order[j]] /\ order[i] > order[j]
    <3>1. \A k, l \in 1 .. n : k < l => \/ value[order[k]] > value[order[l]]
                                        \/ value[order[k]] = value[order[l]] /\ order[k] > order[l]
      BY <1>6
    <3>2. QED
      BY <1>11, <3>1, Zenon
  <2>3. order[i] # order[j] /\ value[order[i]] >= value[order[j]]
    BY <1>10, <2>1, <2>2
  <2>4. QED
    BY <1>10, <2>3
<1>12. ASSUME NEW i \in Index
       PROVE  \E k \in 1 .. n : of[q[k]] = of[i] /\ text.score[q[k]] >= text.score[i]
  <2>1. PICK k \in 1 .. n : order[k] = of[i]
    BY <1>5, <1>6
  <2>2. q[k] = best(of[i]) /\ of[q[k]] = of[i]
    BY <1>9, <1>10, <2>1
  <2>3. QED
    BY <1>1, <1>5, <2>2
<1>13. QED
  BY <1>8, <1>9, <1>11, <1>12 DEF BestOfEach

-----------------------------------------------------------------------------
(***************************************************************************)
(* The sentence that fills the budget.                                     *)
(***************************************************************************)

LEMMA MMRIs ==
  ASSUME text \in Input, picked \in Seq(Index), NEW i \in Index
  PROVE  MMR(i) \in Int /\ MMR(i) <= 3 * Scale
<1> DEFINE sims == {0} \cup {Sim(i, s) : s \in ToSet(picked)}
<1>1. ToSet(picked) \in SUBSET Index
  BY SetOfList
<1>2. \A s \in ToSet(picked) : Sim(i, s) \in 0 .. Scale
  BY <1>1, TextIs
<1>3. sims \in SUBSET Int /\ sims # {} /\ Scale \in Int /\ \A x \in sims : x <= Scale /\ 0 <= x
  BY <1>2, ScaleAssumption
<1>4. MMR(i) = 3 * text.score[i] - 2 * Max(sims)
  BY DEF MMR
<1> HIDE DEF sims
<1>5. Max(sims) \in Int /\ Max(sims) >= 0
  BY <1>3, MaxIs
<1>6. text.score[i] \in Int /\ text.score[i] <= Scale
  BY TextIs, ScaleAssumption
<1>7. QED
  BY <1>3, <1>4, <1>5, <1>6

LEMMA FillIs ==
  ASSUME text \in Input, picked \in Seq(Index), Remaining # {}
  PROVE  FirstMax([i \in Remaining |-> MMR(i)]) \in Index \ ToSet(picked)
<1> DEFINE D == Remaining
           value == [i \in D |-> MMR(i)]
<1>1. D \in SUBSET Index /\ D \in SUBSET Nat /\ D # {} /\ D = Index \ ToSet(picked)
  BY TextIs DEF Remaining
<1> HIDE DEF D
<1>2. value \in [D -> Int] /\ \A i \in D : value[i] <= 3 * Scale
  BY <1>1, MMRIs
<1>3. 3 * Scale \in Int
  BY ScaleAssumption
<1> HIDE DEF value
<1>4. \E top \in Int : \A i \in D : value[i] <= top
  BY <1>2, <1>3
<1>5. FirstMax(value) \in D
  BY <1>1, <1>2, <1>4, FirstMaxIs
<1>6. QED
  BY <1>1, <1>5 DEF value, D

-----------------------------------------------------------------------------
(***************************************************************************)
(* The takeaways.                                                          *)
(***************************************************************************)

\* Sentences in the order of their scores, each once.
ByScore(order, n) ==
    /\ order \in [1 .. n -> Index]
    /\ \A i, j \in 1 .. n : i < j => /\ order[i] # order[j]
                                     /\ text.score[order[i]] >= text.score[order[j]]

\* What the first k sentences of the order leave in the list.
TakenSoFar(k, list, order) ==
    /\ list \in Seq(Index) /\ IsInjective(list) /\ Len(list) <= text.count
    /\ \A i \in ToSet(list) : \E m \in 1 .. k : i = order[m]
    /\ \A i, j \in ToSet(list) : i # j => ~TooSimilar(i, {j})
    /\ \A m \in 1 .. k : order[m] \notin ToSet(list) =>
          \/ TooSimilar(order[m], {t \in ToSet(list) : text.score[t] >= text.score[order[m]]})
          \/ /\ Len(list) = text.count
             /\ \A t \in ToSet(list) : text.score[t] >= text.score[order[m]]

\* One sentence more of an order by score keeps that.
LEMMA TakeOne ==
  ASSUME text \in Input, NEW n \in Nat, NEW order, ByScore(order, n),
         NEW k \in Nat, k + 1 <= n, NEW list, TakenSoFar(k, list, order)
  PROVE  TakenSoFar(k + 1, Take(list, order[k + 1]), order)
<1> DEFINE x == order[k + 1]
           new == Take(list, x)
<1>1. /\ k + 1 \in 1 .. n /\ \A m \in 1 .. k : m \in 1 .. n /\ m \in 1 .. k + 1 /\ m < k + 1
      /\ \A m \in 1 .. k + 1 : m \in 1 .. k \/ m = k + 1
  OBVIOUS
<1>2. x \in Index /\ \A m \in 1 .. k : order[m] \in Index
  BY <1>1 DEF ByScore
<1>3. /\ list \in Seq(Index) /\ IsInjective(list) /\ Len(list) <= text.count /\ Len(list) \in Nat
      /\ ToSet(list) \in SUBSET Index
  BY SetOfList DEF TakenSoFar
<1>4. \A i \in ToSet(list) : i # x /\ text.score[i] >= text.score[x]
  BY <1>1 DEF TakenSoFar, ByScore
<1>5. text.count \in Nat
  BY TextIs
<1>6. \A i, j \in Index : TooSimilar(i, {j}) <=> TooSimilar(j, {i})
  BY TextIs DEF TooSimilar
<1>7. CASE Len(list) >= text.count \/ TooSimilar(x, ToSet(list))
  <2>1. new = list
    BY <1>7 DEF Take
  <2>2. \A i \in ToSet(list) : \E m \in 1 .. k + 1 : i = order[m]
    BY <1>1 DEF TakenSoFar
  <2>3. \/ TooSimilar(x, {t \in ToSet(list) : text.score[t] >= text.score[x]})
        \/ /\ Len(list) = text.count
           /\ \A t \in ToSet(list) : text.score[t] >= text.score[x]
    <3>1. {t \in ToSet(list) : text.score[t] >= text.score[x]} = ToSet(list)
      BY <1>4
    <3>2. CASE Len(list) >= text.count
      <4>1. Len(list) = text.count
        BY <1>3, <1>5, <3>2
      <4>2. QED
        BY <1>4, <4>1
    <3>3. CASE TooSimilar(x, ToSet(list))
      BY <3>1, <3>3
    <3>4. QED
      BY <1>7, <3>2, <3>3
  <2>4. \A m \in 1 .. k + 1 : order[m] \notin ToSet(list) =>
          \/ TooSimilar(order[m], {t \in ToSet(list) : text.score[t] >= text.score[order[m]]})
          \/ /\ Len(list) = text.count
             /\ \A t \in ToSet(list) : text.score[t] >= text.score[order[m]]
    BY <1>1, <2>3 DEF TakenSoFar
  <2>5. QED
    BY <1>3, <2>1, <2>2, <2>4 DEF TakenSoFar
<1>8. CASE ~(Len(list) >= text.count \/ TooSimilar(x, ToSet(list)))
  <2>1. new = Append(list, x)
    BY <1>8 DEF Take
  <2>2. /\ new \in Seq(Index) /\ ToSet(new) = ToSet(list) \cup {x} /\ IsInjective(new)
        /\ Len(new) = Len(list) + 1
    <3>1. x \notin ToSet(list)
      BY <1>4
    <3>2. Len(Append(list, x)) = Len(list) + 1
      BY <1>2, <1>3
    <3>3. QED
      BY <1>2, <1>3, <2>1, <3>1, <3>2, SetOfAppend
  <2> HIDE DEF new
  <2>3. Len(new) <= text.count
    BY <1>3, <1>5, <1>8, <2>2
  <2>4. \A i \in ToSet(new) : \E m \in 1 .. k + 1 : i = order[m]
    BY <1>1, <2>2 DEF TakenSoFar
  <2>5. \A t \in ToSet(list) : ~TooSimilar(x, {t}) /\ ~TooSimilar(t, {x})
    <3>1. \A t \in ToSet(list) : ~TooSimilar(x, {t})
      BY <1>8 DEF TooSimilar
    <3>2. QED
      BY <1>2, <1>3, <1>6, <3>1
  <2>6. \A i, j \in ToSet(new) : i # j => ~TooSimilar(i, {j})
    BY <2>2, <2>5 DEF TakenSoFar
  <2>7. ASSUME NEW m \in 1 .. k + 1, order[m] \notin ToSet(new)
        PROVE  TooSimilar(order[m], {t \in ToSet(new) : text.score[t] >= text.score[order[m]]})
    <3>1. m \in 1 .. k /\ order[m] \notin ToSet(list)
      BY <1>1, <2>2, <2>7
    <3>2. TooSimilar(order[m], {t \in ToSet(list) : text.score[t] >= text.score[order[m]]})
      BY <1>3, <1>5, <1>8, <3>1 DEF TakenSoFar
    <3>3. QED
      BY <2>2, <3>2 DEF TooSimilar
  <2>8. QED
    <3>1. TakenSoFar(k + 1, new, order)
      BY <2>2, <2>3, <2>4, <2>6, <2>7 DEF TakenSoFar
    <3>2. QED
      BY <3>1 DEF new
<1>9. QED
  BY <1>7, <1>8

\* All of them.
LEMMA TakenFromIs ==
  ASSUME text \in Input, NEW n \in Nat, NEW order, ByScore(order, n)
  PROVE  TakenSoFar(n, TakenFrom(order), order)
<1> DEFINE V == Seq(Index)
           step == [k \in 1 .. n |-> [list \in V |-> Take(list, order[k])]]
           R(f) == [k \in 0 .. n |-> IF k = 0 THEN << >> ELSE Take(f[k - 1], order[k])]
           W == CHOOSE f : f = R(f)
<1>0. /\ order \in Seq(Index) /\ Len(order) = n /\ order \in [1 .. n -> Index]
  BY DEF ByScore
<1>1. TakenFrom(order) = W[n]
  BY <1>0 DEF TakenFrom
<1>2. \A k \in 1 .. n : \A list \in V : Take(list, order[k]) \in V
  <2> SUFFICES ASSUME NEW k \in 1 .. n, NEW list \in V PROVE Take(list, order[k]) \in V
    OBVIOUS
  <2>1. order[k] \in Index
    BY <1>0
  <2>2. QED
    BY <2>1 DEF Take
<1> HIDE DEF V
<1>3. step \in StepsOn(n, V) /\ \A k \in 1 .. n : \A list \in V : step[k][list] = Take(list, order[k])
  BY <1>2 DEF StepsOn
<1> HIDE DEF step
<1>4. PICK f : Recursion(f, n, V, << >>, step)
  <2>1. << >> \in V
    BY DEF V
  <2>2. QED
    BY <1>3, <2>1, RecursionExists
<1>5. f \in [0 .. n -> V] /\ f[0] = << >> /\ \A k \in 1 .. n : f[k] = Take(f[k - 1], order[k])
  <2>1. \A i \in 1 .. n : i - 1 \in 0 .. n
    OBVIOUS
  <2>2. f \in [0 .. n -> V] /\ f[0] = << >> /\ \A i \in 1 .. n : f[i] = step[i][f[i - 1]]
    BY <1>4 DEF Recursion
  <2>3. \A i \in 1 .. n : f[i - 1] \in V
    BY <2>1, <2>2
  <2>4. QED
    BY <1>3, <2>2, <2>3
<1>6. f = R(f)
  <2>1. \A i \in 0 .. n : i # 0 => i \in 1 .. n
    OBVIOUS
  <2>2. QED
    BY <1>5, <2>1
<1>7. W = R(W)
  BY <1>6
<1> HIDE DEF W
<1>8. W[0] = << >> /\ \A k \in 1 .. n : W[k] = Take(W[k - 1], order[k])
  <2>1. 0 \in 0 .. n /\ \A i \in 1 .. n : i # 0 /\ i \in 0 .. n
    OBVIOUS
  <2>2. \A i \in 0 .. n : W[i] = R(W)[i]
    BY <1>7
  <2>3. QED
    BY <2>1, <2>2
<1> DEFINE S == {k \in Nat : k <= n => TakenSoFar(k, W[k], order)}
<1>9. 0 \in S
  <2>1. TakenSoFar(0, << >>, order)
    <3>1. ToSet(<< >>) = {} /\ Len(<< >>) = 0 /\ << >> \in Seq(Index) /\ IsInjective(<< >>)
      BY DEF ToSet, IsInjective
    <3>2. \A m \in 1 .. 0 : FALSE
      OBVIOUS
    <3>3. text.count \in Nat
      BY TextIs
    <3>4. QED
      BY <3>1, <3>2, <3>3 DEF TakenSoFar
  <2>2. QED
    BY <1>8, <2>1
<1>10. ASSUME NEW k \in Nat, k \in S PROVE k + 1 \in S
  <2> SUFFICES ASSUME k + 1 <= n PROVE TakenSoFar(k + 1, W[k + 1], order)
    OBVIOUS
  <2>1. k + 1 \in 1 .. n /\ (k + 1) - 1 = k /\ TakenSoFar(k, W[k], order)
    BY <1>10
  <2>2. W[k + 1] = Take(W[k], order[k + 1])
    BY <1>8, <2>1
  <2>3. QED
    BY <2>1, <2>2, TakeOne
<1>11. n \in S
  <2> HIDE DEF S
  <2>1. QED
    BY <1>9, <1>10, SetInduction
<1>12. QED
  BY <1>1, <1>11

\* What extract_takeaways returns.
LEMMA TakeawaysFound ==
  ASSUME text \in Input
  PROVE  LET list == Ascending(ToSet(TakenFrom(Descending(text.score)))) IN
         /\ list \in Seq(Index) /\ IsInjective(list) /\ Len(list) <= text.count
         /\ \A i, j \in ToSet(list) : i # j => ~TooSimilar(i, {j})
         /\ \A i \in Index \ ToSet(list) :
               \/ TooSimilar(i, {t \in ToSet(list) : text.score[t] >= text.score[i]})
               \/ /\ Len(list) = text.count
                  /\ \A t \in ToSet(list) : text.score[t] >= text.score[i]
<1>1. PICK order : order = Descending(text.score)
  OBVIOUS
<1>2. PICK n \in Nat : n = Cardinality(Index)
  BY TextIs, FS_CardinalityType
<1>3. /\ order \in [1 .. n -> Index] /\ \A x \in Index : \E k \in 1 .. n : order[k] = x
      /\ \A i, j \in 1 .. n : i < j =>
            \/ text.score[order[i]] > text.score[order[j]]
            \/ text.score[order[i]] = text.score[order[j]] /\ order[i] > order[j]
  <2>1. Index \in SUBSET Nat /\ IsFiniteSet(Index) /\ text.score \in [Index -> Int]
    BY TextIs
  <2>2. QED
    BY <1>1, <1>2, <2>1, DescendingIs
<1>4. ByScore(order, n)
  <2> SUFFICES ASSUME NEW i \in 1 .. n, NEW j \in 1 .. n, i < j
               PROVE  order[i] # order[j] /\ text.score[order[i]] >= text.score[order[j]]
    BY <1>3 DEF ByScore
  <2>1. order[i] \in Nat /\ order[j] \in Nat /\ text.score[order[i]] \in Int /\ text.score[order[j]] \in Int
    BY <1>3, TextIs, ScaleAssumption
  <2>2. \/ text.score[order[i]] > text.score[order[j]]
        \/ text.score[order[i]] = text.score[order[j]] /\ order[i] > order[j]
    BY <1>3
  <2>3. QED
    BY <2>1, <2>2
<1>5. PICK taken : taken = TakenFrom(order)
  OBVIOUS
<1>6. TakenSoFar(n, taken, order)
  BY <1>4, <1>5, TakenFromIs
<1>7. PICK T : T = ToSet(taken)
  OBVIOUS
<1>8. /\ taken \in Seq(Index) /\ T \in SUBSET Index /\ IsFiniteSet(T) /\ Cardinality(T) = Len(taken)
      /\ Len(taken) <= text.count /\ Cardinality(T) \in Nat
  BY <1>6, <1>7, SetOfList DEF TakenSoFar
<1>9. PICK list : list = Ascending(T)
  OBVIOUS
<1>10. /\ list \in [1 .. Cardinality(T) -> T] /\ \A x \in T : \E k \in 1 .. Cardinality(T) : list[k] = x
       /\ \A i, j \in 1 .. Cardinality(T) : i < j => list[i] < list[j]
  BY <1>8, <1>9, TextIs, AscendingIs
<1>11. list \in Seq(Index) /\ Len(list) = Len(taken) /\ DOMAIN list = 1 .. Len(taken)
  BY <1>8, <1>10
<1>12. IsInjective(list)
  <2> SUFFICES ASSUME NEW i \in 1 .. Len(taken), NEW j \in 1 .. Len(taken), list[i] = list[j]
               PROVE  i = j
    BY <1>11 DEF IsInjective
  <2>1. list[i] \in Nat /\ list[j] \in Nat
    BY <1>8, <1>10, TextIs
  <2>2. ~(i < j) /\ ~(j < i)
    BY <1>8, <1>10, <2>1
  <2>3. QED
    BY <1>8, <2>2
<1>13. ToSet(list) = T
  BY <1>8, <1>10, <1>11 DEF ToSet
<1>14. \A i, j \in T : i # j => ~TooSimilar(i, {j})
  BY <1>6, <1>7 DEF TakenSoFar
<1>15. \A i \in Index \ T :
          \/ TooSimilar(i, {t \in T : text.score[t] >= text.score[i]})
          \/ Len(taken) = text.count /\ \A t \in T : text.score[t] >= text.score[i]
  <2> SUFFICES ASSUME NEW i \in Index, i \notin T
               PROVE  \/ TooSimilar(i, {t \in T : text.score[t] >= text.score[i]})
                      \/ /\ Len(taken) = text.count
                         /\ \A t \in T : text.score[t] >= text.score[i]
    OBVIOUS
  <2>1. PICK k \in 1 .. n : order[k] = i
    BY <1>3
  <2>2. order[k] \notin ToSet(taken)
    BY <1>7, <2>1
  <2>3. \/ TooSimilar(order[k], {t \in ToSet(taken) : text.score[t] >= text.score[order[k]]})
        \/ /\ Len(taken) = text.count
           /\ \A t \in ToSet(taken) : text.score[t] >= text.score[order[k]]
    BY <1>6, <2>2 DEF TakenSoFar
  <2>4. QED
    BY <1>7, <2>1, <2>3
<1>16. Ascending(ToSet(TakenFrom(Descending(text.score)))) = list
  BY <1>1, <1>5, <1>7, <1>9
<1>17. QED
  BY <1>8, <1>11, <1>12, <1>13, <1>14, <1>15, <1>16

-----------------------------------------------------------------------------
(***************************************************************************)
(* The invariant.                                                          *)
(***************************************************************************)

Covered(i) == \E j \in ToSet(picked) : cluster[j] = cluster[i]

\* A topic is left out only for topics whose best sentence is as good.
TopicsAreSound ==
    \A i \in Index : (\A j \in ToSet(picked) : cluster[j] # cluster[i]) =>
        \A j \in ToSet(picked) :
           /\ text.score[j] >= text.score[i]
           /\ \A k \in ToSet(picked) : cluster[j] = cluster[k] => j = k

BudgetUsed == WordsOf(picked) >= text.target

\* What each phase leaves to the next one.  In phase 1, what was selected and what
\* is still to come are the best sentences of the clusters, in their order.
SelectIInv ==
    /\ SelectTypeOK
    /\ stage = "clusters" => queue = << >> /\ picked = << >>
    /\ stage = "cover" => picked \o queue = ClusterBest(cluster)
    /\ picked # << >> => WordsOf(Front(picked)) < text.target
    /\ stage \in {"fill", "takeaways", "done"} =>
          TopicsAreSound /\ (BudgetUsed \/ \A i \in Index : Covered(i))
    /\ stage \in {"takeaways", "done"} => BudgetUsed \/ Remaining = {}
    /\ stage = "done" => TakeawaysAreSound

-----------------------------------------------------------------------------
(***************************************************************************)
(* Lists taken apart.                                                      *)
(***************************************************************************)

LEMMA BothInjective ==
  ASSUME NEW S, NEW p \in Seq(S), NEW q \in Seq(S), IsInjective(p \o q)
  PROVE  IsInjective(p) /\ IsInjective(q)
<1> DEFINE all == p \o q
           m == Len(p)
           n == Len(q)
<1>1. /\ m \in Nat /\ n \in Nat /\ all \in Seq(S) /\ Len(all) = m + n
      /\ \A i \in 1 .. m + n : all[i] = IF i <= m THEN p[i] ELSE q[i - m]
  BY ConcatProperties
<1>2. DOMAIN p = 1 .. m /\ DOMAIN q = 1 .. n /\ DOMAIN all = 1 .. m + n
  BY <1>1
<1> HIDE DEF all, m, n
<1>3. \A i, j \in 1 .. m + n : all[i] = all[j] => i = j
  BY <1>2 DEF IsInjective, all
<1>4. ASSUME NEW i \in 1 .. m, NEW j \in 1 .. m, p[i] = p[j] PROVE i = j
  <2>1. i \in 1 .. m + n /\ j \in 1 .. m + n /\ all[i] = p[i] /\ all[j] = p[j]
    BY <1>1
  <2>2. QED
    BY <1>3, <1>4, <2>1
<1>5. ASSUME NEW i \in 1 .. n, NEW j \in 1 .. n, q[i] = q[j] PROVE i = j
  <2>1. /\ m + i \in 1 .. m + n /\ m + j \in 1 .. m + n
        /\ ~(m + i <= m) /\ ~(m + j <= m) /\ (m + i) - m = i /\ (m + j) - m = j
    BY <1>1
  <2>2. all[m + i] = q[i] /\ all[m + j] = q[j]
    BY <1>1, <2>1
  <2>3. m + i = m + j
    BY <1>3, <1>5, <2>1, <2>2
  <2>4. QED
    BY <1>1, <2>3
<1>6. QED
  BY <1>2, <1>4, <1>5 DEF IsInjective

\* The first of the second list goes to the end of the first.
LEMMA MovedOver ==
  ASSUME NEW S, NEW p \in Seq(S), NEW q \in Seq(S), q # << >>
  PROVE  /\ Head(q) \in S /\ Tail(q) \in Seq(S)
         /\ Append(p, Head(q)) \o Tail(q) = p \o q
<1>1. /\ Head(q) \in S /\ Tail(q) \in Seq(S) /\ Len(q) \in Nat \ {0} /\ Head(q) = q[1]
      /\ Len(Tail(q)) = Len(q) - 1 /\ \A i \in 1 .. Len(q) - 1 : Tail(q)[i] = q[i + 1]
  BY HeadTailProperties, EmptySeq
<1>2. PICK x, t, m, n : x = Head(q) /\ t = Tail(q) /\ m = Len(p) /\ n = Len(q)
  OBVIOUS
<1>3. PICK a : a = Append(p, x)
  OBVIOUS
<1>4. /\ a \in Seq(S) /\ Len(a) = m + 1 /\ a[m + 1] = x /\ \A i \in 1 .. m : a[i] = p[i]
      /\ m \in Nat
  BY <1>1, <1>2, <1>3
<1>5. /\ a \o t \in Seq(S) /\ Len(a \o t) = Len(a) + Len(t)
      /\ \A i \in 1 .. Len(a) + Len(t) : (a \o t)[i] = IF i <= Len(a) THEN a[i] ELSE t[i - Len(a)]
  BY <1>1, <1>2, <1>4, ConcatProperties
<1>6. /\ p \o q \in Seq(S) /\ Len(p \o q) = m + n
      /\ \A i \in 1 .. m + n : (p \o q)[i] = IF i <= m THEN p[i] ELSE q[i - m]
  BY <1>2, ConcatProperties
<1>7. Len(a) + Len(t) = m + n /\ n \in Nat \ {0}
  BY <1>1, <1>2, <1>4
<1>8. PICK u, v : u = a \o t /\ v = p \o q
  OBVIOUS
<1>9. ASSUME NEW i \in 1 .. m + n PROVE u[i] = v[i]
  <2>1. u[i] = IF i <= m + 1 THEN a[i] ELSE t[i - (m + 1)]
    BY <1>4, <1>5, <1>7, <1>8
  <2>2. v[i] = IF i <= m THEN p[i] ELSE q[i - m]
    BY <1>6, <1>8
  <2>3. CASE i <= m
    <3>1. i \in 1 .. m /\ i <= m + 1
      BY <1>4, <2>3
    <3>2. QED
      BY <1>4, <2>1, <2>2, <2>3, <3>1
  <2>4. CASE i = m + 1
    <3>1. ~(i <= m) /\ i <= m + 1 /\ i - m = 1
      BY <1>4, <2>4
    <3>2. QED
      BY <1>1, <1>2, <1>4, <2>1, <2>2, <2>4, <3>1
  <2>5. CASE i > m + 1
    <3>1. /\ ~(i <= m) /\ ~(i <= m + 1) /\ i - (m + 1) \in 1 .. n - 1
          /\ (i - (m + 1)) + 1 = i - m
      BY <1>4, <1>7, <2>5
    <3>2. t[i - (m + 1)] = q[(i - (m + 1)) + 1]
      BY <1>1, <1>2, <3>1
    <3>3. QED
      BY <2>1, <2>2, <3>1, <3>2
  <2>6. QED
    BY <1>4, <1>7, <2>3, <2>4, <2>5
<1>10. u = v
  <2>1. u \in Seq(S) /\ v \in Seq(S) /\ Len(u) = m + n /\ Len(v) = m + n
    BY <1>5, <1>6, <1>7, <1>8
  <2>2. QED
    BY <1>9, <2>1, SeqEqual
<1>11. QED
  BY <1>1, <1>2, <1>3, <1>8, <1>10

-----------------------------------------------------------------------------
(***************************************************************************)
(* The phases.                                                             *)
(***************************************************************************)

\* The best of the clusters are different sentences.
LEMMA BestInjective ==
  ASSUME NEW q, NEW of, BestOfEach(q, of)
  PROVE  q \in Seq(Index) /\ IsInjective(q)
<1>1. q \in Seq(Index) /\ Len(q) \in Nat /\ DOMAIN q = 1 .. Len(q)
  BY DEF BestOfEach
<1>2. ASSUME NEW i \in 1 .. Len(q), NEW j \in 1 .. Len(q), q[i] = q[j], i # j PROVE FALSE
  <2>1. i < j \/ j < i
    BY <1>2
  <2>2. QED
    BY <1>2, <2>1 DEF BestOfEach
<1>3. QED
  BY <1>1, <1>2 DEF IsInjective

\* At the end of phase 1 only worse topics are left out.
LEMMA TopicsTaken ==
  ASSUME text \in Input, picked \in Seq(Index), queue \in Seq(Index),
         BestOfEach(picked \o queue, cluster)
  PROVE  TopicsAreSound /\ (queue = << >> => \A i \in Index : Covered(i))
<1>1. PICK m, n, all : m = Len(picked) /\ n = Len(queue) /\ all = picked \o queue
  OBVIOUS
<1>2. /\ m \in Nat /\ n \in Nat /\ Len(all) = m + n
      /\ \A i \in 1 .. m + n : all[i] = IF i <= m THEN picked[i] ELSE queue[i - m]
  BY <1>1, ConcatProperties
<1>3. /\ all \in Seq(Index)
      /\ \A i, j \in 1 .. m + n : i < j => /\ cluster[all[i]] # cluster[all[j]]
                                           /\ text.score[all[i]] >= text.score[all[j]]
      /\ \A i \in Index : \E k \in 1 .. m + n :
            cluster[all[k]] = cluster[i] /\ text.score[all[k]] >= text.score[i]
  <2>1. BestOfEach(all, cluster)
    BY <1>1
  <2>2. PICK l : l = Len(all) /\ l = m + n
    BY <1>2
  <2>3. QED
    BY <2>1, <2>2 DEF BestOfEach
<1>4. ASSUME NEW j \in ToSet(picked)
      PROVE  \E k \in 1 .. m : k \in 1 .. m + n /\ all[k] = j
  <2>1. PICK k \in 1 .. m : picked[k] = j
    BY <1>1 DEF ToSet
  <2>2. k \in 1 .. m + n /\ k <= m
    BY <1>2
  <2>3. QED
    BY <1>2, <2>1, <2>2
<1>5. \A k \in 1 .. m : picked[k] \in ToSet(picked) /\ all[k] = picked[k]
  <2>1. \A k \in 1 .. m : k \in 1 .. m + n /\ k <= m
    BY <1>2
  <2>2. QED
    BY <1>1, <1>2, <2>1 DEF ToSet
<1>6. ASSUME NEW j \in ToSet(picked), NEW k \in ToSet(picked), cluster[j] = cluster[k]
      PROVE  j = k
  <2>1. PICK a \in 1 .. m + n : all[a] = j
    BY <1>4
  <2>2. PICK b \in 1 .. m + n : all[b] = k
    BY <1>4
  <2>3. ~(a < b) /\ ~(b < a)
    BY <1>3, <1>6, <2>1, <2>2
  <2>4. a = b
    BY <2>3
  <2>5. QED
    BY <2>1, <2>2, <2>4
<1>7. ASSUME NEW i \in Index, \A j \in ToSet(picked) : cluster[j] # cluster[i],
             NEW j \in ToSet(picked)
      PROVE  text.score[j] >= text.score[i]
  <2>1. PICK b \in 1 .. m + n : cluster[all[b]] = cluster[i] /\ text.score[all[b]] >= text.score[i]
    BY <1>3
  <2>2. b \notin 1 .. m
    BY <1>5, <1>7, <2>1
  <2>3. PICK a \in 1 .. m : a \in 1 .. m + n /\ all[a] = j
    BY <1>4
  <2>4. a < b
    BY <1>2, <2>2
  <2>5. text.score[j] >= text.score[all[b]]
    BY <1>3, <2>3, <2>4
  <2>6. all[b] \in Index
    BY <1>2, <1>3
  <2>7. text.score[j] \in Int /\ text.score[all[b]] \in Int /\ text.score[i] \in Int
    <3>1. j \in Index
      BY SetOfList
    <3>2. QED
      BY <2>6, <3>1, TextIs, ScaleAssumption
  <2>8. QED
    BY <2>1, <2>5, <2>7
<1>8. ASSUME queue = << >>, NEW i \in Index PROVE Covered(i)
  <2>1. n = 0
    BY <1>1, <1>8
  <2>2. PICK k \in 1 .. m : cluster[all[k]] = cluster[i]
    BY <1>2, <1>3, <2>1
  <2>3. QED
    BY <1>5, <2>2 DEF Covered
<1>9. QED
  BY <1>6, <1>7, <1>8 DEF TopicsAreSound

\* The words and the best of the clusters, for the text of this state and of the next.
WordsIn(t, s) ==
    LET upTo[i \in 0 .. Len(s)] == IF i = 0 THEN 0 ELSE upTo[i - 1] + t.length[s[i]]
    IN upTo[Len(s)]

BestIn(t, of) ==
    LET used == {of[i] : i \in Index}
        best(c) == FirstMax([i \in Members(c, of) |-> t.score[i]])
        order == Descending([c \in used |-> t.score[best(c)]])
    IN [k \in DOMAIN order |-> best(order[k])]

LEMMA WordsNow == WordsOf(picked) = WordsIn(text, picked)
                  /\ WordsOf(Front(picked)) = WordsIn(text, Front(picked))
  BY DEF WordsOf, WordsIn

LEMMA WordsNext == WordsOf(picked)' = WordsIn(text', picked')
                   /\ WordsOf(Front(picked))' = WordsIn(text', Front(picked'))
  BY DEF WordsOf, WordsIn

LEMMA BestNow == ClusterBest(cluster) = BestIn(text, cluster)
  BY DEF ClusterBest, BestIn

LEMMA BestLater == ClusterBest(cluster)' = BestIn(text', cluster')
                   /\ ClusterBest(cluster') = BestIn(text, cluster')
  BY DEF ClusterBest, BestIn

\* Steps that leave the text and what was selected.
LEMMA SamePicked ==
  ASSUME text' = text, picked' = picked
  PROVE  /\ WordsOf(picked)' = WordsOf(picked) /\ WordsOf(Front(picked))' = WordsOf(Front(picked))
         /\ BudgetUsed' = BudgetUsed /\ Remaining' = Remaining
<1>1. WordsOf(picked)' = WordsOf(picked) /\ WordsOf(Front(picked))' = WordsOf(Front(picked))
  BY WordsNow, WordsNext
<1>2. Remaining' = Remaining
  BY DEF Remaining
<1>3. QED
  BY <1>1, <1>2 DEF BudgetUsed

LEMMA InitHolds == SelectInit => SelectIInv
<1> SUFFICES ASSUME SelectInit PROVE SelectIInv
  OBVIOUS
<1>1. /\ text \in Input /\ stage = "clusters" /\ queue = << >> /\ picked = << >> /\ takeaways = << >>
      /\ cluster = [i \in Index |-> i]
  BY DEF SelectInit
<1>2. << >> \in Seq(Index) /\ IsInjective(<< >>)
  BY DEF IsInjective
<1>3. cluster \in [Index -> 1 .. Sentences]
  BY <1>1 DEF Index
<1>4. SelectTypeOK
  BY <1>1, <1>2, <1>3 DEF SelectTypeOK
<1>5. QED
  BY <1>1, <1>4 DEF SelectIInv

LEMMA Types ==
  ASSUME SelectIInv
  PROVE  /\ text \in Input /\ cluster \in [Index -> 1 .. Sentences]
         /\ stage \in {"clusters", "cover", "fill", "takeaways", "done"}
         /\ queue \in Seq(Index) /\ picked \in Seq(Index) /\ takeaways \in Seq(Index)
         /\ IsInjective(queue) /\ IsInjective(picked) /\ IsInjective(takeaways)
         /\ WordsOf(picked) \in Nat /\ text.target \in Nat
<1>1. \A s \in {queue, picked, takeaways} : s \in Seq(Index) /\ IsInjective(s)
  BY DEF SelectIInv, SelectTypeOK
<1>2. /\ queue \in Seq(Index) /\ picked \in Seq(Index) /\ takeaways \in Seq(Index)
      /\ IsInjective(queue) /\ IsInjective(picked) /\ IsInjective(takeaways)
  BY <1>1
<1>3. /\ text \in Input /\ cluster \in [Index -> 1 .. Sentences]
      /\ stage \in {"clusters", "cover", "fill", "takeaways", "done"}
  BY DEF SelectIInv, SelectTypeOK
<1>4. QED
  BY <1>2, <1>3, WordsOfAny, TextIs

\* Phase 0.
LEMMA ClusterStep ==
  ASSUME SelectIInv, Cluster
  PROVE  SelectIInv'
<1>1. /\ stage = "clusters" /\ stage' = "cover" /\ cluster' = _cluster_sentences
      /\ queue' = ClusterBest(cluster')
      /\ text' = text /\ picked' = picked /\ takeaways' = takeaways /\ picked = << >>
  BY DEF Cluster, SelectIInv
<1>2. cluster' \in [Index -> 1 .. Sentences]
  BY <1>1, Types, ClusterType
<1>3. queue' \in Seq(Index) /\ IsInjective(queue')
  <2>1. PICK of \in [Index -> 1 .. Sentences] : of = cluster'
    BY <1>2
  <2>2. PICK q : q = ClusterBest(of)
    OBVIOUS
  <2>3. q \in Seq(Index) /\ IsInjective(q)
    BY <2>2, Types, ClusterBestIs, BestInjective
  <2>4. queue' = q
    BY <1>1, <2>1, <2>2
  <2>5. QED
    BY <2>3, <2>4
<1>4. SelectTypeOK'
  <2>1. \A s \in {queue', picked', takeaways'} : s \in Seq(Index) /\ IsInjective(s)
    BY <1>1, <1>3, Types
  <2>2. text' \in Input /\ stage' \in {"clusters", "cover", "fill", "takeaways", "done"}
    BY <1>1, Types
  <2>3. QED
    BY <1>2, <2>1, <2>2 DEF SelectTypeOK
<1>5. (picked \o queue)' = ClusterBest(cluster)'
  <2>1. ClusterBest(cluster)' = queue'
    BY <1>1, BestLater
  <2>2. << >> \o queue' = queue'
    BY <1>3
  <2>3. QED
    BY <1>1, <2>1, <2>2
<1>6. QED
  BY <1>1, <1>4, <1>5 DEF SelectIInv

\* Phase 1.
LEMMA CoverStep ==
  ASSUME SelectIInv, Cover
  PROVE  SelectIInv'
<1>1. /\ stage = "cover" /\ text' = text /\ cluster' = cluster /\ takeaways' = takeaways
      /\ picked \o queue = ClusterBest(cluster)
  BY DEF Cover, SelectIInv
<1>2. BestOfEach(picked \o queue, cluster)
  BY <1>1, Types, ClusterBestIs
<1>3. CASE CoverOver
  <2>1. stage' = "fill" /\ queue' = queue /\ picked' = picked
    BY <1>3 DEF Cover
  <2>2. SelectTypeOK'
    <3>1. \A s \in {queue', picked', takeaways'} : s \in Seq(Index) /\ IsInjective(s)
      BY <1>1, <2>1, Types
    <3>2. QED
      BY <1>1, <2>1, <3>1, Types DEF SelectTypeOK
  <2>3. TopicsAreSound /\ (queue = << >> => \A i \in Index : Covered(i))
    BY <1>2, Types, TopicsTaken
  <2>4. TopicsAreSound /\ (BudgetUsed \/ \A i \in Index : Covered(i))
    BY <1>3, <2>3 DEF CoverOver, BudgetUsed
  <2>5. TopicsAreSound' /\ (BudgetUsed' \/ \A i \in Index : Covered(i)')
    <3>1. BudgetUsed' = BudgetUsed
      BY <1>1, <2>1, SamePicked
    <3>2. TopicsAreSound' = TopicsAreSound /\ \A i \in Index : Covered(i)' = Covered(i)
      BY <1>1, <2>1 DEF TopicsAreSound, Covered
    <3>3. QED
      BY <2>4, <3>1, <3>2
  <2>6. picked' # << >> => WordsOf(Front(picked))' < text'.target
    <3>1. picked # << >> => WordsOf(Front(picked)) < text.target
      BY DEF SelectIInv
    <3>2. WordsOf(Front(picked))' = WordsOf(Front(picked))
      BY <1>1, <2>1, SamePicked
    <3>3. QED
      BY <1>1, <2>1, <3>1, <3>2
  <2>7. QED
    BY <2>1, <2>2, <2>5, <2>6 DEF SelectIInv
<1>4. CASE ~CoverOver
  <2>1. /\ stage' = "cover" /\ picked' = Append(picked, Head(queue)) /\ queue' = Tail(queue)
    BY <1>1, <1>4 DEF Cover
  <2>2. queue # << >> /\ ~(WordsOf(picked) >= text.target)
    BY <1>4 DEF CoverOver
  <2>3. /\ Head(queue) \in Index /\ Tail(queue) \in Seq(Index)
        /\ Append(picked, Head(queue)) \o Tail(queue) = picked \o queue
    BY <2>2, Types, MovedOver
  <2>4. /\ picked' \in Seq(Index) /\ Front(picked') = picked
    BY <2>1, <2>3, Types, SetOfAppend
  <2>5. IsInjective(picked \o queue)
    BY <1>2, BestInjective
  <2>6. IsInjective(picked') /\ IsInjective(queue') /\ queue' \in Seq(Index)
    <3>1. PICK p \in Seq(Index), q \in Seq(Index) : p = picked' /\ q = queue'
      BY <2>1, <2>3, <2>4
    <3>2. p \o q = picked \o queue
      BY <2>1, <2>3, <3>1
    <3>3. IsInjective(p) /\ IsInjective(q)
      BY <2>5, <3>2, BothInjective
    <3>4. QED
      BY <3>1, <3>3
  <2>7. SelectTypeOK'
    <3>1. \A s \in {queue', picked', takeaways'} : s \in Seq(Index) /\ IsInjective(s)
      BY <1>1, <2>4, <2>6, Types
    <3>2. QED
      BY <1>1, <2>1, <3>1, Types DEF SelectTypeOK
  <2>8. (picked \o queue)' = ClusterBest(cluster)'
    <3>1. ClusterBest(cluster)' = ClusterBest(cluster)
      BY <1>1, BestNow, BestLater
    <3>2. (picked \o queue)' = picked \o queue
      BY <2>1, <2>3
    <3>3. QED
      BY <1>1, <3>1, <3>2
  <2>9. picked' # << >> => WordsOf(Front(picked))' < text'.target
    <3>1. WordsOf(Front(picked))' = WordsIn(text, picked)
      BY <1>1, <2>4, WordsNext
    <3>2. WordsOf(picked) < text.target
      BY <2>2, Types
    <3>3. QED
      BY <1>1, <3>1, <3>2, WordsNow
  <2>10. QED
    BY <2>1, <2>7, <2>8, <2>9 DEF SelectIInv
<1>5. QED
  BY <1>3, <1>4

\* Phase 2.
LEMMA FillStep ==
  ASSUME SelectIInv, Fill
  PROVE  SelectIInv'
<1>1. /\ stage = "fill" /\ text' = text /\ cluster' = cluster /\ takeaways' = takeaways
      /\ queue' = queue
  BY DEF Fill
<1>2. TopicsAreSound /\ (BudgetUsed \/ \A i \in Index : Covered(i))
  BY <1>1 DEF SelectIInv
<1>3. CASE Remaining # {} /\ WordsOf(picked) < text.target
  <2>1. stage' = "fill" /\ picked' = Append(picked, FirstMax([i \in Remaining |-> MMR(i)]))
    BY <1>1, <1>3 DEF Fill
  <2>2. PICK x \in Index \ ToSet(picked) : x = FirstMax([i \in Remaining |-> MMR(i)])
    BY <1>3, Types, FillIs
  <2>3. /\ picked' \in Seq(Index) /\ ToSet(picked') = ToSet(picked) \cup {x}
        /\ IsInjective(picked') /\ Front(picked') = picked
    BY <2>1, <2>2, Types, SetOfAppend
  <2>4. SelectTypeOK'
    <3>1. \A s \in {queue', picked', takeaways'} : s \in Seq(Index) /\ IsInjective(s)
      BY <1>1, <2>3, Types
    <3>2. QED
      BY <1>1, <2>1, <3>1, Types DEF SelectTypeOK
  <2>5. \A i \in Index : Covered(i)
    <3>1. ~(WordsOf(picked) >= text.target)
      BY <1>3, Types
    <3>2. QED
      BY <1>2, <3>1 DEF BudgetUsed
  <2>6. \A i \in Index : Covered(i)'
    BY <1>1, <2>3, <2>5 DEF Covered
  <2>7. TopicsAreSound'
    BY <2>6 DEF TopicsAreSound, Covered
  <2>8. picked' # << >> => WordsOf(Front(picked))' < text'.target
    <3>1. WordsOf(Front(picked))' = WordsIn(text, picked)
      BY <1>1, <2>3, WordsNext
    <3>2. QED
      BY <1>1, <1>3, <3>1, WordsNow
  <2>9. QED
    BY <2>1, <2>4, <2>6, <2>7, <2>8 DEF SelectIInv
<1>4. CASE ~(Remaining # {} /\ WordsOf(picked) < text.target)
  <2>1. stage' = "takeaways" /\ picked' = picked
    BY <1>4 DEF Fill
  <2>2. SelectTypeOK'
    <3>1. \A s \in {queue', picked', takeaways'} : s \in Seq(Index) /\ IsInjective(s)
      BY <1>1, <2>1, Types
    <3>2. QED
      BY <1>1, <2>1, <3>1, Types DEF SelectTypeOK
  <2>3. BudgetUsed \/ Remaining = {}
    BY <1>4, Types DEF BudgetUsed
  <2>4. BudgetUsed' = BudgetUsed /\ Remaining' = Remaining
        /\ WordsOf(Front(picked))' = WordsOf(Front(picked))
    BY <1>1, <2>1, SamePicked
  <2>5. TopicsAreSound' = TopicsAreSound /\ \A i \in Index : Covered(i)' = Covered(i)
    BY <1>1, <2>1 DEF TopicsAreSound, Covered
  <2>6. picked' # << >> => WordsOf(Front(picked))' < text'.target
    BY <1>1, <2>1, <2>4 DEF SelectIInv
  <2>7. QED
    BY <1>2, <2>1, <2>2, <2>3, <2>4, <2>5, <2>6 DEF SelectIInv
<1>5. QED
  BY <1>3, <1>4

\* The takeaways.
LEMMA TakeawaysStep ==
  ASSUME SelectIInv, extract_takeaways
  PROVE  SelectIInv'
<1>1. /\ stage = "takeaways" /\ stage' = "done"
      /\ takeaways' = Ascending(ToSet(TakenFrom(Descending(text.score))))
      /\ text' = text /\ cluster' = cluster /\ queue' = queue /\ picked' = picked
  BY DEF extract_takeaways
<1>2. /\ takeaways' \in Seq(Index) /\ IsInjective(takeaways') /\ Len(takeaways') <= text.count
      /\ \A i, j \in ToSet(takeaways') : i # j => ~TooSimilar(i, {j})
      /\ \A i \in Index \ ToSet(takeaways') :
            \/ TooSimilar(i, {t \in ToSet(takeaways') : text.score[t] >= text.score[i]})
            \/ /\ Len(takeaways') = text.count
               /\ \A t \in ToSet(takeaways') : text.score[t] >= text.score[i]
  BY <1>1, Types, TakeawaysFound
<1>3. SelectTypeOK'
  <2>1. \A s \in {queue', picked', takeaways'} : s \in Seq(Index) /\ IsInjective(s)
    BY <1>1, <1>2, Types
  <2>2. QED
    BY <1>1, <2>1, Types DEF SelectTypeOK
<1>4. TakeawaysAreSound'
  <2>1. PICK new : new = takeaways'
    OBVIOUS
  <2>2. \A i, j : TooSimilar(i, {j})' <=> TooSimilar(i, {j})
    BY <1>1 DEF TooSimilar, Sim
  <2>3. Len(takeaways') <= text'.count /\ text'.count = text.count
    BY <1>1, <1>2
  <2>4. (\A i, j \in ToSet(takeaways) : i # j => ~TooSimilar(i, {j}))'
    BY <1>2, <2>2
  <2>5. ASSUME NEW i \in Index \ ToSet(new)
        PROVE  \/ TooSimilar(i, {t \in ToSet(takeaways) : text.score[t] >= text.score[i]})'
               \/ /\ Len(takeaways') = text'.count
                  /\ \A t \in ToSet(takeaways') : text'.score[t] >= text'.score[i]
    <3>1. CASE TooSimilar(i, {t \in ToSet(takeaways') : text.score[t] >= text.score[i]})
      <4>1. PICK t \in ToSet(takeaways') :
                /\ text.score[t] >= text.score[i] /\ 10 * Sim(i, t) > 6 * Scale
        BY <3>1 DEF TooSimilar
      <4>2. text'.score[t] >= text'.score[i] /\ (10 * Sim(i, t) > 6 * Scale)'
        BY <1>1, <4>1 DEF Sim
      <4>3. QED
        BY <4>1, <4>2 DEF TooSimilar
    <3>2. CASE /\ Len(takeaways') = text.count
               /\ \A t \in ToSet(takeaways') : text.score[t] >= text.score[i]
      BY <1>1, <3>2
    <3>3. QED
      BY <1>2, <2>1, <3>1, <3>2
  <2>6. QED
    BY <2>1, <2>3, <2>4, <2>5 DEF TakeawaysAreSound
<1>5. /\ TopicsAreSound /\ (BudgetUsed \/ \A i \in Index : Covered(i))
      /\ BudgetUsed \/ Remaining = {}
      /\ picked # << >> => WordsOf(Front(picked)) < text.target
  BY <1>1 DEF SelectIInv
<1>6. /\ BudgetUsed' = BudgetUsed /\ Remaining' = Remaining
      /\ WordsOf(Front(picked))' = WordsOf(Front(picked))
  BY <1>1, SamePicked
<1>7. TopicsAreSound' = TopicsAreSound /\ \A i \in Index : Covered(i)' = Covered(i)
  BY <1>1 DEF TopicsAreSound, Covered
<1>8. QED
  BY <1>1, <1>3, <1>4, <1>5, <1>6, <1>7 DEF SelectIInv

LEMMA RestingStep ==
  ASSUME SelectIInv, UNCHANGED selectVars
  PROVE  SelectIInv'
<1>1. /\ text' = text /\ stage' = stage /\ cluster' = cluster /\ queue' = queue /\ picked' = picked
      /\ takeaways' = takeaways
  BY DEF selectVars
<1>2. SelectTypeOK'
  BY <1>1 DEF SelectIInv, SelectTypeOK
<1>3. /\ BudgetUsed' = BudgetUsed /\ Remaining' = Remaining
      /\ WordsOf(Front(picked))' = WordsOf(Front(picked))
  BY <1>1, SamePicked
<1>4. TopicsAreSound' = TopicsAreSound /\ \A i \in Index : Covered(i)' = Covered(i)
  BY <1>1 DEF TopicsAreSound, Covered
<1>5. (picked \o queue)' = picked \o queue /\ ClusterBest(cluster)' = ClusterBest(cluster)
  BY <1>1, BestNow, BestLater
<1>6. TakeawaysAreSound' = TakeawaysAreSound
  BY <1>1 DEF TakeawaysAreSound, TooSimilar, Sim
<1>7. QED
  BY <1>1, <1>2, <1>3, <1>4, <1>5, <1>6 DEF SelectIInv

\* The phases keep the invariant.
LEMMA SelectInvariant == SelectSpec => []SelectIInv
<1>1. ASSUME SelectIInv, [SelectNext]_selectVars PROVE SelectIInv'
  <2>1. CASE Cluster
    BY <1>1, <2>1, ClusterStep
  <2>2. CASE Cover
    BY <1>1, <2>2, CoverStep
  <2>3. CASE Fill
    BY <1>1, <2>3, FillStep
  <2>4. CASE extract_takeaways
    BY <1>1, <2>4, TakeawaysStep
  <2>5. CASE UNCHANGED selectVars
    BY <1>1, <2>5, RestingStep
  <2>6. QED
    BY <1>1, <2>1, <2>2, <2>3, <2>4, <2>5 DEF SelectNext
<1>2. QED
  BY <1>1, InitHolds, PTL DEF SelectSpec

\* Clusters, lists and takeaways have their types, and no sentence is in a list twice.
THEOREM SelectTypes == SelectSpec => []SelectTypeOK
<1>1. SelectIInv => SelectTypeOK
  BY DEF SelectIInv
<1>2. QED
  BY <1>1, SelectInvariant, PTL

\* The summary and the takeaways are sound for every text, and so is the trimming
\* (summarize_extractive, _select_sentences_with_coverage, extract_takeaways).
THEOREM SelectionSound == SelectSpec => []SelectionIsSound
<1>1. SelectIInv => SelectionIsSound
  <2> SUFFICES ASSUME SelectIInv, stage = "done" PROVE SummaryIsSound /\ TakeawaysAreSound
    BY TrimSound DEF SelectionIsSound
  <2>1. /\ TopicsAreSound /\ (BudgetUsed \/ Remaining = {})
        /\ picked # << >> => WordsOf(Front(picked)) < text.target
        /\ TakeawaysAreSound
    BY DEF SelectIInv
  <2>2. QED
    BY <2>1 DEF SummaryIsSound, TopicsAreSound, BudgetUsed
<1>2. QED
  BY <1>1, SelectInvariant, PTL
=============================================================================
