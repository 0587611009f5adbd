----------------------------- MODULE FiniteSums -----------------------------
(***************************************************************************)
(* Sums over finite sets.  Budgets and rate windows count amounts over the *)
(* reservations and leases on record, with the library's MapThenSumSet;    *)
(* this module proves what such a recursion returns: a function that adds  *)
(* up weights element by element, in whichever order.  It also has that a  *)
(* finite set of numbers can be listed in ascending order.                 *)
(***************************************************************************)
EXTENDS Naturals, FiniteSets, FiniteSetTheorems, TLAPS

\* A set of numbers has a least one.
LEMMA LeastExists ==
    ASSUME NEW T, T \subseteq Nat, T # {}
    PROVE  \E m \in T : \A y \in T : m <= y
<1>1. PICK x \in T : \A y \in T : ~(<<y, x>> \in OpToRel(<, Nat))
  BY NatLessThanWellFounded, WFMin
<1>2. \A y \in T : x \in Nat /\ y \in Nat /\ ~(y < x)
  BY <1>1 DEF OpToRel
<1> QED BY <1>2

\* Induction over the numbers, for a set: WFMin gives the least one missing.
LEMMA CountingUp ==
    ASSUME NEW S, 0 \in S, \A n \in Nat : n \in S => n + 1 \in S
    PROVE  Nat \subseteq S
<1> SUFFICES ASSUME Nat \ S # {} PROVE FALSE
  OBVIOUS
<1> DEFINE T == Nat \ S
<1>1. PICK x \in T : \A y \in T : ~(<<y, x>> \in OpToRel(<, Nat))
  <2>1. T \subseteq Nat /\ T # {}
    OBVIOUS
  <2> HIDE DEF T
  <2> QED BY <2>1, NatLessThanWellFounded, WFMin
<1>2. x # 0 /\ x \in Nat
  OBVIOUS
<1>3. x - 1 \in Nat /\ x - 1 < x
  BY <1>2
<1>4. <<x - 1, x>> \in OpToRel(<, Nat)
  BY <1>2, <1>3 DEF OpToRel
<1>5. x - 1 \in S
  BY <1>1, <1>3, <1>4
<1> QED BY <1>5, <1>2, <1>3

\* A finite set of numbers can be put in order, and the order has all of them.
Ascends(s) == \A i, j \in DOMAIN s : i < j => s[i] < s[j]

LEMMA OrderExists ==
    ASSUME NEW C, C \subseteq Nat, IsFiniteSet(C)
    PROVE  \E s \in [1..Cardinality(C) -> C] : Ascends(s)
<1> DEFINE N == {n \in Nat : \A T \in SUBSET C : Cardinality(T) = n =>
                              \E s \in [1..n -> T] : Ascends(s)}
<1>1. \A T \in SUBSET C : IsFiniteSet(T) /\ Cardinality(T) \in Nat
  BY FS_Subset, FS_CardinalityType
<1>2. 0 \in N
  <2> SUFFICES ASSUME NEW T \in SUBSET C PROVE \E s \in [1..0 -> T] : Ascends(s)
    OBVIOUS
  <2>1. [i \in 1..0 |-> 0] \in [1..0 -> T] /\ Ascends([i \in 1..0 |-> 0])
    BY DEF Ascends
  <2> QED BY <2>1
<1>3. ASSUME NEW n \in Nat, n \in N PROVE n + 1 \in N
  <2> SUFFICES ASSUME NEW T \in SUBSET C, Cardinality(T) = n + 1
               PROVE  \E s \in [1..(n + 1) -> T] : Ascends(s)
    OBVIOUS
  <2>1. T # {} /\ T \subseteq Nat
    BY FS_EmptySet, <1>1
  <2>2. PICK m \in T : \A y \in T : m <= y
    BY <2>1, LeastExists
  <2>3. m \in Nat /\ \A y \in T \ {m} : m < y
    BY <2>1, <2>2
  <2>4. Cardinality(T \ {m}) = n
    BY <1>1, <2>1, FS_RemoveElement
  <2>5. PICK f \in [1..n -> T \ {m}] : Ascends(f)
    BY <1>3, <2>4
  <2> DEFINE g == [i \in 1..(n + 1) |-> IF i = 1 THEN m ELSE f[i - 1]]
  <2>6. \A i \in 2..(n + 1) : i - 1 \in 1..n /\ f[i - 1] \in T \ {m} /\ g[i] = f[i - 1]
    OBVIOUS
  <2>7. g \in [1..(n + 1) -> T]
    OBVIOUS
  <2>8. Ascends(g)
    <3> SUFFICES ASSUME NEW i \in 1..(n + 1), NEW j \in 1..(n + 1), i < j PROVE g[i] < g[j]
      BY DEF Ascends
    <3>1. j \in 2..(n + 1) /\ g[j] = f[j - 1] /\ f[j - 1] \in T \ {m} /\ j - 1 \in 1..n
      BY <2>6
    <3>2. CASE i = 1
      BY <2>3, <3>1, <3>2
    <3>3. CASE i # 1
      <4>1. i - 1 \in 1..n /\ g[i] = f[i - 1] /\ i - 1 < j - 1
        BY <2>6, <3>3
      <4> QED BY <2>5, <3>1, <4>1 DEF Ascends
    <3> QED BY <3>2, <3>3
  <2> QED BY <2>7, <2>8
<1>4. Nat \subseteq N
  <2> HIDE DEF N
  <2> QED BY <1>2, <1>3, CountingUp
<1> QED BY <1>1, <1>4

LEMMA OrderCovers ==
    ASSUME NEW C, C \subseteq Nat, IsFiniteSet(C), NEW s \in [1..Cardinality(C) -> C], Ascends(s)
    PROVE  \A c \in C : \E i \in 1..Cardinality(C) : s[i] = c
<1>1. Cardinality(C) \in Nat
  BY FS_CardinalityType
<1>2. IsFiniteSet(1..Cardinality(C)) /\ Cardinality(1..Cardinality(C)) = Cardinality(C)
  BY <1>1, FS_Interval
<1>3. ASSUME NEW i \in 1..Cardinality(C), NEW j \in 1..Cardinality(C), s[i] = s[j] PROVE i = j
  <2>1. s[i] \in Nat /\ s[j] \in Nat
    OBVIOUS
  <2> QED BY <1>1, <1>3, <2>1 DEF Ascends
<1>4. s \in Injection(1..Cardinality(C), C)
  BY <1>3 DEF Injection, IsInjective
<1>5. s \in Surjection(1..Cardinality(C), C)
  BY <1>2, <1>4, FS_Injection
<1> QED BY <1>5 DEF Surjection

\* A set with one element more than n.
LEMMA OneLess ==
    ASSUME NEW T, IsFiniteSet(T), NEW n \in Nat, Cardinality(T) = n + 1
    PROVE  T # {} /\ \A x \in T : Cardinality(T \ {x}) = n
<1>1. T # {}
  <2>1. Cardinality({}) = 0
    BY FS_EmptySet
  <2>2. n + 1 # 0
    OBVIOUS
  <2> QED BY <2>1, <2>2
<1>2. ASSUME NEW x \in T PROVE Cardinality(T \ {x}) = n
  <2>1. Cardinality(T \ {x}) = Cardinality(T) - 1
    BY FS_RemoveElement
  <2> QED BY <2>1
<1> QED BY <1>1, <1>2

\* Induction over the subsets of a finite set, one element at a time.
Grows(A, S) ==
    /\ {} \in A
    /\ \A T \in SUBSET S, x \in S : T \in A /\ x \notin T => T \cup {x} \in A

LEMMA AddingUp ==
    ASSUME NEW S, IsFiniteSet(S), NEW A, Grows(A, S)
    PROVE  S \in A
<1> DEFINE N == {n \in Nat : \A T \in SUBSET S : Cardinality(T) = n => T \in A}
<1>0. \A T \in SUBSET S : IsFiniteSet(T) /\ Cardinality(T) \in Nat
  BY FS_Subset, FS_CardinalityType
<1>1. 0 \in N
  BY <1>0, FS_EmptySet DEF Grows
<1>2. ASSUME NEW n \in Nat, n \in N PROVE n + 1 \in N
  <2> SUFFICES ASSUME NEW T \in SUBSET S, Cardinality(T) = n + 1 PROVE T \in A
    OBVIOUS
  <2>1. T # {}
    BY <1>0, OneLess
  <2>2. PICK x \in T : TRUE
    BY <2>1
  <2>3. T \ {x} \in SUBSET S /\ Cardinality(T \ {x}) = n
    BY <1>0, OneLess
  <2>4. T \ {x} \in A
    BY <1>2, <2>3
  <2>5. (T \ {x}) \cup {x} = T
    OBVIOUS
  <2> QED BY <2>3, <2>4, <2>5 DEF Grows
<1>3. Nat \subseteq N
  <2> HIDE DEF N
  <2> QED BY <1>1, <1>2, CountingUp
<1> QED BY <1>0, <1>3

\* g adds up the weights w of the subsets of S.
Adds(g, w, S) ==
    /\ g \in [SUBSET S -> Nat]
    /\ g[{}] = 0
    /\ \A x \in S : w[x] \in Nat
    /\ \A T \in SUBSET S : \A x \in T : g[T] = w[x] + g[T \ {x}]

\* One element more adds its weight.
LEMMA AddsOne ==
    ASSUME NEW S, NEW w, NEW g, Adds(g, w, S), NEW T \in SUBSET S, NEW x \in S, x \notin T
    PROVE  g[T \cup {x}] = w[x] + g[T] /\ w[x] \in Nat /\ g[T] \in Nat
<1>1. T \cup {x} \in SUBSET S /\ x \in T \cup {x} /\ (T \cup {x}) \ {x} = T
  OBVIOUS
<1> QED BY <1>1 DEF Adds

\* Every finite set of weights can be added up.
LEMMA AddsExists ==
    ASSUME NEW S, IsFiniteSet(S), NEW w, \A x \in S : w[x] \in Nat
    PROVE  \E g : Adds(g, w, S)
<1> DEFINE A == {T \in SUBSET S : \E g : Adds(g, w, T)}
<1>1. {} \in A
  <2> DEFINE g == [T \in SUBSET {} |-> 0]
  <2>1. Adds(g, w, {})
    BY DEF Adds
  <2> QED BY <2>1
<1>2. ASSUME NEW T \in SUBSET S, NEW x \in S, T \in A, x \notin T PROVE T \cup {x} \in A
  <2>1. PICK g : Adds(g, w, T)
    BY <1>2
  <2> DEFINE h == [U \in SUBSET (T \cup {x}) |-> IF x \in U THEN w[x] + g[U \ {x}] ELSE g[U]]
  <2>2. \A U \in SUBSET (T \cup {x}) : /\ U \ {x} \in SUBSET T
                                       /\ x \notin U => U \in SUBSET T
    OBVIOUS
  <2>3. g \in [SUBSET T -> Nat] /\ g[{}] = 0 /\ w[x] \in Nat
        /\ \A U \in SUBSET T : \A y \in U : g[U] = w[y] + g[U \ {y}] /\ w[y] \in Nat /\ g[U \ {y}] \in Nat
    BY <2>1 DEF Adds
  <2>4. h \in [SUBSET (T \cup {x}) -> Nat]
    BY <2>2, <2>3
  <2>5. h[{}] = 0
    BY <2>3
  <2>6. ASSUME NEW U \in SUBSET (T \cup {x}), NEW y \in U PROVE h[U] = w[y] + h[U \ {y}]
    <3>0. U \ {y} \in SUBSET (T \cup {x})
      OBVIOUS
    <3>1. CASE x \notin U
      <4>1. h[U] = g[U] /\ h[U \ {y}] = g[U \ {y}] /\ U \in SUBSET T
        BY <3>0, <3>1
      <4> QED BY <4>1, <2>3
    <3>2. CASE x \in U /\ y = x
      <4>1. h[U] = w[x] + g[U \ {x}] /\ h[U \ {y}] = g[U \ {x}]
        BY <3>0, <3>2
      <4> QED BY <4>1, <3>2
    <3>3. CASE x \in U /\ y # x
      <4> DEFINE V == U \ {x}
      <4>1. h[U] = w[x] + g[V] /\ h[U \ {y}] = w[x] + g[(U \ {y}) \ {x}]
        BY <3>0, <3>3
      <4>2. V \in SUBSET T /\ y \in V /\ (U \ {y}) \ {x} = V \ {y}
        BY <3>3
      <4>3. g[V] = w[y] + g[V \ {y}] /\ w[y] \in Nat /\ g[V \ {y}] \in Nat
        BY <4>2, <2>3
      <4> HIDE DEF V, h
      <4> QED BY <4>1, <4>2, <4>3, <2>3
    <3> QED BY <3>1, <3>2, <3>3
  <2>7. Adds(h, w, T \cup {x})
    <3> HIDE DEF h
    <3> QED BY <2>4, <2>5, <2>6 DEF Adds
  <2>8. T \cup {x} \in SUBSET S
    OBVIOUS
  <2> HIDE DEF h
  <2> QED BY <2>7, <2>8
<1>3. Grows(A, S)
  <2> HIDE DEF A
  <2> QED BY <1>1, <1>2 DEF Grows
<1>4. S \in A
  <2> HIDE DEF A
  <2> QED BY <1>3, AddingUp
<1> QED BY <1>4

\* Two sums agree where the weights do.
LEMMA AddsAgree ==
    ASSUME NEW S, NEW R, NEW T \in SUBSET S, T \in SUBSET R, IsFiniteSet(T), NEW w, NEW v,
           NEW g, NEW h, Adds(g, w, S), Adds(h, v, R), \A x \in T : w[x] = v[x]
    PROVE  g[T] = h[T]
<1> DEFINE A == {U \in SUBSET T : g[U] = h[U]}
<1>1. {} \in A
  BY DEF Adds
<1>2. ASSUME NEW U \in SUBSET T, NEW x \in T, U \in A, x \notin U PROVE U \cup {x} \in A
  <2>0. U \in SUBSET S /\ U \in SUBSET R /\ x \in S /\ x \in R
    OBVIOUS
  <2>1. g[U \cup {x}] = w[x] + g[U]
    BY <1>2, <2>0, AddsOne
  <2>2. h[U \cup {x}] = v[x] + h[U]
    BY <1>2, <2>0, AddsOne
  <2> QED BY <1>2, <2>1, <2>2
<1>3. Grows(A, T)
  <2> HIDE DEF A
  <2> QED BY <1>1, <1>2 DEF Grows
<1>4. T \in A
  <2> HIDE DEF A
  <2> QED BY <1>3, AddingUp
<1> QED BY <1>4

\* The recursion of MapThenSumSet.
IsFold(g, w, S) ==
    g = [T \in SUBSET S |-> IF T = {} THEN 0
                            ELSE w[CHOOSE x \in T : TRUE] + g[T \ {CHOOSE x \in T : TRUE}]]

\* The recursion has a solution, so that CHOOSE picks one,
LEMMA FoldExists ==
    ASSUME NEW S, IsFiniteSet(S), NEW w, \A x \in S : w[x] \in Nat
    PROVE  \E g : IsFold(g, w, S)
<1>1. PICK g : Adds(g, w, S)
  BY AddsExists
<1> DEFINE c(T) == CHOOSE x \in T : TRUE
           k == [T \in SUBSET S |-> IF T = {} THEN 0 ELSE w[c(T)] + g[T \ {c(T)}]]
<1>2. \A T \in SUBSET S : T # {} => c(T) \in T
  OBVIOUS
<1> HIDE DEF c
<1>3. \A T \in SUBSET S : g[T] = k[T]
  BY <1>1, <1>2 DEF Adds
<1>4. g = k
  BY <1>1, <1>3 DEF Adds
<1> QED BY <1>4 DEF IsFold, c

\* and every solution adds up the weights.
LEMMA FoldAdds ==
    ASSUME NEW S, IsFiniteSet(S), NEW w, \A x \in S : w[x] \in Nat, NEW f, IsFold(f, w, S)
    PROVE  Adds(f, w, S)
<1>1. PICK g : Adds(g, w, S)
  BY AddsExists
<1> DEFINE N == {n \in Nat : \A T \in SUBSET S : Cardinality(T) = n => f[T] = g[T]}
<1>2. \A T \in SUBSET S : IsFiniteSet(T) /\ Cardinality(T) \in Nat
  BY FS_Subset, FS_CardinalityType
<1>3. 0 \in N
  <2>1. \A T \in SUBSET S : Cardinality(T) = 0 => T = {}
    BY <1>2, FS_EmptySet
  <2>2. f[{}] = 0 /\ g[{}] = 0
    BY <1>1 DEF IsFold, Adds
  <2> QED BY <2>1, <2>2
<1>4. ASSUME NEW n \in Nat, n \in N PROVE n + 1 \in N
  <2> SUFFICES ASSUME NEW T \in SUBSET S, Cardinality(T) = n + 1 PROVE f[T] = g[T]
    OBVIOUS
  <2> DEFINE x == CHOOSE y \in T : TRUE
  <2>1. T # {}
    BY <1>2, OneLess
  <2>2. x \in T
    BY <2>1
  <2>3. f[T] = w[x] + f[T \ {x}]
    BY <2>1 DEF IsFold
  <2> HIDE DEF x
  <2>4. g[T] = w[x] + g[T \ {x}]
    BY <1>1, <2>2 DEF Adds
  <2>5. Cardinality(T \ {x}) = n /\ T \ {x} \in SUBSET S
    BY <1>2, <2>2, OneLess
  <2> QED BY <1>4, <2>3, <2>4, <2>5
<1>5. Nat \subseteq N
  <2> HIDE DEF N
  <2> QED BY <1>3, <1>4, CountingUp
<1>6. \A T \in SUBSET S : f[T] = g[T]
  BY <1>2, <1>5
<1>7. f = [T \in SUBSET S |-> f[T]] /\ g = [T \in SUBSET S |-> g[T]]
  BY <1>1 DEF IsFold, Adds
<1>8. f = g
  BY <1>6, <1>7
<1> QED BY <1>1, <1>8

\* The sum of two disjoint sets.
LEMMA AddsSplit ==
    ASSUME NEW S, NEW w, NEW g, Adds(g, w, S),
           NEW T \in SUBSET S, NEW U \in SUBSET S, IsFiniteSet(U), T \cap U = {}
    PROVE  g[T \cup U] = g[T] + g[U]
<1> DEFINE A == {V \in SUBSET U : g[T \cup V] = g[T] + g[V]}
<1>0. g \in [SUBSET S -> Nat]
  BY DEF Adds
<1>1. {} \in A
  <2>1. g[{}] = 0 /\ g[T] \in Nat /\ T \cup {} = T
    BY <1>0 DEF Adds
  <2> QED BY <2>1
<1>2. ASSUME NEW V \in SUBSET U, NEW x \in U, V \in A, x \notin V PROVE V \cup {x} \in A
  <2>1. g[V \cup {x}] = w[x] + g[V]
    BY <1>2, AddsOne
  <2>2. T \cup V \in SUBSET S /\ x \in S /\ x \notin T \cup V /\ T \cup (V \cup {x}) = (T \cup V) \cup {x}
    BY <1>2
  <2>3. g[T \cup (V \cup {x})] = w[x] + g[T \cup V] /\ w[x] \in Nat
    <3>1. PICK W : W = T \cup V
      OBVIOUS
    <3>2. W \in SUBSET S /\ x \in S /\ x \notin W
      BY <2>2, <3>1
    <3>3. g[W \cup {x}] = w[x] + g[W]
      BY <3>2, AddsOne
    <3>4. w[x] \in Nat
      BY <3>2 DEF Adds
    <3> QED BY <2>2, <3>1, <3>3, <3>4
  <2>4. g[T \cup V] = g[T] + g[V] /\ g[T] \in Nat /\ g[V] \in Nat
    BY <1>0, <1>2
  <2>5. g[T \cup (V \cup {x})] = g[T] + g[V \cup {x}]
    BY <2>1, <2>3, <2>4
  <2> QED BY <2>5
<1>3. Grows(A, U)
  <2> HIDE DEF A
  <2> QED BY <1>1, <1>2 DEF Grows
<1>4. U \in A
  <2> HIDE DEF A
  <2> QED BY <1>3, AddingUp
<1> QED BY <1>4

\* U, a part of T, and the rest of T add up to T.
AddsUp(g, T, U) == g[U] \in Nat /\ g[T \ U] \in Nat /\ g[T] = g[U] + g[T \ U]

LEMMA AddsPart ==
    ASSUME NEW S, IsFiniteSet(S), NEW w, NEW g, Adds(g, w, S),
           NEW T \in SUBSET S, NEW U \in SUBSET T
    PROVE  AddsUp(g, T, U)
<1>1. U \cup (T \ U) = T /\ U \cap (T \ U) = {} /\ U \in SUBSET S /\ T \ U \in SUBSET S
  OBVIOUS
<1>2. g[U] \in Nat /\ g[T \ U] \in Nat
  BY <1>1 DEF Adds
<1>3. g[U \cup (T \ U)] = g[U] + g[T \ U]
  <2>1. IsFiniteSet(T \ U)
    BY <1>1, FS_Subset
  <2> QED BY <1>1, <2>1, AddsSplit
<1> QED BY <1>1, <1>2, <1>3 DEF AddsUp

-----------------------------------------------------------------------------
(* The total weight of one set.                                            *)

Weighs(w, S) == \A x \in S : w[x] \in Nat

Total(w, S) == (CHOOSE g : IsFold(g, w, S))[S]

\* The total is the sum that any function adds up to.
LEMMA TotalIs ==
    ASSUME NEW S, IsFiniteSet(S), NEW w, Weighs(w, S), NEW R, S \in SUBSET R,
           NEW g, Adds(g, w, R)
    PROVE  Total(w, S) = g[S]
<1>1. PICK f : f = CHOOSE h : IsFold(h, w, S)
  OBVIOUS
<1>2. IsFold(f, w, S)
  BY <1>1, FoldExists DEF Weighs
<1>3. Adds(f, w, S)
  BY <1>2, FoldAdds DEF Weighs
<1>4. PICK v : v = w
  OBVIOUS
<1>5. S \in SUBSET S /\ \A x \in S : v[x] = w[x]
  BY <1>4
<1>6. Adds(f, v, S)
  BY <1>3, <1>4
<1>7. f[S] = g[S]
  BY <1>5, <1>6, AddsAgree
<1> QED BY <1>1, <1>7 DEF Total

\* A part and the rest.
LEMMA TotalSplits ==
    ASSUME NEW S, IsFiniteSet(S), NEW w, Weighs(w, S), NEW T \in SUBSET S
    PROVE  /\ Total(w, T) \in Nat
           /\ Total(w, S \ T) \in Nat
           /\ Total(w, S) = Total(w, T) + Total(w, S \ T)
<1>1. PICK g : Adds(g, w, S)
  BY AddsExists DEF Weighs
<1>2. PICK U : U = S \ T
  OBVIOUS
<1>3. /\ IsFiniteSet(T) /\ IsFiniteSet(U)
      /\ Weighs(w, T) /\ Weighs(w, U)
      /\ U \in SUBSET S /\ S \in SUBSET S
  BY <1>2, FS_Subset DEF Weighs
<1>4. Total(w, T) = g[T] /\ Total(w, U) = g[U] /\ Total(w, S) = g[S]
  BY <1>1, <1>3, TotalIs
<1>5. AddsUp(g, S, T)
  BY <1>1, <1>3, AddsPart
<1> QED BY <1>2, <1>4, <1>5 DEF AddsUp

\* Nothing, and one element.
LEMMA TotalOfNone ==
    ASSUME NEW w
    PROVE  Total(w, {}) = 0
<1>1. IsFiniteSet({}) /\ Weighs(w, {}) /\ \A x \in {} : w[x] \in Nat
  BY FS_EmptySet DEF Weighs
<1>2. PICK g : Adds(g, w, {})
  BY <1>1, AddsExists
<1>3. {} \in SUBSET {} /\ g[{}] = 0
  BY <1>2 DEF Adds
<1> QED BY <1>1, <1>2, <1>3, TotalIs

LEMMA TotalOfOne ==
    ASSUME NEW x, NEW w, w[x] \in Nat
    PROVE  Total(w, {x}) = w[x]
<1>1. IsFiniteSet({x}) /\ Weighs(w, {x}) /\ {x} \in SUBSET {x}
  BY FS_Singleton DEF Weighs
<1>2. PICK g : Adds(g, w, {x})
  BY <1>1, AddsExists DEF Weighs
<1>3. Total(w, {x}) = g[{x}]
  BY <1>1, <1>2, TotalIs
<1>4. {x} \ {x} = {} /\ g[{}] = 0
  BY <1>2 DEF Adds
<1>5. g[{x}] = w[x] + g[{}]
  BY <1>2, <1>4 DEF Adds
<1> QED BY <1>3, <1>4, <1>5

=============================================================================
