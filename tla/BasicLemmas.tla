----------------------------- MODULE BasicLemmas ----------------------------
(***************************************************************************)
(* What the proofs about the execution modules have in common: sums over   *)
(* finite sets, the fixed-point arithmetic, and the ladders of a book.     *)
(* The community modules define SumFunction by recursion over subsets,     *)
(* taking the elements in an order of their own choice; the lemmas say     *)
(* what a sum is when its index set or one of its terms changes.           *)
(* Induction is over a set (of subsets, of numbers), never over a          *)
(* predicate.                                                              *)
(***************************************************************************)
EXTENDS OrderManager, Ladder, Functions, FunctionTheorems, FiniteSetTheorems, SequenceTheorems,
        WellFoundedInduction, TLAPS

(* Induction over the subsets of a finite set: what holds of a subset when *)
(* it holds of all smaller ones holds of all subsets.                      *)
LEMMA SmallerSubsets ==
    ASSUME NEW S, IsFiniteSet(S), NEW P,
           \A t \in SUBSET S : (\A u \in SUBSET t : u # t => u \in P) => t \in P
    PROVE  \A t \in SUBSET S : t \in P
  <1> DEFINE T == (SUBSET S) \ P
             R == StrictSubsetOrdering(S)
  <1> SUFFICES ASSUME T # {} PROVE FALSE
    OBVIOUS
  <1>1. T \subseteq FiniteSubsetsOf(S)
    BY FS_FiniteSubsetsOfFinite
  <1>2. IsWellFoundedOn(R, FiniteSubsetsOf(S))
    BY FS_StrictSubsetOrderingWellFounded
  <1>3. PICK t \in T : \A u \in T : ~(<<u, t>> \in R)
    <2> HIDE DEF T, R
    <2>1. QED
      BY <1>1, <1>2, WFMin
  <1>4. \A u \in SUBSET t : u # t => u \in P
    BY <1>3 DEF StrictSubsetOrdering
  <1>5. QED
    BY <1>3, <1>4

(* The same, adding one element at a time.                                 *)
LEMMA SubsetInduction ==
    ASSUME NEW S, IsFiniteSet(S), NEW P, {} \in P,
           \A t \in SUBSET S : \A x \in S \ t : t \in P => t \cup {x} \in P
    PROVE  \A t \in SUBSET S : t \in P
  <1>1. ASSUME NEW t \in SUBSET S, \A u \in SUBSET t : u # t => u \in P
        PROVE  t \in P
    <2>1. CASE t = {}
      BY <2>1
    <2>2. CASE t # {}
      <3>1. PICK x : x \in t
        BY <2>2
      <3> DEFINE u == t \ {x}
      <3>2. u \in SUBSET t /\ u # t /\ u \in SUBSET S /\ x \in S \ u /\ t = u \cup {x}
        BY <3>1
      <3> HIDE DEF u
      <3>3. QED
        BY <1>1, <3>2
    <2>3. QED
      BY <2>1, <2>2
  <1>2. QED
    BY <1>1, SmallerSubsets

(* Induction over the natural numbers, for a set of them.                  *)
LEMMA NumberInduction ==
    ASSUME NEW P, 0 \in P, \A n \in Nat : n \in P => n + 1 \in P
    PROVE  \A n \in Nat : n \in P
  <1> SUFFICES ASSUME NEW n \in Nat PROVE n \in P
    OBVIOUS
  <1> DEFINE S == 1..n
             Q == {t \in SUBSET S : Cardinality(t) \in P}
  <1>1. IsFiniteSet(S) /\ Cardinality(S) = n
    BY FS_Interval
  <1>2. {} \in Q
    BY FS_EmptySet
  <1>3. ASSUME NEW t \in SUBSET S, NEW x \in S \ t, t \in Q
        PROVE  t \cup {x} \in Q
    <2>1. IsFiniteSet(t) /\ Cardinality(t) \in Nat
      <3> HIDE DEF S
      <3>1. QED
        BY <1>1, FS_Subset, FS_CardinalityType
    <2>2. Cardinality(t \cup {x}) = Cardinality(t) + 1
      BY <2>1, <1>3, FS_AddElement
    <2>3. QED
      BY <1>3, <2>1, <2>2
  <1> HIDE DEF S, Q
  <1>4. S \in Q
    BY <1>1, <1>2, <1>3, SubsetInduction
  <1>5. QED
    BY <1>1, <1>4 DEF Q

(* The positions of a sequence of this length.                             *)
LEMMA Positions ==
    ASSUME NEW n \in Nat
    PROVE  IsFiniteSet(1..n) /\ Cardinality(1..n) = n
  BY FS_Interval

(* A set of numbers with an element has a least one, and, if it is bounded,*)
(* a greatest one.                                                         *)
LEMMA LeastElement ==
    ASSUME NEW S \in SUBSET Nat, S # {}
    PROVE  \E x \in S : \A y \in S : x <= y
  <1> DEFINE P == {n \in Nat : (\E m \in S : m <= n) => \E x \in S : \A y \in S : x <= y}
  <1>1. 0 \in P
    OBVIOUS
  <1>2. ASSUME NEW n \in Nat, n \in P
        PROVE  n + 1 \in P
    <2>1. CASE \E m \in S : m <= n
      BY <1>2, <2>1
    <2>2. CASE ~\E m \in S : m <= n
      <3>1. \A y \in S : n + 1 <= y
        BY <2>2
      <3>2. ASSUME NEW m \in S, m <= n + 1
            PROVE  \E x \in S : \A y \in S : x <= y
        <4>1. m = n + 1
          BY <3>1, <3>2
        <4>2. QED
          BY <3>1, <4>1
      <3>3. QED
        BY <3>2
    <2>3. QED
      BY <2>1, <2>2
  <1>3. PICK s : s \in S
    OBVIOUS
  <1>4. s \in P
    <2> HIDE DEF P
    <2>1. QED
      BY <1>1, <1>2, <1>3, NumberInduction
  <1>5. \E x \in S : \A y \in S : x <= y
    BY <1>3, <1>4
  <1>6. QED
    BY <1>5

LEMMA GreatestElement ==
    ASSUME NEW n \in Nat, NEW S \in SUBSET (0..n), S # {}
    PROVE  \E x \in S : \A y \in S : y <= x
  <1> DEFINE T == {n - x : x \in S}
  <1>1. T \in SUBSET Nat /\ T # {}
    <2>1. \A x \in S : n - x \in Nat
      OBVIOUS
    <2>2. PICK x : x \in S
      OBVIOUS
    <2>3. QED
      BY <2>1, <2>2
  <1>2. PICK t \in T : \A y \in T : t <= y
    BY <1>1, LeastElement
  <1>3. PICK x \in S : t = n - x
    OBVIOUS
  <1>4. \A y \in S : n - x <= n - y
    BY <1>2, <1>3
  <1>5. QED
    BY <1>4

(* A set of positions with, below each of its elements, all positions, is  *)
(* an initial segment.                                                     *)
LEMMA InitialSegment ==
    ASSUME NEW n \in Nat, NEW S \in SUBSET (1..n), \A j \in S : \A i \in 1..j : i \in S
    PROVE  Cardinality(S) \in 0..n /\ S = 1..Cardinality(S)
  <1>1. \E m \in 0..n : S = 1..m
    <2>1. CASE S = {}
      BY <2>1
    <2>2. CASE S # {}
      <3>1. S \in SUBSET (0..n)
        OBVIOUS
      <3>2. PICK m \in S : \A y \in S : y <= m
        BY <2>2, <3>1, GreatestElement
      <3>3. m \in 1..n /\ \A i \in 1..m : i \in S
        OBVIOUS
      <3>4. \A i \in S : i \in 1..m
        BY <3>2, <3>3
      <3>5. S = 1..m
        BY <3>3, <3>4, Zenon
      <3>6. QED
        BY <3>3, <3>5
    <2>3. QED
      BY <2>1, <2>2
  <1>2. PICK m \in 0..n : S = 1..m
    BY <1>1
  <1>3. Cardinality(1..m) = m
    BY FS_Interval
  <1>4. QED
    BY <1>2, <1>3
-----------------------------------------------------------------------------
\* The element a sum takes next, and the recursion the sums over subsets obey.
TakenNext(s) == CHOOSE x \in s : TRUE
SubsetSums(f, S, it) ==
    it = [s \in SUBSET S |-> IF s = {} THEN 0 ELSE f[TakenNext(s)] + it[s \ {TakenNext(s)}]]

(* The recursion has a solution.                                           *)
LEMMA SubsetSumsExist ==
    ASSUME NEW S, IsFiniteSet(S), NEW f
    PROVE  \E it : SubsetSums(f, S, it)
  <1> DEFINE body(h, s) == IF s = {} THEN 0 ELSE f[TakenNext(s)] + h[s \ {TakenNext(s)}]
             upto(n) == {s \in SUBSET S : Cardinality(s) <= n}
             P == {n \in Nat : \E h : \A s \in upto(n) : h[s] = body(h, s)}
  <1>1. \A s \in SUBSET S : IsFiniteSet(s) /\ Cardinality(s) \in Nat
    BY FS_Subset, FS_CardinalityType
  <1>2. \A s \in SUBSET S : s # {} => /\ TakenNext(s) \in s
                                     /\ s \ {TakenNext(s)} \in SUBSET S
                                     /\ Cardinality(s \ {TakenNext(s)}) = Cardinality(s) - 1
    BY <1>1, FS_RemoveElement DEF TakenNext
  <1>3. 0 \in P
    <2> DEFINE h == [s \in SUBSET S |-> 0]
    <2>1. \A s \in upto(0) : s = {}
      BY <1>1, FS_EmptySet
    <2>2. \A s \in upto(0) : h[s] = body(h, s)
      BY <2>1
    <2> HIDE DEF h
    <2>3. \E g : \A s \in upto(0) : g[s] = body(g, s)
      BY <2>2
    <2>4. QED
      BY <2>3
  <1>4. ASSUME NEW n \in Nat, n \in P
        PROVE  n + 1 \in P
    <2>1. PICK h : \A s \in upto(n) : h[s] = body(h, s)
      BY <1>4
    <2> DEFINE g == [s \in SUBSET S |-> IF Cardinality(s) <= n THEN h[s] ELSE body(h, s)]
    <2>2. ASSUME NEW s \in upto(n + 1)
          PROVE  g[s] = body(g, s)
      <3>1. CASE s = {}
        <4>1. s \in SUBSET S /\ Cardinality(s) <= n
          BY <3>1, FS_EmptySet
        <4>2. h[s] = 0
          BY <2>1, <3>1, <4>1
        <4>3. QED
          BY <3>1, <4>1, <4>2
      <3>2. CASE s # {}
        <4> DEFINE t == s \ {TakenNext(s)}
        <4>1. /\ s \in SUBSET S /\ t \in SUBSET S /\ Cardinality(t) = Cardinality(s) - 1
              /\ Cardinality(s) \in Nat
          BY <1>1, <1>2, <3>2
        <4>2. Cardinality(t) <= n
          BY <4>1, <2>2
        <4>3. g[t] = h[t]
          BY <4>1, <4>2
        <4>4. g[s] = body(h, s)
          <5>1. CASE Cardinality(s) <= n
            <6>1. h[s] = body(h, s)
              BY <2>1, <4>1, <5>1
            <6>2. g[s] = h[s]
              BY <4>1, <5>1
            <6>3. QED
              BY <6>1, <6>2
          <5>2. CASE ~(Cardinality(s) <= n)
            BY <4>1, <5>2
          <5>3. QED
            BY <5>1, <5>2
        <4>5. QED
          BY <3>2, <4>3, <4>4
      <3>3. QED
        BY <3>1, <3>2
    <2> HIDE DEF g
    <2>3. \E k : \A s \in upto(n + 1) : k[s] = body(k, s)
      BY <2>2
    <2> HIDE DEF upto, body
    <2>4. QED
      BY <2>3
  <1>5. Cardinality(S) \in P
    <2>1. Cardinality(S) \in Nat
      BY FS_CardinalityType
    <2> HIDE DEF P
    <2>2. QED
      BY <1>3, <1>4, <2>1, NumberInduction
  <1>6. PICK h : \A s \in upto(Cardinality(S)) : h[s] = body(h, s)
    BY <1>5
  <1>7. \A s \in SUBSET S : s \in upto(Cardinality(S))
    BY FS_Subset
  <1> DEFINE it == [s \in SUBSET S |-> h[s]]
  <1>8. ASSUME NEW s \in SUBSET S
        PROVE  it[s] = body(it, s)
    BY <1>2, <1>6, <1>7
  <1>9. it = [s \in SUBSET S |-> body(it, s)]
    BY <1>8
  <1>10. QED
    BY <1>9 DEF SubsetSums

(* Any two solutions agree on the sets they have in common, so a sum does  *)
(* not depend on the set it was taken within.                              *)
LEMMA SubsetSumsAgree ==
    ASSUME NEW S, IsFiniteSet(S), NEW U \in SUBSET S, NEW f, NEW g,
           \A x \in U : f[x] = g[x],
           NEW i, SubsetSums(f, S, i), NEW j, SubsetSums(g, U, j)
    PROVE  \A t \in SUBSET U : i[t] = j[t]
  <1> DEFINE P == {t \in SUBSET U : i[t] = j[t]}
  <1>1. IsFiniteSet(U)
    BY FS_Subset
  <1>2. ASSUME NEW t \in SUBSET U, \A u \in SUBSET t : u # t => u \in P
        PROVE  t \in P
    <2>1. CASE t = {}
      BY <2>1 DEF SubsetSums
    <2>2. CASE t # {}
      <3> DEFINE x == TakenNext(t)
                 u == t \ {x}
      <3>1. x \in t
        BY <2>2 DEF TakenNext
      <3>2. u \in SUBSET t /\ u # t /\ t \in SUBSET S
        BY <3>1
      <3>3. i[t] = f[x] + i[u] /\ j[t] = g[x] + j[u]
        BY <2>2, <3>2 DEF SubsetSums
      <3> HIDE DEF x, u
      <3>4. i[u] = j[u] /\ f[x] = g[x]
        BY <1>2, <3>1, <3>2
      <3>5. QED
        BY <3>3, <3>4
    <2>3. QED
      BY <2>1, <2>2
  <1> HIDE DEF P
  <1>3. \A t \in SUBSET U : t \in P
    BY <1>1, <1>2, SmallerSubsets
  <1>4. QED
    BY <1>3 DEF P

(* What the community modules' definition of a sum comes to.               *)
LEMMA SumDefinition ==
    ASSUME NEW f, NEW U, NEW k, SubsetSums(f, U, k)
    PROVE  \E j : SubsetSums(f, U, j) /\ SumFunctionOnSet(f, U) = j[U]
  BY Zenon DEF SubsetSums, TakenNext, SumFunctionOnSet, FoldFunctionOnSet, MapThenFoldSet

(* A sum over a set is the recursion's value at it, for every solution.    *)
LEMMA SumIsSubsetSum ==
    ASSUME NEW S, IsFiniteSet(S), NEW U \in SUBSET S, NEW f, NEW i, SubsetSums(f, S, i)
    PROVE  SumFunctionOnSet(f, U) = i[U]
  <1>1. IsFiniteSet(U) /\ U \in SUBSET U
    BY FS_Subset
  <1>2. PICK k : SubsetSums(f, U, k)
    BY <1>1, SubsetSumsExist
  <1>3. PICK j : SubsetSums(f, U, j) /\ SumFunctionOnSet(f, U) = j[U]
    BY <1>2, SumDefinition
  <1>4. i[U] = j[U]
    BY <1>1, <1>3, SubsetSumsAgree
  <1>5. QED
    BY <1>3, <1>4

(* A sum depends on the terms only.                                        *)
LEMMA SumSame ==
    ASSUME NEW S, IsFiniteSet(S), NEW f, NEW g, \A x \in S : f[x] = g[x]
    PROVE  SumFunctionOnSet(f, S) = SumFunctionOnSet(g, S)
  <1>1. PICK i : SubsetSums(f, S, i)
    BY SubsetSumsExist
  <1>2. PICK j : SubsetSums(g, S, j)
    BY SubsetSumsExist
  <1>3. S \in SUBSET S
    OBVIOUS
  <1>4. \A t \in SUBSET S : i[t] = j[t]
    BY <1>1, <1>2, <1>3, SubsetSumsAgree
  <1>5. SumFunctionOnSet(f, S) = i[S] /\ SumFunctionOnSet(g, S) = j[S]
    BY <1>1, <1>2, <1>3, SumIsSubsetSum
  <1>6. QED
    BY <1>3, <1>4, <1>5

(* The empty sum is zero, and a sum of integers (of natural numbers) is    *)
(* one.                                                                    *)
LEMMA SumEmpty == \A f : SumFunctionOnSet(f, {}) = 0
  <1> SUFFICES ASSUME NEW f PROVE SumFunctionOnSet(f, {}) = 0
    OBVIOUS
  <1>1. IsFiniteSet({})
    BY FS_EmptySet
  <1>2. PICK i : SubsetSums(f, {}, i)
    BY <1>1, SubsetSumsExist
  <1>3. i[{}] = 0
    BY <1>2 DEF SubsetSums
  <1>4. QED
    BY <1>1, <1>2, <1>3, SumIsSubsetSum

(* The order in which the terms are taken does not matter: any of them may *)
(* come last.                                                              *)
LEMMA SumRemove ==
    ASSUME NEW S, IsFiniteSet(S), NEW f, \A x \in S : f[x] \in Int, NEW y \in S
    PROVE  /\ SumFunctionOnSet(f, S \ {y}) \in Int
           /\ SumFunctionOnSet(f, S) = SumFunctionOnSet(f, S \ {y}) + f[y]
  <1>1. PICK i : SubsetSums(f, S, i)
    BY SubsetSumsExist
  <1>2. i[{}] = 0 /\ \A s \in SUBSET S : s # {} => i[s] = f[TakenNext(s)] + i[s \ {TakenNext(s)}]
    BY <1>1 DEF SubsetSums
  <1> DEFINE P == {t \in SUBSET S : /\ i[t] \in Int
                                    /\ \A x \in t : i[t] = i[t \ {x}] + f[x]}
  <1>3. ASSUME NEW t \in SUBSET S, \A u \in SUBSET t : u # t => u \in P
        PROVE  t \in P
    <2>1. CASE t = {}
      BY <1>2, <2>1
    <2>2. CASE t # {}
      <3> DEFINE c == TakenNext(t)
                 u == t \ {c}
      <3>1. c \in t
        BY <2>2 DEF TakenNext
      <3>2. u \in SUBSET t /\ u # t /\ u \in P
        BY <1>3, <3>1
      <3>3. i[t] = f[c] + i[u]
        BY <1>2, <2>2
      <3>4. f[c] \in Int /\ i[u] \in Int
        BY <3>1, <3>2
      <3>5. ASSUME NEW x \in t
            PROVE  i[t] = i[t \ {x}] + f[x]
        <4>1. CASE x = c
          BY <3>3, <3>4, <4>1
        <4>2. CASE x # c
          <5> DEFINE v == t \ {x}
                     w == u \ {x}
          <5>1. v \in SUBSET t /\ v # t /\ v \in P /\ c \in v /\ x \in u /\ v \ {c} = w
                /\ w \in SUBSET t /\ w # t /\ w \in P
            BY <1>3, <3>1, <4>2
          <5>2. f[x] \in Int /\ i[w] \in Int
            BY <5>1
          <5> HIDE DEF c, u
          <5>3. i[u] = i[w] + f[x]
            BY <3>2, <5>1
          <5>4. i[v] = i[w] + f[c]
            <6> HIDE DEF v, w
            <6>1. QED
              BY <5>1
          <5>5. QED
            BY <3>3, <3>4, <5>2, <5>3, <5>4
        <4>3. QED
          BY <4>1, <4>2
      <3>6. i[t] \in Int
        BY <3>3, <3>4
      <3>7. QED
        BY <3>5, <3>6
    <2>3. QED
      BY <2>1, <2>2
  <1> HIDE DEF P
  <1>4. S \in P /\ S \ {y} \in P
    BY <1>3, SmallerSubsets
  <1>5. SumFunctionOnSet(f, S) = i[S] /\ SumFunctionOnSet(f, S \ {y}) = i[S \ {y}]
    BY <1>1, SumIsSubsetSum
  <1>6. QED
    BY <1>4, <1>5 DEF P

LEMMA SumInt ==
    ASSUME NEW S, IsFiniteSet(S), NEW f, \A x \in S : f[x] \in Int
    PROVE  SumFunctionOnSet(f, S) \in Int
  <1>1. CASE S = {}
    BY <1>1, SumEmpty
  <1>2. CASE S # {}
    <2>1. PICK y : y \in S
      BY <1>2
    <2>2. /\ SumFunctionOnSet(f, S \ {y}) \in Int
          /\ SumFunctionOnSet(f, S) = SumFunctionOnSet(f, S \ {y}) + f[y]
      BY <2>1, SumRemove
    <2>3. QED
      BY <2>1, <2>2
  <1>3. QED
    BY <1>1, <1>2

LEMMA SumAdd ==
    ASSUME NEW S, IsFiniteSet(S), NEW f, \A x \in S : f[x] \in Int,
           NEW y, y \notin S, f[y] \in Int
    PROVE  SumFunctionOnSet(f, S \cup {y}) = SumFunctionOnSet(f, S) + f[y]
  <1> DEFINE T == S \cup {y}
  <1>1. IsFiniteSet(T) /\ y \in T /\ T \ {y} = S /\ \A x \in T : f[x] \in Int
    BY FS_AddElement
  <1> HIDE DEF T
  <1>2. SumFunctionOnSet(f, T) = SumFunctionOnSet(f, T \ {y}) + f[y]
    BY <1>1, SumRemove
  <1>3. QED
    BY <1>1, <1>2 DEF T

(* Two sums that differ in one term.                                       *)
LEMMA SumUpdate ==
    ASSUME NEW S, IsFiniteSet(S), NEW f, NEW g, NEW y \in S,
           \A x \in S : f[x] \in Int /\ g[x] \in Int,
           \A x \in S : x # y => g[x] = f[x]
    PROVE  SumFunctionOnSet(g, S) = SumFunctionOnSet(f, S) - f[y] + g[y]
  <1>1. /\ SumFunctionOnSet(f, S \ {y}) \in Int
        /\ SumFunctionOnSet(f, S) = SumFunctionOnSet(f, S \ {y}) + f[y]
    BY SumRemove
  <1>2. SumFunctionOnSet(g, S) = SumFunctionOnSet(g, S \ {y}) + g[y]
    BY SumRemove
  <1>3. IsFiniteSet(S \ {y}) /\ \A x \in S \ {y} : f[x] = g[x]
    BY FS_RemoveElement
  <1>4. SumFunctionOnSet(f, S \ {y}) = SumFunctionOnSet(g, S \ {y})
    BY <1>3, SumSame
  <1>5. QED
    BY <1>1, <1>2, <1>4

(* A sum of natural numbers is one, and so is a sum of zeros.              *)
LEMMA SumNat ==
    ASSUME NEW S, IsFiniteSet(S), NEW f, \A x \in S : f[x] \in Nat
    PROVE  SumFunctionOnSet(f, S) \in Nat
  <1> DEFINE P == {t \in SUBSET S : SumFunctionOnSet(f, t) \in Nat}
  <1>1. {} \in P
    BY SumEmpty
  <1>2. ASSUME NEW t \in SUBSET S, NEW x \in S \ t, t \in P
        PROVE  t \cup {x} \in P
    <2>1. IsFiniteSet(t) /\ f[x] \in Int /\ \A y \in t : f[y] \in Int
      BY FS_Subset
    <2>2. SumFunctionOnSet(f, t \cup {x}) = SumFunctionOnSet(f, t) + f[x]
      BY <2>1, SumAdd
    <2>3. QED
      BY <1>2, <2>2
  <1> HIDE DEF P
  <1>3. S \in P
    BY <1>1, <1>2, SubsetInduction
  <1>4. QED
    BY <1>3 DEF P

LEMMA SumZero ==
    ASSUME NEW S, IsFiniteSet(S), NEW f, \A x \in S : f[x] = 0
    PROVE  SumFunctionOnSet(f, S) = 0
  <1> DEFINE P == {t \in SUBSET S : SumFunctionOnSet(f, t) = 0}
  <1>1. {} \in P
    BY SumEmpty
  <1>2. ASSUME NEW t \in SUBSET S, NEW x \in S \ t, t \in P
        PROVE  t \cup {x} \in P
    <2>1. IsFiniteSet(t) /\ f[x] \in Int /\ \A y \in t : f[y] \in Int
      BY FS_Subset
    <2>2. SumFunctionOnSet(f, t \cup {x}) = SumFunctionOnSet(f, t) + f[x]
      BY <2>1, SumAdd
    <2>3. QED
      BY <1>2, <2>2
  <1> HIDE DEF P
  <1>3. S \in P
    BY <1>1, <1>2, SubsetInduction
  <1>4. QED
    BY <1>3 DEF P

(* A sum over the union of two disjoint sets.                              *)
LEMMA SumUnion ==
    ASSUME NEW S, IsFiniteSet(S), NEW T, IsFiniteSet(T), S \cap T = {}, NEW f,
           \A x \in S \cup T : f[x] \in Int
    PROVE  SumFunctionOnSet(f, S \cup T) = SumFunctionOnSet(f, S) + SumFunctionOnSet(f, T)
  <1> DEFINE P == {t \in SUBSET T : SumFunctionOnSet(f, S \cup t)
                                    = SumFunctionOnSet(f, S) + SumFunctionOnSet(f, t)}
  <1>1. {} \in P
    <2>1. SumFunctionOnSet(f, S) \in Int
      BY SumInt
    <2>2. S \cup {} = S
      OBVIOUS
    <2>3. QED
      BY <2>1, <2>2, SumEmpty
  <1>2. ASSUME NEW t \in SUBSET T, NEW x \in T \ t, t \in P
        PROVE  t \cup {x} \in P
    <2> DEFINE W == S \cup t
    <2>1. /\ IsFiniteSet(t) /\ IsFiniteSet(W) /\ x \notin W /\ x \notin t
          /\ f[x] \in Int /\ (\A y \in W : f[y] \in Int) /\ \A y \in t : f[y] \in Int
      BY FS_Subset, FS_Union
    <2>2. W \cup {x} = S \cup (t \cup {x})
      OBVIOUS
    <2>3. SumFunctionOnSet(f, W) = SumFunctionOnSet(f, S) + SumFunctionOnSet(f, t)
      BY <1>2
    <2> HIDE DEF W
    <2>4. SumFunctionOnSet(f, W \cup {x}) = SumFunctionOnSet(f, W) + f[x]
      BY <2>1, SumAdd
    <2>5. SumFunctionOnSet(f, t \cup {x}) = SumFunctionOnSet(f, t) + f[x]
      BY <2>1, SumAdd
    <2>6. SumFunctionOnSet(f, S) \in Int /\ SumFunctionOnSet(f, t) \in Int
      BY <2>1, SumInt
    <2>7. SumFunctionOnSet(f, W \cup {x})
          = SumFunctionOnSet(f, S) + SumFunctionOnSet(f, t \cup {x})
      <3>1. f[x] \in Int
        BY <2>1
      <3>2. QED
        BY <2>3, <2>4, <2>5, <2>6, <3>1
    <2>8. t \cup {x} \in SUBSET T
      OBVIOUS
    <2>9. QED
      BY <2>2, <2>7, <2>8
  <1> HIDE DEF P
  <1>3. T \in P
    BY <1>1, <1>2, SubsetInduction
  <1>4. QED
    BY <1>3 DEF P

(* A sum over an interval: its last term, and the same terms one index on. *)
LEMMA SumLastTerm ==
    ASSUME NEW a \in Int, NEW b \in Int, a <= b, NEW f, \A i \in a..b : f[i] \in Int
    PROVE  SumFunctionOnSet(f, a..b) = SumFunctionOnSet(f, a..(b - 1)) + f[b]
  <1> DEFINE S == a..(b - 1)
  <1>1. IsFiniteSet(S)
    BY FS_Interval
  <1>2. b \notin S /\ f[b] \in Int /\ S \cup {b} = a..b /\ \A i \in S : f[i] \in Int
    OBVIOUS
  <1> HIDE DEF S
  <1>3. SumFunctionOnSet(f, S \cup {b}) = SumFunctionOnSet(f, S) + f[b]
    BY <1>1, <1>2, SumAdd
  <1>4. QED
    BY <1>2, <1>3 DEF S

LEMMA SumFirstTerm ==
    ASSUME NEW a \in Int, NEW b \in Int, a <= b, NEW f, \A i \in a..b : f[i] \in Int
    PROVE  SumFunctionOnSet(f, a..b) = SumFunctionOnSet(f, (a + 1)..b) + f[a]
  <1> DEFINE S == (a + 1)..b
  <1>1. IsFiniteSet(S)
    BY FS_Interval
  <1>2. a \notin S /\ f[a] \in Int /\ S \cup {a} = a..b /\ \A i \in S : f[i] \in Int
    OBVIOUS
  <1> HIDE DEF S
  <1>3. SumFunctionOnSet(f, S \cup {a}) = SumFunctionOnSet(f, S) + f[a]
    BY <1>1, <1>2, SumAdd
  <1>4. QED
    BY <1>2, <1>3 DEF S

LEMMA SumShift ==
    ASSUME NEW a \in Int, NEW b \in Int, NEW f, NEW g, \A i \in a..b : f[i] \in Int,
           \A i \in a..b : g[i + 1] = f[i]
    PROVE  SumFunctionOnSet(g, (a + 1)..(b + 1)) = SumFunctionOnSet(f, a..b)
  <1> DEFINE P == {n \in Nat : a + n - 1 <= b =>
                      SumFunctionOnSet(g, (a + 1)..(a + n))
                      = SumFunctionOnSet(f, a..(a + n - 1))}
  <1>1. 0 \in P
    <2>1. (a + 1)..(a + 0) = {} /\ a..(a + 0 - 1) = {}
      OBVIOUS
    <2>2. QED
      BY <2>1, SumEmpty
  <1>2. ASSUME NEW n \in Nat, n \in P
        PROVE  n + 1 \in P
    <2>1. SUFFICES ASSUME a + (n + 1) - 1 <= b
                   PROVE  SumFunctionOnSet(g, (a + 1)..(a + (n + 1)))
                          = SumFunctionOnSet(f, a..(a + (n + 1) - 1))
      OBVIOUS
    <2>2. SumFunctionOnSet(f, a..(a + n)) = SumFunctionOnSet(f, a..((a + n) - 1)) + f[a + n]
      <3>1. a + n \in Int /\ a <= a + n /\ \A i \in a..(a + n) : f[i] \in Int
        BY <2>1
      <3>2. QED
        BY <3>1, SumLastTerm
    <2>3. SumFunctionOnSet(g, (a + 1)..(a + n + 1))
          = SumFunctionOnSet(g, (a + 1)..((a + n + 1) - 1)) + g[a + n + 1]
      <3>1. ASSUME NEW i \in (a + 1)..(a + n + 1) PROVE g[i] \in Int
        <4>1. i - 1 \in a..b /\ (i - 1) + 1 = i
          BY <2>1
        <4>2. QED
          BY <4>1
      <3>2. a + 1 \in Int /\ a + n + 1 \in Int /\ a + 1 <= a + n + 1
        OBVIOUS
      <3>3. QED
        BY <3>1, <3>2, SumLastTerm
    <2>4. g[a + n + 1] = f[a + n]
      BY <2>1
    <2>5. (a + n + 1) - 1 = a + n /\ a + (n + 1) = a + n + 1 /\ a + (n + 1) - 1 = a + n
      OBVIOUS
    <2>6. SumFunctionOnSet(g, (a + 1)..(a + n)) = SumFunctionOnSet(f, a..(a + n - 1))
      BY <1>2, <2>1
    <2>7. QED
      BY <2>2, <2>3, <2>4, <2>5, <2>6
  <1> HIDE DEF P
  <1>3. \A n \in Nat : n \in P
    BY <1>1, <1>2, NumberInduction
  <1>4. CASE a <= b
    <2> DEFINE n == b - a + 1
    <2>1. n \in Nat /\ a + n - 1 = b /\ a + n = b + 1
      BY <1>4
    <2> HIDE DEF n
    <2>2. n \in P
      BY <1>3, <2>1
    <2>3. a + n - 1 <= b => SumFunctionOnSet(g, (a + 1)..(a + n))
                            = SumFunctionOnSet(f, a..(a + n - 1))
      BY <2>2 DEF P
    <2>4. a + n - 1 <= b
      BY <2>1
    <2>5. QED
      BY <2>1, <2>3, <2>4
  <1>5. CASE ~(a <= b)
    <2>1. (a + 1)..(b + 1) = {} /\ a..b = {}
      BY <1>5
    <2>2. QED
      BY <2>1, SumEmpty
  <1>6. QED
    BY <1>4, <1>5

(* The sum over a sequence of terms when one is appended, and over the     *)
(* empty one.                                                              *)
LEMMA SumAppended ==
    ASSUME NEW n \in Nat, NEW f, DOMAIN f = 1..n, NEW g, DOMAIN g = 1..(n + 1),
           \A i \in 1..n : f[i] \in Int /\ g[i] = f[i], g[n + 1] \in Int
    PROVE  SumFunction(g) = SumFunction(f) + g[n + 1]
  <1>1. \A i \in 1..(n + 1) : g[i] \in Int
    OBVIOUS
  <1>2. SumFunctionOnSet(g, 1..(n + 1)) = SumFunctionOnSet(g, 1..n) + g[n + 1]
    <2>1. 1 \in Int /\ n + 1 \in Int /\ 1 <= n + 1 /\ (n + 1) - 1 = n
      OBVIOUS
    <2>2. QED
      BY <1>1, <2>1, SumLastTerm
  <1>3. IsFiniteSet(1..n)
    BY FS_Interval
  <1>4. SumFunctionOnSet(f, 1..n) = SumFunctionOnSet(g, 1..n)
    BY <1>3, SumSame
  <1>5. QED
    BY <1>2, <1>4 DEF SumFunction

LEMMA SumOfNothing ==
    ASSUME NEW f, DOMAIN f = {}
    PROVE  SumFunction(f) = 0
  BY SumEmpty DEF SumFunction

(* A sum of natural numbers over the first k of n terms is at most the sum *)
(* over all of them.                                                       *)
LEMMA SumPrefix ==
    ASSUME NEW n \in Nat, NEW k \in 0..n, NEW f, \A i \in 1..n : f[i] \in Nat
    PROVE  /\ SumFunctionOnSet(f, 1..k) \in Nat
           /\ SumFunctionOnSet(f, 1..n) \in Nat
           /\ SumFunctionOnSet(f, 1..k) <= SumFunctionOnSet(f, 1..n)
  <1> DEFINE S == 1..k
             T == (k + 1)..n
  <1>1. IsFiniteSet(S) /\ IsFiniteSet(T)
    BY FS_Interval
  <1>2. S \cap T = {} /\ S \cup T = 1..n
    OBVIOUS
  <1>3. \A x \in S \cup T : f[x] \in Nat /\ f[x] \in Int
    OBVIOUS
  <1> HIDE DEF S, T
  <1>4. SumFunctionOnSet(f, S \cup T) = SumFunctionOnSet(f, S) + SumFunctionOnSet(f, T)
    BY <1>1, <1>2, <1>3, SumUnion
  <1>5. SumFunctionOnSet(f, S) \in Nat /\ SumFunctionOnSet(f, T) \in Nat
    BY <1>1, <1>3, SumNat
  <1>6. SumFunctionOnSet(f, 1..n) = SumFunctionOnSet(f, S) + SumFunctionOnSet(f, T)
    BY <1>2, <1>4
  <1>7. /\ SumFunctionOnSet(f, 1..n) \in Nat
        /\ SumFunctionOnSet(f, S) <= SumFunctionOnSet(f, 1..n)
    BY <1>5, <1>6
  <1>8. QED
    BY <1>5, <1>7 DEF S

(* A part of a sum of natural numbers is at most the whole.                *)
LEMMA SumPart ==
    ASSUME NEW S, IsFiniteSet(S), NEW T \in SUBSET S, NEW f, \A x \in S : f[x] \in Nat
    PROVE  /\ SumFunctionOnSet(f, T) \in Nat
           /\ SumFunctionOnSet(f, S) \in Nat
           /\ SumFunctionOnSet(f, T) <= SumFunctionOnSet(f, S)
           /\ \A y \in S \ T : SumFunctionOnSet(f, T) + f[y] <= SumFunctionOnSet(f, S)
  <1>1. ASSUME NEW U \in SUBSET S
        PROVE  /\ SumFunctionOnSet(f, U) \in Nat
               /\ SumFunctionOnSet(f, U) <= SumFunctionOnSet(f, S)
    <2> DEFINE R == S \ U
    <2>1. IsFiniteSet(U) /\ IsFiniteSet(R) /\ U \cap R = {} /\ U \cup R = S
      BY FS_Subset
    <2>2. (\A x \in U : f[x] \in Nat) /\ (\A x \in R : f[x] \in Nat)
          /\ \A x \in U \cup R : f[x] \in Int
      OBVIOUS
    <2> HIDE DEF R
    <2>3. SumFunctionOnSet(f, U) \in Nat /\ SumFunctionOnSet(f, R) \in Nat
      BY <2>1, <2>2, SumNat
    <2>4. SumFunctionOnSet(f, U \cup R) = SumFunctionOnSet(f, U) + SumFunctionOnSet(f, R)
      BY <2>1, <2>2, SumUnion
    <2>5. SumFunctionOnSet(f, S) = SumFunctionOnSet(f, U) + SumFunctionOnSet(f, R)
      BY <2>1, <2>4, Zenon
    <2>6. QED
      BY <2>3, <2>5
  <1>2. ASSUME NEW y \in S \ T
        PROVE  SumFunctionOnSet(f, T) + f[y] <= SumFunctionOnSet(f, S)
    <2>1. T \cup {y} \in SUBSET S /\ IsFiniteSet(T) /\ y \notin T /\ f[y] \in Int
          /\ \A x \in T : f[x] \in Int
      BY FS_Subset
    <2>2. SumFunctionOnSet(f, T \cup {y}) = SumFunctionOnSet(f, T) + f[y]
      BY <2>1, SumAdd
    <2>3. QED
      BY <1>1, <2>1, <2>2
  <1>3. SumFunctionOnSet(f, S) \in Nat
    BY SumNat
  <1>4. QED
    BY <1>1, <1>2, <1>3

LEMMA TimesSuccessor ==
    ASSUME NEW b \in Nat, NEW c \in Nat
    PROVE  b * (c + 1) = b * c + b /\ b * c \in Int
  OBVIOUS

(* A sum of terms no larger than a bound.                                  *)
LEMMA SumBounded ==
    ASSUME NEW S, IsFiniteSet(S), NEW f, NEW b \in Nat,
           \A x \in S : f[x] \in Int /\ -b <= f[x] /\ f[x] <= b
    PROVE  /\ SumFunctionOnSet(f, S) \in Int
           /\ -(b * Cardinality(S)) <= SumFunctionOnSet(f, S)
           /\ SumFunctionOnSet(f, S) <= b * Cardinality(S)
  <1> DEFINE P == {t \in SUBSET S : /\ -(b * Cardinality(t)) <= SumFunctionOnSet(f, t)
                                    /\ SumFunctionOnSet(f, t) <= b * Cardinality(t)}
  <1>1. {} \in P
    BY SumEmpty, FS_EmptySet
  <1>2. ASSUME NEW t \in SUBSET S, NEW x \in S \ t, t \in P
        PROVE  t \cup {x} \in P
    <2>1. IsFiniteSet(t) /\ x \notin t /\ f[x] \in Int /\ \A y \in t : f[y] \in Int
      BY FS_Subset
    <2>2. /\ SumFunctionOnSet(f, t \cup {x}) = SumFunctionOnSet(f, t) + f[x]
          /\ SumFunctionOnSet(f, t) \in Int
      BY <2>1, SumAdd, SumInt
    <2>3. Cardinality(t \cup {x}) = Cardinality(t) + 1 /\ Cardinality(t) \in Nat
      BY <2>1, FS_AddElement, FS_CardinalityType
    <2>4. b * (Cardinality(t) + 1) = b * Cardinality(t) + b /\ b * Cardinality(t) \in Int
      BY <2>3, TimesSuccessor
    <2>5. -b <= f[x] /\ f[x] <= b /\ t \cup {x} \in SUBSET S
      OBVIOUS
    <2>6. /\ -(b * Cardinality(t)) <= SumFunctionOnSet(f, t)
          /\ SumFunctionOnSet(f, t) <= b * Cardinality(t)
      BY <1>2
    <2>7. QED
      BY <2>1, <2>2, <2>3, <2>4, <2>5, <2>6
  <1> HIDE DEF P
  <1>3. S \in P
    BY <1>1, <1>2, SubsetInduction
  <1>4. QED
    BY <1>3, SumInt DEF P

(* Sums of sums.                                                           *)
LEMMA SumPlus ==
    ASSUME NEW S, IsFiniteSet(S), NEW f, NEW g, NEW h,
           \A x \in S : f[x] \in Int /\ g[x] \in Int /\ h[x] = f[x] + g[x]
    PROVE  SumFunctionOnSet(h, S) = SumFunctionOnSet(f, S) + SumFunctionOnSet(g, S)
  <1> DEFINE P == {t \in SUBSET S : SumFunctionOnSet(h, t)
                                    = SumFunctionOnSet(f, t) + SumFunctionOnSet(g, t)}
  <1>1. {} \in P
    BY SumEmpty
  <1>2. ASSUME NEW t \in SUBSET S, NEW x \in S \ t, t \in P
        PROVE  t \cup {x} \in P
    <2>1. IsFiniteSet(t)
      BY FS_Subset
    <2>2. /\ f[x] \in Int /\ g[x] \in Int /\ h[x] \in Int /\ h[x] = f[x] + g[x] /\ x \notin t
          /\ \A y \in t : f[y] \in Int
          /\ \A y \in t : g[y] \in Int
          /\ \A y \in t : h[y] \in Int
      OBVIOUS
    <2>3. SumFunctionOnSet(h, t \cup {x}) = SumFunctionOnSet(h, t) + h[x]
      BY <2>1, <2>2, SumAdd
    <2>4. SumFunctionOnSet(f, t \cup {x}) = SumFunctionOnSet(f, t) + f[x]
      BY <2>1, <2>2, SumAdd
    <2>5. SumFunctionOnSet(g, t \cup {x}) = SumFunctionOnSet(g, t) + g[x]
      BY <2>1, <2>2, SumAdd
    <2>6. SumFunctionOnSet(f, t) \in Int /\ SumFunctionOnSet(g, t) \in Int
      BY <2>1, <2>2, SumInt
    <2>7. SumFunctionOnSet(h, t) = SumFunctionOnSet(f, t) + SumFunctionOnSet(g, t)
      BY <1>2
    <2>8. SumFunctionOnSet(h, t \cup {x})
             = SumFunctionOnSet(f, t \cup {x}) + SumFunctionOnSet(g, t \cup {x})
      BY <2>2, <2>3, <2>4, <2>5, <2>6, <2>7
    <2>9. QED
      BY <2>8
  <1> HIDE DEF P
  <1>3. S \in P
    BY <1>1, <1>2, SubsetInduction
  <1>4. QED
    BY <1>3 DEF P

(* Only the terms that are not zero count.                                 *)
LEMMA SumSupport ==
    ASSUME NEW S, IsFiniteSet(S), NEW T \in SUBSET S, NEW f, \A x \in T : f[x] \in Int,
           \A x \in S \ T : f[x] = 0
    PROVE  SumFunctionOnSet(f, S) = SumFunctionOnSet(f, T)
  <1> DEFINE R == S \ T
  <1>1. IsFiniteSet(T) /\ IsFiniteSet(R)
    BY FS_Subset
  <1>2. T \cap R = {} /\ T \cup R = S /\ (\A x \in R : f[x] = 0) /\ \A x \in T \cup R : f[x] \in Int
    OBVIOUS
  <1> HIDE DEF R
  <1>3. SumFunctionOnSet(f, T \cup R) = SumFunctionOnSet(f, T) + SumFunctionOnSet(f, R)
    BY <1>1, <1>2, SumUnion
  <1>4. SumFunctionOnSet(f, R) = 0 /\ SumFunctionOnSet(f, T) \in Int
    <2>1. SumFunctionOnSet(f, R) = 0
      BY <1>1, <1>2, SumZero
    <2>2. QED
      BY <1>1, <2>1, SumInt
  <1>5. SumFunctionOnSet(f, S) = SumFunctionOnSet(f, T) + SumFunctionOnSet(f, R)
    BY <1>2, <1>3, Zenon
  <1>6. QED
    BY <1>4, <1>5
-----------------------------------------------------------------------------
(* The fixed-point arithmetic.                                             *)

(* Truncating division by a positive integer is an integer, and a natural  *)
(* number on natural numbers.                                              *)
LEMMA TruncDivType ==
    ASSUME NEW n \in Int, NEW d \in Nat \ {0}
    PROVE  /\ TruncDiv(n, d) \in Int
           /\ n >= 0 => TruncDiv(n, d) \in Nat
  BY DEF TruncDiv

LEMMA NotionalType ==
    ASSUME NEW px \in Int, NEW qty \in Int
    PROVE  notional(px, qty) \in Int
  BY ScaleAssumption, TruncDivType DEF notional

LEMMA ProductNat ==
    ASSUME NEW a \in Nat, NEW b \in Nat
    PROVE  a * b \in Nat
  OBVIOUS
-----------------------------------------------------------------------------
(* Storing a snapshot normalises it, whatever arrives: the ladder holds    *)
(* exactly the levels with a size, best price first.                       *)

(* Before is a strict total order on the positions of a snapshot.          *)
LEMMA BeforeOrder ==
    ASSUME NEW side \in Side, NEW raw \in Seq(RawLevels)
    PROVE  /\ \A i \in 1..Len(raw) : ~Before(side, raw, i, i)
           /\ \A i, j \in 1..Len(raw) :
                 i # j => Before(side, raw, i, j) \/ Before(side, raw, j, i)
           /\ \A i, j, k \in 1..Len(raw) :
                 Before(side, raw, i, j) /\ Before(side, raw, j, k)
                    => Before(side, raw, i, k)
  <1>1. \A i \in 1..Len(raw) : raw[i] \in RawLevels
    BY ElementOfSeq
  <1>2. \A i \in 1..Len(raw) : raw[i].px \in Nat /\ i \in Nat
    BY <1>1, LenProperties DEF RawLevels
  <1>3. CASE side = "Buy"
    BY <1>2, <1>3 DEF Before, better
  <1>4. CASE side = "Sell"
    BY <1>2, <1>4 DEF Before, better
  <1>5. QED
    BY <1>3, <1>4 DEF Side

(* A finite set under a strict total order R, each element with its rank,  *)
(* the number of elements up to it: the ranks are 1..n, each of them once, *)
(* and an element before another has the smaller rank.                     *)
StrictlyOrders(R, K) ==
    /\ \A i \in K : <<i, i>> \notin R
    /\ \A i, j \in K : i # j => <<i, j>> \in R \/ <<j, i>> \in R
    /\ \A i, j, k \in K : <<i, j>> \in R /\ <<j, k>> \in R => <<i, k>> \in R
UpTo(R, K, i) == {j \in K : j = i \/ <<j, i>> \in R}

LEMMA RanksOfAnOrder ==
    ASSUME NEW K, IsFiniteSet(K), NEW R, StrictlyOrders(R, K)
    PROVE  /\ Cardinality(K) \in Nat
           /\ \A i \in K : Cardinality(UpTo(R, K, i)) \in 1..Cardinality(K)
           /\ \A i, j \in K : <<j, i>> \in R
                   => Cardinality(UpTo(R, K, j)) < Cardinality(UpTo(R, K, i))
           /\ \A k \in 1..Cardinality(K) : \E i \in K : Cardinality(UpTo(R, K, i)) = k
  <1> DEFINE n == Cardinality(K)
             Down(i) == UpTo(R, K, i)
             rank == [i \in K |-> Cardinality(Down(i))]
  <1>2. n \in Nat
    BY FS_CardinalityType
  <1>3. \A i \in K : /\ i \in Down(i)
                     /\ Down(i) \subseteq K
                     /\ IsFiniteSet(Down(i))
                     /\ Cardinality(Down(i)) \in 1..n
    <2> SUFFICES ASSUME NEW i \in K
                 PROVE  /\ i \in Down(i)
                        /\ Down(i) \subseteq K
                        /\ IsFiniteSet(Down(i))
                        /\ Cardinality(Down(i)) \in 1..n
      OBVIOUS
    <2>1. i \in Down(i) /\ Down(i) \subseteq K
      BY DEF UpTo
    <2> HIDE DEF Down
    <2>2. IsFiniteSet(Down(i)) /\ Cardinality(Down(i)) <= n
      BY <2>1, <1>2, FS_Subset
    <2>3. Cardinality(Down(i)) \in Nat /\ Cardinality(Down(i)) # 0
      BY <2>1, <2>2, FS_CardinalityType, FS_EmptySet
    <2>4. QED
      BY <2>1, <2>2, <2>3, <1>2
  <1>4. \A i, j \in K : <<j, i>> \in R => Cardinality(Down(j)) < Cardinality(Down(i))
    <2> SUFFICES ASSUME NEW i \in K, NEW j \in K, <<j, i>> \in R
                 PROVE  Cardinality(Down(j)) < Cardinality(Down(i))
      OBVIOUS
    <2>1. Down(j) \subseteq Down(i) /\ i \notin Down(j)
      BY DEF UpTo, StrictlyOrders
    <2>2. i \in Down(i) /\ IsFiniteSet(Down(i))
      BY <1>3
    <2> HIDE DEF Down
    <2>3. Cardinality(Down(i)) \in Nat /\ Cardinality(Down(j)) \in Nat
      BY <1>2, <1>3
    <2>4. Down(j) # Down(i)
      BY <2>1, <2>2
    <2>5. /\ Cardinality(Down(j)) <= Cardinality(Down(i))
          /\ Cardinality(Down(j)) # Cardinality(Down(i))
      BY <2>1, <2>2, <2>4, FS_Subset
    <2>6. QED
      BY <2>3, <2>5
  <1>5. \A i \in K : rank[i] = Cardinality(Down(i))
    OBVIOUS
  <1> HIDE DEF Down, rank
  <1>6. rank \in Injection(K, 1..n)
    <2>1. rank \in [K -> 1..n]
      <3>1. rank = [i \in K |-> Cardinality(Down(i))]
        BY DEF rank
      <3>2. QED
        BY <1>3, <3>1
    <2>2. ASSUME NEW i \in K, NEW j \in K, i # j
          PROVE  rank[i] # rank[j]
      <3>1. <<i, j>> \in R \/ <<j, i>> \in R
        BY <2>2 DEF StrictlyOrders
      <3>2. rank[i] < rank[j] \/ rank[j] < rank[i]
        BY <3>1, <1>4, <1>5
      <3>3. rank[i] \in Nat /\ rank[j] \in Nat
        BY <2>1, <1>2
      <3>4. QED
        BY <3>2, <3>3
    <2>3. QED
      BY <2>1, <2>2 DEF Injection, IsInjective
  <1>7. rank \in Surjection(K, 1..n)
    <2>1. IsFiniteSet(1..n) /\ Cardinality(1..n) = n
      BY <1>2, FS_Interval
    <2>2. QED
      BY <1>6, <2>1, FS_Injection
  <1>8. \A k \in 1..n : \E i \in K : rank[i] = k
    BY <1>7 DEF Surjection
  <1>9. \A i \in K : Cardinality(UpTo(R, K, i)) = Cardinality(Down(i))
    BY DEF Down
  <1>10. QED
    BY <1>2, <1>3, <1>4, <1>5, <1>8, <1>9

(* A finite set of integers with an element has a greatest one.            *)
LEMMA GreatestOfFinite ==
    ASSUME NEW S \in SUBSET Int, IsFiniteSet(S), S # {}
    PROVE  \E x \in S : \A y \in S : y <= x
  <1> DEFINE R == {p \in S \X S : p[1] < p[2]}
             n == Cardinality(S)
  <1>1. \A i, j \in S : <<i, j>> \in R <=> i < j
    OBVIOUS
  <1> HIDE DEF R
  <1>2. StrictlyOrders(R, S)
    BY <1>1 DEF StrictlyOrders
  <1>3. n \in Nat /\ n # 0
    BY FS_CardinalityType, FS_EmptySet
  <1>4. PICK x \in S : Cardinality(UpTo(R, S, x)) = n
    <2>1. n \in 1..n
      BY <1>3
    <2>2. QED
      BY <2>1, <1>2, RanksOfAnOrder
  <1>5. ASSUME NEW y \in S PROVE y <= x
    <2>1. Cardinality(UpTo(R, S, y)) \in 1..n
      BY <1>2, RanksOfAnOrder
    <2>2. <<x, y>> \in R => n < Cardinality(UpTo(R, S, y))
      BY <1>2, <1>4, RanksOfAnOrder
    <2>3. <<x, y>> \notin R
      BY <1>3, <2>1, <2>2
    <2>4. QED
      BY <2>3, <1>1
  <1>6. QED
    BY <1>5

(* The kept positions and their ranks are in one-to-one correspondence     *)
(* with 1..n, and a position before another has the smaller rank.          *)
LEMMA RankBijection ==
    ASSUME NEW side \in Side, NEW raw \in Seq(RawLevels)
    PROVE  /\ Cardinality(Kept(raw)) \in Nat
           /\ \A i \in Kept(raw) : Rank(side, raw, i) \in 1..Cardinality(Kept(raw))
           /\ \A i, j \in Kept(raw) :
                 Before(side, raw, j, i) => Rank(side, raw, j) < Rank(side, raw, i)
           /\ \A k \in 1..Cardinality(Kept(raw)) :
                 \E i \in Kept(raw) : Rank(side, raw, i) = k
  <1> DEFINE K == Kept(raw)
             R == {p \in K \X K : Before(side, raw, p[1], p[2])}
  <1>1. K \subseteq 1..Len(raw) /\ Len(raw) \in Nat
    BY LenProperties DEF Kept
  <1>2. IsFiniteSet(K)
    <2>1. IsFiniteSet(1..Len(raw))
      BY <1>1, FS_Interval
    <2> HIDE DEF K
    <2>2. QED
      BY <1>1, <2>1, FS_Subset
  <1>3. \A i, j \in K : <<i, j>> \in R <=> Before(side, raw, i, j)
    OBVIOUS
  <1>4. \A i \in K : Rank(side, raw, i) = Cardinality(UpTo(R, K, i))
    <2> SUFFICES ASSUME NEW i \in K
                 PROVE  Rank(side, raw, i) = Cardinality(UpTo(R, K, i))
      OBVIOUS
    <2>1. UpTo(R, K, i) = {j \in K : j = i \/ Before(side, raw, j, i)}
      BY <1>3 DEF UpTo
    <2>2. QED
      BY <2>1 DEF Rank
  <1> HIDE DEF R
  <1>5. StrictlyOrders(R, K)
    <2> HIDE DEF K
    <2>1. QED
      BY <1>1, <1>3, BeforeOrder DEF StrictlyOrders
  <1>6. /\ Cardinality(K) \in Nat
        /\ \A i \in K : Cardinality(UpTo(R, K, i)) \in 1..Cardinality(K)
        /\ \A i, j \in K : <<j, i>> \in R
                => Cardinality(UpTo(R, K, j)) < Cardinality(UpTo(R, K, i))
        /\ \A k \in 1..Cardinality(K) : \E i \in K : Cardinality(UpTo(R, K, i)) = k
    <2> HIDE DEF K
    <2>1. QED
      BY <1>2, <1>5, RanksOfAnOrder
  <1>7. QED
    BY <1>3, <1>4, <1>6

(* A stored ladder holds one level for each level that arrived with a      *)
(* size, and is sorted best first (book.rs:17-20: "bids sorted descending, *)
(* asks ascending, no non-positive quantities").                           *)
THEOREM StoredLadderNormalised ==
    ASSUME NEW side \in Side, NEW raw \in Seq(RawLevels)
    PROVE  /\ StoredLadder(side, raw) \in Seq(Levels)
           /\ Len(StoredLadder(side, raw)) = Cardinality(Kept(raw))
           /\ Sorted(side, StoredLadder(side, raw))
  <1> DEFINE K == Kept(raw)
             n == Cardinality(K)
             at(k) == CHOOSE i \in K : Rank(side, raw, i) = k
             ladder == StoredLadder(side, raw)
  <1>1. n \in Nat
    BY RankBijection
  <1>2. \A k \in 1..n : at(k) \in K /\ Rank(side, raw, at(k)) = k
    BY RankBijection
  <1>3. \A i \in K : i \in 1..Len(raw) /\ raw[i] \in Levels
    <2>1. \A i \in 1..Len(raw) : raw[i] \in RawLevels
      BY ElementOfSeq
    <2>2. QED
      BY <2>1 DEF Kept, RawLevels, Levels
  <1>4. ladder = [k \in 1..n |-> raw[at(k)]]
    BY DEF StoredLadder
  <1> HIDE DEF at, K, n, ladder
  <1>5. ladder \in [1..n -> Levels]
    BY <1>2, <1>3, <1>4
  <1>6. ladder \in Seq(Levels) /\ Len(ladder) = n
    BY <1>1, <1>5, SeqDef, LenProperties
  <1>7. ASSUME NEW k \in 1..n, NEW l \in 1..n, k < l
        PROVE  ~better(side, ladder[l].px, ladder[k].px)
    <2>1. ladder[l] = raw[at(l)] /\ ladder[k] = raw[at(k)]
      BY <1>4
    <2>2. SUFFICES ASSUME better(side, raw[at(l)].px, raw[at(k)].px) PROVE FALSE
      BY <2>1
    <2>3. Before(side, raw, at(l), at(k))
      BY <2>2 DEF Before
    <2>4. l < k
      BY <2>3, <1>2, RankBijection DEF K
    <2>5. QED
      BY <2>4, <1>7, <1>1
  <1>8. Sorted(side, ladder)
    BY <1>6, <1>7 DEF Sorted
  <1>9. QED
    BY <1>6, <1>8 DEF ladder, n, K

(* Applying any snapshot leaves a book of sorted ladders with sizes.       *)
THEOREM SnapshotNormalised ==
    ASSUME NEW snap \in [bids : Seq(RawLevels), asks : Seq(RawLevels)]
    PROVE  /\ apply_snapshot(snap) \in Books
           /\ Sorted("Buy", apply_snapshot(snap).bids)
           /\ Sorted("Sell", apply_snapshot(snap).asks)
  BY StoredLadderNormalised DEF apply_snapshot, Books, Side
-----------------------------------------------------------------------------
(* An average of two natural prices over natural sizes is a natural price. *)
LEMMA VwapType ==
    ASSUME NEW px_a \in Nat, NEW qty_a \in Nat, NEW px_b \in Nat, NEW qty_b \in Nat
    PROVE  vwap(px_a, qty_a, px_b, qty_b) \in Nat
  <1>1. px_a * qty_a \in Nat /\ px_b * qty_b \in Nat
    BY ProductNat
  <1>2. CASE qty_a + qty_b = 0
    BY <1>2 DEF vwap
  <1>3. CASE qty_a + qty_b # 0
    <2> DEFINE num == px_a * qty_a + px_b * qty_b
               den == qty_a + qty_b
    <2>1. num \in Nat /\ den \in Nat \ {0}
      BY <1>1, <1>3
    <2> HIDE DEF num, den
    <2>2. TruncDiv(num, den) \in Nat
      BY <2>1, TruncDivType
    <2>3. QED
      BY <2>2, <1>3 DEF vwap, num, den
  <1>4. QED
    BY <1>2, <1>3

LEMMA EntryAfterType ==
    ASSUME NEW old \in Int, NEW signed \in Int, NEW entry \in Nat, NEW px \in Nat
    PROVE  EntryAfter(old, signed, entry, px) \in Nat
  <1>1. Abs(old) \in Nat /\ Abs(signed) \in Nat
    BY DEF Abs
  <1>2. vwap(entry, Abs(old), px, Abs(signed)) \in Nat
    BY <1>1, VwapType
  <1>3. QED
    BY <1>2 DEF EntryAfter

LEMMA RealizedByType ==
    ASSUME NEW old \in Int, NEW signed \in Int, NEW entry \in Nat, NEW px \in Nat
    PROVE  RealizedBy(old, signed, entry, px) \in Int
  <1> DEFINE per == IF old > 0 THEN px - entry ELSE entry - px
             closed == Lesser(Abs(old), Abs(signed))
  <1>1. per \in Int /\ closed \in Int
    BY DEF Lesser, Abs
  <1> HIDE DEF per, closed
  <1>2. notional(per, closed) \in Int
    BY <1>1, NotionalType
  <1>3. QED
    BY <1>2 DEF RealizedBy, per, closed

(* Registering an order keeps a manager well typed and touches no order    *)
(* that is already tracked.                                                *)
LEMMA RegisterEffect ==
    ASSUME NEW m, ManagerOK(m), NEW request \in OrderRequests
    PROVE  /\ ManagerOK(register(m, request))
           /\ register(m, request).position = m.position
           /\ DOMAIN register(m, request).orders = DOMAIN m.orders \cup {request.cloid}
           /\ \A c \in DOMAIN m.orders : register(m, request).orders[c] = m.orders[c]
           /\ ~is_tracked(m, request.cloid)
                => register(m, request).orders[request.cloid] = NewOrder(request)
  <1>1. CASE is_tracked(m, request.cloid)
    BY <1>1 DEF register, is_tracked
  <1>2. CASE ~is_tracked(m, request.cloid)
    <2>1. request.cloid \in Cloids
      BY DEF OrderRequests
    <2>2. NewOrder(request) \in Orders
      BY DEF NewOrder, Orders, OrderStatus
    <2>3. register(m, request) = Track(m, request)
      BY <1>2 DEF register
    <2>4. QED
      BY <1>2, <2>1, <2>2, <2>3 DEF Track, ManagerOK, is_tracked
  <1>3. QED
    BY <1>1, <1>2

(* A recorded fill leaves a well-typed order for the same request.         *)
LEMMA RecordFillType ==
    ASSUME NEW o \in Orders, NEW f \in FillReports
    PROVE  record_fill(o, f) \in Orders
  <1>1. /\ o.request \in OrderRequests /\ o.avg_px \in Nat /\ o.filled_qty \in Nat
        /\ o.seen_fills \subseteq FillIds
        /\ f.qty \in Nat /\ f.px \in Nat /\ f.fill_id \in FillIds
    BY DEF Orders, FillReports
  <1>2. vwap(o.avg_px, o.filled_qty, f.px, f.qty) \in Nat
    BY <1>1, VwapType
  <1>3. QED
    BY <1>1, <1>2 DEF record_fill, Orders, OrderStatus

(* Booking a fill moves the position by its signed quantity and records    *)
(* it in its own order, leaving every other order alone.                   *)
LEMMA BookFillEffect ==
    ASSUME NEW m, ManagerOK(m), NEW f \in FillReports, is_tracked(m, f.cloid)
    PROVE  /\ ManagerOK(book_fill(m, f))
           /\ book_fill(m, f).position = m.position + SignedQty(m, f)
           /\ book_fill(m, f).orders
                = [m.orders EXCEPT ![f.cloid] = record_fill(m.orders[f.cloid], f)]
  <1> DEFINE o == m.orders[f.cloid]
             signed == SignedQty(m, f)
             pnl == RealizedBy(m.position, signed, m.avg_entry, f.px)
             entry == EntryAfter(m.position, signed, m.avg_entry, f.px)
  <1>1. /\ o \in Orders /\ o.request.side \in Side
        /\ f.qty \in Nat /\ f.px \in Nat /\ f.fee \in Nat
        /\ m.position \in Int /\ m.realized_pnl \in Int
        /\ m.fees_paid \in Nat /\ m.avg_entry \in Nat
    BY DEF ManagerOK, is_tracked, Orders, OrderRequests, FillReports
  <1>2. signed \in Int
    BY <1>1 DEF sign, SignedQty
  <1>3. pnl \in Int /\ entry \in Nat
    BY <1>1, <1>2, RealizedByType, EntryAfterType
  <1>4. record_fill(o, f) \in Orders
    BY <1>1, RecordFillType
  <1> HIDE DEF signed, pnl, entry
  <1>5. book_fill(m, f) = [orders |-> [m.orders EXCEPT ![f.cloid] = record_fill(o, f)],
                           position |-> m.position + signed,
                           realized_pnl |-> m.realized_pnl - f.fee + pnl,
                           fees_paid |-> m.fees_paid + f.fee,
                           avg_entry |-> entry]
    BY DEF book_fill, signed, pnl, entry
  <1>6. ManagerOK(book_fill(m, f))
    BY <1>1, <1>2, <1>3, <1>4, <1>5 DEF ManagerOK, is_tracked
  <1>7. QED
    BY <1>5, <1>6 DEF signed

(* What applying one report can do: nothing; book a fill of a tracked,     *)
(* open order that has not seen it; or move an open order's status.        *)
LEMMA ApplyEffect ==
    ASSUME NEW m, ManagerOK(m), NEW r \in ExecReports
    PROVE  /\ ManagerOK(apply(m, r))
           /\ DOMAIN apply(m, r).orders = DOMAIN m.orders
           /\ \/ apply(m, r) = m
              \/ /\ r \in FillReports
                 /\ is_tracked(m, r.cloid)
                 /\ accepts(m.orders[r.cloid], r)
                 /\ apply(m, r).position = m.position + SignedQty(m, r)
                 /\ apply(m, r).orders
                      = [m.orders EXCEPT ![r.cloid] = record_fill(m.orders[r.cloid], r)]
              \/ /\ is_tracked(m, r.cloid)
                 /\ ~is_terminal(m.orders[r.cloid].status)
                 /\ apply(m, r).position = m.position
                 /\ apply(m, r).orders
                      = [m.orders EXCEPT ![r.cloid].status = StatusAfter[r.type]]
  <1>1. CASE ~is_tracked(m, r.cloid) \/ ~accepts(m.orders[r.cloid], r)
    BY <1>1 DEF apply
  <1>2. CASE /\ is_tracked(m, r.cloid)
             /\ accepts(m.orders[r.cloid], r)
             /\ r.type = "Fill"
    <2>1. r \in FillReports
      BY <1>2 DEF ExecReports, StatusReports, StatusAfter
    <2>2. apply(m, r) = book_fill(m, r)
      BY <1>2 DEF apply
    <2>3. QED
      BY <1>2, <2>1, <2>2, BookFillEffect DEF ManagerOK
  <1>3. CASE /\ is_tracked(m, r.cloid)
             /\ accepts(m.orders[r.cloid], r)
             /\ r.type # "Fill"
    <2> DEFINE o == m.orders[r.cloid]
    <2>1. apply(m, r) = [m EXCEPT !.orders = [m.orders EXCEPT ![r.cloid] =
                                                [o EXCEPT !.status = StatusAfter[r.type]]]]
      BY <1>3 DEF apply
    <2>2. StatusAfter[r.type] \in OrderStatus
      BY <1>3 DEF ExecReports, FillReports, StatusReports, StatusAfter, OrderStatus
    <2>3. o \in Orders
      BY <1>3 DEF ManagerOK, is_tracked
    <2>4. [o EXCEPT !.status = StatusAfter[r.type]] \in Orders
      BY <2>2, <2>3 DEF Orders
    <2>5. QED
      BY <1>3, <2>1, <2>4 DEF ManagerOK, is_tracked, accepts
  <1>4. QED
    BY <1>1, <1>2, <1>3

(* A report other than a fill changes no quantity: at most the status of   *)
(* its own order.                                                          *)
LEMMA StatusReportEffect ==
    ASSUME NEW m, ManagerOK(m), NEW r \in StatusReports
    PROVE  /\ ManagerOK(apply(m, r))
           /\ apply(m, r).position = m.position
           /\ DOMAIN apply(m, r).orders = DOMAIN m.orders
           /\ \A c \in DOMAIN m.orders :
                 /\ apply(m, r).orders[c].request = m.orders[c].request
                 /\ apply(m, r).orders[c].filled_qty = m.orders[c].filled_qty
                 /\ apply(m, r).orders[c].seen_fills = m.orders[c].seen_fills
                 /\ apply(m, r).orders[c].status \in {m.orders[c].status, StatusAfter[r.type]}
  <1> DEFINE f == m.orders
             g == apply(m, r).orders
  <1>1. r \in ExecReports /\ r \notin FillReports
    BY DEF ExecReports, StatusReports, FillReports, StatusAfter
  <1>2. /\ ManagerOK(apply(m, r))
        /\ apply(m, r).position = m.position
        /\ DOMAIN g = DOMAIN f
        /\ \/ g = f
           \/ g = [f EXCEPT ![r.cloid].status = StatusAfter[r.type]]
    BY <1>1, ApplyEffect
  <1>3. \A c \in DOMAIN f : f[c] \in Orders
    BY DEF ManagerOK
  <1> HIDE DEF f, g
  <1>4. ASSUME NEW c \in DOMAIN f
        PROVE  /\ g[c].request = f[c].request
               /\ g[c].filled_qty = f[c].filled_qty
               /\ g[c].seen_fills = f[c].seen_fills
               /\ g[c].status \in {f[c].status, StatusAfter[r.type]}
    <2>1. CASE g = f
      BY <2>1
    <2>2. CASE g = [f EXCEPT ![r.cloid].status = StatusAfter[r.type]]
      <3>1. g[c] = f[c] \/ g[c] = [f[c] EXCEPT !.status = StatusAfter[r.type]]
        BY <2>2
      <3>2. f[c] \in Orders
        BY <1>3
      <3>3. QED
        BY <3>1, <3>2 DEF Orders
    <2>3. QED
      BY <1>2, <2>1, <2>2
  <1>5. QED
    BY <1>2, <1>4 DEF f, g

(* A fill report either changes nothing or is booked in its own order and  *)
(* in the position; orders keep their requests.                            *)
LEMMA FillReportEffect ==
    ASSUME NEW m, ManagerOK(m), NEW r \in FillReports, is_tracked(m, r.cloid)
    PROVE  /\ ManagerOK(apply(m, r))
           /\ DOMAIN apply(m, r).orders = DOMAIN m.orders
           /\ apply(m, r).position \in {m.position, m.position + SignedQty(m, r)}
           /\ \A c \in DOMAIN m.orders :
                 c # r.cloid => apply(m, r).orders[c] = m.orders[c]
           /\ apply(m, r).orders[r.cloid]
                 = IF accepts(m.orders[r.cloid], r)
                   THEN record_fill(m.orders[r.cloid], r) ELSE m.orders[r.cloid]
  <1>1. r.type = "Fill" /\ r \in ExecReports
    BY DEF FillReports, ExecReports
  <1>2. CASE accepts(m.orders[r.cloid], r)
    <2> DEFINE f == m.orders
               g == apply(m, r).orders
               o == record_fill(f[r.cloid], r)
    <2>1. apply(m, r) = book_fill(m, r)
      BY <1>1, <1>2 DEF apply
    <2>2. /\ ManagerOK(apply(m, r))
          /\ apply(m, r).position = m.position + SignedQty(m, r)
          /\ g = [f EXCEPT ![r.cloid] = o]
          /\ r.cloid \in DOMAIN f
      BY <2>1, BookFillEffect DEF is_tracked
    <2> HIDE DEF f, g, o
    <2>3. /\ DOMAIN g = DOMAIN f
          /\ \A c \in DOMAIN f : c # r.cloid => g[c] = f[c]
          /\ g[r.cloid] = o
      BY <2>2
    <2>4. QED
      BY <1>2, <2>2, <2>3 DEF f, g, o
  <1>3. CASE ~accepts(m.orders[r.cloid], r)
    BY <1>1, <1>3 DEF apply, is_tracked
  <1>4. QED
    BY <1>2, <1>3

(* An accepted status report moves its own order to the report's status    *)
(* and nothing else.                                                       *)
LEMMA StatusApplied ==
    ASSUME NEW m, ManagerOK(m), NEW r \in StatusReports, is_tracked(m, r.cloid),
           accepts(m.orders[r.cloid], r)
    PROVE  /\ \A c \in DOMAIN m.orders : c # r.cloid => apply(m, r).orders[c] = m.orders[c]
           /\ apply(m, r).orders[r.cloid].status = StatusAfter[r.type]
  <1> DEFINE o == m.orders[r.cloid]
             p == [o EXCEPT !.status = StatusAfter[r.type]]
  <1>1. r.type # "Fill"
    BY DEF StatusReports, StatusAfter
  <1>2. apply(m, r) = [m EXCEPT !.orders = [m.orders EXCEPT ![r.cloid] = p]]
    BY <1>1 DEF apply
  <1>3. o \in Orders /\ r.cloid \in DOMAIN m.orders
    BY DEF ManagerOK, is_tracked
  <1>4. p.status = StatusAfter[r.type]
    BY <1>3 DEF Orders
  <1> HIDE DEF p
  <1>5. apply(m, r).orders = [m.orders EXCEPT ![r.cloid] = p]
    BY <1>2 DEF ManagerOK
  <1>6. QED
    BY <1>3, <1>4, <1>5
=============================================================================
