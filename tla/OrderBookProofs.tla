-------------------------- MODULE OrderBookProofs ---------------------------
(***************************************************************************)
(* Proofs about OrderBook, for any snapshots, level updates and prices:    *)
(* the binary search finds its place in a ladder that is sorted, the two   *)
(* books hold the same levels, and no repair of a snapshot is silent.      *)
(***************************************************************************)
EXTENDS OrderBook, BasicLemmas

\* Price maps: sizes by price.
SizeMaps == UNION {[D -> Nat \ {0}] : D \in SUBSET Nat}

Distinct(ladder) ==
    \A i, j \in 1..Len(ladder) : ladder[i].px = ladder[j].px => i = j

\* A ladder and a price map hold the same levels, each price once.
Agree(ladder, m) ==
    /\ Distinct(ladder)
    /\ DOMAIN m = {ladder[k].px : k \in 1..Len(ladder)}
    /\ \A k \in 1..Len(ladder) : m[ladder[k].px] = ladder[k].qty

(* What a ladder is to the provers.                                        *)
LEMMA LadderParts ==
    ASSUME NEW ladder \in Seq(Levels)
    PROVE  /\ Len(ladder) \in Nat
           /\ ladder = [k \in 1..Len(ladder) |-> ladder[k]]
           /\ \A k \in 1..Len(ladder) : /\ ladder[k] \in Levels
                                        /\ ladder[k].px \in Nat
                                        /\ ladder[k].qty \in Nat \ {0}
  <1>1. /\ Len(ladder) \in Nat
        /\ ladder \in [1..Len(ladder) -> Levels]
    BY LenProperties
  <1>2. QED
    BY <1>1 DEF Levels

LEMMA MakesLadder ==
    ASSUME NEW n \in Nat, NEW f \in [1..n -> Levels]
    PROVE  f \in Seq(Levels) /\ Len(f) = n
  <1>1. f \in Seq(Levels)
    BY SeqDef
  <1>2. QED
    BY <1>1, LenProperties

(* Where a new price goes: after all better ones and before the others.    *)
LEMMA InsertionSplits ==
    ASSUME NEW side \in Side, NEW ladder \in Seq(Levels), Sorted(side, ladder), NEW px \in Nat
    PROVE  /\ InsertionPlace(side, ladder, px) \in 1..(Len(ladder) + 1)
           /\ \A k \in 1..Len(ladder) :
                 better(side, ladder[k].px, px) <=> k < InsertionPlace(side, ladder, px)
  <1> DEFINE n == Len(ladder)
             S == {k \in 1..n : better(side, ladder[k].px, px)}
  <1>1. n \in Nat /\ \A k \in 1..n : ladder[k].px \in Nat
    BY LadderParts
  <1>2. \A j \in S : \A i \in 1..j : i \in S
    <2> SUFFICES ASSUME NEW j \in S, NEW i \in 1..j, i # j
                 PROVE  better(side, ladder[i].px, px)
      BY <1>1
    <2>1. i \in 1..n /\ j \in 1..n /\ i < j
      BY <1>1
    <2>2. ~better(side, ladder[j].px, ladder[i].px) /\ better(side, ladder[j].px, px)
      BY <2>1 DEF Sorted
    <2>3. ladder[i].px \in Nat /\ ladder[j].px \in Nat
      BY <1>1, <2>1
    <2>4. QED
      BY <2>2, <2>3 DEF better
  <1>3. S \in SUBSET (1..n)
    OBVIOUS
  <1>4. InsertionPlace(side, ladder, px) = 1 + Cardinality(S)
    BY DEF InsertionPlace
  <1> HIDE DEF S
  <1>5. Cardinality(S) \in 0..n /\ S = 1..Cardinality(S)
    BY <1>1, <1>2, <1>3, InitialSegment
  <1>6. \A k \in 1..n : k \in S <=> k < 1 + Cardinality(S)
    BY <1>1, <1>5
  <1>7. \A k \in 1..n : k \in S <=> better(side, ladder[k].px, px)
    BY DEF S
  <1>8. QED
    BY <1>1, <1>4, <1>5, <1>6, <1>7

(* Inserting a new price there.                                            *)
LEMMA InsertLevel ==
    ASSUME NEW side \in Side, NEW ladder \in Seq(Levels), Sorted(side, ladder), NEW px \in Nat,
           NEW qty \in Nat \ {0}, PlacesOf(ladder, px) = {}
    PROVE  LET l == Inserted(ladder, InsertionPlace(side, ladder, px), [px |-> px, qty |-> qty])
           IN  /\ l \in Seq(Levels) /\ Sorted(side, l)
               /\ \A m \in SizeMaps : Agree(ladder, m) => Agree(l, MapAfterUpdate(m, px, qty))
  <1> DEFINE n == Len(ladder)
             p == InsertionPlace(side, ladder, px)
             level == [px |-> px, qty |-> qty]
             l == Inserted(ladder, p, level)
  <1>1. n \in Nat /\ \A k \in 1..n : /\ ladder[k] \in Levels /\ ladder[k].px \in Nat
                                     /\ ladder[k].qty \in Nat \ {0}
    BY LadderParts
  <1>2. p \in 1..(n + 1) /\ \A k \in 1..n : better(side, ladder[k].px, px) <=> k < p
    BY InsertionSplits
  <1>3. level \in Levels /\ level.px = px /\ level.qty = qty
    BY DEF Levels
  <1>4. l = [i \in 1..(n + 1) |->
               IF i < p THEN ladder[i] ELSE IF i = p THEN level ELSE ladder[i - 1]]
    BY DEF Inserted
  <1>5. \A k \in 1..n : ladder[k].px # px
    BY DEF PlacesOf
  <1>6. \A i, j \in 1..n : i < j => ~better(side, ladder[j].px, ladder[i].px)
    BY DEF Sorted
  <1> HIDE DEF n, p, level, l
  <1>7. /\ \A i \in 1..(n + 1) : i < p => i \in 1..n /\ l[i] = ladder[i]
        /\ l[p] = level
        /\ \A i \in 1..(n + 1) : i > p => i - 1 \in 1..n /\ l[i] = ladder[i - 1]
    BY <1>1, <1>2, <1>4
  <1>8. l \in [1..(n + 1) -> Levels]
    <2>1. \A i \in 1..(n + 1) : l[i] \in Levels
      <3> SUFFICES ASSUME NEW i \in 1..(n + 1)
                   PROVE  l[i] \in Levels
        OBVIOUS
      <3>1. i < p \/ i = p \/ i > p
        BY <1>1, <1>2
      <3>2. QED
        BY <1>1, <1>3, <1>7, <3>1
    <2>2. QED
      BY <1>4, <2>1
  <1>9. l \in Seq(Levels) /\ Len(l) = n + 1
    BY <1>1, <1>8, MakesLadder
  <1>10. ASSUME NEW i \in 1..(n + 1), NEW j \in 1..(n + 1), i < j
         PROVE  ~better(side, l[j].px, l[i].px)
    <2>1. CASE j < p
      <3>1. i < p
        BY <1>2, <1>10, <2>1
      <3>2. QED
        BY <1>6, <1>7, <1>10, <2>1, <3>1
    <2>2. CASE i < p /\ j = p
      <3>1. better(side, l[i].px, px) /\ l[j].px = px /\ l[i].px \in Nat
        BY <1>1, <1>2, <1>3, <1>7, <2>2
      <3>2. QED
        BY <3>1 DEF better
    <2>3. CASE i < p /\ j > p
      <3>1. l[i] = ladder[i] /\ l[j] = ladder[j - 1] /\ i \in 1..n /\ j - 1 \in 1..n
        BY <1>7, <2>3
      <3>2. i < j - 1
        BY <1>2, <2>3
      <3>3. QED
        BY <1>6, <3>1, <3>2
    <2>4. CASE i = p /\ j > p
      <3>1. l[j] = ladder[j - 1] /\ j - 1 \in 1..n /\ l[i].px = px
        BY <1>3, <1>7, <2>4
      <3>2. ~(j - 1 < p)
        BY <1>2, <2>4
      <3>3. QED
        BY <1>2, <3>1, <3>2
    <2>5. CASE i > p
      <3>1. j > p /\ i - 1 < j - 1
        BY <1>2, <1>10, <2>5
      <3>2. l[i] = ladder[i - 1] /\ l[j] = ladder[j - 1] /\ i - 1 \in 1..n /\ j - 1 \in 1..n
        BY <1>7, <2>5, <3>1
      <3>3. QED
        BY <1>6, <3>1, <3>2
    <2>6. QED
      BY <1>1, <1>2, <1>10, <2>1, <2>2, <2>3, <2>4, <2>5
  <1>11. Sorted(side, l)
    BY <1>9, <1>10 DEF Sorted
  <1>12. ASSUME NEW m \in SizeMaps, Agree(ladder, m)
         PROVE  Agree(l, MapAfterUpdate(m, px, qty))
    <2> DEFINE m2 == MapAfterUpdate(m, px, qty)
    <2>1. /\ \A i, j \in 1..n : ladder[i].px = ladder[j].px => i = j
          /\ DOMAIN m = {ladder[k].px : k \in 1..n}
          /\ \A k \in 1..n : m[ladder[k].px] = ladder[k].qty
      BY <1>12 DEF Agree, Distinct, n
    <2>2. /\ DOMAIN m2 = DOMAIN m \cup {px}
          /\ m2[px] = qty
          /\ \A q \in DOMAIN m : q # px => m2[q] = m[q]
      BY DEF MapAfterUpdate
    <2> HIDE DEF m2
    <2>3. \A k \in 1..n : ladder[k].px \in DOMAIN m /\ m2[ladder[k].px] = ladder[k].qty
      BY <1>5, <2>1, <2>2
    <2>4. \A i \in 1..(n + 1) : l[i].px \in DOMAIN m2 /\ m2[l[i].px] = l[i].qty
      <3> SUFFICES ASSUME NEW i \in 1..(n + 1)
                   PROVE  l[i].px \in DOMAIN m2 /\ m2[l[i].px] = l[i].qty
        OBVIOUS
      <3>1. i < p \/ i = p \/ i > p
        BY <1>1, <1>2
      <3>2. QED
        BY <1>3, <1>7, <2>2, <2>3, <3>1
    <2>5. \A q \in DOMAIN m2 : \E i \in 1..(n + 1) : l[i].px = q
      <3> SUFFICES ASSUME NEW q \in DOMAIN m2
                   PROVE  \E i \in 1..(n + 1) : l[i].px = q
        OBVIOUS
      <3>1. CASE q = px
        BY <1>2, <1>3, <1>7, <3>1
      <3>2. CASE q # px
        <4>1. PICK k \in 1..n : q = ladder[k].px
          BY <2>1, <2>2, <3>2
        <4>2. CASE k < p
          <5>1. k \in 1..(n + 1)
            BY <1>1
          <5>2. QED
            BY <1>7, <4>1, <4>2, <5>1
        <4>3. CASE ~(k < p)
          <5>1. k + 1 \in 1..(n + 1) /\ k + 1 > p /\ (k + 1) - 1 = k
            BY <1>1, <1>2, <4>3
          <5>2. l[k + 1] = ladder[k]
            BY <1>7, <5>1
          <5>3. QED
            BY <4>1, <5>1, <5>2
        <4>4. QED
          BY <4>2, <4>3
      <3>3. QED
        BY <3>1, <3>2
    <2>6. ASSUME NEW i \in 1..(n + 1), NEW j \in 1..(n + 1), i < j
          PROVE  l[i].px # l[j].px
      <3>1. CASE i < p /\ j < p
        <4>1. i \in 1..n /\ j \in 1..n /\ i # j
          BY <1>7, <2>6, <3>1
        <4>2. QED
          BY <1>7, <2>1, <3>1, <4>1
      <3>2. CASE i = p
        <4>1. j > p
          BY <2>6, <3>2
        <4>2. QED
          BY <1>3, <1>5, <1>7, <3>2, <4>1
      <3>3. CASE j = p
        <4>1. i < p
          BY <2>6, <3>3
        <4>2. QED
          BY <1>3, <1>5, <1>7, <3>3, <4>1
      <3>4. CASE i < p /\ j > p
        <4>1. l[i] = ladder[i] /\ l[j] = ladder[j - 1] /\ i \in 1..n /\ j - 1 \in 1..n
          BY <1>7, <3>4
        <4>2. i # j - 1
          BY <1>2, <3>4
        <4>3. QED
          BY <2>1, <4>1, <4>2
      <3>5. CASE i > p
        <4>1. j > p
          BY <1>2, <2>6, <3>5
        <4>2. l[i] = ladder[i - 1] /\ l[j] = ladder[j - 1] /\ i - 1 \in 1..n /\ j - 1 \in 1..n
          BY <1>7, <3>5, <4>1
        <4>3. i - 1 # j - 1
          BY <2>6
        <4>4. QED
          BY <2>1, <4>2, <4>3
      <3>6. QED
        BY <1>1, <1>2, <2>6, <3>1, <3>2, <3>3, <3>4, <3>5
    <2>7. \A i, j \in 1..(n + 1) : l[i].px = l[j].px => i = j
      <3> SUFFICES ASSUME NEW i \in 1..(n + 1), NEW j \in 1..(n + 1), l[i].px = l[j].px
                   PROVE  i = j
        OBVIOUS
      <3>1. i \in Int /\ j \in Int /\ ~(i < j) /\ ~(j < i)
        BY <2>6
      <3>2. QED
        BY <3>1
    <2>8. DOMAIN m2 = {l[k].px : k \in 1..(n + 1)}
      BY <2>4, <2>5
    <2>9. QED
      BY <1>9, <2>4, <2>7, <2>8 DEF Agree, Distinct, m2
  <1>13. QED
    BY <1>9, <1>11, <1>12 DEF l, p, level

(* Removing one of the levels at a price.                                  *)
LEMMA RemoveLevel ==
    ASSUME NEW side \in Side, NEW ladder \in Seq(Levels), Sorted(side, ladder), NEW px \in Nat,
           NEW qty \in Int, qty <= 0, NEW k \in PlacesOf(ladder, px)
    PROVE  /\ Removed(ladder, k) \in Seq(Levels) /\ Sorted(side, Removed(ladder, k))
           /\ \A m \in SizeMaps :
                 Agree(ladder, m) => Agree(Removed(ladder, k), MapAfterUpdate(m, px, qty))
  <1> DEFINE n == Len(ladder)
             l == Removed(ladder, k)
             from(i) == IF i < k THEN i ELSE i + 1
  <1>1. n \in Nat /\ \A i \in 1..n : ladder[i] \in Levels /\ ladder[i].px \in Nat
    BY LadderParts
  <1>2. k \in 1..n /\ ladder[k].px = px
    BY DEF PlacesOf
  <1>3. l = [i \in 1..(n - 1) |-> IF i < k THEN ladder[i] ELSE ladder[i + 1]]
    BY DEF Removed
  <1>4. \A i, j \in 1..n : i < j => ~better(side, ladder[j].px, ladder[i].px)
    BY DEF Sorted
  <1> HIDE DEF n, l
  <1>5. n - 1 \in Nat
    BY <1>1, <1>2
  <1>6. \A i \in 1..(n - 1) : from(i) \in 1..n /\ from(i) # k /\ l[i] = ladder[from(i)]
    BY <1>1, <1>2, <1>3
  <1>7. \A i, j \in 1..(n - 1) : i < j => from(i) < from(j)
    BY <1>1, <1>2
  <1>8. \A i \in 1..n : i # k => \E j \in 1..(n - 1) : from(j) = i
    <2> SUFFICES ASSUME NEW i \in 1..n, i # k
                 PROVE  \E j \in 1..(n - 1) : from(j) = i
      OBVIOUS
    <2>1. CASE i < k
      <3>1. i \in 1..(n - 1) /\ from(i) = i
        BY <1>1, <1>2, <2>1
      <3>2. QED
        BY <3>1
    <2>2. CASE i > k
      <3>1. i - 1 \in 1..(n - 1) /\ from(i - 1) = i
        BY <1>1, <1>2, <2>2
      <3>2. QED
        BY <3>1
    <2>3. QED
      BY <1>1, <1>2, <2>1, <2>2
  <1> HIDE DEF from
  <1>9. l \in Seq(Levels) /\ Len(l) = n - 1
    <2>1. l \in [1..(n - 1) -> Levels]
      BY <1>1, <1>3, <1>6
    <2>2. QED
      BY <1>5, <2>1, MakesLadder
  <1>10. Sorted(side, l)
    BY <1>4, <1>6, <1>7, <1>9 DEF Sorted
  <1>11. ASSUME NEW m \in SizeMaps, Agree(ladder, m)
         PROVE  Agree(l, MapAfterUpdate(m, px, qty))
    <2> DEFINE m2 == MapAfterUpdate(m, px, qty)
    <2>1. /\ \A i, j \in 1..n : ladder[i].px = ladder[j].px => i = j
          /\ DOMAIN m = {ladder[i].px : i \in 1..n}
          /\ \A i \in 1..n : m[ladder[i].px] = ladder[i].qty
      BY <1>11 DEF Agree, Distinct, n
    <2>2. /\ DOMAIN m2 = DOMAIN m \ {px}
          /\ \A q \in DOMAIN m : q # px => m2[q] = m[q]
      BY DEF MapAfterUpdate
    <2> HIDE DEF m2
    <2>3. \A i \in 1..n : i # k => ladder[i].px \in DOMAIN m2 /\ m2[ladder[i].px] = ladder[i].qty
      BY <1>2, <2>1, <2>2
    <2>4. \A q \in DOMAIN m2 : \E i \in 1..n : i # k /\ ladder[i].px = q
      BY <1>2, <2>1, <2>2
    <2>5. \A i \in 1..(n - 1) : l[i].px \in DOMAIN m2 /\ m2[l[i].px] = l[i].qty
      BY <1>6, <2>3
    <2>6. \A q \in DOMAIN m2 : \E i \in 1..(n - 1) : l[i].px = q
      BY <1>6, <1>8, <2>4
    <2>7. \A i, j \in 1..(n - 1) : l[i].px = l[j].px => i = j
      <3> SUFFICES ASSUME NEW i \in 1..(n - 1), NEW j \in 1..(n - 1), l[i].px = l[j].px
                   PROVE  i = j
        OBVIOUS
      <3>1. from(i) = from(j) /\ from(i) \in 1..n
        BY <1>6, <2>1
      <3>2. ~(from(i) < from(j)) /\ ~(from(j) < from(i))
        BY <1>1, <3>1
      <3>3. ~(i < j) /\ ~(j < i)
        BY <1>7, <3>2
      <3>4. QED
        BY <3>3
    <2>8. DOMAIN m2 = {l[i].px : i \in 1..(n - 1)}
      BY <2>5, <2>6
    <2>9. QED
      BY <1>9, <2>5, <2>7, <2>8 DEF Agree, Distinct, m2
  <1>12. QED
    BY <1>9, <1>10, <1>11 DEF l

(* Giving one of the levels at a price another size.                       *)
LEMMA ResizeLevel ==
    ASSUME NEW side \in Side, NEW ladder \in Seq(Levels), Sorted(side, ladder), NEW px \in Nat,
           NEW qty \in Nat \ {0}, NEW k \in PlacesOf(ladder, px)
    PROVE  LET l == [ladder EXCEPT ![k].qty = qty]
           IN  /\ l \in Seq(Levels) /\ Sorted(side, l)
               /\ \A m \in SizeMaps : Agree(ladder, m) => Agree(l, MapAfterUpdate(m, px, qty))
  <1> DEFINE n == Len(ladder)
             l == [ladder EXCEPT ![k].qty = qty]
  <1>1. /\ n \in Nat /\ ladder = [i \in 1..n |-> ladder[i]]
        /\ \A i \in 1..n : ladder[i] \in Levels /\ ladder[i].px \in Nat
    BY LadderParts
  <1>2. k \in 1..n /\ ladder[k].px = px
    BY DEF PlacesOf
  <1>3. ladder[k] = [px |-> ladder[k].px, qty |-> ladder[k].qty]
    BY <1>1, <1>2 DEF Levels
  <1>4. l = [i \in 1..n |-> IF i = k THEN [ladder[k] EXCEPT !.qty = qty] ELSE ladder[i]]
    BY <1>1, <1>2
  <1>5. [ladder[k] EXCEPT !.qty = qty] = [px |-> px, qty |-> qty]
    BY <1>2, <1>3
  <1> HIDE DEF l, n
  <1>6. /\ \A i \in 1..n : l[i].px = ladder[i].px /\ l[i] \in Levels
        /\ l[k].qty = qty /\ \A i \in 1..n : i # k => l[i].qty = ladder[i].qty
    <2> DEFINE level == [px |-> px, qty |-> qty]
    <2>1. level \in Levels /\ level.px = px /\ level.qty = qty
      BY DEF Levels
    <2> HIDE DEF level
    <2>2. \A i \in 1..n : l[i] = IF i = k THEN level ELSE ladder[i]
      BY <1>4, <1>5 DEF level
    <2>3. QED
      BY <1>1, <1>2, <2>1, <2>2
  <1>7. l \in Seq(Levels) /\ Len(l) = n
    <2>1. l \in [1..n -> Levels]
      BY <1>4, <1>6
    <2>2. QED
      BY <1>1, <2>1, MakesLadder
  <1>8. Sorted(side, l)
    BY <1>6, <1>7 DEF Sorted, n
  <1>9. ASSUME NEW m \in SizeMaps, Agree(ladder, m)
        PROVE  Agree(l, MapAfterUpdate(m, px, qty))
    <2> DEFINE m2 == MapAfterUpdate(m, px, qty)
    <2>1. /\ \A i, j \in 1..n : ladder[i].px = ladder[j].px => i = j
          /\ DOMAIN m = {ladder[i].px : i \in 1..n}
          /\ \A i \in 1..n : m[ladder[i].px] = ladder[i].qty
      BY <1>9 DEF Agree, Distinct, n
    <2>2. /\ DOMAIN m2 = DOMAIN m \cup {px} /\ m2[px] = qty
          /\ \A q \in DOMAIN m : q # px => m2[q] = m[q]
      BY DEF MapAfterUpdate
    <2>3. px \in DOMAIN m
      BY <1>2, <2>1
    <2> HIDE DEF m2
    <2>4. \A i \in 1..n : m2[l[i].px] = l[i].qty
      <3> SUFFICES ASSUME NEW i \in 1..n
                   PROVE  m2[l[i].px] = l[i].qty
        OBVIOUS
      <3>1. CASE i = k
        BY <1>2, <1>6, <2>2, <3>1
      <3>2. CASE i # k
        <4>1. ladder[i].px # px /\ ladder[i].px \in DOMAIN m
          BY <1>2, <2>1, <3>2
        <4>2. m2[ladder[i].px] = m[ladder[i].px]
          BY <2>2, <4>1
        <4>3. l[i].px = ladder[i].px /\ l[i].qty = ladder[i].qty
          BY <1>6, <3>2
        <4>4. m[ladder[i].px] = ladder[i].qty
          BY <2>1
        <4>5. QED
          BY <4>2, <4>3, <4>4
      <3>3. QED
        BY <3>1, <3>2
    <2>5. DOMAIN m2 = {ladder[i].px : i \in 1..n}
      BY <2>1, <2>2, <2>3
    <2>6. DOMAIN m2 = {l[i].px : i \in 1..n}
      BY <1>6, <2>5
    <2>7. \A i, j \in 1..n : l[i].px = l[j].px => i = j
      BY <1>6, <2>1
    <2>8. QED
      BY <1>7, <2>4, <2>6, <2>7 DEF Agree, Distinct, m2
  <1>10. QED
    BY <1>7, <1>8, <1>9 DEF l

(* What a level update does to either book: the ladder stays sorted, and   *)
(* the two books agree if they did.                                        *)
LEMMA UpdateKeeps ==
    ASSUME NEW side \in Side, NEW ladder \in Seq(Levels), Sorted(side, ladder), NEW px \in Nat,
           NEW qty \in Int, NEW l \in AfterUpdate(side, ladder, px, qty)
    PROVE  /\ l \in Seq(Levels) /\ Sorted(side, l)
           /\ \A m \in SizeMaps : Agree(ladder, m) => Agree(l, MapAfterUpdate(m, px, qty))
  <1>1. CASE PlacesOf(ladder, px) # {} /\ qty <= 0
    <2>1. PICK k \in PlacesOf(ladder, px) : l = Removed(ladder, k)
      BY <1>1 DEF AfterUpdate
    <2>2. QED
      BY <1>1, <2>1, RemoveLevel
  <1>2. CASE PlacesOf(ladder, px) # {} /\ ~(qty <= 0)
    <2>1. PICK k \in PlacesOf(ladder, px) : l = [ladder EXCEPT ![k].qty = qty]
      BY <1>2 DEF AfterUpdate
    <2>2. qty \in Nat \ {0}
      BY <1>2
    <2>3. QED
      BY <2>1, <2>2, ResizeLevel
  <1>3. CASE PlacesOf(ladder, px) = {} /\ qty > 0
    <2>1. l = Inserted(ladder, InsertionPlace(side, ladder, px), [px |-> px, qty |-> qty])
      BY <1>3 DEF AfterUpdate
    <2>2. qty \in Nat \ {0}
      BY <1>3
    <2>3. QED
      BY <1>3, <2>1, <2>2, InsertLevel
  <1>4. CASE PlacesOf(ladder, px) = {} /\ ~(qty > 0)
    <2>1. l = ladder
      BY <1>4 DEF AfterUpdate
    <2>2. ASSUME NEW m \in SizeMaps, Agree(ladder, m)
          PROVE  MapAfterUpdate(m, px, qty) = m
      <3>1. px \notin DOMAIN m
        BY <1>4, <2>2 DEF Agree, PlacesOf
      <3>2. qty <= 0
        BY <1>4
      <3>3. m = [p \in DOMAIN m |-> m[p]]
        BY DEF SizeMaps
      <3>4. DOMAIN m \ {px} = DOMAIN m
        BY <3>1
      <3>5. MapAfterUpdate(m, px, qty)
               = [p \in DOMAIN m \ {px} |-> IF p = px THEN qty ELSE m[p]]
        BY <3>2 DEF MapAfterUpdate
      <3>6. QED
        BY <3>1, <3>3, <3>4, <3>5
    <2>3. QED
      BY <2>1, <2>2
  <1>5. QED
    BY <1>1, <1>2, <1>3, <1>4

LEMMA UpdatedMap ==
    ASSUME NEW m \in SizeMaps, NEW px \in Nat, NEW qty \in Int
    PROVE  MapAfterUpdate(m, px, qty) \in SizeMaps
  <1> DEFINE D == IF qty <= 0 THEN DOMAIN m \ {px} ELSE DOMAIN m \cup {px}
             m2 == MapAfterUpdate(m, px, qty)
  <1>1. DOMAIN m \in SUBSET Nat /\ \A p \in DOMAIN m : m[p] \in Nat \ {0}
    BY DEF SizeMaps
  <1>2. m2 = [p \in D |-> IF p = px THEN qty ELSE m[p]]
    BY DEF MapAfterUpdate
  <1>3. D \in SUBSET Nat
    BY <1>1
  <1>4. \A p \in D : (IF p = px THEN qty ELSE m[p]) \in Nat \ {0}
    BY <1>1
  <1> HIDE DEF D, m2
  <1>5. m2 \in [D -> Nat \ {0}]
    BY <1>2, <1>4
  <1>6. QED
    BY <1>3, <1>5 DEF SizeMaps, m2
-----------------------------------------------------------------------------
(* Snapshots.                                                              *)

(* The kept levels, and how many were dropped.                             *)
LEMMA KeptLevels ==
    ASSUME NEW raw \in Seq(RawLevels)
    PROVE  /\ Len(raw) \in Nat /\ Kept(raw) \subseteq 1..Len(raw)
           /\ \A i \in 1..Len(raw) : raw[i] \in RawLevels
           /\ \A i \in Kept(raw) : raw[i].px \in Nat /\ raw[i].qty \in Nat \ {0}
           /\ Cardinality(Kept(raw)) \in Nat /\ dropped(raw) \in Nat
           /\ dropped(raw) = 0 => Kept(raw) = 1..Len(raw)
  <1> DEFINE n == Len(raw)
             K == Kept(raw)
             I == 1..n
  <1>1. n \in Nat /\ \A i \in I : raw[i] \in RawLevels
    BY LenProperties
  <1>2. K \subseteq I
    BY DEF Kept
  <1>3. \A i \in K : raw[i].px \in Nat /\ raw[i].qty \in Nat \ {0}
    BY <1>1, <1>2 DEF Kept, RawLevels
  <1>4. IsFiniteSet(I) /\ Cardinality(I) = n
    BY <1>1, Positions
  <1> HIDE DEF I, K
  <1>5. IsFiniteSet(K) /\ Cardinality(K) <= Cardinality(I)
        /\ (Cardinality(K) = Cardinality(I) => K = I)
    BY <1>2, <1>4, FS_Subset
  <1>6. Cardinality(K) \in Nat
    BY <1>5, FS_CardinalityType
  <1>7. dropped(raw) = n - Cardinality(K)
    BY DEF dropped, K
  <1> HIDE DEF n
  <1>8. dropped(raw) \in Nat /\ (dropped(raw) = 0 => K = I)
    BY <1>1, <1>4, <1>5, <1>6, <1>7
  <1>9. QED
    BY <1>1, <1>2, <1>3, <1>6, <1>8 DEF n, K, I

(* The price map of a snapshot.                                            *)
LEMMA PriceMapType ==
    ASSUME NEW raw \in Seq(RawLevels)
    PROVE  /\ PriceMap(raw) \in SizeMaps
           /\ DOMAIN PriceMap(raw) = {raw[i].px : i \in Kept(raw)}
           /\ ~RepeatsPrice(raw) => \A i \in Kept(raw) : PriceMap(raw)[raw[i].px] = raw[i].qty
  <1> DEFINE K == Kept(raw)
             D == {raw[i].px : i \in K}
             last(p) == CHOOSE i \in K : raw[i].px = p /\ \A j \in K : raw[j].px = p => j <= i
  <1>1. /\ Len(raw) \in Nat /\ K \subseteq 1..Len(raw)
        /\ \A i \in K : raw[i].px \in Nat /\ raw[i].qty \in Nat \ {0}
    BY KeptLevels
  <1>2. \A p \in D : last(p) \in K /\ raw[last(p)].px = p
    <2> SUFFICES ASSUME NEW p \in D
                 PROVE  last(p) \in K /\ raw[last(p)].px = p
      OBVIOUS
    <2> DEFINE S == {i \in K : raw[i].px = p}
               n == Len(raw)
    <2>1. n \in Nat /\ S \in SUBSET (0..n) /\ S # {}
      BY <1>1
    <2>2. \E i \in S : \A j \in S : j <= i
      <3> HIDE DEF S, n
      <3>1. QED
        BY <2>1, GreatestElement
    <2>3. \E i \in K : raw[i].px = p /\ \A j \in K : raw[j].px = p => j <= i
      BY <2>2
    <2>4. QED
      BY <2>3
  <1>3. PriceMap(raw) = [p \in D |-> raw[last(p)].qty]
    BY DEF PriceMap
  <1> HIDE DEF K, last
  <1>4. D \in SUBSET Nat
    BY <1>1
  <1>5. \A p \in D : raw[last(p)].qty \in Nat \ {0}
    BY <1>1, <1>2
  <1> DEFINE m == PriceMap(raw)
  <1>6. m \in [D -> Nat \ {0}]
    <2> HIDE DEF D
    <2>1. QED
      BY <1>3, <1>5
  <1>7. m \in SizeMaps
    <2> HIDE DEF D, m
    <2>1. QED
      BY <1>4, <1>6 DEF SizeMaps
  <1>8. ASSUME ~RepeatsPrice(raw), NEW i \in K
        PROVE  m[raw[i].px] = raw[i].qty
    <2>1. raw[i].px \in D
      OBVIOUS
    <2>2. last(raw[i].px) = i
      BY <1>2, <1>8, <2>1 DEF RepeatsPrice, K
    <2> HIDE DEF D, m
    <2>3. QED
      BY <1>3, <2>1, <2>2 DEF m
  <1>9. QED
    BY <1>3, <1>7, <1>8 DEF K

(* The levels of a stored ladder are the kept ones, each once.             *)
LEMMA StoredLevels ==
    ASSUME NEW side \in Side, NEW raw \in Seq(RawLevels)
    PROVE  \E at \in [1..Cardinality(Kept(raw)) -> Kept(raw)] :
              /\ StoredLadder(side, raw) = [k \in 1..Cardinality(Kept(raw)) |-> raw[at[k]]]
              /\ \A k \in 1..Cardinality(Kept(raw)) : Rank(side, raw, at[k]) = k
              /\ \A i \in Kept(raw) : at[Rank(side, raw, i)] = i
  <1> DEFINE K == Kept(raw)
             n == Cardinality(K)
             chosen(k) == CHOOSE i \in K : Rank(side, raw, i) = k
             at == [k \in 1..n |-> chosen(k)]
  <1>1. \A k \in 1..n : chosen(k) \in K /\ Rank(side, raw, chosen(k)) = k
    BY RankBijection
  <1>2. StoredLadder(side, raw) = [k \in 1..n |-> raw[chosen(k)]]
    BY DEF StoredLadder
  <1>3. \A i \in K : Rank(side, raw, i) \in 1..n
    BY RankBijection
  <1>4. K \subseteq 1..Len(raw) /\ Len(raw) \in Nat
    BY KeptLevels
  <1>5. \A i, j \in K : Rank(side, raw, i) = Rank(side, raw, j) => i = j
    <2> SUFFICES ASSUME NEW i \in K, NEW j \in K, i # j
                 PROVE  Rank(side, raw, i) # Rank(side, raw, j)
      OBVIOUS
    <2>1. Before(side, raw, i, j) \/ Before(side, raw, j, i)
      BY <1>4, BeforeOrder
    <2>2. Rank(side, raw, i) < Rank(side, raw, j) \/ Rank(side, raw, j) < Rank(side, raw, i)
      BY <2>1, RankBijection
    <2>3. Rank(side, raw, i) \in Int /\ Rank(side, raw, j) \in Int
      BY <1>3
    <2>4. QED
      BY <2>2, <2>3
  <1> HIDE DEF chosen, K, n
  <1>6. \A i \in K : at[Rank(side, raw, i)] = i
    BY <1>1, <1>3, <1>5
  <1>7. at \in [1..n -> K] /\ \A k \in 1..n : at[k] = chosen(k)
    BY <1>1
  <1>8. StoredLadder(side, raw) = [k \in 1..n |-> raw[at[k]]]
    BY <1>2, <1>7
  <1>9. \A k \in 1..n : Rank(side, raw, at[k]) = k
    BY <1>1, <1>7
  <1> HIDE DEF at
  <1>10. QED
    BY <1>6, <1>7, <1>8, <1>9 DEF n, K

(* A snapshot without a repeated price leaves both books the same levels.  *)
LEMMA SnapshotAgrees ==
    ASSUME NEW side \in Side, NEW raw \in Seq(RawLevels), ~RepeatsPrice(raw)
    PROVE  Agree(StoredLadder(side, raw), PriceMap(raw))
  <1> DEFINE K == Kept(raw)
             n == Cardinality(K)
             ladder == StoredLadder(side, raw)
             m == PriceMap(raw)
  <1>1. PICK at \in [1..n -> K] :
           /\ ladder = [k \in 1..n |-> raw[at[k]]]
           /\ \A k \in 1..n : Rank(side, raw, at[k]) = k
           /\ \A i \in K : at[Rank(side, raw, i)] = i
    BY StoredLevels
  <1>2. Len(ladder) = n
    BY StoredLadderNormalised
  <1>3. DOMAIN m = {raw[i].px : i \in K} /\ \A i \in K : m[raw[i].px] = raw[i].qty
    BY PriceMapType
  <1>4. \A i \in K : Rank(side, raw, i) \in 1..n
    BY RankBijection
  <1>5. \A i, j \in K : raw[i].px = raw[j].px => i = j
    BY DEF RepeatsPrice
  <1> HIDE DEF K, n, ladder, m
  <1>6. \A k \in 1..n : ladder[k] = raw[at[k]] /\ at[k] \in K
    BY <1>1
  <1>7. \A j, k \in 1..n : ladder[j].px = ladder[k].px => j = k
    BY <1>1, <1>5, <1>6
  <1>8. \A i \in K : \E k \in 1..n : ladder[k] = raw[i]
    BY <1>1, <1>4
  <1>9. DOMAIN m = {ladder[k].px : k \in 1..n}
    <2>1. \A p \in DOMAIN m : \E k \in 1..n : ladder[k].px = p
      BY <1>3, <1>8
    <2>2. \A k \in 1..n : ladder[k].px \in DOMAIN m
      BY <1>3, <1>6
    <2>3. QED
      BY <2>1, <2>2
  <1>10. \A k \in 1..n : m[ladder[k].px] = ladder[k].qty
    BY <1>3, <1>6
  <1>11. QED
    BY <1>2, <1>7, <1>9, <1>10 DEF Agree, Distinct, ladder, m

(* A side none of whose levels was dropped, and that arrived sorted, is    *)
(* stored as it arrived.                                                   *)
LEMMA StoredUnchanged ==
    ASSUME NEW side \in Side, NEW raw \in Seq(RawLevels), dropped(raw) = 0, is_sorted(side, raw)
    PROVE  StoredLadder(side, raw) = raw
  <1> DEFINE K == Kept(raw)
             n == Len(raw)
             ladder == StoredLadder(side, raw)
  <1>1. n \in Nat /\ K = 1..n /\ Cardinality(K) = n
    <2>1. n \in Nat /\ K = 1..n
      BY KeptLevels
    <2>2. QED
      BY <2>1, Positions
  <1>2. \A i, j \in 1..n : i < j => better(side, raw[i].px, raw[j].px)
    BY <1>1 DEF is_sorted
  <1>3. \A i \in 1..n : raw[i].px \in Nat
    BY <1>1, KeptLevels
  <1>4. \A i, j \in 1..n : Before(side, raw, j, i) <=> j < i
    <2> SUFFICES ASSUME NEW i \in 1..n, NEW j \in 1..n
                 PROVE  Before(side, raw, j, i) <=> j < i
      OBVIOUS
    <2>1. raw[i].px \in Nat /\ raw[j].px \in Nat
      BY <1>3
    <2>2. CASE j < i
      BY <1>2, <2>2 DEF Before
    <2>3. CASE j = i
      BY <1>1, <2>1, <2>3 DEF Before, better
    <2>4. CASE j > i
      <3>1. better(side, raw[i].px, raw[j].px)
        BY <1>2, <2>4
      <3>2. QED
        BY <1>1, <2>1, <2>4, <3>1 DEF Before, better
    <2>5. QED
      BY <1>1, <2>2, <2>3, <2>4
  <1>5. \A i \in 1..n : Rank(side, raw, i) = i
    <2> SUFFICES ASSUME NEW i \in 1..n
                 PROVE  Rank(side, raw, i) = i
      OBVIOUS
    <2>1. {j \in K : j = i \/ Before(side, raw, j, i)} = 1..i
      BY <1>1, <1>4
    <2>2. Cardinality(1..i) = i
      BY FS_Interval
    <2>3. QED
      BY <2>1, <2>2 DEF Rank
  <1>6. PICK at \in [1..n -> K] : /\ ladder = [k \in 1..n |-> raw[at[k]]]
                                  /\ \A k \in 1..n : Rank(side, raw, at[k]) = k
    BY <1>1, StoredLevels
  <1>7. \A k \in 1..n : at[k] = k
    BY <1>1, <1>5, <1>6
  <1>8. raw = [k \in 1..n |-> raw[k]]
    BY LenProperties
  <1> HIDE DEF ladder, n
  <1>9. ladder = raw
    BY <1>6, <1>7, <1>8
  <1>10. QED
    BY <1>9 DEF ladder
-----------------------------------------------------------------------------
(* The invariant.                                                          *)

(* Both ladders are sorted, both price maps well typed, and the books hold *)
(* the same levels unless the last snapshot had a price twice.             *)
BookInv ==
    /\ TypeOK
    /\ Sorted("Buy", book.bids) /\ Sorted("Sell", book.asks)
    /\ btree \in [bids : SizeMaps, asks : SizeMaps]
    /\ ~repeated => Agree(book.bids, btree.bids) /\ Agree(book.asks, btree.asks)

Stats == [snapshots : Nat, level_updates : Nat, crossed : Nat, bad_qty_levels : Nat,
          unsorted : Nat, ts_regressions : Nat]

(* The sizes of a well-typed price map are positive.                       *)
LEMMA MapSizes ==
    ASSUME NEW b \in [bids : SizeMaps, asks : SizeMaps]
    PROVE  \A side \in {"bids", "asks"} : \A p \in DOMAIN b[side] : b[side][p] > 0
  <1>1. \A m \in SizeMaps : \A p \in DOMAIN m : m[p] > 0
    <2> SUFFICES ASSUME NEW m \in SizeMaps, NEW p \in DOMAIN m
                 PROVE  m[p] > 0
      OBVIOUS
    <2>1. PICK D \in SUBSET Nat : m \in [D -> Nat \ {0}]
      BY DEF SizeMaps
    <2>2. m[p] \in Nat \ {0}
      BY <2>1
    <2>3. QED
      BY <2>2
  <1>2. b["bids"] \in SizeMaps /\ b["asks"] \in SizeMaps
    OBVIOUS
  <1>3. QED
    BY <1>1, <1>2

LEMMA CountType == \A c \in BOOLEAN : Count(c) \in {0, 1}
  BY DEF Count

LEMMA InitialBook ==
    ASSUME Init
    PROVE  BookInv
  <1>1. /\ book = EmptyBook /\ last_exch_ts = 0
        /\ stats = [snapshots |-> 0, level_updates |-> 0, crossed |-> 0,
                    bad_qty_levels |-> 0, unsorted |-> 0, ts_regressions |-> 0]
        /\ btree = [bids |-> NoLevels, asks |-> NoLevels] /\ repeated = FALSE
    BY DEF Init
  <1>2. NoLevels \in SizeMaps
    <2>1. NoLevels \in [{} -> Nat \ {0}] /\ {} \in SUBSET Nat
      BY DEF NoLevels
    <2>2. QED
      BY <2>1 DEF SizeMaps
  <1>3. btree \in [bids : SizeMaps, asks : SizeMaps]
    BY <1>1, <1>2
  <1>4. book \in Books /\ Sorted("Buy", book.bids) /\ Sorted("Sell", book.asks)
    BY <1>1 DEF EmptyBook, Books, Sorted
  <1>5. Agree(book.bids, btree.bids) /\ Agree(book.asks, btree.asks)
    <2>1. Agree(<<>>, NoLevels)
      BY DEF Agree, Distinct, NoLevels
    <2>2. book.bids = <<>> /\ book.asks = <<>>
      BY <1>1 DEF EmptyBook
    <2>3. btree.bids = NoLevels /\ btree.asks = NoLevels
      BY <1>1
    <2>4. QED
      BY <2>1, <2>2, <2>3
  <1>6. stats \in Stats
    BY <1>1 DEF Stats
  <1>7. TypeOK
    BY <1>1, <1>3, <1>4, <1>6, MapSizes DEF TypeOK, Stats
  <1>8. QED
    BY <1>3, <1>4, <1>5, <1>7 DEF BookInv

(* What is counted of a snapshot.                                          *)
LEMMA CountedSnapshot ==
    ASSUME stats \in Stats, NEW snap \in Snapshots, NEW ts \in Times
    PROVE  /\ Counted(snap, ts) \in Stats
           /\ Counted(snap, ts).bad_qty_levels
                 = stats.bad_qty_levels + dropped(snap.bids) + dropped(snap.asks)
           /\ Counted(snap, ts).unsorted
                 = stats.unsorted + Count(~is_sorted("Buy", snap.bids))
                      + Count(~is_sorted("Sell", snap.asks))
           /\ Counted(snap, ts).crossed = stats.crossed + Count(crossed(book'))
  <1> DEFINE late == Count(ts < last_exch_ts)
             droppedBids == dropped(snap.bids)
             droppedAsks == dropped(snap.asks)
             unsortedBids == Count(~is_sorted("Buy", snap.bids))
             unsortedAsks == Count(~is_sorted("Sell", snap.asks))
             isCrossed == Count(crossed(book'))
  <1>1. droppedBids \in Nat /\ droppedAsks \in Nat
    BY BookAssumption, KeptLevels
  <1>2. late \in Nat /\ unsortedBids \in Nat /\ unsortedAsks \in Nat /\ isCrossed \in Nat
    BY DEF Count
  <1>3. Counted(snap, ts)
           = [stats EXCEPT !.snapshots = @ + 1,
                           !.ts_regressions = @ + late,
                           !.bad_qty_levels = @ + droppedBids + droppedAsks,
                           !.unsorted = @ + unsortedBids + unsortedAsks,
                           !.crossed = @ + isCrossed]
    BY Zenon DEF Counted
  <1> HIDE DEF late, droppedBids, droppedAsks, unsortedBids, unsortedAsks, isCrossed
  <1>4. Counted(snap, ts)
           = [snapshots |-> stats.snapshots + 1, level_updates |-> stats.level_updates,
              crossed |-> stats.crossed + isCrossed,
              bad_qty_levels |-> stats.bad_qty_levels + droppedBids + droppedAsks,
              unsorted |-> stats.unsorted + unsortedBids + unsortedAsks,
              ts_regressions |-> stats.ts_regressions + late]
    BY <1>3 DEF Stats
  <1>5. /\ stats.snapshots \in Nat /\ stats.level_updates \in Nat /\ stats.crossed \in Nat
        /\ stats.bad_qty_levels \in Nat /\ stats.unsorted \in Nat /\ stats.ts_regressions \in Nat
    BY DEF Stats
  <1>6. QED
    BY <1>1, <1>2, <1>4, <1>5
       DEF Stats, droppedBids, droppedAsks, unsortedBids, unsortedAsks, isCrossed

LEMMA SnapshotKeeps ==
    ASSUME BookInv, NEW snap \in Snapshots, NEW ts \in Times, OnSnapshot(snap, ts)
    PROVE  BookInv'
  <1>1. snap.bids \in Seq(RawLevels) /\ snap.asks \in Seq(RawLevels)
        /\ snap \in [bids : Seq(RawLevels), asks : Seq(RawLevels)] /\ ts \in Nat
    BY BookAssumption
  <1>2. /\ book' = apply_snapshot(snap) /\ last_exch_ts' = ts /\ stats' = Counted(snap, ts)
        /\ btree' = [bids |-> PriceMap(snap.bids), asks |-> PriceMap(snap.asks)]
        /\ repeated' = (RepeatsPrice(snap.bids) \/ RepeatsPrice(snap.asks))
    BY DEF OnSnapshot
  <1>3. book' \in Books /\ Sorted("Buy", book'.bids) /\ Sorted("Sell", book'.asks)
    BY <1>1, <1>2, SnapshotNormalised
  <1>4. btree' \in [bids : SizeMaps, asks : SizeMaps]
    <2>1. PriceMap(snap.bids) \in SizeMaps /\ PriceMap(snap.asks) \in SizeMaps
      BY <1>1, PriceMapType
    <2>2. QED
      BY <1>2, <2>1
  <1>5. stats' \in Stats
    <2>1. stats \in Stats
      BY DEF BookInv, TypeOK, Stats
    <2>2. QED
      BY <1>2, <2>1, CountedSnapshot
  <1>6. ~repeated' => Agree(book'.bids, btree'.bids) /\ Agree(book'.asks, btree'.asks)
    <2> SUFFICES ASSUME ~repeated'
                 PROVE  Agree(book'.bids, btree'.bids) /\ Agree(book'.asks, btree'.asks)
      OBVIOUS
    <2>1. ~RepeatsPrice(snap.bids) /\ ~RepeatsPrice(snap.asks)
      BY <1>2
    <2>2. /\ book'.bids = StoredLadder("Buy", snap.bids)
          /\ book'.asks = StoredLadder("Sell", snap.asks)
      BY <1>2 DEF apply_snapshot
    <2>3. btree'.bids = PriceMap(snap.bids) /\ btree'.asks = PriceMap(snap.asks)
      BY <1>2
    <2>4. "Buy" \in Side /\ "Sell" \in Side
      BY DEF Side
    <2>5. QED
      BY <1>1, <2>1, <2>2, <2>3, <2>4, SnapshotAgrees
  <1>7. repeated' \in BOOLEAN
    BY <1>2
  <1>8. TypeOK'
    BY <1>1, <1>2, <1>3, <1>4, <1>5, <1>7, MapSizes DEF TypeOK, Stats
  <1>9. QED
    BY <1>3, <1>4, <1>6, <1>8 DEF BookInv

LEMMA LevelKeeps ==
    ASSUME BookInv, NEW u \in Updates, OnLevel(u.side, u.px, u.qty)
    PROVE  BookInv'
  <1>1. u.side \in Side /\ u.px \in Nat /\ u.qty \in Int
    BY BookAssumption
  <1>2. /\ book.bids \in Seq(Levels) /\ book.asks \in Seq(Levels)
        /\ book = [bids |-> book.bids, asks |-> book.asks]
        /\ Sorted("Buy", book.bids) /\ Sorted("Sell", book.asks)
        /\ btree.bids \in SizeMaps /\ btree.asks \in SizeMaps
        /\ btree = [bids |-> btree.bids, asks |-> btree.asks]
        /\ stats \in Stats /\ last_exch_ts \in Nat /\ repeated \in BOOLEAN
    BY DEF BookInv, TypeOK, Stats, Books
  <1>3. /\ stats' = [stats EXCEPT !.level_updates = @ + 1]
        /\ last_exch_ts' = last_exch_ts /\ repeated' = repeated
    BY DEF OnLevel
  <1>4. stats' \in Stats
    <2>1. stats.level_updates \in Nat
      BY <1>2 DEF Stats
    <2>2. stats.level_updates + 1 \in Nat
      BY <2>1
    <2>3. QED
      BY <1>2, <1>3, <2>2 DEF Stats
  <1> DEFINE NextInv == /\ book' \in Books
                        /\ Sorted("Buy", book'.bids) /\ Sorted("Sell", book'.asks)
                        /\ btree' \in [bids : SizeMaps, asks : SizeMaps]
                        /\ ~repeated => /\ Agree(book'.bids, btree'.bids)
                                        /\ Agree(book'.asks, btree'.asks)
  <1>5. ASSUME u.side = "Buy"
        PROVE  NextInv
    <2>1. PICK l \in AfterUpdate("Buy", book.bids, u.px, u.qty) :
             book' = [book EXCEPT !.bids = l]
      BY <1>5 DEF OnLevel
    <2> DEFINE m == MapAfterUpdate(btree.bids, u.px, u.qty)
    <2>2. btree' = [btree EXCEPT !.bids = m]
      BY <1>5 DEF OnLevel
    <2>3. l \in Seq(Levels) /\ Sorted("Buy", l) /\ m \in SizeMaps
          /\ (Agree(book.bids, btree.bids) => Agree(l, m))
      BY <1>1, <1>2, <1>5, UpdateKeeps, UpdatedMap
    <2> HIDE DEF m
    <2>4. book' = [bids |-> l, asks |-> book.asks] /\ btree' = [bids |-> m, asks |-> btree.asks]
      BY <1>2, <2>1, <2>2
    <2>5. /\ book'.bids = l /\ book'.asks = book.asks
          /\ btree'.bids = m /\ btree'.asks = btree.asks
      BY <2>4
    <2>6. book' \in Books /\ btree' \in [bids : SizeMaps, asks : SizeMaps]
      BY <1>2, <2>3, <2>4 DEF Books
    <2>7. QED
      BY <1>2, <2>3, <2>5, <2>6 DEF BookInv
  <1>6. ASSUME u.side # "Buy"
        PROVE  NextInv
    <2>1. u.side = "Sell" /\ "Sell" \in Side
      BY <1>1, <1>6 DEF Side
    <2>2. PICK l \in AfterUpdate("Sell", book.asks, u.px, u.qty) :
             book' = [book EXCEPT !.asks = l]
      BY <1>6, <2>1 DEF OnLevel
    <2> DEFINE m == MapAfterUpdate(btree.asks, u.px, u.qty)
    <2>3. btree' = [btree EXCEPT !.asks = m]
      BY <1>6 DEF OnLevel
    <2>4. l \in Seq(Levels) /\ Sorted("Sell", l) /\ m \in SizeMaps
          /\ (Agree(book.asks, btree.asks) => Agree(l, m))
      BY <1>1, <1>2, <2>1, UpdateKeeps, UpdatedMap
    <2> HIDE DEF m
    <2>5. book' = [bids |-> book.bids, asks |-> l] /\ btree' = [bids |-> btree.bids, asks |-> m]
      BY <1>2, <2>2, <2>3
    <2>6. /\ book'.bids = book.bids /\ book'.asks = l
          /\ btree'.bids = btree.bids /\ btree'.asks = m
      BY <2>5
    <2>7. book' \in Books /\ btree' \in [bids : SizeMaps, asks : SizeMaps]
      BY <1>2, <2>4, <2>5 DEF Books
    <2>8. QED
      BY <1>2, <2>4, <2>6, <2>7 DEF BookInv
  <1>7. NextInv
    BY <1>5, <1>6
  <1>8. TypeOK'
    BY <1>2, <1>3, <1>4, <1>7, MapSizes DEF TypeOK, Stats
  <1>9. QED
    BY <1>3, <1>7, <1>8 DEF BookInv

(* The invariant of both books under any mixture of snapshots and updates. *)
THEOREM BooksInvariant == Spec => []BookInv
  <1>1. Init => BookInv
    BY InitialBook
  <1>2. BookInv /\ [Next]_vars => BookInv'
    <2> SUFFICES ASSUME BookInv, [Next]_vars
                 PROVE  BookInv'
      OBVIOUS
    <2>1. CASE UNCHANGED vars
      BY <2>1 DEF BookInv, TypeOK, vars
    <2>2. QED
      BY <2>1, SnapshotKeeps, LevelKeeps DEF Next
  <1>3. QED
    BY <1>1, <1>2, PTL DEF Spec

(* Both ladders stay best first, whatever arrives unsorted and wherever    *)
(* the binary search puts a level (book.rs:17-20).                         *)
THEOREM LaddersStaySorted == Spec => []LaddersSorted
  <1>1. BookInv => LaddersSorted
    BY DEF BookInv, LaddersSorted
  <1>2. QED
    BY <1>1, BooksInvariant, PTL

(* Equal levels make the ladder, read as a map, the price map.             *)
LEMMA AgreementIsEquality ==
    ASSUME NEW ladder \in Seq(Levels), NEW m \in SizeMaps, Agree(ladder, m)
    PROVE  m = AsMap(ladder) /\ \A p \in DOMAIN m : Cardinality(PlacesOf(ladder, p)) = 1
  <1> DEFINE n == Len(ladder)
             at(p) == CHOOSE k \in PlacesOf(ladder, p) : TRUE
  <1>1. /\ \A i, j \in 1..n : ladder[i].px = ladder[j].px => i = j
        /\ DOMAIN m = {ladder[k].px : k \in 1..n}
        /\ \A k \in 1..n : m[ladder[k].px] = ladder[k].qty
    BY DEF Agree, Distinct
  <1>2. m = [p \in DOMAIN m |-> m[p]]
    BY DEF SizeMaps
  <1>3. ASSUME NEW p \in DOMAIN m
        PROVE  m[p] = ladder[at(p)].qty /\ Cardinality(PlacesOf(ladder, p)) = 1
    <2>1. PICK k \in 1..n : p = ladder[k].px
      BY <1>1
    <2>2. PlacesOf(ladder, p) = {k}
      BY <1>1, <2>1 DEF PlacesOf
    <2>3. at(p) = k
      BY <2>2
    <2>4. Cardinality({k}) = 1
      BY FS_Singleton
    <2>5. QED
      BY <1>1, <2>1, <2>2, <2>3, <2>4
  <1>4. AsMap(ladder) = [p \in DOMAIN m |-> ladder[at(p)].qty]
    BY <1>1 DEF AsMap
  <1> HIDE DEF at, n
  <1>5. QED
    BY <1>2, <1>3, <1>4

(* The vector book and the price map hold the same levels as long as no    *)
(* price occurs twice in a snapshot (what the test                         *)
(* vec_and_btree_books_agree_under_random_updates samples).                *)
THEOREM BothBooksAgree == Spec => []BooksAgree
  <1>1. BookInv => BooksAgree
    <2> SUFFICES ASSUME BookInv, ~repeated
                 PROVE  /\ btree = [bids |-> AsMap(book.bids), asks |-> AsMap(book.asks)]
                        /\ \A p \in DOMAIN btree.bids : Cardinality(PlacesOf(book.bids, p)) = 1
                        /\ \A p \in DOMAIN btree.asks : Cardinality(PlacesOf(book.asks, p)) = 1
      BY DEF BooksAgree
    <2>1. /\ book.bids \in Seq(Levels) /\ book.asks \in Seq(Levels)
          /\ btree.bids \in SizeMaps /\ btree.asks \in SizeMaps
          /\ btree = [bids |-> btree.bids, asks |-> btree.asks]
          /\ Agree(book.bids, btree.bids) /\ Agree(book.asks, btree.asks)
      BY DEF BookInv, TypeOK, Books
    <2>2. /\ btree.bids = AsMap(book.bids) /\ btree.asks = AsMap(book.asks)
          /\ \A p \in DOMAIN btree.bids : Cardinality(PlacesOf(book.bids, p)) = 1
          /\ \A p \in DOMAIN btree.asks : Cardinality(PlacesOf(book.asks, p)) = 1
      BY <2>1, AgreementIsEquality
    <2>3. QED
      BY <2>1, <2>2
  <1>2. QED
    BY <1>1, BooksInvariant, PTL

(* The touch of the stored book is crossed when any two kept levels are.   *)
LEMMA TouchCrosses ==
    ASSUME NEW snap \in Snapshots
    PROVE  crossed(apply_snapshot(snap)) <=> Meet(snap)
  <1> DEFINE KB == Kept(snap.bids)
             KA == Kept(snap.asks)
             nb == Cardinality(KB)
             na == Cardinality(KA)
             bids == StoredLadder("Buy", snap.bids)
             asks == StoredLadder("Sell", snap.asks)
             bid(i) == snap.bids[i].px
             ask(i) == snap.asks[i].px
  <1>1. snap.bids \in Seq(RawLevels) /\ snap.asks \in Seq(RawLevels)
        /\ "Buy" \in Side /\ "Sell" \in Side
    BY BookAssumption DEF Side
  <1>2. /\ nb \in Nat /\ \A i \in KB : bid(i) \in Nat
        /\ na \in Nat /\ \A i \in KA : ask(i) \in Nat
    BY <1>1, KeptLevels
  <1>3. Meet(snap) <=> \E i \in KB, j \in KA : bid(i) >= ask(j)
    BY <1>1, LenProperties DEF Meet, Kept
  <1>4. PICK at \in [1..nb -> KB] :
           /\ bids = [k \in 1..nb |-> snap.bids[at[k]]]
           /\ \A i \in KB : at[Rank("Buy", snap.bids, i)] = i
    BY <1>1, StoredLevels
  <1>5. PICK au \in [1..na -> KA] :
           /\ asks = [k \in 1..na |-> snap.asks[au[k]]]
           /\ \A i \in KA : au[Rank("Sell", snap.asks, i)] = i
    BY <1>1, StoredLevels
  <1>6. /\ Len(bids) = nb /\ Sorted("Buy", bids) /\ bids \in Seq(Levels)
        /\ Len(asks) = na /\ Sorted("Sell", asks) /\ asks \in Seq(Levels)
    BY <1>1, StoredLadderNormalised
  <1>7. \A i \in KB : Rank("Buy", snap.bids, i) \in 1..nb
    BY <1>1, RankBijection
  <1>8. \A i \in KA : Rank("Sell", snap.asks, i) \in 1..na
    BY <1>1, RankBijection
  <1>9. /\ bids # <<>> <=> nb # 0
        /\ asks # <<>> <=> na # 0
    BY <1>6, EmptySeq, LenProperties
  <1>10. crossed(apply_snapshot(snap))
            <=> nb # 0 /\ na # 0 /\ bids[1].px >= asks[1].px
    BY <1>9 DEF crossed, has_mid, apply_snapshot
  <1> HIDE DEF KB, KA, nb, na, bids, asks
  <1>11. \A k \in 1..nb : at[k] \in KB /\ bids[k].px = bid(at[k]) /\ bids[k].px \in Nat
    BY <1>2, <1>4
  <1>12. \A k \in 1..na : au[k] \in KA /\ asks[k].px = ask(au[k]) /\ asks[k].px \in Nat
    BY <1>2, <1>5
  <1>13. \A k \in 1..nb : bids[1].px >= bids[k].px
    BY <1>2, <1>6, <1>11 DEF Sorted, better
  <1>14. \A k \in 1..na : asks[1].px <= asks[k].px
    BY <1>2, <1>6, <1>12 DEF Sorted, better
  <1>15. ASSUME nb # 0, na # 0, bids[1].px >= asks[1].px
         PROVE  \E i \in KB, j \in KA : bid(i) >= ask(j)
    <2>1. 1 \in 1..nb /\ 1 \in 1..na
      BY <1>2, <1>15
    <2>2. at[1] \in KB /\ au[1] \in KA /\ bid(at[1]) >= ask(au[1])
      BY <1>11, <1>12, <1>15, <2>1
    <2>3. QED
      BY <2>2
  <1>16. ASSUME NEW i \in KB, NEW j \in KA, bid(i) >= ask(j)
         PROVE  nb # 0 /\ na # 0 /\ bids[1].px >= asks[1].px
    <2> DEFINE b == Rank("Buy", snap.bids, i)
               a == Rank("Sell", snap.asks, j)
    <2>1. b \in 1..nb /\ a \in 1..na /\ at[b] = i /\ au[a] = j
      BY <1>4, <1>5, <1>7, <1>8
    <2> HIDE DEF b, a
    <2>2. bids[b].px = bid(i) /\ asks[a].px = ask(j)
      BY <1>11, <1>12, <2>1
    <2>3. /\ bids[1].px >= bids[b].px /\ asks[1].px <= asks[a].px
          /\ 1 \in 1..nb /\ 1 \in 1..na
      BY <1>2, <1>13, <1>14, <2>1
    <2>4. /\ bids[1].px \in Nat /\ asks[1].px \in Nat
          /\ bids[b].px \in Nat /\ asks[a].px \in Nat
      BY <1>11, <1>12, <2>1, <2>3
    <2>5. QED
      BY <1>2, <1>16, <2>1, <2>2, <2>3, <2>4
  <1>17. QED
    BY <1>3, <1>10, <1>15, <1>16

(* No repair of a snapshot is silent: if the ladders it leaves are not the *)
(* ones that arrived, a counter of repairs has gone up, the dropped levels *)
(* are counted exactly, and so is a bid at or above an ask (book.rs:17-20, *)
(* 71-75).                                                                 *)
THEOREM NoSilentRepair == Spec => RepairsAreCounted
  <1> DEFINE Repairs ==
          \A snap \in Snapshots, ts \in Times : OnSnapshot(snap, ts) =>
              /\ book' # [bids |-> snap.bids, asks |-> snap.asks] =>
                    stats'.bad_qty_levels + stats'.unsorted
                       > stats.bad_qty_levels + stats.unsorted
              /\ stats'.bad_qty_levels - stats.bad_qty_levels
                    = Len(snap.bids) + Len(snap.asks) - Len(book'.bids) - Len(book'.asks)
              /\ stats'.crossed - stats.crossed = IF Meet(snap) THEN 1 ELSE 0
  <1>1. BookInv => Repairs
    <2> SUFFICES ASSUME BookInv, NEW snap \in Snapshots, NEW ts \in Times, OnSnapshot(snap, ts)
                 PROVE  /\ book' # [bids |-> snap.bids, asks |-> snap.asks] =>
                              stats'.bad_qty_levels + stats'.unsorted
                                 > stats.bad_qty_levels + stats.unsorted
                        /\ stats'.bad_qty_levels - stats.bad_qty_levels
                              = Len(snap.bids) + Len(snap.asks)
                                   - Len(book'.bids) - Len(book'.asks)
                        /\ stats'.crossed - stats.crossed = IF Meet(snap) THEN 1 ELSE 0
      OBVIOUS
    <2> DEFINE bad == stats.bad_qty_levels
               bad2 == stats'.bad_qty_levels
               uns == stats.unsorted
               uns2 == stats'.unsorted
               db == dropped(snap.bids)
               da == dropped(snap.asks)
               ub == Count(~is_sorted("Buy", snap.bids))
               ua == Count(~is_sorted("Sell", snap.asks))
    <2>1. /\ snap.bids \in Seq(RawLevels) /\ snap.asks \in Seq(RawLevels)
          /\ "Buy" \in Side /\ "Sell" \in Side
      BY BookAssumption DEF Side
    <2>2. stats \in Stats /\ bad \in Nat /\ uns \in Nat
      BY DEF BookInv, TypeOK, Stats
    <2>3. /\ bad2 = bad + db + da /\ uns2 = uns + ub + ua
          /\ book' = [bids |-> StoredLadder("Buy", snap.bids),
                      asks |-> StoredLadder("Sell", snap.asks)]
      BY <2>2, CountedSnapshot DEF OnSnapshot, apply_snapshot
    <2>4. db \in Nat /\ da \in Nat /\ ub \in {0, 1} /\ ua \in {0, 1}
      BY <2>1, KeptLevels DEF Count
    <2>5. db = 0 /\ ub = 0 => StoredLadder("Buy", snap.bids) = snap.bids
      BY <2>1, StoredUnchanged DEF Count
    <2>6. da = 0 /\ ua = 0 => StoredLadder("Sell", snap.asks) = snap.asks
      BY <2>1, StoredUnchanged DEF Count
    <2>7. /\ Len(book'.bids) = Len(snap.bids) - db /\ Len(book'.asks) = Len(snap.asks) - da
          /\ Len(snap.bids) \in Nat /\ Len(snap.asks) \in Nat
      <3>1. /\ Len(StoredLadder("Buy", snap.bids)) = Cardinality(Kept(snap.bids))
            /\ Len(StoredLadder("Sell", snap.asks)) = Cardinality(Kept(snap.asks))
        BY <2>1, StoredLadderNormalised
      <3>2. /\ Cardinality(Kept(snap.bids)) \in Nat /\ Cardinality(Kept(snap.asks)) \in Nat
            /\ Len(snap.bids) \in Nat /\ Len(snap.asks) \in Nat
        BY <2>1, KeptLevels
      <3>3. db = Len(snap.bids) - Cardinality(Kept(snap.bids))
            /\ da = Len(snap.asks) - Cardinality(Kept(snap.asks))
        BY DEF dropped
      <3>4. /\ Len(book'.bids) = Cardinality(Kept(snap.bids))
            /\ Len(book'.asks) = Cardinality(Kept(snap.asks))
        BY <2>3, <3>1
      <3> HIDE DEF db, da
      <3>5. QED
        BY <3>2, <3>3, <3>4
    <2> HIDE DEF bad, bad2, uns, uns2, db, da, ub, ua
    <2>8. ASSUME book' # [bids |-> snap.bids, asks |-> snap.asks]
          PROVE  bad2 + uns2 > bad + uns
      <3>1. db # 0 \/ da # 0 \/ ub # 0 \/ ua # 0
        BY <2>3, <2>5, <2>6, <2>8
      <3>2. /\ bad2 = bad + db + da /\ uns2 = uns + ub + ua
            /\ bad \in Nat /\ uns \in Nat
            /\ db \in Nat /\ da \in Nat /\ ub \in Nat /\ ua \in Nat
        BY <2>2, <2>3, <2>4
      <3>3. db + da + ub + ua > 0
        BY <3>1, <3>2
      <3>4. QED
        BY <3>2, <3>3
    <2>9. bad2 - bad = Len(snap.bids) + Len(snap.asks) - Len(book'.bids) - Len(book'.asks)
      <3> DEFINE lb == Len(snap.bids)
                 la == Len(snap.asks)
                 lb2 == Len(book'.bids)
                 la2 == Len(book'.asks)
      <3>1. /\ lb \in Nat /\ la \in Nat /\ lb2 = lb - db /\ la2 = la - da
            /\ bad \in Nat /\ db \in Nat /\ da \in Nat /\ bad2 = bad + db + da
        BY <2>2, <2>3, <2>4, <2>7
      <3> HIDE DEF lb, la, lb2, la2
      <3>2. bad2 - bad = lb + la - lb2 - la2
        BY <3>1
      <3>3. QED
        BY <3>2 DEF lb, la, lb2, la2
    <2>10. stats'.crossed - stats.crossed = IF Meet(snap) THEN 1 ELSE 0
      <3>1. /\ stats'.crossed = stats.crossed + Count(crossed(apply_snapshot(snap)))
            /\ stats.crossed \in Nat
        BY <2>2, CountedSnapshot DEF OnSnapshot, Stats
      <3>2. Count(crossed(apply_snapshot(snap))) = IF Meet(snap) THEN 1 ELSE 0
        BY TouchCrosses DEF Count
      <3>3. (IF Meet(snap) THEN 1 ELSE 0) \in Nat
        OBVIOUS
      <3>4. QED
        BY <3>1, <3>2, <3>3
    <2>11. QED
      BY <2>8, <2>9, <2>10 DEF bad, bad2, uns, uns2
  <1>2. BookInv /\ [Next]_vars => [Repairs]_vars
    BY <1>1
  <1>3. QED
    BY <1>2, BooksInvariant, PTL DEF Spec, RepairsAreCounted
=============================================================================
