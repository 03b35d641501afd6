------------------------- MODULE BacktestEngineProofs -------------------------
(***************************************************************************)
(* Theorems about the backtest engine, for every stream of events, every   *)
(* fee, latency and funding interval, and both strategies.                 *)
(***************************************************************************)
EXTENDS BacktestEngine, BasicLemmas

\* f carries a state in D from base through the steps 1..n.
Carries(f, D, base, n, step) ==
    /\ f \in [0..n -> D]
    /\ f[0] = base
    /\ \A i \in 1..n : f[i] = step[i][f[i - 1]]

(* A state can be carried through the numbers 1..n by any step function.   *)
LEMMA Recursion ==
    ASSUME NEW D, NEW base \in D, NEW n \in Nat, NEW step \in [1..n -> [D -> D]]
    PROVE  \E f : Carries(f, D, base, n, step)
  <1> DEFINE Carried(k, f) == /\ f \in [0..k -> D]
                              /\ f[0] = base
                              /\ \A i \in 1..k : f[i] = step[i][f[i - 1]]
             P == {k \in Nat : k <= n => \E f : Carried(k, f)}
  <1>1. 0 \in P
    <2> DEFINE f == [i \in 0..0 |-> base]
    <2>1. Carried(0, f)
      OBVIOUS
    <2>2. QED
      BY <2>1
  <1>2. ASSUME NEW k \in Nat, k \in P
        PROVE  k + 1 \in P
    <2> SUFFICES ASSUME k + 1 <= n
                 PROVE  \E f : Carried(k + 1, f)
      OBVIOUS
    <2>1. PICK f : Carried(k, f)
      BY <1>2
    <2> DEFINE g == [i \in 0..(k + 1) |-> IF i <= k THEN f[i] ELSE step[k + 1][f[k]]]
    <2>2. f[k] \in D /\ step[k + 1][f[k]] \in D
      BY <2>1
    <2>3. g \in [0..(k + 1) -> D] /\ g[0] = base
      BY <2>1, <2>2
    <2>4. ASSUME NEW i \in 1..(k + 1)
          PROVE  g[i] = step[i][g[i - 1]]
      <3>1. g[i - 1] = f[i - 1]
        OBVIOUS
      <3>2. CASE i <= k
        BY <2>1, <3>1, <3>2
      <3>3. CASE i = k + 1
        BY <3>1, <3>3
      <3>4. QED
        BY <3>2, <3>3
    <2> HIDE DEF g
    <2>5. QED
      BY <2>3, <2>4
  <1> HIDE DEF P
  <1>3. n \in P
    BY <1>1, <1>2, NumberInduction
  <1>4. QED
    BY <1>3 DEF P, Carries
-----------------------------------------------------------------------------
(* Subsequences.                                                           *)

\* What the first n positions leave, for every n.
Keeps(seq, P, X, kept) ==
    /\ kept \in [0..Len(seq) -> Seq(X)]
    /\ kept[0] = <<>>
    /\ \A n \in 1..Len(seq) : kept[n] = IF n \in P THEN Append(kept[n - 1], seq[n])
                                        ELSE kept[n - 1]
    /\ Subsequence(seq, P) = kept[Len(seq)]

(* The recursion that defines a subsequence has a solution.                *)
LEMMA SubsequenceKept ==
    ASSUME NEW seq, Len(seq) \in Nat, NEW P, NEW X,
           \A i \in 1..Len(seq) : i \in P => seq[i] \in X
    PROVE  \E kept : Keeps(seq, P, X, kept)
  <1> DEFINE N == Len(seq)
             none == <<>>
             next(i, s) == IF i \in P THEN Append(s, seq[i]) ELSE s
             Solves(k) == k = [n \in 0..N |-> IF n = 0 THEN none ELSE next(n, k[n - 1])]
             step == [i \in 1..N |-> [s \in Seq(X) |-> next(i, s)]]
             K == CHOOSE k : Solves(k)
  <1>1. N \in Nat /\ \A i \in 1..N : i \in P => seq[i] \in X
    OBVIOUS
  <1>2. Subsequence(seq, P) = K[N]
    BY Zenon DEF Subsequence
  <1> HIDE DEF N
  <1>3. none \in Seq(X)
    OBVIOUS
  <1>4. \A i \in 1..N : \A s \in Seq(X) : next(i, s) \in Seq(X)
    <2> SUFFICES ASSUME NEW i \in 1..N, NEW s \in Seq(X)
                 PROVE  (IF i \in P THEN Append(s, seq[i]) ELSE s) \in Seq(X)
      OBVIOUS
    <2>1. QED
      BY <1>1, AppendProperties
  <1> HIDE DEF none, next
  <1>5. PICK f \in [0..N -> Seq(X)] : f[0] = none /\ \A i \in 1..N : f[i] = step[i][f[i - 1]]
    <2>1. step \in [1..N -> [Seq(X) -> Seq(X)]]
      BY <1>4
    <2> DEFINE D == Seq(X)
    <2>2. N \in Nat /\ none \in D /\ step \in [1..N -> [D -> D]]
      BY <1>1, <1>3, <2>1
    <2> HIDE DEF step, D
    <2>3. PICK f : Carries(f, D, none, N, step)
      BY <2>2, Recursion
    <2>4. QED
      BY <2>3 DEF D, Carries
  <1>6. \A i \in 1..N : f[i] = next(i, f[i - 1])
    <2>1. \A i \in 1..N : f[i - 1] \in Seq(X)
      BY <1>1, <1>5
    <2>2. \A i \in 1..N : \A s \in Seq(X) : step[i][s] = next(i, s)
      OBVIOUS
    <2> HIDE DEF step
    <2>3. QED
      BY <1>5, <2>1, <2>2
  <1>7. Solves(f)
    BY <1>1, <1>5, <1>6
  <1>8. Solves(K)
    BY <1>7, Zenon
  <1> HIDE DEF K
  <1>9. K[0] = none /\ \A n \in 1..N : K[n] = next(n, K[n - 1])
    BY <1>1, <1>8
  <1>10. \A n \in 0..N : K[n] \in Seq(X)
    <2> DEFINE Q == {n \in Nat : n <= N => K[n] \in Seq(X)}
    <2>1. 0 \in Q
      BY <1>3, <1>9
    <2>2. ASSUME NEW n \in Nat, n \in Q
          PROVE  n + 1 \in Q
      <3>1. n + 1 <= N => n + 1 \in 1..N /\ K[n] \in Seq(X) /\ (n + 1) - 1 = n
        BY <1>1, <2>2
      <3>2. QED
        BY <1>4, <1>9, <3>1
    <2> HIDE DEF Q
    <2>3. \A n \in Nat : n \in Q
      BY <2>1, <2>2, NumberInduction
    <2>4. QED
      BY <2>3 DEF Q
  <1>11. K \in [0..N -> Seq(X)]
    <2>1. K = [n \in 0..N |-> K[n]]
      BY <1>8
    <2>2. QED
      BY <1>10, <2>1
  <1>12. \A n \in 1..N : K[n] = IF n \in P THEN Append(K[n - 1], seq[n]) ELSE K[n - 1]
    BY <1>9, Zenon DEF next
  <1>13. K[0] = <<>>
    BY <1>9 DEF none
  <1>14. QED
    BY <1>2, <1>11, <1>12, <1>13, Zenon DEF N, Keeps

(* What a subsequence keeps: elements of the kept positions only.          *)
LEMMA SubsequenceType ==
    ASSUME NEW seq, Len(seq) \in Nat, NEW P, NEW X,
           \A i \in 1..Len(seq) : i \in P => seq[i] \in X
    PROVE  Subsequence(seq, P) \in Seq(X)
  <1>1. PICK kept : Keeps(seq, P, X, kept)
    BY SubsequenceKept
  <1>2. Len(seq) \in 0..Len(seq)
    OBVIOUS
  <1>3. QED
    BY <1>1, <1>2 DEF Keeps

(* The total of a value over a sequence.                                   *)
Total(v, seq) == SumFunction([i \in DOMAIN seq |-> v[seq[i]]])

LEMMA TotalType ==
    ASSUME NEW X, NEW seq \in Seq(X), NEW v
    PROVE  /\ (\A x \in X : v[x] \in Int) => Total(v, seq) \in Int
           /\ (\A x \in X : v[x] \in Nat) => Total(v, seq) \in Nat
           /\ (\A i \in 1..Len(seq) : v[seq[i]] = 0) => Total(v, seq) = 0
  <1> DEFINE f == [i \in DOMAIN seq |-> v[seq[i]]]
             S == 1..Len(seq)
  <1>1. IsFiniteSet(S)
    BY LenProperties, FS_Interval
  <1>2. DOMAIN f = S /\ \A i \in S : f[i] = v[seq[i]] /\ seq[i] \in X
    BY LenProperties, ElementOfSeq
  <1>3. Total(v, seq) = SumFunctionOnSet(f, S)
    BY <1>2 DEF Total, SumFunction
  <1> HIDE DEF f
  <1>4. (\A x \in X : v[x] \in Int) => SumFunctionOnSet(f, S) \in Int
    <2> HIDE DEF S
    <2>1. QED
      BY <1>1, <1>2, SumInt
  <1>5. (\A x \in X : v[x] \in Nat) => SumFunctionOnSet(f, S) \in Nat
    <2> HIDE DEF S
    <2>1. QED
      BY <1>1, <1>2, SumNat
  <1>6. (\A i \in S : v[seq[i]] = 0) => SumFunctionOnSet(f, S) = 0
    <2> HIDE DEF S
    <2>1. QED
      BY <1>1, <1>2, SumZero
  <1>7. QED
    BY <1>3, <1>4, <1>5, <1>6

LEMMA TotalEmpty ==
    ASSUME NEW v
    PROVE  Total(v, <<>>) = 0
  <1> DEFINE f == [i \in DOMAIN <<>> |-> v[<<>>[i]]]
  <1>1. DOMAIN f = {}
    OBVIOUS
  <1> HIDE DEF f
  <1>2. SumFunction(f) = 0
    BY <1>1, SumOfNothing
  <1>3. QED
    BY <1>2 DEF Total, f

LEMMA TotalAppend ==
    ASSUME NEW X, NEW seq \in Seq(X), NEW x \in X, NEW v, \A y \in X : v[y] \in Int
    PROVE  Total(v, Append(seq, x)) = Total(v, seq) + v[x]
  <1> DEFINE n == Len(seq)
             s == Append(seq, x)
             f == [i \in DOMAIN seq |-> v[seq[i]]]
             g == [i \in DOMAIN s |-> v[s[i]]]
  <1>1. n \in Nat /\ DOMAIN seq = 1..n /\ \A i \in 1..n : seq[i] \in X
    BY LenProperties, ElementOfSeq
  <1>2. /\ DOMAIN s = 1..(n + 1) /\ s[n + 1] = x
        /\ \A i \in 1..n : s[i] = seq[i]
    <2>1. s \in Seq(X) /\ Len(s) = n + 1
      BY AppendProperties
    <2>2. DOMAIN s = 1..(n + 1)
      BY <2>1, LenProperties
    <2>3. QED
      BY <2>1, <2>2, AppendProperties
  <1> HIDE DEF n, s
  <1>3. DOMAIN f = 1..n /\ DOMAIN g = 1..(n + 1)
    BY <1>1, <1>2
  <1>4. \A i \in 1..n : f[i] = v[seq[i]] /\ g[i] = v[s[i]]
    BY <1>1, <1>2
  <1>5. g[n + 1] = v[x]
    BY <1>1, <1>2
  <1> HIDE DEF f, g
  <1>6. \A i \in 1..n : f[i] \in Int /\ g[i] = f[i]
    BY <1>1, <1>2, <1>4
  <1>7. SumFunction(g) = SumFunction(f) + g[n + 1]
    BY <1>1, <1>3, <1>5, <1>6, SumAppended
  <1>8. QED
    BY <1>5, <1>7 DEF Total, f, g, s

(* A subsequence adds up to the part of the sum that it keeps.             *)
LEMMA TotalSubsequence ==
    ASSUME NEW seq, Len(seq) \in Nat, NEW P, NEW v, NEW g,
           \A i \in 1..Len(seq) : g[i] = v[seq[i]] /\ (i \in P => g[i] \in Int)
    PROVE  Total(v, Subsequence(seq, P)) = SumFunctionOnSet(g, (1..Len(seq)) \cap P)
  <1> DEFINE N == Len(seq)
             X == {seq[i] : i \in (1..Len(seq)) \cap P}
  <1>8. /\ \A i \in 1..Len(seq) : i \in P => seq[i] \in X
        /\ \A x \in X : v[x] \in Int
    OBVIOUS
  <1> HIDE DEF X
  <1>0. PICK kept : Keeps(seq, P, X, kept)
    BY <1>8, SubsequenceKept
  <1>1. /\ kept \in [0..N -> Seq(X)]
        /\ kept[0] = <<>>
        /\ \A n \in 1..N : kept[n] = IF n \in P THEN Append(kept[n - 1], seq[n])
                                     ELSE kept[n - 1]
        /\ Subsequence(seq, P) = kept[N]
    BY <1>0 DEF Keeps
  <1>2. N \in Nat /\ \A i \in 1..N : g[i] = v[seq[i]] /\ (i \in P => seq[i] \in X)
    BY <1>8
  <1> HIDE DEF N
  <1> DEFINE R == {n \in Nat : n <= N =>
                      Total(v, kept[n]) = SumFunctionOnSet(g, (1..n) \cap P)}
  <1>3. 0 \in R
    <2>1. Total(v, kept[0]) = 0
      BY <1>1, TotalEmpty
    <2>2. (1..0) \cap P = {}
      OBVIOUS
    <2>3. SumFunctionOnSet(g, (1..0) \cap P) = 0
      BY <2>2, SumEmpty
    <2>4. QED
      BY <2>1, <2>3
  <1>4. ASSUME NEW n \in Nat, n \in R
        PROVE  n + 1 \in R
    <2> SUFFICES ASSUME n + 1 <= N
                 PROVE  Total(v, kept[n + 1]) = SumFunctionOnSet(g, (1..(n + 1)) \cap P)
      OBVIOUS
    <2>1. Total(v, kept[n]) = SumFunctionOnSet(g, (1..n) \cap P) /\ kept[n] \in Seq(X)
      BY <1>1, <1>2, <1>4
    <2>2. n + 1 \in 1..N /\ (n + 1) - 1 = n
      BY <1>2
    <2>3. CASE n + 1 \in P
      <3> DEFINE S == (1..n) \cap P
      <3>1. kept[n + 1] = Append(kept[n], seq[n + 1])
        BY <1>1, <2>2, <2>3
      <3>2. seq[n + 1] \in X /\ g[n + 1] = v[seq[n + 1]] /\ g[n + 1] \in Int
        BY <1>2, <1>8, <2>2, <2>3
      <3>3. Total(v, kept[n + 1]) = Total(v, kept[n]) + g[n + 1]
        BY <1>8, <2>1, <3>1, <3>2, TotalAppend
      <3>4. (1..(n + 1)) \cap P = S \cup {n + 1} /\ n + 1 \notin S
        BY <2>3
      <3>5. IsFiniteSet(S)
        <4>1. IsFiniteSet(1..n)
          BY FS_Interval
        <4>2. S \subseteq 1..n
          OBVIOUS
        <4>3. QED
          BY <4>1, <4>2, FS_Subset
      <3>6. \A i \in S : g[i] \in Int
        <4>1. \A i \in S : i \in 1..N /\ i \in P
          BY <1>2, <2>2
        <4>2. QED
          BY <1>2, <1>8, <4>1
      <3> HIDE DEF S
      <3>7. SumFunctionOnSet(g, S \cup {n + 1}) = SumFunctionOnSet(g, S) + g[n + 1]
        BY <3>2, <3>4, <3>5, <3>6, SumAdd
      <3>8. SumFunctionOnSet(g, (1..(n + 1)) \cap P) = SumFunctionOnSet(g, S) + g[n + 1]
        BY <3>4, <3>7, Zenon
      <3>9. QED
        BY <2>1, <3>3, <3>8 DEF S
    <2>4. CASE n + 1 \notin P
      <3>1. kept[n + 1] = kept[n]
        BY <1>1, <2>2, <2>4
      <3>2. (1..(n + 1)) \cap P = (1..n) \cap P
        BY <2>4
      <3>3. QED
        BY <2>1, <3>1, <3>2
    <2>5. QED
      BY <2>3, <2>4
  <1> HIDE DEF R
  <1>5. N \in R
    BY <1>2, <1>3, <1>4, NumberInduction
  <1>6. Total(v, kept[N]) = SumFunctionOnSet(g, (1..N) \cap P)
    BY <1>2, <1>5 DEF R
  <1>7. QED
    BY <1>1, <1>6 DEF N
-----------------------------------------------------------------------------
(* The arithmetic of amounts.                                              *)

LEMMA RateType ==
    ASSUME NEW cash \in Int, NEW ppm \in Int
    PROVE  rate_ppm_signed(cash, ppm) \in Int
  <1> DEFINE n == cash * ppm
  <1>1. n \in Int /\ PPM \in Nat \ {0}
    BY DEF PPM
  <1> HIDE DEF n
  <1>2. TruncDiv(n, PPM) \in Int
    BY <1>1, TruncDivType
  <1>3. QED
    BY <1>2 DEF rate_ppm_signed, n

LEMMA FeeType ==
    ASSUME NEW cash \in Int, NEW ppm \in Nat
    PROVE  fee_ppm(cash, ppm) \in Nat
  <1> DEFINE n == Abs(cash) * ppm
  <1>1. Abs(cash) \in Nat
    BY DEF Abs
  <1>2. n \in Nat /\ PPM \in Nat \ {0}
    BY <1>1, ProductNat DEF PPM
  <1> HIDE DEF n
  <1>3. TruncDiv(n, PPM) \in Nat
    BY <1>2, TruncDivType
  <1>4. QED
    BY <1>3 DEF fee_ppm, n

LEMMA MidpointType ==
    ASSUME NEW bid \in Nat, NEW ask \in Nat
    PROVE  midpoint(bid, ask) \in Nat
  <1>1. TruncDiv(bid + ask, 2) \in Nat
    BY TruncDivType
  <1>2. QED
    BY <1>1 DEF midpoint
-----------------------------------------------------------------------------
(* Fills.                                                                  *)

Fills == [side : Side, px : Nat, qty : Nat, fee_rate : Nat]

QtyOf == [f \in Fills |-> f.qty]
SignedOf == [f \in Fills |-> sign(f.side) * f.qty]
CashOf == [f \in Fills |-> sign(f.side) * Value(f) + Fee(f)]
FeeOf == [f \in Fills |-> Fee(f)]

LEMMA FillAmounts ==
    ASSUME NEW f \in Fills
    PROVE  /\ QtyOf[f] = f.qty /\ QtyOf[f] \in Nat /\ QtyOf[f] \in Int
           /\ SignedOf[f] = sign(f.side) * f.qty /\ SignedOf[f] \in Int
           /\ CashOf[f] = sign(f.side) * Value(f) + Fee(f) /\ CashOf[f] \in Int
           /\ FeeOf[f] = Fee(f) /\ FeeOf[f] \in Nat
  <1>1. f.px \in Nat /\ f.qty \in Nat /\ f.fee_rate \in Nat /\ sign(f.side) \in Int
    BY DEF Fills, sign
  <1>2. Value(f) \in Int
    <2>1. f.px \in Int /\ f.qty \in Int
      BY <1>1
    <2>2. notional(f.px, f.qty) \in Int
      BY <2>1, NotionalType
    <2>3. QED
      BY <2>2 DEF Value
  <1>3. Fee(f) \in Nat
    BY <1>1, <1>2, FeeType DEF Fee
  <1>4. /\ \A a \in Int, b \in Int : a * b \in Int
        /\ \A a \in Int, b \in Nat : a + b \in Int
    OBVIOUS
  <1>5. sign(f.side) * f.qty \in Int /\ sign(f.side) * Value(f) \in Int
    BY <1>1, <1>2, <1>4
  <1> DEFINE signed == sign(f.side) * Value(f)
  <1>6. signed \in Int
    BY <1>5
  <1> HIDE DEF signed
  <1>7. signed + Fee(f) \in Int
    BY <1>3, <1>4, <1>6
  <1>8. QED
    BY <1>1, <1>3, <1>5, <1>7 DEF QtyOf, SignedOf, CashOf, FeeOf, signed

LEMMA FillTotals ==
    ASSUME NEW fills \in Seq(Fills)
    PROVE  /\ SumOf(LAMBDA f : sign(f.side) * f.qty, fills) = Total(SignedOf, fills)
           /\ SumOf(LAMBDA f : sign(f.side) * Value(f) + Fee(f), fills) = Total(CashOf, fills)
           /\ SumOf(Fee, fills) = Total(FeeOf, fills)
           /\ SumOf(LAMBDA f : f.qty, fills) = Total(QtyOf, fills)
           /\ Total(SignedOf, fills) \in Int
           /\ Total(CashOf, fills) \in Int
           /\ Total(FeeOf, fills) \in Nat
           /\ Total(QtyOf, fills) \in Nat
  <1>1. \A i \in DOMAIN fills :
           /\ SignedOf[fills[i]] = sign(fills[i].side) * fills[i].qty
           /\ CashOf[fills[i]] = sign(fills[i].side) * Value(fills[i]) + Fee(fills[i])
           /\ FeeOf[fills[i]] = Fee(fills[i])
           /\ QtyOf[fills[i]] = fills[i].qty
    <2>1. \A i \in DOMAIN fills : fills[i] \in Fills
      BY LenProperties, ElementOfSeq
    <2>2. QED
      BY <2>1, FillAmounts
  <1>2. [i \in DOMAIN fills |-> sign(fills[i].side) * fills[i].qty]
           = [i \in DOMAIN fills |-> SignedOf[fills[i]]]
    BY <1>1
  <1>3. [i \in DOMAIN fills |-> sign(fills[i].side) * Value(fills[i]) + Fee(fills[i])]
           = [i \in DOMAIN fills |-> CashOf[fills[i]]]
    BY <1>1
  <1>4. [i \in DOMAIN fills |-> Fee(fills[i])] = [i \in DOMAIN fills |-> FeeOf[fills[i]]]
    BY <1>1
  <1>5. [i \in DOMAIN fills |-> fills[i].qty] = [i \in DOMAIN fills |-> QtyOf[fills[i]]]
    BY <1>1
  <1>6. /\ \A f \in Fills : SignedOf[f] \in Int /\ CashOf[f] \in Int
        /\ \A f \in Fills : FeeOf[f] \in Nat /\ QtyOf[f] \in Nat
    BY FillAmounts
  <1>7. /\ Total(SignedOf, fills) \in Int /\ Total(CashOf, fills) \in Int
        /\ Total(FeeOf, fills) \in Nat /\ Total(QtyOf, fills) \in Nat
    BY <1>6, TotalType
  <1>8. QED
    BY <1>2, <1>3, <1>4, <1>5, <1>7, Zenon DEF SumOf, Total

(* Booking fills keeps a ledger's type and adds up what was filled.        *)
LEMMA ApplyFills ==
    ASSUME NEW l \in Ledgers, NEW fills \in Seq(Fills)
    PROVE  /\ apply_fills(l, fills) \in Ledgers
           /\ apply_fills(l, fills).position = l.position + Total(SignedOf, fills)
           /\ apply_fills(l, fills).filled = l.filled + Total(QtyOf, fills)
           /\ apply_fills(l, fills).unfilled = l.unfilled
  <1> DEFINE signed == Total(SignedOf, fills)
             paid == Total(CashOf, fills)
             fees == Total(FeeOf, fills)
             qty == Total(QtyOf, fills)
  <1>1. apply_fills(l, fills)
           = [l EXCEPT !.position = @ + signed, !.cash = @ - paid,
                       !.fees = @ + fees, !.filled = @ + qty]
    BY FillTotals, Zenon DEF apply_fills
  <1>2. signed \in Int /\ paid \in Int /\ fees \in Nat /\ qty \in Nat
    BY FillTotals
  <1> HIDE DEF signed, paid, fees, qty
  <1>3. apply_fills(l, fills)
           = [cash |-> l.cash - paid, position |-> l.position + signed, fees |-> l.fees + fees,
              funding_paid |-> l.funding_paid, filled |-> l.filled + qty,
              unfilled |-> l.unfilled, peak |-> l.peak, max_drawdown |-> l.max_drawdown,
              last_equity |-> l.last_equity]
    BY <1>1 DEF Ledgers
  <1>4. /\ l.cash \in Int /\ l.position \in Int /\ l.fees \in Nat /\ l.funding_paid \in Int
        /\ l.filled \in Nat /\ l.unfilled \in Nat /\ l.peak \in Int /\ l.max_drawdown \in Nat
        /\ l.last_equity \in Int
    BY DEF Ledgers
  <1>5. l.cash - paid \in Int /\ l.position + signed \in Int
    <2>1. l.cash \in Int /\ l.position \in Int
      BY <1>4
    <2>2. QED
      BY <1>2, <2>1
  <1>6. l.fees + fees \in Nat /\ l.filled + qty \in Nat
    <2>1. l.fees \in Nat /\ l.filled \in Nat
      BY <1>4
    <2>2. QED
      BY <1>2, <2>1
  <1> DEFINE booked == apply_fills(l, fills)
  <1> HIDE DEF booked
  <1>7. booked \in Ledgers
    BY <1>3, <1>4, <1>5, <1>6 DEF Ledgers, booked
  <1>8. /\ apply_fills(l, fills).position = l.position + signed
        /\ apply_fills(l, fills).filled = l.filled + qty
        /\ apply_fills(l, fills).unfilled = l.unfilled
    BY <1>3
  <1>9. QED
    BY <1>7, <1>8 DEF signed, qty, booked

(* What the levels of a ladder give a market order: its quantity or their  *)
\* A quantity taken up to one depth, and what a further level then gives of it.
LEMMA TakenSoFar ==
    ASSUME NEW qty \in Nat, NEW before \in Nat, NEW level \in Nat
    PROVE  Lesser(qty, before) + Greater(0, Lesser(level, qty - before))
           = Lesser(qty, before + level)
  BY DEF Greater, Lesser

(* depth, whichever is less.                                               *)
LEMMA TakenInAll ==
    ASSUME NEW ladder \in Seq(Levels), NEW qty \in Nat,
           NEW f, f = [k \in DOMAIN ladder |-> Take(ladder, qty, k)]
    PROVE  /\ \A k \in DOMAIN ladder : f[k] \in Nat
           /\ SumFunction(f) \in Nat /\ SumFunction(f) <= qty
  <1> DEFINE N == Len(ladder)
             d == [i \in DOMAIN ladder |-> ladder[i].qty]
             D(k) == SumFunctionOnSet(d, 1..k)
             F(k) == SumFunctionOnSet(f, 1..k)
             Q == {n \in Nat : n <= N => F(n) = Lesser(qty, D(n))}
  <1>1. N \in Nat /\ DOMAIN ladder = 1..N /\ \A i \in 1..N : ladder[i] \in Levels
    BY LenProperties, ElementOfSeq
  <1>2. \A i \in 1..N : d[i] = ladder[i].qty /\ d[i] \in Nat /\ d[i] \in Int
    BY <1>1 DEF Levels
  <1>3. \A k \in 1..N : f[k] = Greater(0, Lesser(d[k], qty - D(k - 1)))
    BY <1>1, <1>2 DEF Take, Depth
  <1>9. DOMAIN f = 1..N
    BY <1>1
  <1> HIDE DEF N, d
  <1>4. \A k \in 0..N : D(k) \in Nat
    BY <1>1, <1>2, SumPrefix
  <1>5. ASSUME NEW k \in 1..N
        PROVE  f[k] \in Nat
    <2>1. k - 1 \in 0..N
      BY <1>1
    <2>2. D(k - 1) \in Nat /\ d[k] \in Nat
      BY <1>2, <1>4, <2>1
    <2>3. f[k] = Greater(0, Lesser(d[k], qty - D(k - 1)))
      BY <1>3
    <2> HIDE DEF D
    <2>4. QED
      BY <2>2, <2>3 DEF Greater, Lesser
  <1>6. 0 \in Q
    <2>1. 1..0 = {}
      OBVIOUS
    <2>2. F(0) = 0 /\ D(0) = 0
      BY <2>1, SumEmpty
    <2>3. QED
      BY <2>2 DEF Lesser
  <1>7. ASSUME NEW n \in Nat, n \in Q
        PROVE  n + 1 \in Q
    <2> SUFFICES ASSUME n + 1 <= N
                 PROVE  F(n + 1) = Lesser(qty, D(n + 1))
      OBVIOUS
    <2>1. n + 1 \in 1..N /\ (n + 1) - 1 = n /\ 1 \in Int /\ n + 1 \in Int /\ 1 <= n + 1 /\ n \in 0..N
      BY <1>1
    <2>2. F(n) = Lesser(qty, D(n)) /\ D(n) \in Nat
      BY <1>1, <1>4, <1>7, <2>1
    <2>3. \A i \in 1..(n + 1) : f[i] \in Int /\ d[i] \in Int
      <3>1. \A i \in 1..(n + 1) : i \in 1..N
        BY <1>1, <2>1
      <3>2. \A i \in 1..N : f[i] \in Nat /\ d[i] \in Nat
        <4> HIDE DEF D, F, Q
        <4> QED
          BY <1>2, <1>5
      <3>3. ASSUME NEW i \in 1..(n + 1)
            PROVE  f[i] \in Int /\ d[i] \in Int
        <4>1. f[i] \in Nat /\ d[i] \in Nat
          BY <3>1, <3>2, Zenon
        <4> QED
          BY <4>1
      <3>4. QED
        BY <3>3, Zenon
    <2>4. F(n + 1) = F(n) + f[n + 1] /\ D(n + 1) = D(n) + d[n + 1]
      <3>1. SumFunctionOnSet(f, 1..(n + 1)) = SumFunctionOnSet(f, 1..((n + 1) - 1)) + f[n + 1]
        BY <2>1, <2>3, SumLastTerm
      <3>2. SumFunctionOnSet(d, 1..(n + 1)) = SumFunctionOnSet(d, 1..((n + 1) - 1)) + d[n + 1]
        BY <2>1, <2>3, SumLastTerm
      <3>3. QED
        BY <2>1, <3>1, <3>2
    <2>5. f[n + 1] = Greater(0, Lesser(d[n + 1], qty - D(n))) /\ d[n + 1] \in Nat
      BY <1>2, <1>3, <2>1
    <2> HIDE DEF D, F
    <2>6. F(n + 1) = Lesser(qty, D(n)) + Greater(0, Lesser(d[n + 1], qty - D(n)))
      BY <2>2, <2>4, <2>5
    <2>7. Lesser(qty, D(n)) + Greater(0, Lesser(d[n + 1], qty - D(n)))
          = Lesser(qty, D(n) + d[n + 1])
      BY <2>2, <2>5, TakenSoFar
    <2>8. QED
      BY <2>4, <2>6, <2>7, Zenon
  <1> HIDE DEF Q
  <1>8. N \in Q
    BY <1>1, <1>6, <1>7, NumberInduction
  <1>10. F(N) = Lesser(qty, D(N)) /\ D(N) \in Nat
    BY <1>1, <1>4, <1>8 DEF Q
  <1>11. SumFunction(f) = F(N)
    BY <1>9 DEF SumFunction
  <1> HIDE DEF F, D
  <1>12. QED
    BY <1>1, <1>5, <1>10, <1>11 DEF Lesser

(* A market order is filled as far as the depth goes; the rest is          *)
(* reported, and nothing is lost.                                          *)
LEMMA MarketFills ==
    ASSUME book' \in Books, NEW side \in Side, NEW qty \in Nat
    PROVE  /\ market(side, qty).fills \in Seq(Fills)
           /\ market(side, qty).unfilled \in Nat
           /\ Total(QtyOf, market(side, qty).fills) + market(side, qty).unfilled = qty
  <1> DEFINE ladder == Opposite(book', side)
             f == [k \in DOMAIN ladder |-> Take(ladder, qty, k)]
             fills == [k \in DOMAIN ladder |->
                          [side |-> side, px |-> ladder[k].px, qty |-> Take(ladder, qty, k),
                           fee_rate |-> taker_fee_ppm]]
  <1>1. ladder \in Seq(Levels)
    BY DEF Opposite, Books
  <1>2. /\ market(side, qty).fills = fills
        /\ market(side, qty).unfilled = qty - SumOf(LAMBDA g : g.qty, fills)
    BY DEF market
  <1> HIDE DEF ladder
  <1>3. Len(ladder) \in Nat /\ DOMAIN ladder = 1..Len(ladder)
        /\ \A i \in DOMAIN ladder : ladder[i] \in Levels
    BY <1>1, LenProperties, ElementOfSeq
  <1>4. /\ \A k \in DOMAIN ladder : f[k] \in Nat
        /\ SumFunction(f) \in Nat /\ SumFunction(f) <= qty
    <2> HIDE DEF f
    <2>1. f = [k \in DOMAIN ladder |-> Take(ladder, qty, k)]
      BY DEF f
    <2>2. QED
      BY <1>1, <2>1, TakenInAll
  <1>5. fills \in Seq(Fills)
    <2>1. \A k \in DOMAIN ladder : fills[k] \in Fills
      BY <1>3, <1>4, EngineAssumption DEF Fills, Levels
    <2>2. fills \in [1..Len(ladder) -> Fills]
      BY <1>3, <2>1
    <2> HIDE DEF fills
    <2>3. QED
      BY <1>3, <2>2, SeqDef
  <1>6. Total(QtyOf, fills) = SumFunction(f)
    <2>1. SumOf(LAMBDA g : g.qty, fills) = SumFunction([i \in DOMAIN fills |-> fills[i].qty])
      BY Zenon DEF SumOf
    <2>2. [i \in DOMAIN fills |-> fills[i].qty] = f
      OBVIOUS
    <2> HIDE DEF f, fills
    <2>3. SumOf(LAMBDA g : g.qty, fills) = Total(QtyOf, fills)
      BY <1>5, FillTotals
    <2>4. QED
      BY <2>1, <2>2, <2>3
  <1> HIDE DEF f, fills
  <1>7. SumOf(LAMBDA g : g.qty, fills) = Total(QtyOf, fills)
    BY <1>5, FillTotals
  <1> DEFINE t == Total(QtyOf, fills)
  <1>8. market(side, qty).unfilled = qty - t
    BY <1>2, <1>7
  <1> HIDE DEF t
  <1>9. t \in Nat /\ t <= qty
    BY <1>4, <1>6 DEF t
  <1>10. QED
    BY <1>2, <1>5, <1>8, <1>9 DEF t
-----------------------------------------------------------------------------
(* The stages of an event's handling.                                      *)

(* The smallest of a set of numbers is one of them.                        *)
LEMMA SmallestExists ==
    ASSUME NEW S \in SUBSET Nat, S # {}
    PROVE  Min(S) \in S
  BY LeastElement DEF Min

LEMMA SizeAtType ==
    ASSUME book' \in Books, NEW side \in Side, NEW px
    PROVE  size_at(side, px) \in Nat
  <1> DEFINE ladder == IF side = "Buy" THEN book'.bids ELSE book'.asks
             at == {k \in 1..Len(ladder) : ladder[k].px = px}
  <1>1. ladder \in Seq(Levels)
    BY DEF Books
  <1>2. size_at(side, px) = IF at = {} THEN 0 ELSE ladder[Min(at)].qty
    BY DEF size_at
  <1> HIDE DEF ladder
  <1>3. ASSUME at # {}
        PROVE  ladder[Min(at)].qty \in Nat
    <2>1. at \in SUBSET Nat
      OBVIOUS
    <2> HIDE DEF at
    <2>2. Min(at) \in at
      BY <1>3, <2>1, SmallestExists
    <2>3. Min(at) \in 1..Len(ladder)
      BY <2>2 DEF at
    <2>4. ladder[Min(at)] \in Levels
      BY <1>1, <2>3, ElementOfSeq
    <2>5. QED
      BY <2>4 DEF Levels
  <1> HIDE DEF at
  <1>4. QED
    BY <1>2, <1>3

LEMMA MidType ==
    ASSUME NEW b \in Books, has_mid(b)
    PROVE  mid(b) \in Nat
  <1>1. b.bids \in Seq(Levels) /\ b.asks \in Seq(Levels) /\ b.bids # <<>> /\ b.asks # <<>>
    BY DEF has_mid, Books
  <1>2. b.bids[1] \in Levels /\ b.asks[1] \in Levels
    BY <1>1, EmptySeq, ElementOfSeq, LenProperties
  <1>3. b.bids[1].px \in Nat /\ b.asks[1].px \in Nat
    BY <1>2 DEF Levels
  <1>4. QED
    BY <1>3, MidpointType DEF mid

\* What a position pays at one boundary.
Payment(position) ==
    IF has_mid(book')
    THEN rate_ppm_signed(notional(mid(book'), position), funding_rate_ppm)
    ELSE 0
Passed == Boundaries(first_boundary, now')

(* Funding moves cash only, by one payment for each boundary passed.       *)
LEMMA FundedType ==
    ASSUME book' \in Books, now' \in Nat, next_funding \in Nat, NEW l \in Ledgers
    PROVE  /\ Funded(l) \in Ledgers
           /\ Funded(l).position = l.position
           /\ Funded(l).filled = l.filled /\ Funded(l).unfilled = l.unfilled
           /\ Funded(l).funding_paid = l.funding_paid + Passed * Payment(l.position)
  <1> DEFINE payment == Payment(l.position)
             times == Boundaries(first_boundary, now')
             paid == times * payment
  <1>1. l.cash \in Int /\ l.funding_paid \in Int /\ l.position \in Int
    BY DEF Ledgers
  <1>2. payment \in Int
    <2>1. ASSUME has_mid(book')
          PROVE  rate_ppm_signed(notional(mid(book'), l.position), funding_rate_ppm) \in Int
      <3>1. mid(book') \in Int
        BY <2>1, MidType
      <3>2. notional(mid(book'), l.position) \in Int
        BY <1>1, <3>1, NotionalType
      <3>3. QED
        BY <3>2, RateType, EngineAssumption
    <2>2. QED
      BY <2>1 DEF Payment
  <1>3. times \in Int
    <2>1. first_boundary \in Int
      BY EngineAssumption DEF first_boundary
    <2> DEFINE gap == now' - first_boundary
    <2>2. gap \in Int
      BY <2>1
    <2>3. CASE funding_interval_ms = 0 \/ now' < first_boundary
      BY <2>3 DEF Boundaries
    <2>4. CASE ~(funding_interval_ms = 0 \/ now' < first_boundary)
      <3>1. times = gap \div funding_interval_ms + 1
        BY <2>4 DEF Boundaries
      <3>2. funding_interval_ms \in Nat \ {0}
        BY <2>4, EngineAssumption
      <3> HIDE DEF gap
      <3>3. gap \div funding_interval_ms \in Int
        BY <2>2, <3>2
      <3>4. QED
        BY <3>1, <3>3
    <2>5. QED
      BY <2>3, <2>4
  <1>4. Funded(l) = [l EXCEPT !.cash = @ - paid, !.funding_paid = @ + paid]
    BY Zenon DEF Funded, Payment
  <1> HIDE DEF payment, times
  <1>5. paid \in Int
    BY <1>2, <1>3
  <1> HIDE DEF paid
  <1>6. Funded(l)
           = [cash |-> l.cash - paid, position |-> l.position, fees |-> l.fees,
              funding_paid |-> l.funding_paid + paid, filled |-> l.filled,
              unfilled |-> l.unfilled, peak |-> l.peak, max_drawdown |-> l.max_drawdown,
              last_equity |-> l.last_equity]
    BY <1>4 DEF Ledgers
  <1>7. /\ Funded(l) \in Ledgers /\ Funded(l).position = l.position
        /\ Funded(l).filled = l.filled /\ Funded(l).unfilled = l.unfilled
    BY <1>1, <1>5, <1>6 DEF Ledgers
  <1>8. Funded(l).funding_paid = l.funding_paid + paid
    BY <1>6
  <1>9. QED
    BY <1>7, <1>8 DEF paid, payment, times, Passed

(* Marking moves the statistics only.                                      *)
LEMMA MarkedType ==
    ASSUME book' \in Books, NEW l \in Ledgers
    PROVE  /\ Marked(l) \in Ledgers
           /\ Marked(l).position = l.position
           /\ Marked(l).filled = l.filled /\ Marked(l).unfilled = l.unfilled
  <1> DEFINE equity == l.cash + notional(mid(book'), l.position)
             peak == Greater(l.peak, equity)
  <1>1. CASE ~has_mid(book')
    BY <1>1 DEF Marked
  <1>2. CASE has_mid(book')
    <2>1. /\ l.cash \in Int /\ l.position \in Int /\ l.fees \in Nat /\ l.funding_paid \in Int
          /\ l.filled \in Nat /\ l.unfilled \in Nat /\ l.peak \in Int /\ l.max_drawdown \in Nat
      BY DEF Ledgers
    <2>2. mid(book') \in Int
      BY <1>2, MidType
    <2>3. notional(mid(book'), l.position) \in Int
      BY <2>1, <2>2, NotionalType
    <2>4. Marked(l) = [l EXCEPT !.peak = peak, !.last_equity = equity,
                                !.max_drawdown = Greater(@, peak - equity)]
      BY <1>2, Zenon DEF Marked
    <2>5. equity \in Int
      BY <2>1, <2>3
    <2> HIDE DEF equity
    <2>6. peak \in Int /\ Greater(l.max_drawdown, peak - equity) \in Nat
      BY <2>1, <2>5 DEF Greater
    <2> HIDE DEF peak
    <2>7. Marked(l)
             = [cash |-> l.cash, position |-> l.position, fees |-> l.fees,
                funding_paid |-> l.funding_paid, filled |-> l.filled, unfilled |-> l.unfilled,
                peak |-> peak, max_drawdown |-> Greater(l.max_drawdown, peak - equity),
                last_equity |-> equity]
      BY <2>4 DEF Ledgers
    <2>8. QED
      BY <2>1, <2>5, <2>6, <2>7 DEF Ledgers
  <1>3. QED
    BY <1>1, <1>2
-----------------------------------------------------------------------------
(* The orders that arrive.                                                 *)

\* Resting orders as the exchange keeps them: not filled, and with no fill
\* while anything is ahead of them.
InLine == {r \in Resting : r.filled < r.qty /\ (r.filled > 0 => r.queue_ahead = 0)}
Settlements == [ledger : Ledgers, resting : Seq(InLine)]

SentOf == [o \in InFlight |-> o.qty]
AtMarketOf == [o \in InFlight |-> IF o.kind = "Market" THEN o.qty ELSE 0]
RemainingOf == [r \in Resting |-> remaining(r)]

Done(l) == l.filled + l.unfilled

LEMMA OrderAmounts ==
    /\ \A o \in InFlight : /\ SentOf[o] = o.qty /\ SentOf[o] \in Nat
                           /\ AtMarketOf[o] = IF o.kind = "Market" THEN o.qty ELSE 0
                           /\ AtMarketOf[o] \in Nat
    /\ \A r \in InLine : /\ r \in Resting /\ RemainingOf[r] = r.qty - r.filled
                         /\ RemainingOf[r] \in Nat
    /\ \A r \in Resting : RemainingOf[r] = r.qty - r.filled /\ RemainingOf[r] \in Int
  BY DEF InFlight, SentOf, AtMarketOf, Resting, InLine, RemainingOf, remaining

(* An order that arrives is settled or rests, with all of its quantity.    *)
LEMMA ArriveEffect ==
    ASSUME book' \in Books, NEW state \in Settlements, NEW order \in InFlight
    PROVE  /\ Arrive(state, order) \in Settlements
           /\ Done(Arrive(state, order).ledger) = Done(state.ledger) + AtMarketOf[order]
           /\ Done(Arrive(state, order).ledger) + Total(RemainingOf, Arrive(state, order).resting)
                 = Done(state.ledger) + Total(RemainingOf, state.resting) + SentOf[order]
  <1> DEFINE T(rs) == Total(RemainingOf, rs)
  <1>1. /\ order.side \in Side /\ order.px \in Nat /\ order.qty \in Nat /\ order.qty > 0
        /\ order.kind \in {"Market", "Limit"}
        /\ SentOf[order] = order.qty
        /\ AtMarketOf[order] = IF order.kind = "Market" THEN order.qty ELSE 0
    BY OrderAmounts DEF InFlight
  <1>2. /\ state.ledger \in Ledgers /\ state.resting \in Seq(InLine)
        /\ state = [ledger |-> state.ledger, resting |-> state.resting]
    BY DEF Settlements
  <1>3. /\ state.ledger.filled \in Nat /\ state.ledger.unfilled \in Nat
    BY <1>2 DEF Ledgers
  <1>4. T(state.resting) \in Int
    BY <1>2, OrderAmounts, TotalType
  <1>5. CASE order.kind = "Market"
    <2> DEFINE outcome == market(order.side, order.qty)
               l == apply_fills(state.ledger, outcome.fills)
               m == [l EXCEPT !.unfilled = l.unfilled + outcome.unfilled]
               t == Total(QtyOf, outcome.fills)
    <2>1. Arrive(state, order) = [state EXCEPT !.ledger = m]
      BY <1>5, Zenon DEF Arrive
    <2>2. /\ outcome.fills \in Seq(Fills) /\ outcome.unfilled \in Nat
          /\ t + outcome.unfilled = order.qty
      BY <1>1, MarketFills
    <2>3. t \in Nat
      BY <2>2, FillTotals
    <2>4. l \in Ledgers /\ l.filled = state.ledger.filled + t /\ l.unfilled = state.ledger.unfilled
      BY <1>2, <2>2, ApplyFills
    <2> HIDE DEF outcome, l, t
    <2>5. m = [cash |-> l.cash, position |-> l.position, fees |-> l.fees,
               funding_paid |-> l.funding_paid, filled |-> l.filled,
               unfilled |-> l.unfilled + outcome.unfilled, peak |-> l.peak,
               max_drawdown |-> l.max_drawdown, last_equity |-> l.last_equity]
      BY <2>4 DEF Ledgers
    <2>6. m \in Ledgers /\ m.filled = l.filled /\ m.unfilled = l.unfilled + outcome.unfilled
      <3> DEFINE u == l.unfilled + outcome.unfilled
      <3>1. l.unfilled \in Nat
        BY <2>4 DEF Ledgers
      <3>2. u \in Nat
        BY <2>2, <3>1
      <3> HIDE DEF u, m
      <3>3. m \in Ledgers
        BY <2>4, <2>5, <3>2 DEF Ledgers, u
      <3>4. QED
        BY <2>5, <3>3
    <2> HIDE DEF m
    <2>7. Arrive(state, order) = [ledger |-> m, resting |-> state.resting]
      BY <1>2, <2>1
    <2>8. Arrive(state, order) \in Settlements
      BY <1>2, <2>6, <2>7 DEF Settlements
    <2>9. /\ Done(Arrive(state, order).ledger)
                = state.ledger.filled + t + (state.ledger.unfilled + outcome.unfilled)
          /\ T(Arrive(state, order).resting) = T(state.resting)
      BY <2>4, <2>6, <2>7 DEF Done
    <2> DEFINE new == Done(Arrive(state, order).ledger)
    <2> HIDE DEF T, new
    <2>12. new = Done(state.ledger) + order.qty
      <3>1. new = state.ledger.filled + t + (state.ledger.unfilled + outcome.unfilled)
        BY <2>9 DEF new
      <3>2. Done(state.ledger) = state.ledger.filled + state.ledger.unfilled
        BY DEF Done
      <3> HIDE DEF Done
      <3>3. QED
        BY <1>1, <1>3, <2>2, <2>3, <3>1, <3>2
    <2>13. Done(state.ledger) \in Int
      BY <1>3 DEF Done
    <2>10. /\ new = Done(state.ledger) + order.qty
           /\ new + T(Arrive(state, order).resting)
                 = Done(state.ledger) + T(state.resting) + order.qty
      BY <1>1, <1>4, <2>9, <2>12, <2>13
    <2>11. QED
      BY <1>1, <1>5, <2>8, <2>10 DEF T, new
  <1>6. CASE order.kind = "Limit"
    <2> DEFINE r == [side |-> order.side, px |-> order.px, qty |-> order.qty, filled |-> 0,
                     queue_ahead |-> size_at(order.side, order.px)]
               rs == Append(state.resting, r)
    <2>1. Arrive(state, order) = [state EXCEPT !.resting = rs]
      BY <1>6, Zenon DEF Arrive
    <2>2. r \in InLine
      BY <1>1, SizeAtType DEF InLine, Resting
    <2>3. RemainingOf[r] = order.qty
      BY <1>1, <2>2, OrderAmounts
    <2> HIDE DEF r
    <2>4. rs \in Seq(InLine)
      BY <1>2, <2>2, AppendProperties
    <2>5. T(rs) = T(state.resting) + order.qty
      BY <1>2, <2>2, <2>3, OrderAmounts, TotalAppend
    <2> HIDE DEF rs
    <2>6. Arrive(state, order) = [ledger |-> state.ledger, resting |-> rs]
      BY <1>2, <2>1
    <2>7. Arrive(state, order) \in Settlements
      BY <1>2, <2>4, <2>6 DEF Settlements
    <2>8. /\ Done(Arrive(state, order).ledger) = Done(state.ledger)
          /\ T(Arrive(state, order).resting) = T(rs)
      BY <2>6
    <2> HIDE DEF T
    <2>9. Done(Arrive(state, order).ledger) + T(Arrive(state, order).resting)
             = Done(state.ledger) + T(state.resting) + order.qty
      BY <1>1, <1>3, <1>4, <2>5, <2>8 DEF Done
    <2>10. Done(state.ledger) \in Int
      BY <1>3 DEF Done
    <2>11. QED
      BY <1>1, <1>6, <2>7, <2>8, <2>9, <2>10 DEF T
  <1>7. QED
    BY <1>1, <1>5, <1>6

Arrived == Subsequence(pending, ArrivedNow)

\* The settlement after each of the orders that arrive.
Settles(l, f) ==
    /\ f \in [0..Len(Arrived) -> Settlements]
    /\ f[0] = [ledger |-> l, resting |-> resting]
    /\ \A n \in 1..Len(Arrived) : f[n] = Arrive(f[n - 1], Arrived[n])
    /\ Arrivals(l) = f[Len(Arrived)]

LEMMA ArrivedType ==
    ASSUME pending \in Seq(InFlight)
    PROVE  /\ Arrived \in Seq(InFlight) /\ StillInFlight \in Seq(InFlight)
           /\ Len(pending) \in Nat /\ DOMAIN pending = 1..Len(pending)
           /\ \A i \in 1..Len(pending) : pending[i] \in InFlight
  <1>1. /\ Len(pending) \in Nat /\ DOMAIN pending = 1..Len(pending)
        /\ \A i \in 1..Len(pending) : pending[i] \in InFlight
    BY LenProperties, ElementOfSeq
  <1>2. QED
    BY <1>1, SubsequenceType DEF Arrived, StillInFlight

(* The recursion over the orders that arrive has a solution.               *)
LEMMA ArrivalsSettle ==
    ASSUME book' \in Books, pending \in Seq(InFlight), resting \in Seq(InLine),
           NEW l \in Ledgers
    PROVE  \E f : Settles(l, f)
  <1> DEFINE arrived == Subsequence(pending, ArrivedNow)
             N == Len(arrived)
             base == [ledger |-> l, resting |-> resting]
             next(n, state) == Arrive(state, arrived[n])
             Solves(k) == k = [n \in 0..N |-> IF n = 0 THEN base ELSE next(n, k[n - 1])]
             step == [n \in 1..N |-> [state \in Settlements |-> next(n, state)]]
             K == CHOOSE k : Solves(k)
  <1>1. arrived \in Seq(InFlight)
    BY ArrivedType DEF Arrived
  <1>2. Arrivals(l) = K[N]
    BY Zenon DEF Arrivals
  <1> HIDE DEF arrived
  <1>3. N \in Nat /\ \A n \in 1..N : arrived[n] \in InFlight
    BY <1>1, LenProperties, ElementOfSeq
  <1> HIDE DEF N
  <1>4. base \in Settlements
    BY DEF Settlements
  <1>5. \A n \in 1..N : \A state \in Settlements : next(n, state) \in Settlements
    BY <1>3, ArriveEffect
  <1> HIDE DEF base, next
  <1>6. PICK f \in [0..N -> Settlements] :
           f[0] = base /\ \A n \in 1..N : f[n] = step[n][f[n - 1]]
    <2>1. step \in [1..N -> [Settlements -> Settlements]]
      BY <1>5
    <2> DEFINE D == Settlements
    <2>2. N \in Nat /\ base \in D /\ step \in [1..N -> [D -> D]]
      BY <1>3, <1>4, <2>1
    <2> HIDE DEF step, D
    <2>3. PICK f : Carries(f, D, base, N, step)
      BY <2>2, Recursion
    <2>4. QED
      BY <2>3 DEF D, Carries
  <1>7. \A n \in 1..N : f[n] = next(n, f[n - 1])
    <2>1. \A n \in 1..N : f[n - 1] \in Settlements
      BY <1>3, <1>6
    <2>2. \A n \in 1..N : \A state \in Settlements : step[n][state] = next(n, state)
      OBVIOUS
    <2> HIDE DEF step
    <2>3. QED
      BY <1>6, <2>1, <2>2
  <1>8. Solves(f)
    BY <1>3, <1>6, <1>7
  <1>9. Solves(K)
    BY <1>8, Zenon
  <1> HIDE DEF K
  <1>10. K[0] = base /\ \A n \in 1..N : K[n] = next(n, K[n - 1])
    BY <1>3, <1>9
  <1>11. \A n \in 0..N : K[n] \in Settlements
    <2> DEFINE Q == {n \in Nat : n <= N => K[n] \in Settlements}
    <2>1. 0 \in Q
      BY <1>4, <1>10
    <2>2. ASSUME NEW n \in Nat, n \in Q
          PROVE  n + 1 \in Q
      <3>1. n + 1 <= N => n + 1 \in 1..N /\ K[n] \in Settlements /\ (n + 1) - 1 = n
        BY <1>3, <2>2
      <3>2. QED
        BY <1>5, <1>10, <3>1
    <2> HIDE DEF Q
    <2>3. \A n \in Nat : n \in Q
      BY <2>1, <2>2, NumberInduction
    <2>4. QED
      BY <2>3 DEF Q
  <1>12. K \in [0..N -> Settlements]
    <2>1. K = [n \in 0..N |-> K[n]]
      BY <1>9
    <2>2. QED
      BY <1>11, <2>1
  <1>13. \A n \in 1..N : K[n] = Arrive(K[n - 1], arrived[n])
    BY <1>10, Zenon DEF next
  <1>14. K[0] = [ledger |-> l, resting |-> resting]
    BY <1>10 DEF base
  <1>15. Settles(l, K)
    BY <1>2, <1>12, <1>13, <1>14, Zenon DEF N, arrived, Settles, Arrived
  <1>16. QED
    BY <1>15

(* Nothing is lost when the orders that have arrived are settled: what     *)
(* they asked for is done or rests, and market orders are done at once.    *)
LEMMA ArrivalsEffect ==
    ASSUME book' \in Books, pending \in Seq(InFlight), resting \in Seq(InLine),
           NEW l \in Ledgers
    PROVE  /\ Arrivals(l) \in Settlements
           /\ Done(Arrivals(l).ledger) = Done(l) + Total(AtMarketOf, Arrived)
           /\ Done(Arrivals(l).ledger) + Total(RemainingOf, Arrivals(l).resting)
                 = Done(l) + Total(RemainingOf, resting) + Total(SentOf, Arrived)
  <1> DEFINE N == Len(Arrived)
             M(n) == SumFunctionOnSet([i \in DOMAIN Arrived |-> AtMarketOf[Arrived[i]]], 1..n)
             S(n) == SumFunctionOnSet([i \in DOMAIN Arrived |-> SentOf[Arrived[i]]], 1..n)
             m == [i \in DOMAIN Arrived |-> AtMarketOf[Arrived[i]]]
             s == [i \in DOMAIN Arrived |-> SentOf[Arrived[i]]]
             T(rs) == Total(RemainingOf, rs)
  <1>1. PICK f : Settles(l, f)
    BY ArrivalsSettle
  <1>2. /\ f \in [0..N -> Settlements] /\ f[0] = [ledger |-> l, resting |-> resting]
        /\ \A n \in 1..N : f[n] = Arrive(f[n - 1], Arrived[n])
        /\ Arrivals(l) = f[N]
    BY <1>1 DEF Settles
  <1>3. /\ N \in Nat /\ DOMAIN Arrived = 1..N
        /\ \A i \in 1..N : Arrived[i] \in InFlight
    BY ArrivedType, LenProperties, ElementOfSeq
  <1>4. /\ \A i \in 1..N : /\ m[i] = AtMarketOf[Arrived[i]] /\ m[i] \in Int
                           /\ s[i] = SentOf[Arrived[i]] /\ s[i] \in Int
        /\ DOMAIN m = 1..N /\ DOMAIN s = 1..N
    BY <1>3, OrderAmounts
  <1>5. Total(AtMarketOf, Arrived) = M(N) /\ Total(SentOf, Arrived) = S(N)
    BY <1>4 DEF Total, SumFunction
  <1> HIDE DEF m, s
  <1>6. \A n \in 0..N : M(n) = SumFunctionOnSet(m, 1..n) /\ S(n) = SumFunctionOnSet(s, 1..n)
    BY DEF m, s
  <1> HIDE DEF N, M, S, T
  <1> DEFINE Q == {n \in Nat : n <= N => /\ Done(f[n].ledger) = Done(l) + M(n)
                                         /\ Done(f[n].ledger) + T(f[n].resting)
                                               = Done(l) + T(resting) + S(n)}
  <1>7. Done(l) \in Int /\ T(resting) \in Int
    <2>1. T(resting) \in Int
      BY OrderAmounts, TotalType DEF T
    <2>2. QED
      BY <2>1 DEF Done, Ledgers
  <1>8. \A n \in 0..N : M(n) \in Int /\ S(n) \in Int
    <2> SUFFICES ASSUME NEW n \in 0..N
                 PROVE  M(n) \in Int /\ S(n) \in Int
      OBVIOUS
    <2> DEFINE U == 1..n
    <2>1. IsFiniteSet(U)
      BY FS_Interval
    <2>2. \A i \in U : m[i] \in Int /\ s[i] \in Int
      BY <1>3, <1>4
    <2> HIDE DEF U
    <2>3. SumFunctionOnSet(m, U) \in Int /\ SumFunctionOnSet(s, U) \in Int
      BY <2>1, <2>2, SumInt
    <2>4. QED
      BY <1>6, <2>3 DEF U
  <1>9. 0 \in Q
    <2>1. 1..0 = {}
      OBVIOUS
    <2>2. M(0) = 0 /\ S(0) = 0
      BY <1>3, <1>6, <2>1, SumEmpty
    <2>3. f[0].ledger = l /\ f[0].resting = resting
      BY <1>2
    <2> HIDE DEF Done
    <2>4. QED
      BY <1>7, <2>2, <2>3
  <1>10. ASSUME NEW n \in Nat, n \in Q
         PROVE  n + 1 \in Q
    <2> SUFFICES ASSUME n + 1 <= N
                 PROVE  /\ Done(f[n + 1].ledger) = Done(l) + M(n + 1)
                        /\ Done(f[n + 1].ledger) + T(f[n + 1].resting)
                              = Done(l) + T(resting) + S(n + 1)
      OBVIOUS
    <2>1. /\ n + 1 \in 1..N /\ (n + 1) - 1 = n /\ n \in 0..N /\ n + 1 \in 0..N
          /\ 1 \in Int /\ n + 1 \in Int /\ 1 <= n + 1
          /\ \A i \in 1..(n + 1) : i \in 1..N
      BY <1>3
    <2>2. /\ Done(f[n].ledger) = Done(l) + M(n)
          /\ Done(f[n].ledger) + T(f[n].resting) = Done(l) + T(resting) + S(n)
      BY <1>3, <1>10, <2>1
    <2>3. /\ f[n] \in Settlements /\ f[n + 1] = Arrive(f[n], Arrived[n + 1])
          /\ Arrived[n + 1] \in InFlight
      BY <1>2, <1>3, <2>1
    <2>4. /\ Done(f[n + 1].ledger) = Done(f[n].ledger) + AtMarketOf[Arrived[n + 1]]
          /\ Done(f[n + 1].ledger) + T(f[n + 1].resting)
                = Done(f[n].ledger) + T(f[n].resting) + SentOf[Arrived[n + 1]]
      BY <2>3, ArriveEffect DEF T
    <2>5. /\ SumFunctionOnSet(m, 1..(n + 1)) = SumFunctionOnSet(m, 1..n) + m[n + 1]
          /\ SumFunctionOnSet(s, 1..(n + 1)) = SumFunctionOnSet(s, 1..n) + s[n + 1]
      <3>1. \A i \in 1..(n + 1) : m[i] \in Int
        BY <1>4, <2>1
      <3>2. \A i \in 1..(n + 1) : s[i] \in Int
        BY <1>4, <2>1
      <3>3. SumFunctionOnSet(m, 1..(n + 1)) = SumFunctionOnSet(m, 1..((n + 1) - 1)) + m[n + 1]
        BY <2>1, <3>1, SumLastTerm
      <3>4. SumFunctionOnSet(s, 1..(n + 1)) = SumFunctionOnSet(s, 1..((n + 1) - 1)) + s[n + 1]
        BY <2>1, <3>2, SumLastTerm
      <3>5. QED
        BY <2>1, <3>3, <3>4
    <2>6. M(n + 1) = M(n) + m[n + 1] /\ S(n + 1) = S(n) + s[n + 1]
      BY <1>6, <2>1, <2>5
    <2>7. /\ m[n + 1] = AtMarketOf[Arrived[n + 1]] /\ m[n + 1] \in Int
          /\ s[n + 1] = SentOf[Arrived[n + 1]] /\ s[n + 1] \in Int
          /\ M(n) \in Int /\ S(n) \in Int
      BY <1>4, <1>8, <2>1
    <2> HIDE DEF Done
    <2>8. Done(f[n + 1].ledger) = Done(l) + M(n + 1)
      <3> HIDE DEF M
      <3>1. QED
        BY <1>7, <2>2, <2>4, <2>6, <2>7
    <2>9. Done(f[n + 1].ledger) + T(f[n + 1].resting) = Done(l) + T(resting) + S(n + 1)
      <3> DEFINE before == Done(f[n].ledger) + T(f[n].resting)
                 start == Done(l) + T(resting)
                 sent == SentOf[Arrived[n + 1]]
      <3>1. start \in Int /\ S(n) \in Int /\ sent \in Int /\ before = start + S(n)
        BY <1>7, <2>2, <2>7
      <3>2. S(n + 1) = S(n) + sent
        BY <2>6, <2>7
      <3>3. Done(f[n + 1].ledger) + T(f[n + 1].resting) = before + sent
        BY <2>4
      <3> HIDE DEF S, T, before, start, sent
      <3>4. before + sent = start + S(n + 1)
        BY <3>1, <3>2
      <3>5. QED
        BY <3>3, <3>4 DEF start
    <2>10. QED
      BY <2>8, <2>9
  <1> HIDE DEF Q
  <1>11. N \in Q
    BY <1>3, <1>9, <1>10, NumberInduction
  <1>12. /\ Done(f[N].ledger) = Done(l) + M(N)
         /\ Done(f[N].ledger) + T(f[N].resting) = Done(l) + T(resting) + S(N)
    BY <1>3, <1>11 DEF Q
  <1>13. f[N] \in Settlements
    BY <1>2, <1>3
  <1>14. QED
    BY <1>2, <1>5, <1>12, <1>13 DEF T

LEMMA TotalOverPositions ==
    ASSUME NEW X, NEW seq \in Seq(X), NEW v, \A x \in X : v[x] \in Int
    PROVE  /\ Total(v, seq) = SumFunctionOnSet([i \in 1..Len(seq) |-> v[seq[i]]], 1..Len(seq))
           /\ \A i \in 1..Len(seq) : v[seq[i]] \in Int
  <1>1. DOMAIN seq = 1..Len(seq) /\ \A i \in 1..Len(seq) : seq[i] \in X
    BY LenProperties, ElementOfSeq
  <1>2. QED
    BY <1>1 DEF Total, SumFunction

(* An order in flight has arrived or has not, and a market order is due    *)
(* when it has.                                                            *)
LEMMA InFlightSplits ==
    ASSUME pending \in Seq(InFlight), now' \in Nat
    PROVE  /\ Total(SentOf, pending) = Total(SentOf, Arrived) + Total(SentOf, StillInFlight)
           /\ SumOf(Due, pending) = Total(AtMarketOf, Arrived)
  <1> DEFINE N == Len(pending)
             S == 1..N
             A == S \cap ArrivedNow
             B == S \cap (DOMAIN pending \ ArrivedNow)
             sent == [i \in 1..Len(pending) |-> SentOf[pending[i]]]
             market_qty == [i \in 1..Len(pending) |-> AtMarketOf[pending[i]]]
             due == [i \in DOMAIN pending |-> Due(pending[i])]
  <1>1. /\ N \in Nat /\ DOMAIN pending = S
        /\ \A i \in S : pending[i] \in InFlight
    BY ArrivedType
  <1>2. /\ \A o \in InFlight : SentOf[o] \in Int
        /\ \A o \in InFlight : AtMarketOf[o] \in Int
    BY OrderAmounts
  <1>3. Total(SentOf, pending) = SumFunctionOnSet(sent, S)
    BY <1>2, TotalOverPositions
  <1>0. \A i \in 1..Len(pending) : /\ sent[i] = SentOf[pending[i]]
                                  /\ market_qty[i] = AtMarketOf[pending[i]]
                                  /\ sent[i] \in Int /\ market_qty[i] \in Int
    BY <1>1, <1>2
  <1>4. Total(SentOf, Arrived) = SumFunctionOnSet(sent, A)
    <2> HIDE DEF sent, market_qty
    <2>1. QED
      BY <1>0, <1>1, TotalSubsequence DEF Arrived
  <1>5. Total(SentOf, StillInFlight) = SumFunctionOnSet(sent, B)
    <2> HIDE DEF sent, market_qty
    <2>1. QED
      BY <1>0, <1>1, TotalSubsequence DEF StillInFlight
  <1>6. Total(AtMarketOf, Arrived) = SumFunctionOnSet(market_qty, A)
    <2> HIDE DEF sent, market_qty
    <2>1. QED
      BY <1>0, <1>1, TotalSubsequence DEF Arrived
  <1>7. /\ A \cup B = S /\ A \cap B = {} /\ A \in SUBSET S
        /\ \A i \in S : i \in A <=> has_arrived(pending[i])
    BY <1>1 DEF ArrivedNow
  <1>8. IsFiniteSet(S)
    BY <1>1, FS_Interval
  <1>9. /\ \A i \in S : sent[i] \in Int
        /\ \A i \in S : market_qty[i] \in Int
    BY <1>1, <1>2
  <1>10. \A i \in S : due[i] = IF i \in A THEN market_qty[i] ELSE 0
    <2> SUFFICES ASSUME NEW i \in S
                 PROVE  due[i] = IF i \in A THEN market_qty[i] ELSE 0
      OBVIOUS
    <2> DEFINE o == pending[i]
    <2>1. /\ due[i] = Due(o) /\ market_qty[i] = AtMarketOf[o] /\ o \in InFlight
          /\ i \in A <=> has_arrived(o)
      BY <1>1, <1>7
    <2> HIDE DEF A, o, due, market_qty, S
    <2>2. AtMarketOf[o] = IF o.kind = "Market" THEN o.qty ELSE 0
      BY <2>1, OrderAmounts
    <2>3. Due(o) = IF o.kind = "Market" /\ has_arrived(o) THEN o.qty ELSE 0
      BY DEF Due, has_arrived
    <2>4. QED
      BY <2>1, <2>2, <2>3
  <1>11. SumOf(Due, pending) = SumFunctionOnSet(due, S)
    BY <1>1 DEF SumOf, SumFunction
  <1> HIDE DEF A, B, S, sent, market_qty, due
  <1>12. IsFiniteSet(A) /\ IsFiniteSet(B)
    BY <1>7, <1>8, FS_Subset
  <1>13. SumFunctionOnSet(sent, S) = SumFunctionOnSet(sent, A) + SumFunctionOnSet(sent, B)
    <2>1. \A i \in A \cup B : sent[i] \in Int
      BY <1>7, <1>9
    <2>2. SumFunctionOnSet(sent, A \cup B)
             = SumFunctionOnSet(sent, A) + SumFunctionOnSet(sent, B)
      BY <1>7, <1>12, <2>1, SumUnion
    <2>3. QED
      BY <1>7, <2>2, Zenon
  <1>14. SumFunctionOnSet(due, S) = SumFunctionOnSet(market_qty, A)
    <2>1. /\ \A i \in A : due[i] \in Int
          /\ \A i \in S \ A : due[i] = 0
          /\ \A i \in A : due[i] = market_qty[i]
      BY <1>7, <1>9, <1>10
    <2>2. SumFunctionOnSet(due, S) = SumFunctionOnSet(due, A)
      BY <1>7, <1>8, <2>1, SumSupport
    <2>3. SumFunctionOnSet(due, A) = SumFunctionOnSet(market_qty, A)
      BY <1>12, <2>1, SumSame
    <2>4. QED
      BY <2>2, <2>3
  <1>15. QED
    BY <1>3, <1>4, <1>5, <1>6, <1>11, <1>13, <1>14
-----------------------------------------------------------------------------
(* A trade against the resting orders.                                     *)

(* One order and one trade: what it fills comes off what remains.          *)
LEMMA MatchEffect ==
    ASSUME NEW r \in InLine, NEW trade \in Trades
    PROVE  /\ match_resting(r, trade) \in Resting
           /\ RemainingOf[match_resting(r, trade)] \in Nat
           /\ RemainingOf[match_resting(r, trade)] > 0 => match_resting(r, trade) \in InLine
           /\ MakerFill(r, match_resting(r, trade)) \in Fills
           /\ RemainingOf[r] = MakerFill(r, match_resting(r, trade)).qty
                                  + RemainingOf[match_resting(r, trade)]
           /\ match_resting(r, trade).side = r.side /\ match_resting(r, trade).qty = r.qty
  <1> DEFINE m == match_resting(r, trade)
             consumed == Lesser(trade.qty, r.queue_ahead)
             filled == Lesser(trade.qty - consumed, remaining(r))
  <1>1. /\ r.side \in Side /\ r.px \in Nat /\ r.qty \in Nat /\ r.filled \in Nat
        /\ r.queue_ahead \in Nat /\ r.qty > 0 /\ r.filled < r.qty
        /\ r.filled > 0 => r.queue_ahead = 0
        /\ r = [side |-> r.side, px |-> r.px, qty |-> r.qty, filled |-> r.filled,
                queue_ahead |-> r.queue_ahead]
    BY DEF InLine, Resting
  <1>2. trade.qty \in Nat /\ trade.qty > 0
    BY EngineAssumption
  <1>3. consumed \in Nat /\ consumed <= trade.qty /\ consumed <= r.queue_ahead
        /\ (consumed < trade.qty => consumed = r.queue_ahead)
    BY <1>1, <1>2 DEF Lesser
  <1>4. filled \in Nat /\ filled <= r.qty - r.filled /\ (filled > 0 => consumed < trade.qty)
    <2>1. remaining(r) = r.qty - r.filled
      BY DEF remaining
    <2> HIDE DEF consumed, remaining
    <2>2. QED
      BY <1>1, <1>2, <1>3, <2>1 DEF Lesser
  <1>5. PICK q \in Nat, n \in Nat :
           /\ m = [side |-> r.side, px |-> r.px, qty |-> r.qty, filled |-> r.filled + n,
                   queue_ahead |-> q]
           /\ n <= r.qty - r.filled
           /\ r.filled + n > 0 => q = 0
    <2>1. CASE ~eligible(r, trade)
      <3>1. m = r
        BY <2>1 DEF match_resting
      <3>2. r.filled + 0 = r.filled /\ 0 <= r.qty - r.filled
        BY <1>1
      <3> HIDE DEF m
      <3>3. /\ m = [side |-> r.side, px |-> r.px, qty |-> r.qty, filled |-> r.filled + 0,
                    queue_ahead |-> r.queue_ahead]
            /\ r.filled + 0 > 0 => r.queue_ahead = 0
        BY <1>1, <3>1, <3>2
      <3>4. QED
        BY <1>1, <3>2, <3>3
    <2>2. CASE eligible(r, trade)
      <3>1. m = [r EXCEPT !.queue_ahead = @ - consumed, !.filled = @ + filled]
        BY <2>2, Zenon DEF match_resting
      <3> HIDE DEF m, consumed, filled
      <3>2. m = [side |-> r.side, px |-> r.px, qty |-> r.qty, filled |-> r.filled + filled,
                 queue_ahead |-> r.queue_ahead - consumed]
        BY <1>1, <3>1
      <3>3. /\ r.queue_ahead - consumed \in Nat
            /\ r.filled + filled > 0 => r.queue_ahead - consumed = 0
        BY <1>1, <1>2, <1>3, <1>4
      <3>4. QED
        BY <1>4, <3>2, <3>3
    <2>3. QED
      BY <2>1, <2>2
  <1> HIDE DEF m, consumed, filled
  <1>6. m \in Resting /\ m.filled = r.filled + n /\ m.qty = r.qty /\ m.queue_ahead = q
        /\ m.side = r.side
    BY <1>1, <1>5 DEF Resting
  <1>7. RemainingOf[m] = r.qty - (r.filled + n) /\ RemainingOf[r] = r.qty - r.filled
    BY <1>6, OrderAmounts
  <1>8. RemainingOf[m] \in Nat /\ RemainingOf[r] = n + RemainingOf[m]
    BY <1>1, <1>5, <1>7
  <1>9. RemainingOf[m] > 0 => m \in InLine
    BY <1>1, <1>5, <1>6, <1>7 DEF InLine
  <1>10. MakerFill(r, m) = [side |-> r.side, px |-> r.px, qty |-> n, fee_rate |-> maker_fee_ppm]
    BY <1>1, <1>5, <1>6 DEF MakerFill
  <1>11. MakerFill(r, m) \in Fills /\ MakerFill(r, m).qty = n
    BY <1>1, <1>10, EngineAssumption DEF Fills
  <1>12. QED
    BY <1>6, <1>8, <1>9, <1>11 DEF m

Matched(trade) == [i \in DOMAIN resting |-> match_resting(resting[i], trade)]
MakerFills(trade) == [i \in DOMAIN resting |-> MakerFill(resting[i], Matched(trade)[i])]
StillResting(trade) ==
    Subsequence(Matched(trade), {i \in DOMAIN resting : remaining(Matched(trade)[i]) > 0})

(* What a trade fills comes off what rests, over the whole queue.          *)
LEMMA TradeEffect ==
    ASSUME resting \in Seq(InLine), NEW trade \in Trades
    PROVE  /\ MakerFills(trade) \in Seq(Fills)
           /\ StillResting(trade) \in Seq(InLine)
           /\ Total(RemainingOf, resting)
                 = Total(QtyOf, MakerFills(trade)) + Total(RemainingOf, StillResting(trade))
  <1> DEFINE N == Len(resting)
             S == 1..N
             matched == Matched(trade)
             fills == MakerFills(trade)
             P == {i \in DOMAIN resting : remaining(Matched(trade)[i]) > 0}
             before == [i \in 1..Len(resting) |-> RemainingOf[resting[i]]]
             after == [i \in 1..Len(matched) |-> RemainingOf[matched[i]]]
             qty == [i \in 1..Len(fills) |-> QtyOf[fills[i]]]
  <1>1. N \in Nat /\ DOMAIN resting = S /\ \A i \in S : resting[i] \in InLine
    BY LenProperties, ElementOfSeq
  <1>2. /\ \A i \in S : matched[i] = match_resting(resting[i], trade)
        /\ \A i \in S : fills[i] = MakerFill(resting[i], matched[i])
        /\ DOMAIN matched = S /\ DOMAIN fills = S
    BY <1>1 DEF Matched, MakerFills
  <1>3. matched = [i \in S |-> matched[i]] /\ fills = [i \in S |-> fills[i]]
    BY <1>1 DEF Matched, MakerFills
  <1> HIDE DEF matched, fills, N
  <1>4. \A i \in S : /\ matched[i] \in Resting
                     /\ RemainingOf[matched[i]] \in Nat
                     /\ RemainingOf[matched[i]] > 0 => matched[i] \in InLine
                     /\ fills[i] \in Fills
                     /\ RemainingOf[resting[i]] = fills[i].qty + RemainingOf[matched[i]]
    BY <1>1, <1>2, MatchEffect
  <1>5. matched \in Seq(Resting) /\ fills \in Seq(Fills)
    <2>1. matched \in [S -> Resting] /\ fills \in [S -> Fills]
      BY <1>3, <1>4
    <2>2. QED
      BY <1>1, <2>1, SeqDef
  <1>6. Len(matched) = N /\ Len(fills) = N
    BY <1>1, <1>2, <1>5, LenProperties
  <1>7. /\ P = {i \in S : RemainingOf[matched[i]] > 0}
        /\ P \subseteq S
    <2>1. \A i \in S : RemainingOf[matched[i]] = remaining(matched[i])
      BY <1>4 DEF RemainingOf
    <2>2. QED
      BY <1>1, <2>1 DEF matched
  <1>8. StillResting(trade) = Subsequence(matched, P)
    BY DEF StillResting, matched
  <1> HIDE DEF P
  <1>9. Subsequence(matched, P) \in Seq(InLine)
    <2>1. \A i \in 1..Len(matched) : i \in P => matched[i] \in InLine
      BY <1>4, <1>6, <1>7
    <2>2. QED
      BY <1>1, <1>6, <2>1, SubsequenceType
  <1>10. Total(RemainingOf, resting) = SumFunctionOnSet(before, S)
    <2>1. \A r \in InLine : RemainingOf[r] \in Int
      BY OrderAmounts
    <2>2. QED
      BY <2>1, TotalOverPositions DEF N
  <1>11. Total(RemainingOf, Subsequence(matched, P)) = SumFunctionOnSet(after, P)
    <2>1. \A r \in Resting : RemainingOf[r] \in Int
      BY OrderAmounts
    <2>2. \A i \in 1..Len(matched) : i \in P => matched[i] \in Resting
      BY <1>4, <1>6
    <2>3. (1..Len(matched)) \cap P = P /\ Len(matched) \in Nat
      BY <1>1, <1>6, <1>7
    <2>4. \A i \in 1..Len(matched) : /\ after[i] = RemainingOf[matched[i]]
                                     /\ i \in P => after[i] \in Int
      BY <2>1, <2>2
    <2> HIDE DEF after
    <2>5. Total(RemainingOf, Subsequence(matched, P))
             = SumFunctionOnSet(after, (1..Len(matched)) \cap P)
      BY <2>3, <2>4, TotalSubsequence
    <2>6. QED
      BY <2>3, <2>5, Zenon
  <1>12. Total(QtyOf, fills) = SumFunctionOnSet(qty, S)
    <2>1. \A f \in Fills : QtyOf[f] \in Int
      BY FillAmounts
    <2>2. QED
      BY <1>5, <1>6, <2>1, TotalOverPositions
  <1>13. \A i \in S : /\ qty[i] \in Int /\ after[i] \in Nat
                      /\ before[i] = qty[i] + after[i]
    <2> SUFFICES ASSUME NEW i \in S
                 PROVE  /\ qty[i] \in Int /\ after[i] \in Nat
                        /\ before[i] = qty[i] + after[i]
      OBVIOUS
    <2>1. /\ qty[i] = QtyOf[fills[i]] /\ after[i] = RemainingOf[matched[i]]
          /\ before[i] = RemainingOf[resting[i]]
      BY <1>6 DEF N
    <2>2. fills[i] \in Fills
      BY <1>4
    <2>3. QtyOf[fills[i]] = fills[i].qty /\ QtyOf[fills[i]] \in Int
      BY <2>2, FillAmounts
    <2>4. QED
      BY <1>4, <2>1, <2>3
  <1>16. IsFiniteSet(S)
    BY <1>1, FS_Interval
  <1>21. \A i \in S : after[i] = RemainingOf[matched[i]]
    BY <1>6
  <1> HIDE DEF S, before, after, qty
  <1>17. \A i \in S : after[i] \in Int
    BY <1>13
  <1>14. \A i \in P : after[i] \in Int
    BY <1>7, <1>17
  <1>15. \A i \in S \ P : after[i] = 0
    BY <1>7, <1>13, <1>21
  <1>18. SumFunctionOnSet(before, S) = SumFunctionOnSet(qty, S) + SumFunctionOnSet(after, S)
    BY <1>13, <1>16, <1>17, SumPlus
  <1>19. SumFunctionOnSet(after, S) = SumFunctionOnSet(after, P)
    BY <1>7, <1>14, <1>15, <1>16, SumSupport
  <1>20. QED
    BY <1>5, <1>8, <1>9, <1>10, <1>11, <1>12, <1>18, <1>19 DEF fills
-----------------------------------------------------------------------------
(* What the strategy submits.                                              *)

Asked == [side : Side, qty : Nat \ {0}, kind : {"Market", "Limit"}, px : Nat]

\* The order an intent becomes.
Sent(x) == [side |-> x.side, qty |-> x.qty, kind |-> x.kind, px |-> x.px,
            arrival_ms |-> now' + latency_ms]

Counts == [orders : Nat, qty : Nat]
Strategies == [name : {"PassiveMaker", "Other"}, outstanding : BOOLEAN, last_position : Int]

LEMMA DispatchNothing ==
    ASSUME NEW in_flight \in Seq(InFlight), submitted \in Counts, Dispatch(in_flight, <<>>)
    PROVE  pending' = in_flight /\ submitted' = submitted
  <1> DEFINE none == [i \in DOMAIN <<>> |->
                         [side |-> <<>>[i].side, qty |-> <<>>[i].qty, kind |-> <<>>[i].kind,
                          px |-> <<>>[i].px, arrival_ms |-> now' + latency_ms]]
             qty == SumOf(LAMBDA i : i.qty, <<>>)
  <1>1. /\ pending' = in_flight \o none
        /\ submitted' = [orders |-> submitted.orders + Len(<<>>), qty |-> submitted.qty + qty]
    BY Zenon DEF Dispatch
  <1>2. none = <<>>
    OBVIOUS
  <1>3. qty = 0
    <2> DEFINE f == [i \in DOMAIN <<>> |-> <<>>[i].qty]
    <2>1. DOMAIN f = {}
      OBVIOUS
    <2>2. qty = SumFunction(f)
      BY Zenon DEF SumOf
    <2> HIDE DEF f
    <2>3. QED
      BY <2>1, <2>2, SumOfNothing
  <1> HIDE DEF none, qty
  <1>4. pending' = in_flight
    BY <1>1, <1>2, ConcatEmptySeq
  <1>5. Len(<<>>) = 0
    OBVIOUS
  <1>6. QED
    BY <1>1, <1>3, <1>4, <1>5 DEF Counts

LEMMA DispatchOne ==
    ASSUME NEW in_flight \in Seq(InFlight), submitted \in Counts, now' \in Nat,
           NEW x \in Asked, Dispatch(in_flight, <<x>>)
    PROVE  /\ Sent(x) \in InFlight
           /\ pending' = Append(in_flight, Sent(x))
           /\ submitted' = [orders |-> submitted.orders + 1, qty |-> submitted.qty + x.qty]
  <1> DEFINE xs == <<x>>
             one == [i \in DOMAIN xs |->
                        [side |-> xs[i].side, qty |-> xs[i].qty, kind |-> xs[i].kind,
                         px |-> xs[i].px, arrival_ms |-> now' + latency_ms]]
             qty == SumOf(LAMBDA i : i.qty, xs)
  <1>1. /\ pending' = in_flight \o one
        /\ submitted' = [orders |-> submitted.orders + Len(xs), qty |-> submitted.qty + qty]
    BY Zenon DEF Dispatch
  <1>2. DOMAIN xs = {1} /\ xs[1] = x /\ Len(xs) = 1
    OBVIOUS
  <1> HIDE DEF xs
  <1>3. one = <<Sent(x)>>
    <2>1. DOMAIN one = {1} /\ one[1] = Sent(x)
      BY <1>2 DEF Sent
    <2>2. one = [i \in {1} |-> Sent(x)]
      BY <1>2 DEF Sent
    <2> HIDE DEF one, Sent
    <2>3. QED
      BY <2>2
  <1>4. qty = x.qty
    <2> DEFINE f == [i \in DOMAIN xs |-> xs[i].qty]
    <2>1. DOMAIN f = {1} /\ f[1] = x.qty
      BY <1>2
    <2>2. qty = SumFunction(f)
      BY Zenon DEF SumOf
    <2> HIDE DEF f
    <2>3. x.qty \in Int
      BY DEF Asked
    <2>4. SumFunctionOnSet(f, {} \cup {1}) = SumFunctionOnSet(f, {}) + f[1]
      <3>1. IsFiniteSet({}) /\ 1 \notin {} /\ f[1] \in Int /\ \A i \in {} : f[i] \in Int
        BY <2>1, <2>3, FS_EmptySet
      <3>2. QED
        BY <3>1, SumAdd
    <2>5. SumFunction(f) = SumFunctionOnSet(f, {1}) /\ {} \cup {1} = {1}
      BY <2>1 DEF SumFunction
    <2>6. SumFunctionOnSet(f, {}) = 0
      BY SumEmpty
    <2>7. QED
      BY <2>1, <2>2, <2>3, <2>4, <2>5, <2>6
  <1>5. Sent(x) \in InFlight
    <2>1. now' + latency_ms \in Int
      BY EngineAssumption
    <2>2. QED
      BY <2>1 DEF Sent, Asked, InFlight
  <1> HIDE DEF one, qty
  <1>6. pending' = Append(in_flight, Sent(x))
    BY <1>1, <1>3, <1>5, AppendIsConcat
  <1>7. QED
    BY <1>1, <1>2, <1>4, <1>5, <1>6

(* Whatever the strategy decides, an order is counted when it is sent.     *)
LEMMA Decided ==
    ASSUME book' \in Books, now' \in Nat, NEW in_flight \in Seq(InFlight), submitted \in Counts,
           strategy \in Strategies, NEW position \in Int, Decide(position, in_flight)
    PROVE  /\ strategy' \in Strategies /\ submitted' \in Counts
           /\ pending' \in Seq(InFlight)
           /\ submitted'.qty + Total(SentOf, in_flight) = submitted.qty + Total(SentOf, pending')
  <1> DEFINE Result == /\ submitted' \in Counts
                       /\ pending' \in Seq(InFlight)
                       /\ submitted'.qty + Total(SentOf, in_flight)
                             = submitted.qty + Total(SentOf, pending')
             t == Total(SentOf, in_flight)
  <1>1. t \in Nat /\ submitted.qty \in Nat /\ submitted.orders \in Nat
    BY OrderAmounts, TotalType DEF Counts
  <1>2. ASSUME Dispatch(in_flight, <<>>)
        PROVE  Result
    BY <1>2, DispatchNothing
  <1>3. ASSUME NEW x \in Asked, Dispatch(in_flight, <<x>>)
        PROVE  Result
    <2>1. /\ Sent(x) \in InFlight
          /\ pending' = Append(in_flight, Sent(x))
          /\ submitted' = [orders |-> submitted.orders + 1, qty |-> submitted.qty + x.qty]
      BY <1>3, DispatchOne
    <2>2. pending' \in Seq(InFlight)
      BY <2>1, AppendProperties
    <2>3. SentOf[Sent(x)] = x.qty /\ x.qty \in Nat
      BY <2>1, OrderAmounts DEF Sent, Asked
    <2>4. Total(SentOf, pending') = t + x.qty
      BY <2>1, <2>3, OrderAmounts, TotalAppend
    <2> HIDE DEF t
    <2>5. submitted' \in Counts /\ submitted'.qty = submitted.qty + x.qty
      <3>1. submitted.orders + 1 \in Nat /\ submitted.qty + x.qty \in Nat
        BY <1>1, <2>3
      <3>2. QED
        BY <2>1, <3>1 DEF Counts
    <2>6. submitted'.qty + t = submitted.qty + Total(SentOf, pending')
      BY <1>1, <2>3, <2>4, <2>5
    <2>7. QED
      BY <2>2, <2>5, <2>6 DEF t
  <1>4. CASE strategy.name = "PassiveMaker" /\ MakerDecides(position, in_flight)
    <2> DEFINE waiting == strategy.outstanding /\ position = strategy.last_position
               quotes == IF waiting THEN <<>> ELSE Quotes(position)
    <2>1. CASE event'.type # "L2Snapshot"
      BY <1>2, <1>4, <2>1 DEF MakerDecides
    <2>2. CASE event'.type = "L2Snapshot"
      <3>1. /\ strategy' = [strategy EXCEPT !.last_position = position,
                                            !.outstanding = waiting \/ quotes # <<>>]
            /\ Dispatch(in_flight, quotes)
        BY <1>4, <2>2, Zenon DEF MakerDecides
      <3>2. quotes = <<>> \/ \E x \in Asked : quotes = <<x>>
        <4>1. CASE waiting \/ ~has_mid(book')
          BY <4>1 DEF Quotes
        <4>2. CASE ~waiting /\ has_mid(book')
          <5>1. /\ book'.bids \in Seq(Levels) /\ book'.bids # <<>>
                /\ book'.asks \in Seq(Levels) /\ book'.asks # <<>>
            BY <4>2 DEF has_mid, Books
          <5>2. book'.bids[1] \in Levels /\ book'.asks[1] \in Levels
            BY <5>1, EmptySeq, ElementOfSeq, LenProperties
          <5>3. book'.bids[1].px \in Nat /\ book'.asks[1].px \in Nat
            BY <5>2 DEF Levels
          <5>4. \A side \in Side, px \in Nat :
                   [side |-> side, qty |-> order_qty, kind |-> "Limit", px |-> px] \in Asked
            BY EngineAssumption DEF Asked
          <5>5. \A side \in Side, px \in Nat : \E x \in Asked : limit(side, px) = <<x>>
            BY <5>4, Zenon DEF limit
          <5>6. \/ Quotes(position) = <<>>
                \/ Quotes(position) = limit("Buy", book'.bids[1].px)
                \/ Quotes(position) = limit("Sell", book'.asks[1].px)
            BY Zenon DEF Quotes
          <5>7. "Buy" \in Side /\ "Sell" \in Side
            BY DEF Side
          <5>8. quotes = Quotes(position)
            BY <4>2
          <5> HIDE DEF quotes
          <5>9. QED
            BY <5>3, <5>5, <5>6, <5>7, <5>8
        <4>3. QED
          BY <4>1, <4>2
      <3>3. strategy' \in Strategies
        <4>1. (waiting \/ quotes # <<>>) \in BOOLEAN
          OBVIOUS
        <4> HIDE DEF waiting, quotes
        <4>2. QED
          BY <3>1, <4>1 DEF Strategies
      <3> HIDE DEF quotes, Result
      <3>4. Result
        BY <1>2, <1>3, <3>1, <3>2
      <3>5. QED
        BY <3>3, <3>4 DEF Result
    <2>3. QED
      BY <2>1, <2>2
  <1>5. CASE strategy.name = "Other" /\ OtherDecides(in_flight)
    <2>1. Intents \subseteq Asked
      BY EngineAssumption DEF Asked
    <2>2. /\ strategy' = strategy
          /\ Dispatch(in_flight, <<>>) \/ \E x \in Asked : Dispatch(in_flight, <<x>>)
      BY <1>5, <2>1 DEF OtherDecides
    <2> HIDE DEF Result
    <2>3. Result
      BY <1>2, <1>3, <2>2
    <2>4. QED
      BY <2>2, <2>3 DEF Result
  <1>6. QED
    BY <1>4, <1>5 DEF Decide
-----------------------------------------------------------------------------
(* The invariant of the engine.                                            *)

(* The state is well typed; what rests is not filled and stands in line;   *)
(* the quantities add up; funding has been charged up to the present.      *)
FundingUpToDate == (event.nr > 0 /\ funding_interval_ms > 0) => next_funding > now
Accounted == submitted.qty = Done(ledger) + Total(SentOf, pending) + Total(RemainingOf, resting)
EngineInv ==
    /\ TypeOK
    /\ resting \in Seq(InLine)
    /\ Accounted
    /\ FundingUpToDate

LEMMA InitialEngine ==
    ASSUME Init
    PROVE  EngineInv
  <1>1. /\ book = EmptyBook /\ pending = <<>> /\ resting = <<>> /\ next_funding = 0 /\ now = 0
        /\ ledger = [cash |-> initial_cash, position |-> 0, fees |-> 0, funding_paid |-> 0,
                     filled |-> 0, unfilled |-> 0, peak |-> initial_cash,
                     max_drawdown |-> 0, last_equity |-> initial_cash]
        /\ event = [nr |-> 0, type |-> "None"] /\ submitted = [orders |-> 0, qty |-> 0]
    BY DEF Init
  <1>2. book \in Books /\ pending \in Seq(InFlight) /\ resting \in Seq(Resting)
        /\ resting \in Seq(InLine)
    BY <1>1 DEF EmptyBook, Books
  <1>3. ledger \in Ledgers /\ Done(ledger) = 0
    BY <1>1, EngineAssumption DEF Ledgers, Done
  <1>4. strategy \in Strategies
    <2>1. PICK name \in {"PassiveMaker", "Other"} :
             strategy = [name |-> name, outstanding |-> FALSE, last_position |-> 0]
      BY DEF Init
    <2>2. [name |-> name, outstanding |-> FALSE, last_position |-> 0] \in Strategies
      BY DEF Strategies
    <2>3. QED
      BY <2>1, <2>2
  <1>5. TypeOK
    BY <1>1, <1>2, <1>3, <1>4 DEF TypeOK, Strategies
  <1>6. Accounted
    <2>1. Total(SentOf, pending) = 0 /\ Total(RemainingOf, resting) = 0
      BY <1>1, TotalEmpty
    <2>2. QED
      BY <1>1, <1>3, <2>1 DEF Accounted
  <1>7. FundingUpToDate
    BY <1>1 DEF FundingUpToDate
  <1>8. QED
    BY <1>2, <1>5, <1>6, <1>7 DEF EngineInv

LEMMA EngineInvParts ==
    ASSUME EngineInv
    PROVE  /\ book \in Books /\ pending \in Seq(InFlight) /\ ledger \in Ledgers
           /\ resting \in Seq(InLine) /\ next_funding \in Nat /\ strategy \in Strategies
           /\ now \in Nat /\ event.nr \in Nat /\ submitted \in Counts
           /\ ledger.position \in Int
           /\ Done(ledger) \in Int /\ submitted.qty \in Int
           /\ Total(SentOf, pending) \in Int /\ Total(RemainingOf, resting) \in Int
  <1>1. /\ book \in Books /\ pending \in Seq(InFlight) /\ ledger \in Ledgers
        /\ resting \in Seq(InLine) /\ next_funding \in Nat /\ strategy \in Strategies
        /\ now \in Nat /\ event.nr \in Nat /\ submitted \in Counts
    BY DEF EngineInv, TypeOK, Strategies, Counts
  <1>2. ledger.position \in Int /\ Done(ledger) \in Int
    BY <1>1 DEF Ledgers, Done
  <1>3. submitted.qty \in Int
    BY <1>1 DEF Counts
  <1>4. Total(SentOf, pending) \in Int
    BY <1>1, OrderAmounts, TotalType
  <1>5. Total(RemainingOf, resting) \in Int
    BY <1>1, OrderAmounts, TotalType
  <1>6. QED
    BY <1>1, <1>2, <1>3, <1>4, <1>5

(* One interval past the quotient is past the whole.                       *)
LEMMA NextMultiple ==
    ASSUME NEW a \in Nat, NEW d \in Nat \ {0}
    PROVE  /\ a \div d + 1 \in Nat
           /\ (a \div d + 1) * d \in Nat
           /\ (a \div d + 1) * d > a
  <1> DEFINE q == a \div d
             r == a % d
  <1>1. q \in Nat /\ r \in Nat /\ r < d /\ a = d * q + r
    OBVIOUS
  <1> HIDE DEF q, r
  <1>2. \A x \in Nat : (x + 1) * d = d * x + d /\ d * x \in Nat
    OBVIOUS
  <1>3. (q + 1) * d = d * q + d /\ d * q \in Nat
    BY <1>1, <1>2
  <1>4. QED
    BY <1>1, <1>3 DEF q

EventTypes == {"L2Snapshot", "Trade", "Candle"}

(* Every event leaves funding charged up to its time.                      *)
LEMMA FundingCatchesUp ==
    ASSUME EngineInv, NEW type \in EventTypes, NEW tick \in Ticks,
           Receive(type, tick), FundingAdvances
    PROVE  /\ now' \in Nat /\ next_funding' \in Nat /\ event'.type = type
           /\ event' \in [nr : Nat, type : {"None", "L2Snapshot", "Trade", "Candle"}]
           /\ FundingUpToDate'
  <1> DEFINE first == first_boundary
             d == funding_interval_ms
             n == Boundaries(first, now')
             time == now'
  <1>1. tick \in Int /\ d \in Nat
    BY EngineAssumption
  <1>2. time \in Nat /\ next_funding \in Nat
    BY <1>1, EngineInvParts DEF Receive
  <1>3. /\ event'.type = type
        /\ event' \in [nr : Nat, type : {"None", "L2Snapshot", "Trade", "Candle"}]
    BY EngineInvParts DEF Receive, EventTypes
  <1>4. /\ first = IF next_funding = 0 THEN time + d ELSE next_funding
        /\ n = IF d = 0 \/ time < first THEN 0 ELSE (time - first) \div d + 1
    BY DEF first_boundary, Boundaries
  <1>5. next_funding' = IF d = 0 THEN next_funding ELSE first + n * d
    BY DEF FundingAdvances
  <1> HIDE DEF time, first, n, d
  <1>6. first \in Nat
    BY <1>1, <1>2, <1>4
  <1>7. next_funding' \in Nat /\ (d # 0 => next_funding' > time)
    <2>1. CASE d = 0
      BY <1>2, <1>5, <2>1
    <2>2. CASE d # 0 /\ time < first
      <3>1. n = 0 /\ 0 * d = 0
        BY <1>1, <1>4, <2>2
      <3>2. next_funding' = first
        BY <1>5, <1>6, <2>2, <3>1
      <3>3. QED
        BY <1>6, <2>2, <3>2
    <2>3. CASE d # 0 /\ ~(time < first)
      <3> DEFINE a == time - first
      <3>1. n = a \div d + 1
        BY <1>4, <2>3
      <3>2. a \in Nat /\ d \in Nat \ {0} /\ time = first + a
        BY <1>1, <1>2, <1>6, <2>3
      <3> HIDE DEF a
      <3>3. n * d \in Nat /\ n * d > a
        BY <3>1, <3>2, NextMultiple
      <3>4. next_funding' = first + n * d
        BY <1>5, <2>3
      <3>5. QED
        BY <1>6, <3>2, <3>3, <3>4
    <2>4. QED
      BY <2>1, <2>2, <2>3
  <1>8. funding_interval_ms > 0 => d # 0
    BY DEF d
  <1>9. QED
    BY <1>2, <1>3, <1>7, <1>8 DEF time, FundingUpToDate

LEMMA InLineRests ==
    ASSUME NEW s \in Seq(InLine)
    PROVE  s \in Seq(Resting)
  <1>1. InLine \subseteq Resting
    BY DEF InLine
  <1>2. Len(s) \in Nat /\ s \in [1..Len(s) -> InLine]
    BY LenProperties
  <1>3. s \in [1..Len(s) -> Resting]
    BY <1>1, <1>2
  <1>4. QED
    BY <1>2, <1>3, SeqDef

LEMMA EngineInvNext ==
    ASSUME book' \in Books, pending' \in Seq(InFlight), resting' \in Seq(InLine),
           ledger' \in Ledgers, next_funding' \in Nat, strategy' \in Strategies, now' \in Nat,
           event' \in [nr : Nat, type : {"None", "L2Snapshot", "Trade", "Candle"}],
           submitted' \in Counts,
           submitted'.qty = Done(ledger') + Total(SentOf, pending') + Total(RemainingOf, resting'),
           FundingUpToDate'
    PROVE  EngineInv'
  <1>1. TypeOK'
    BY InLineRests DEF TypeOK, Strategies, Counts
  <1>2. Accounted'
    BY DEF Accounted
  <1>3. QED
    BY <1>1, <1>2 DEF EngineInv

(* A snapshot settles the market orders that are due, and no others.       *)
LEMMA SnapshotStep ==
    ASSUME EngineInv, NEW snap \in Snapshots, NEW tick \in Ticks, OnSnapshot(snap, tick)
    PROVE  EngineInv' /\ Done(ledger') = Done(ledger) + SumOf(Due, pending)
  <1> DEFINE l == Funded(ledger)
             settled == Arrivals(l)
  <1>1. /\ Receive("L2Snapshot", tick) /\ book' = apply_snapshot(snap) /\ FundingAdvances
        /\ resting' = settled.resting /\ ledger' = Marked(settled.ledger)
        /\ Decide(settled.ledger.position, StillInFlight)
    BY Zenon DEF OnSnapshot
  <1>2. book' \in Books
    <2>1. snap \in [bids : Seq(RawLevels), asks : Seq(RawLevels)]
      BY EngineAssumption
    <2>2. QED
      BY <1>1, <2>1, SnapshotNormalised
  <1>3. /\ now' \in Nat /\ next_funding' \in Nat
        /\ event' \in [nr : Nat, type : {"None", "L2Snapshot", "Trade", "Candle"}]
        /\ FundingUpToDate'
    <2>1. "L2Snapshot" \in EventTypes
      BY DEF EventTypes
    <2>2. QED
      BY <1>1, <2>1, FundingCatchesUp
  <1>4. l \in Ledgers /\ Done(l) = Done(ledger)
    BY <1>2, <1>3, EngineInvParts, FundedType DEF Done
  <1> HIDE DEF l
  <1>5. /\ settled \in Settlements
        /\ Done(settled.ledger) = Done(l) + Total(AtMarketOf, Arrived)
        /\ Done(settled.ledger) + Total(RemainingOf, settled.resting)
              = Done(l) + Total(RemainingOf, resting) + Total(SentOf, Arrived)
    BY <1>2, <1>4, EngineInvParts, ArrivalsEffect
  <1> HIDE DEF settled
  <1>6. settled.ledger \in Ledgers /\ settled.resting \in Seq(InLine)
    BY <1>5 DEF Settlements
  <1>7. ledger' \in Ledgers /\ Done(ledger') = Done(settled.ledger)
    BY <1>1, <1>2, <1>6, MarkedType DEF Done
  <1>8. StillInFlight \in Seq(InFlight) /\ Arrived \in Seq(InFlight)
    BY EngineInvParts, ArrivedType
  <1>9. /\ strategy' \in Strategies /\ submitted' \in Counts /\ pending' \in Seq(InFlight)
        /\ submitted'.qty + Total(SentOf, StillInFlight)
              = submitted.qty + Total(SentOf, pending')
    <2>1. settled.ledger.position \in Int
      BY <1>6 DEF Ledgers
    <2>2. QED
      BY <1>1, <1>2, <1>3, <1>8, <2>1, EngineInvParts, Decided
  <1>10. /\ Total(SentOf, pending) = Total(SentOf, Arrived) + Total(SentOf, StillInFlight)
         /\ SumOf(Due, pending) = Total(AtMarketOf, Arrived)
    BY <1>3, EngineInvParts, InFlightSplits
  <1> DEFINE D == Done(ledger)
             D2 == Done(ledger')
             P == Total(SentOf, pending)
             P2 == Total(SentOf, pending')
             R == Total(RemainingOf, resting)
             R2 == Total(RemainingOf, resting')
             A == Total(SentOf, Arrived)
             F == Total(SentOf, StillInFlight)
             S2 == submitted'.qty
  <1>11. /\ P2 \in Int /\ A \in Int /\ F \in Int /\ R2 \in Int
    <2>1. P2 \in Int /\ A \in Int /\ F \in Int
      BY <1>8, <1>9, OrderAmounts, TotalType
    <2>2. R2 \in Int
      BY <1>1, <1>6, OrderAmounts, TotalType
    <2>3. QED
      BY <2>1, <2>2
  <1>12. D \in Int /\ P \in Int /\ R \in Int /\ submitted.qty \in Int /\ submitted.qty = D + P + R
    BY EngineInvParts DEF EngineInv, Accounted
  <1>13. D2 \in Int /\ D2 + R2 = D + R + A
    <2>1. D2 \in Int
      BY <1>7 DEF Done, Ledgers
    <2>2. QED
      BY <1>1, <1>4, <1>5, <1>7, <2>1
  <1>14. S2 + F = submitted.qty + P2 /\ P = A + F /\ S2 \in Int
    BY <1>9, <1>10 DEF Counts
  <1> HIDE DEF D, D2, P, P2, R, R2, A, F, S2
  <1>15. S2 = D2 + P2 + R2
    BY <1>11, <1>12, <1>13, <1>14
  <1>16. EngineInv'
    BY <1>1, <1>2, <1>3, <1>6, <1>7, <1>9, <1>15, EngineInvNext DEF D2, P2, R2, S2
  <1>17. QED
    BY <1>4, <1>5, <1>7, <1>10, <1>16

(* A trade fills what rests, as far as its size goes past what is ahead.   *)
LEMMA TradeStep ==
    ASSUME EngineInv, NEW trade \in Trades, NEW tick \in Ticks, OnTrade(trade, tick)
    PROVE  EngineInv' /\ event'.type = "Trade"
  <1> DEFINE fills == MakerFills(trade)
             booked == apply_fills(ledger, fills)
             funded == Funded(booked)
  <1>1. /\ Receive("Trade", tick) /\ UNCHANGED book /\ FundingAdvances
        /\ resting' = StillResting(trade) /\ ledger' = Marked(funded)
        /\ Decide(funded.position, pending)
    BY Zenon DEF OnTrade, MakerFills, Matched, StillResting
  <1>2. book' \in Books
    BY <1>1, EngineInvParts
  <1>3. /\ now' \in Nat /\ next_funding' \in Nat /\ event'.type = "Trade"
        /\ event' \in [nr : Nat, type : {"None", "L2Snapshot", "Trade", "Candle"}]
        /\ FundingUpToDate'
    <2>1. "Trade" \in EventTypes
      BY DEF EventTypes
    <2>2. QED
      BY <1>1, <2>1, FundingCatchesUp
  <1>4. /\ fills \in Seq(Fills) /\ resting' \in Seq(InLine)
        /\ Total(RemainingOf, resting) = Total(QtyOf, fills) + Total(RemainingOf, resting')
    BY <1>1, EngineInvParts, TradeEffect
  <1> HIDE DEF fills
  <1>5. /\ booked \in Ledgers /\ booked.filled = ledger.filled + Total(QtyOf, fills)
        /\ booked.unfilled = ledger.unfilled
    BY <1>4, EngineInvParts, ApplyFills
  <1> HIDE DEF booked
  <1>6. funded \in Ledgers /\ funded.filled = booked.filled /\ funded.unfilled = booked.unfilled
    BY <1>2, <1>3, <1>5, EngineInvParts, FundedType
  <1> HIDE DEF funded
  <1>7. /\ ledger' \in Ledgers /\ ledger'.filled = funded.filled
        /\ ledger'.unfilled = funded.unfilled
    BY <1>1, <1>2, <1>6, MarkedType
  <1>8. /\ strategy' \in Strategies /\ submitted' \in Counts /\ pending' \in Seq(InFlight)
        /\ submitted'.qty + Total(SentOf, pending) = submitted.qty + Total(SentOf, pending')
    <2>1. funded.position \in Int
      BY <1>6 DEF Ledgers
    <2>2. QED
      BY <1>1, <1>2, <1>3, <2>1, EngineInvParts, Decided
  <1> DEFINE D == Done(ledger)
             D2 == Done(ledger')
             P == Total(SentOf, pending)
             P2 == Total(SentOf, pending')
             R == Total(RemainingOf, resting)
             R2 == Total(RemainingOf, resting')
             Q == Total(QtyOf, fills)
  <1>9. Q \in Nat
    BY <1>4, FillTotals
  <1>10. D2 = D + Q
    <2>1. /\ ledger.filled \in Nat /\ ledger.unfilled \in Nat
      BY EngineInvParts DEF Ledgers
    <2> HIDE DEF Q
    <2>2. ledger'.filled = ledger.filled + Q /\ ledger'.unfilled = ledger.unfilled
      BY <1>5, <1>6, <1>7 DEF Q
    <2>3. QED
      BY <1>9, <2>1, <2>2 DEF Done
  <1>11. P2 \in Int /\ R2 \in Int
    <2>1. P2 \in Int
      BY <1>8, OrderAmounts, TotalType
    <2>2. R2 \in Int
      BY <1>4, OrderAmounts, TotalType
    <2>3. QED
      BY <2>1, <2>2
  <1>12. D \in Int /\ P \in Int /\ R \in Int /\ submitted.qty \in Int /\ submitted.qty = D + P + R
    BY EngineInvParts DEF EngineInv, Accounted
  <1>13. R = Q + R2 /\ submitted'.qty + P = submitted.qty + P2 /\ submitted'.qty \in Int
    BY <1>4, <1>8 DEF Counts
  <1> HIDE DEF D, D2, P, P2, R, R2, Q
  <1>14. submitted'.qty = D2 + P2 + R2
    BY <1>9, <1>10, <1>11, <1>12, <1>13
  <1>15. QED
    BY <1>2, <1>3, <1>4, <1>7, <1>8, <1>14, EngineInvNext DEF D2, P2, R2

LEMMA CandleStep ==
    ASSUME EngineInv, NEW tick \in Ticks, OnCandle(tick)
    PROVE  EngineInv' /\ event'.type = "Candle"
  <1> DEFINE funded == Funded(ledger)
  <1>1. /\ Receive("Candle", tick) /\ book' = book /\ resting' = resting /\ FundingAdvances
        /\ ledger' = Marked(funded) /\ Decide(ledger.position, pending)
    BY Zenon DEF OnCandle
  <1>2. book' \in Books /\ resting' \in Seq(InLine)
    BY <1>1, EngineInvParts
  <1>3. /\ now' \in Nat /\ next_funding' \in Nat /\ event'.type = "Candle"
        /\ event' \in [nr : Nat, type : {"None", "L2Snapshot", "Trade", "Candle"}]
        /\ FundingUpToDate'
    <2>1. "Candle" \in EventTypes
      BY DEF EventTypes
    <2>2. QED
      BY <1>1, <2>1, FundingCatchesUp
  <1>4. funded \in Ledgers /\ funded.filled = ledger.filled /\ funded.unfilled = ledger.unfilled
    BY <1>2, <1>3, EngineInvParts, FundedType
  <1> HIDE DEF funded
  <1>5. ledger' \in Ledgers /\ Done(ledger') = Done(ledger)
    BY <1>1, <1>2, <1>4, MarkedType DEF Done
  <1>6. /\ strategy' \in Strategies /\ submitted' \in Counts /\ pending' \in Seq(InFlight)
        /\ submitted'.qty + Total(SentOf, pending) = submitted.qty + Total(SentOf, pending')
    BY <1>1, <1>2, <1>3, EngineInvParts, Decided
  <1> DEFINE D == Done(ledger)
             P == Total(SentOf, pending)
             P2 == Total(SentOf, pending')
             R == Total(RemainingOf, resting)
  <1>7. P2 \in Int
    BY <1>6, OrderAmounts, TotalType
  <1>8. D \in Int /\ P \in Int /\ R \in Int /\ submitted.qty \in Int /\ submitted.qty = D + P + R
    BY EngineInvParts DEF EngineInv, Accounted
  <1>9. submitted'.qty + P = submitted.qty + P2 /\ submitted'.qty \in Int
    BY <1>6 DEF Counts
  <1> HIDE DEF D, P, P2, R
  <1>10. submitted'.qty = D + P2 + R
    BY <1>7, <1>8, <1>9
  <1>11. submitted'.qty = Done(ledger') + P2 + Total(RemainingOf, resting')
    BY <1>1, <1>5, <1>10 DEF D, R
  <1>12. QED
    BY <1>2, <1>3, <1>5, <1>6, <1>11, EngineInvNext DEF P2

LEMMA EngineStep ==
    ASSUME EngineInv, [Next]_vars
    PROVE  /\ EngineInv'
           /\ \/ UNCHANGED vars
              \/ event'.type = "L2Snapshot" => Done(ledger') = Done(ledger) + SumOf(Due, pending)
  <1>1. ASSUME NEW snap \in Snapshots, NEW tick \in Ticks, OnSnapshot(snap, tick)
        PROVE  EngineInv' /\ Done(ledger') = Done(ledger) + SumOf(Due, pending)
    BY <1>1, SnapshotStep
  <1>2. ASSUME NEW trade \in Trades, NEW tick \in Ticks, OnTrade(trade, tick)
        PROVE  EngineInv' /\ event'.type # "L2Snapshot"
    BY <1>2, TradeStep
  <1>3. ASSUME NEW tick \in Ticks, OnCandle(tick)
        PROVE  EngineInv' /\ event'.type # "L2Snapshot"
    BY <1>3, CandleStep
  <1>4. CASE UNCHANGED vars
    BY <1>4 DEF EngineInv, TypeOK, Accounted, FundingUpToDate, vars
  <1>5. QED
    BY <1>1, <1>2, <1>3, <1>4 DEF Next

(* The invariant of the engine, from which the properties follow: with the *)
(* types and the quantities, no resting order is filled and each has       *)
(* traded only once nothing is ahead of it (engine.rs, fill.rs).           *)
THEOREM EngineInvariant == Spec => []EngineInv
  <1>1. Init => EngineInv
    BY InitialEngine
  <1>2. EngineInv /\ [Next]_vars => EngineInv'
    BY EngineStep
  <1>3. QED
    BY <1>1, <1>2, PTL DEF Spec

(* Every quantity submitted is accounted for, for every stream of events   *)
(* and strategy: filled, without depth, in flight or resting               *)
(* (engine.rs:75-78, 211, 238-239).                                        *)
THEOREM NothingIsLost == Spec => []QuantitiesAccountedFor
  <1>1. EngineInv => QuantitiesAccountedFor
    <2> SUFFICES ASSUME EngineInv
                 PROVE  QuantitiesAccountedFor
      OBVIOUS
    <2>1. /\ pending \in Seq(InFlight) /\ resting \in Seq(InLine)
      BY EngineInvParts
    <2>2. SumOf(LAMBDA o : o.qty, pending) = Total(SentOf, pending)
      <3>1. \A i \in DOMAIN pending : SentOf[pending[i]] = pending[i].qty
        BY <2>1, ArrivedType, OrderAmounts
      <3>2. [i \in DOMAIN pending |-> pending[i].qty] = [i \in DOMAIN pending |-> SentOf[pending[i]]]
        BY <3>1
      <3>3. QED
        BY <3>2, Zenon DEF SumOf, Total
    <2>3. SumOf(remaining, resting) = Total(RemainingOf, resting)
      <3>1. \A i \in DOMAIN resting : RemainingOf[resting[i]] = remaining(resting[i])
        <4>1. \A i \in DOMAIN resting : resting[i] \in InLine
          BY <2>1, LenProperties, ElementOfSeq
        <4>2. QED
          BY <4>1 DEF RemainingOf, InLine
      <3>2. [i \in DOMAIN resting |-> remaining(resting[i])]
               = [i \in DOMAIN resting |-> RemainingOf[resting[i]]]
        BY <3>1
      <3>3. QED
        BY <3>2, Zenon DEF SumOf, Total
    <2> DEFINE P == Total(SentOf, pending)
               R == Total(RemainingOf, resting)
    <2>4. P \in Int /\ R \in Int /\ Done(ledger) \in Int /\ submitted.qty = Done(ledger) + P + R
      BY EngineInvParts DEF EngineInv, Accounted
    <2>5. Expired = P + R
      BY <2>2, <2>3, Zenon DEF Expired
    <2> HIDE DEF P, R
    <2>6. submitted.qty = Done(ledger) + Expired
      BY <2>4, <2>5
    <2>7. QED
      BY <2>6 DEF QuantitiesAccountedFor, EngineInv, Done
  <1>2. QED
    BY <1>1, EngineInvariant, PTL

(* A resting order is last in line, whatever trades and however the book   *)
(* moves (fill.rs:9-13, 110-114).                                          *)
THEOREM RestingOrdersQueue == Spec => []LastInLine
  <1>1. EngineInv => LastInLine
    <2> SUFFICES ASSUME EngineInv
                 PROVE  LastInLine
      OBVIOUS
    <2>1. \A i \in DOMAIN resting : resting[i] \in InLine
      BY EngineInvParts, LenProperties, ElementOfSeq
    <2>2. QED
      BY <2>1 DEF LastInLine, InLine
  <1>2. QED
    BY <1>1, EngineInvariant, PTL

(* Dividing a multiple gives it back.                                      *)
LEMMA MultipleQuotient ==
    ASSUME NEW k \in Nat, NEW d \in Nat \ {0}
    PROVE  k * d \in Nat /\ (k * d) \div d = k
  <1> DEFINE a == k * d
             q == a \div d
             r == a % d
  <1>1. a \in Nat
    OBVIOUS
  <1> HIDE DEF a
  <1>2. q \in Int /\ r \in 0..(d - 1) /\ a = d * q + r
    BY <1>1
  <1> HIDE DEF q, r
  <1>3. d * (k - q) = r
    BY <1>2 DEF a
  <1>4. ASSUME NEW e \in Int, d * e \in 0..(d - 1)
        PROVE  e = 0
    <2>1. e >= 1 => d * e >= d
      OBVIOUS
    <2>2. e <= -1 => d * e <= -d
      OBVIOUS
    <2>3. QED
      BY <1>4, <2>1, <2>2
  <1>5. k - q = 0
    BY <1>2, <1>3, <1>4
  <1>6. QED
    BY <1>1, <1>2, <1>5 DEF a, q

(* What a step of the loop says of the boundaries: those passed are the    *)
(* ones its time has reached, each an interval after the one before.       *)
LEMMA BoundariesPassed ==
    ASSUME EngineInv, NEW type \in EventTypes, NEW tick \in Ticks,
           Receive(type, tick), FundingAdvances, funding_interval_ms > 0
    PROVE  /\ Passed \in Nat /\ first_boundary \in Nat
           /\ next_funding' = first_boundary + Passed * funding_interval_ms
           /\ now' < next_funding'
           /\ Passed > 0 => next_funding' - funding_interval_ms <= now'
  <1> DEFINE first == first_boundary
             d == funding_interval_ms
             k == Passed
             time == now'
             a == time - first
  <1>1. d \in Nat \ {0} /\ tick \in Int
    BY EngineAssumption
  <1>2. time \in Nat /\ next_funding \in Nat
    BY <1>1, EngineInvParts DEF Receive
  <1>3. /\ first = IF next_funding = 0 THEN time + d ELSE next_funding
        /\ k = IF d = 0 \/ time < first THEN 0 ELSE a \div d + 1
    BY DEF first_boundary, Boundaries, Passed
  <1>4. next_funding' = IF d = 0 THEN next_funding ELSE first + k * d
    BY DEF FundingAdvances, Passed
  <1> HIDE DEF time, first, k, d
  <1>5. first \in Nat
    BY <1>1, <1>2, <1>3
  <1>6. next_funding' = first + k * d
    BY <1>1, <1>4
  <1>7. CASE time < first
    <2>1. k = 0
      BY <1>3, <1>7
    <2>2. k * d = 0
      BY <1>1, <2>1
    <2>3. QED
      BY <1>2, <1>5, <1>6, <1>7, <2>1, <2>2 DEF first, k, time, d
  <1>8. CASE ~(time < first)
    <2> DEFINE q == a \div d
               r == a % d
    <2>1. a \in Nat /\ k = q + 1 /\ time = first + a
      BY <1>1, <1>2, <1>3, <1>5, <1>8
    <2> HIDE DEF a
    <2>2. q \in Nat /\ r \in 0..(d - 1) /\ a = d * q + r
      BY <1>1, <2>1
    <2> HIDE DEF q, r
    <2>3. d * q \in Nat /\ k * d = d * q + d
      BY <1>1, <2>1, <2>2
    <2> DEFINE b == d * q
    <2> HIDE DEF b
    <2>4. b \in Nat /\ a = b + r /\ k \in Nat /\ next_funding' = first + (b + d)
      BY <1>6, <2>1, <2>2, <2>3 DEF b
    <2>5. k \in Nat /\ time < next_funding' /\ next_funding' - d <= time
      BY <1>1, <1>2, <1>5, <2>1, <2>2, <2>4
    <2>6. QED
      BY <1>5, <1>6, <2>5 DEF first, k, time, d
  <1>9. QED
    BY <1>7, <1>8

(* A fill pays no funding,                                                 *)
LEMMA FillsKeepFunding ==
    ASSUME NEW l \in Ledgers, NEW fills
    PROVE  apply_fills(l, fills).funding_paid = l.funding_paid
  <1> DEFINE p == l.position + SumOf(LAMBDA f : sign(f.side) * f.qty, fills)
             c == l.cash - SumOf(LAMBDA f : sign(f.side) * Value(f) + Fee(f), fills)
             e == l.fees + SumOf(Fee, fills)
             q == l.filled + SumOf(LAMBDA f : f.qty, fills)
  <1>1. apply_fills(l, fills) = [l EXCEPT !.position = p, !.cash = c, !.fees = e, !.filled = q]
    BY Zenon DEF apply_fills
  <1> HIDE DEF p, c, e, q
  <1>2. [l EXCEPT !.position = p, !.cash = c, !.fees = e, !.filled = q].funding_paid
           = l.funding_paid
    BY DEF Ledgers
  <1>3. QED
    BY <1>1, <1>2

(* nor does an arrival,                                                    *)
LEMMA ArriveKeepsFunding ==
    ASSUME NEW state \in Settlements, NEW order \in InFlight
    PROVE  Arrive(state, order).ledger.funding_paid = state.ledger.funding_paid
  <1> DEFINE outcome == market(order.side, order.qty)
             filled == apply_fills(state.ledger, outcome.fills)
  <1>1. state.ledger \in Ledgers
    BY DEF Settlements
  <1>2. \A fills : apply_fills(state.ledger, fills).funding_paid = state.ledger.funding_paid
    BY <1>1, FillsKeepFunding
  <1>3. QED
    BY <1>1, <1>2 DEF Arrive, Settlements

LEMMA ArrivalsKeepFunding ==
    ASSUME book' \in Books, pending \in Seq(InFlight), resting \in Seq(InLine),
           NEW l \in Ledgers
    PROVE  Arrivals(l).ledger.funding_paid = l.funding_paid
  <1> DEFINE N == Len(Arrived)
  <1>1. PICK f : Settles(l, f)
    BY ArrivalsSettle
  <1>2. /\ f \in [0..N -> Settlements] /\ f[0] = [ledger |-> l, resting |-> resting]
        /\ \A n \in 1..N : f[n] = Arrive(f[n - 1], Arrived[n])
        /\ Arrivals(l) = f[N]
    BY <1>1 DEF Settles
  <1>3. N \in Nat /\ \A i \in 1..N : Arrived[i] \in InFlight
    BY ArrivedType, LenProperties, ElementOfSeq
  <1> HIDE DEF N
  <1> DEFINE Q == {n \in Nat : n <= N => f[n].ledger.funding_paid = l.funding_paid}
  <1>4. 0 \in Q
    BY <1>2
  <1>5. ASSUME NEW n \in Nat, n \in Q
        PROVE  n + 1 \in Q
    <2>1. n + 1 <= N => /\ n + 1 \in 1..N /\ n \in 0..N /\ (n + 1) - 1 = n
                        /\ f[n].ledger.funding_paid = l.funding_paid
      BY <1>3, <1>5
    <2>2. n + 1 <= N => f[n + 1] = Arrive(f[n], Arrived[n + 1])
      BY <1>2, <2>1
    <2>3. n + 1 <= N => f[n + 1].ledger.funding_paid = f[n].ledger.funding_paid
      BY <1>2, <1>3, <2>1, <2>2, ArriveKeepsFunding
    <2>4. QED
      BY <2>1, <2>3
  <1> HIDE DEF Q
  <1>6. \A n \in Nat : n \in Q
    BY <1>4, <1>5, NumberInduction
  <1>7. QED
    BY <1>2, <1>3, <1>6 DEF Q

(* nor a mark.                                                             *)
LEMMA MarkedFunding ==
    ASSUME NEW l \in Ledgers
    PROVE  /\ Marked(l).funding_paid = l.funding_paid
           /\ Marked(l).position = l.position
  <1>1. ASSUME NEW p, NEW e, NEW d
        PROVE  LET m == [l EXCEPT !.peak = p, !.last_equity = e, !.max_drawdown = d]
               IN  m.funding_paid = l.funding_paid /\ m.position = l.position
    BY DEF Ledgers
  <1>2. QED
    BY <1>1 DEF Marked

\* A step pays for the boundaries it passed, by the position of payer.
PaysFor(payer) ==
    ledger'.funding_paid = ledger.funding_paid + Passed * Payment(payer)

LEMMA SnapshotFunding ==
    ASSUME EngineInv, NEW snap \in Snapshots, NEW tick \in Ticks, OnSnapshot(snap, tick)
    PROVE  PaysFor(ledger.position)
  <1> DEFINE l == Funded(ledger)
             settled == Arrivals(l)
  <1>1. book' = apply_snapshot(snap) /\ ledger' = Marked(settled.ledger) /\ Receive("L2Snapshot", tick)
        /\ FundingAdvances
    BY Zenon DEF OnSnapshot
  <1>2. book' \in Books
    <2>1. snap \in [bids : Seq(RawLevels), asks : Seq(RawLevels)]
      BY EngineAssumption
    <2>2. QED
      BY <1>1, <2>1, SnapshotNormalised
  <1>3. now' \in Nat
    BY <1>1, FundingCatchesUp DEF EventTypes
  <1>4. l \in Ledgers /\ l.funding_paid = ledger.funding_paid + Passed * Payment(ledger.position)
    BY <1>2, <1>3, EngineInvParts, FundedType
  <1> HIDE DEF l
  <1>5. settled \in Settlements /\ settled.ledger.funding_paid = l.funding_paid
    BY <1>2, <1>4, EngineInvParts, ArrivalsEffect, ArrivalsKeepFunding
  <1> HIDE DEF settled
  <1>6. ledger'.funding_paid = settled.ledger.funding_paid
    BY <1>1, <1>5, MarkedFunding DEF Settlements
  <1>7. QED
    BY <1>4, <1>5, <1>6 DEF PaysFor

LEMMA TradeFunding ==
    ASSUME EngineInv, NEW trade \in Trades, NEW tick \in Ticks, OnTrade(trade, tick)
    PROVE  PaysFor(ledger'.position)
  <1> DEFINE fills == MakerFills(trade)
             booked == apply_fills(ledger, fills)
             funded == Funded(booked)
  <1>1. /\ book' = book /\ ledger' = Marked(funded) /\ Receive("Trade", tick) /\ FundingAdvances
    BY Zenon DEF OnTrade, MakerFills, Matched, StillResting
  <1>2. book' \in Books /\ now' \in Nat
    BY <1>1, EngineInvParts, FundingCatchesUp DEF EventTypes
  <1>3. fills \in Seq(Fills)
    BY EngineInvParts, TradeEffect
  <1> HIDE DEF fills
  <1>4. booked \in Ledgers /\ booked.funding_paid = ledger.funding_paid
    BY <1>3, EngineInvParts, ApplyFills, FillsKeepFunding
  <1> HIDE DEF booked
  <1>5. /\ funded \in Ledgers /\ funded.position = booked.position
        /\ funded.funding_paid = booked.funding_paid + Passed * Payment(booked.position)
    BY <1>2, <1>4, EngineInvParts, FundedType
  <1> HIDE DEF funded
  <1>6. ledger'.funding_paid = funded.funding_paid /\ ledger'.position = funded.position
    BY <1>1, <1>5, MarkedFunding
  <1>7. QED
    BY <1>4, <1>5, <1>6 DEF PaysFor

LEMMA CandleFunding ==
    ASSUME EngineInv, NEW tick \in Ticks, OnCandle(tick)
    PROVE  PaysFor(ledger'.position)
  <1> DEFINE funded == Funded(ledger)
  <1>1. book' = book /\ ledger' = Marked(funded) /\ Receive("Candle", tick) /\ FundingAdvances
    BY Zenon DEF OnCandle
  <1>2. book' \in Books /\ now' \in Nat
    BY <1>1, EngineInvParts, FundingCatchesUp DEF EventTypes
  <1>3. /\ funded \in Ledgers /\ funded.position = ledger.position
        /\ funded.funding_paid = ledger.funding_paid + Passed * Payment(ledger.position)
    BY <1>2, EngineInvParts, FundedType
  <1> HIDE DEF funded
  <1>4. ledger'.funding_paid = funded.funding_paid /\ ledger'.position = funded.position
    BY <1>1, <1>3, MarkedFunding
  <1>5. QED
    BY <1>3, <1>4 DEF PaysFor

\* The position an event's boundaries are charged on.
Payer == IF event'.type = "L2Snapshot" THEN ledger.position ELSE ledger'.position

LEMMA FundingStep ==
    ASSUME EngineInv, Next
    PROVE  /\ PaysFor(Payer)
           /\ \E type \in EventTypes, tick \in Ticks : Receive(type, tick) /\ FundingAdvances
  <1>1. ASSUME NEW snap \in Snapshots, NEW tick \in Ticks, OnSnapshot(snap, tick)
        PROVE  /\ PaysFor(Payer)
               /\ \E t \in EventTypes, k \in Ticks : Receive(t, k) /\ FundingAdvances
    <2>1. Receive("L2Snapshot", tick) /\ FundingAdvances /\ "L2Snapshot" \in EventTypes
      BY <1>1, Zenon DEF OnSnapshot, EventTypes
    <2>2. event'.type = "L2Snapshot"
      BY <2>1 DEF Receive
    <2>3. QED
      BY <1>1, <2>1, <2>2, SnapshotFunding DEF Payer
  <1>2. ASSUME NEW trade \in Trades, NEW tick \in Ticks, OnTrade(trade, tick)
        PROVE  /\ PaysFor(Payer)
               /\ \E t \in EventTypes, k \in Ticks : Receive(t, k) /\ FundingAdvances
    <2>1. Receive("Trade", tick) /\ FundingAdvances /\ "Trade" \in EventTypes
      BY <1>2, Zenon DEF OnTrade, EventTypes
    <2>2. event'.type = "Trade"
      BY <2>1 DEF Receive
    <2>3. QED
      BY <1>2, <2>1, <2>2, TradeFunding DEF Payer
  <1>3. ASSUME NEW tick \in Ticks, OnCandle(tick)
        PROVE  /\ PaysFor(Payer)
               /\ \E t \in EventTypes, k \in Ticks : Receive(t, k) /\ FundingAdvances
    <2>1. Receive("Candle", tick) /\ FundingAdvances /\ "Candle" \in EventTypes
      BY <1>3, Zenon DEF OnCandle, EventTypes
    <2>2. event'.type = "Candle"
      BY <2>1 DEF Receive
    <2>3. QED
      BY <1>3, <2>1, <2>2, CandleFunding DEF Payer
  <1>4. QED
    BY <1>1, <1>2, <1>3 DEF Next

\* FundingChargedOnce of one step.
ChargedOnce ==
    funding_interval_ms > 0 =>
        LET from   == IF next_funding = 0 THEN now' + funding_interval_ms ELSE next_funding
            passed == (next_funding' - from) \div funding_interval_ms
            payer  == IF event'.type = "L2Snapshot" THEN ledger.position ELSE ledger'.position
            due    == IF has_mid(book')
                      THEN rate_ppm_signed(notional(mid(book'), payer), funding_rate_ppm)
                      ELSE 0
        IN  /\ passed >= 0
            /\ next_funding' = from + passed * funding_interval_ms
            /\ now' < next_funding'
            /\ passed > 0 => next_funding' - funding_interval_ms <= now'
            /\ ledger'.funding_paid = ledger.funding_paid + passed * due

LEMMA StepChargesOnce ==
    ASSUME EngineInv, Next, funding_interval_ms > 0
    PROVE  ChargedOnce
  <1> DEFINE from == first_boundary
             passed == (next_funding' - from) \div funding_interval_ms
  <1>1. PICK type \in EventTypes, tick \in Ticks : Receive(type, tick) /\ FundingAdvances
    BY FundingStep
  <1>2. /\ Passed \in Nat /\ from \in Nat
        /\ next_funding' = from + Passed * funding_interval_ms
        /\ now' < next_funding'
        /\ Passed > 0 => next_funding' - funding_interval_ms <= now'
    BY <1>1, BoundariesPassed
  <1>3. PaysFor(Payer)
    BY FundingStep
  <1> HIDE DEF from
  <1>4. passed = Passed
    <2>1. funding_interval_ms \in Nat \ {0}
      BY EngineAssumption
    <2>2. /\ Passed * funding_interval_ms \in Nat
          /\ (Passed * funding_interval_ms) \div funding_interval_ms = Passed
      BY <1>2, <2>1, MultipleQuotient
    <2>3. next_funding' - from = Passed * funding_interval_ms
      BY <1>2, <2>2
    <2>4. QED
      BY <2>2, <2>3
  <1>5. from = IF next_funding = 0 THEN now' + funding_interval_ms ELSE next_funding
    BY DEF from, first_boundary
  <1> HIDE DEF passed
  <1>6. passed >= 0
    BY <1>2, <1>4
  <1>7. ledger'.funding_paid = ledger.funding_paid + passed * Payment(Payer)
    BY <1>3, <1>4 DEF PaysFor
  <1>8. /\ next_funding' = from + passed * funding_interval_ms
        /\ now' < next_funding'
        /\ passed > 0 => next_funding' - funding_interval_ms <= now'
    BY <1>2, <1>4
  <1>9. QED
    BY <1>5, <1>6, <1>7, <1>8, Zenon DEF ChargedOnce, Payment, Payer, passed

(* Every funding boundary is charged once, by the first event to reach it, *)
(* to the position of that event, for every interval, rate and jump of     *)
(* time (engine.rs:166-195).                                               *)
THEOREM FundingIsChargedOnce == Spec => FundingChargedOnce
  <1>1. EngineInv /\ [Next]_vars => [ChargedOnce]_vars
    BY StepChargesOnce DEF ChargedOnce
  <1>2. QED
    BY <1>1, EngineInvariant, PTL DEF Spec, FundingChargedOnce, ChargedOnce

(* No look-ahead: a snapshot settles at market exactly the orders that     *)
(* were in flight before it and that it has reached, whatever the latency  *)
(* and the strategy (engine.rs:8-12).                                      *)
THEOREM NoLookAhead == Spec => OrdersFillWhenDue
  <1> DEFINE FillsWhenDue == event'.type = "L2Snapshot" =>
                            ledger'.filled + ledger'.unfilled
                               = ledger.filled + ledger.unfilled + SumOf(Due, pending)
  <1>1. EngineInv /\ [Next]_vars => [FillsWhenDue]_vars
    BY EngineStep DEF Done
  <1>2. QED
    BY <1>1, EngineInvariant, PTL DEF Spec, OrdersFillWhenDue
-----------------------------------------------------------------------------
(* The maker's orders.                                                     *)

\* The position that an order of the maker's, filled so far, stands for.
Reflects(position, side, filled) ==
    position = IF side = "Buy" THEN filled ELSE order_qty - filled

Waits(strat, position) == strat.outstanding = TRUE /\ strat.last_position = position

\* The maker has no order working.
Idle(in_flight, rest, position) ==
    in_flight = <<>> /\ rest = <<>> /\ position \in {0, order_qty}

\* Its order is on the way, and it waits for it.
Flying(in_flight, rest, position, strat) ==
    /\ rest = <<>>
    /\ \E o \in InFlight : /\ in_flight = <<o>>
                           /\ o.kind = "Limit" /\ o.qty = order_qty
                           /\ Reflects(position, o.side, 0)
    /\ Waits(strat, position)

\* Its order rests, and until the first fill it waits for it.
Queued(in_flight, rest, position, strat) ==
    /\ in_flight = <<>>
    /\ \E r \in InLine : /\ rest = <<r>>
                         /\ r.qty = order_qty
                         /\ Reflects(position, r.side, r.filled)
                         /\ r.filled = 0 => Waits(strat, position)

OneOrder(in_flight, rest, position, strat) ==
    \/ Idle(in_flight, rest, position)
    \/ Flying(in_flight, rest, position, strat)
    \/ Queued(in_flight, rest, position, strat)

MakerInv ==
    /\ EngineInv
    /\ strategy.name = "PassiveMaker" => OneOrder(pending, resting, ledger.position, strategy)

LEMMA Singletons ==
    /\ Len(<<>>) = 0 /\ DOMAIN <<>> = {}
    /\ \A x : Len(<<x>>) = 1 /\ DOMAIN <<x>> = {1} /\ <<x>>[1] = x
    /\ \A x, y : <<x>> = <<y>> => x = y
  OBVIOUS

(* Subsequences of at most one element.                                    *)
LEMMA SubsequenceShort ==
    /\ \A P : Subsequence(<<>>, P) = <<>>
    /\ \A x, P : Subsequence(<<x>>, P) = IF 1 \in P THEN <<x>> ELSE <<>>
  <1>1. ASSUME NEW P
        PROVE  Subsequence(<<>>, P) = <<>>
    <2> DEFINE s == <<>>
               X == {}
    <2>1. /\ Len(s) = 0 /\ Len(s) \in Nat
          /\ \A i \in 1..Len(s) : i \in P => s[i] \in X
      OBVIOUS
    <2> HIDE DEF s, X
    <2>2. PICK kept : Keeps(s, P, X, kept)
      BY <2>1, SubsequenceKept
    <2>3. QED
      BY <2>1, <2>2 DEF Keeps, s
  <1>2. ASSUME NEW x, NEW P
        PROVE  Subsequence(<<x>>, P) = IF 1 \in P THEN <<x>> ELSE <<>>
    <2> DEFINE s == <<x>>
               X == {x}
    <2>1. /\ Len(s) = 1 /\ Len(s) \in Nat /\ s[1] = x
          /\ \A i \in 1..Len(s) : i \in P => s[i] \in X
      OBVIOUS
    <2> HIDE DEF s, X
    <2>2. PICK kept : Keeps(s, P, X, kept)
      BY <2>1, SubsequenceKept
    <2>3. /\ kept[0] = <<>> /\ Subsequence(s, P) = kept[1]
          /\ kept[1] = IF 1 \in P THEN Append(kept[0], x) ELSE kept[0]
      BY <2>1, <2>2 DEF Keeps
    <2>4. Append(<<>>, x) = <<x>>
      OBVIOUS
    <2>5. QED
      BY <2>3, <2>4 DEF s
  <1>3. QED
    BY <1>1, <1>2

(* What the maker decides leaves it with at most one order: it waits for   *)
(* an order without fills, and a partial fill is neither 0 nor the whole.  *)
LEMMA MakerDecision ==
    ASSUME book' \in Books, now' \in Nat, NEW in_flight \in Seq(InFlight), submitted \in Counts,
           strategy \in Strategies, NEW position \in Int, NEW rest,
           MakerDecides(position, in_flight), OneOrder(in_flight, rest, position, strategy)
    PROVE  OneOrder(pending', rest, position, strategy')
  <1> DEFINE waiting == strategy.outstanding /\ position = strategy.last_position
             quotes == IF waiting THEN <<>> ELSE Quotes(position)
  <1>1. CASE event'.type # "L2Snapshot"
    <2>1. strategy' = strategy /\ pending' = in_flight
      BY <1>1, DispatchNothing DEF MakerDecides
    <2>2. QED
      BY <2>1
  <1>2. CASE event'.type = "L2Snapshot"
    <2>1. /\ strategy' = [strategy EXCEPT !.last_position = position,
                                          !.outstanding = waiting \/ quotes # <<>>]
          /\ Dispatch(in_flight, quotes)
      BY <1>2, Zenon DEF MakerDecides
    <2>2. /\ strategy'.last_position = position
          /\ strategy'.outstanding = (waiting \/ quotes # <<>>)
      <3> HIDE DEF waiting, quotes
      <3>1. QED
        BY <2>1 DEF Strategies
    <2>3. CASE quotes = <<>>
      <3>1. pending' = in_flight
        BY <2>1, <2>3, DispatchNothing
      <3>2. Waits(strategy, position) => Waits(strategy', position)
        <4>1. Waits(strategy, position) => waiting
          BY Zenon DEF Waits
        <4>2. waiting => strategy'.outstanding = TRUE
          BY <2>2, Zenon
        <4>3. QED
          BY <2>2, <4>1, <4>2, Zenon DEF Waits
      <3> HIDE DEF waiting, quotes
      <3>3. QED
        BY <3>1, <3>2 DEF OneOrder, Flying, Queued
    <2>4. CASE quotes # <<>>
      <3>1. ~waiting /\ has_mid(book') /\ quotes = Quotes(position)
        BY <2>4, Zenon DEF Quotes
      <3>2. ~Waits(strategy, position)
        BY <3>1, Zenon DEF Waits
      <3>3. position = 0 \/ position >= order_qty
        BY <2>4, <3>1 DEF Quotes
      <3>4. Idle(in_flight, rest, position)
        <4>1. ASSUME NEW r \in InLine, r.qty = order_qty, Reflects(position, r.side, r.filled),
                     r.filled # 0
              PROVE  FALSE
          <5>1. r.filled \in Nat /\ r.filled < r.qty /\ r.qty \in Nat
            BY DEF InLine, Resting
          <5>2. QED
            BY <3>3, <4>1, <5>1, EngineAssumption DEF Reflects
        <4>2. QED
          BY <3>2, <4>1 DEF OneOrder, Flying, Queued
      <3>5. /\ book'.bids \in Seq(Levels) /\ book'.bids # <<>>
            /\ book'.asks \in Seq(Levels) /\ book'.asks # <<>>
        BY <3>1 DEF has_mid, Books
      <3>6. book'.bids[1].px \in Nat /\ book'.asks[1].px \in Nat
        <4>1. book'.bids[1] \in Levels /\ book'.asks[1] \in Levels
          BY <3>5, EmptySeq, ElementOfSeq, LenProperties
        <4>2. QED
          BY <4>1 DEF Levels
      <3>7. PICK side \in Side, px \in Nat :
               /\ quotes = limit(side, px)
               /\ Reflects(position, side, 0)
        <4>1. CASE position = 0
          <5>1. quotes = limit("Buy", book'.bids[1].px)
            BY <3>1, <4>1, Zenon DEF Quotes
          <5>2. "Buy" \in Side /\ Reflects(position, "Buy", 0)
            BY <4>1 DEF Side, Reflects
          <5> HIDE DEF quotes
          <5>3. QED
            BY <3>6, <5>1, <5>2
        <4>2. CASE position # 0
          <5>1. position = order_qty /\ position > 0
            BY <3>4, <4>2, EngineAssumption DEF Idle
          <5>2. order_qty >= order_qty
            BY EngineAssumption
          <5>3. quotes = limit("Sell", book'.asks[1].px)
            BY <3>1, <4>2, <5>1, <5>2 DEF Quotes
          <5>4. "Sell" \in Side /\ Reflects(position, "Sell", 0)
            BY <5>1, EngineAssumption DEF Side, Reflects
          <5> HIDE DEF quotes
          <5>5. QED
            BY <3>6, <5>3, <5>4
        <4>3. QED
          BY <4>1, <4>2
      <3> DEFINE x == [side |-> side, qty |-> order_qty, kind |-> "Limit", px |-> px]
      <3>8. x \in Asked /\ x.qty = order_qty /\ x.kind = "Limit" /\ x.side = side
        BY EngineAssumption DEF Asked
      <3>9. Dispatch(in_flight, <<x>>)
        BY <2>1, <3>7, Zenon DEF limit
      <3> HIDE DEF x
      <3>10. Sent(x) \in InFlight /\ pending' = Append(in_flight, Sent(x))
        BY <3>8, <3>9, DispatchOne
      <3>11. /\ Sent(x).kind = "Limit" /\ Sent(x).qty = order_qty /\ Sent(x).side = side
        BY <3>8 DEF Sent
      <3>12. in_flight = <<>> /\ rest = <<>>
        BY <3>4 DEF Idle
      <3> HIDE DEF Sent
      <3>13. pending' = <<Sent(x)>>
        BY <3>10, <3>12
      <3>14. Waits(strategy', position)
        BY <2>2, <2>4, Zenon DEF Waits
      <3>15. QED
        BY <3>7, <3>10, <3>11, <3>12, <3>13, <3>14, Zenon DEF OneOrder, Flying
    <2>5. QED
      BY <2>3, <2>4
  <1>3. QED
    BY <1>1, <1>2

(* A snapshot may land the maker's order; it changes no position.          *)
LEMMA MakerArrivals ==
    ASSUME book' \in Books, pending \in Seq(InFlight), resting \in Seq(InLine),
           NEW l \in Ledgers, OneOrder(pending, resting, l.position, strategy)
    PROVE  /\ Arrivals(l).ledger.position = l.position
           /\ OneOrder(StillInFlight, Arrivals(l).resting, l.position, strategy)
  <1>1. PICK f : Settles(l, f)
    BY ArrivalsSettle
  <1>2. /\ f[0] = [ledger |-> l, resting |-> resting]
        /\ \A n \in 1..Len(Arrived) : f[n] = Arrive(f[n - 1], Arrived[n])
        /\ Arrivals(l) = f[Len(Arrived)]
    BY <1>1 DEF Settles
  <1>3. ASSUME Arrived = <<>>, StillInFlight = pending
        PROVE  /\ Arrivals(l).ledger.position = l.position
               /\ OneOrder(StillInFlight, Arrivals(l).resting, l.position, strategy)
    <2>1. Len(Arrived) = 0
      BY <1>3
    <2>2. Arrivals(l).ledger = l /\ Arrivals(l).resting = resting
      BY <1>2, <2>1
    <2>3. QED
      BY <1>3, <2>2
  <1>4. CASE pending = <<>>
    <2>1. Arrived = <<>> /\ StillInFlight = pending
      BY <1>4, SubsequenceShort DEF Arrived, StillInFlight
    <2>2. QED
      BY <1>3, <2>1
  <1>5. CASE pending # <<>>
    <2>1. PICK o \in InFlight : /\ resting = <<>> /\ pending = <<o>>
                                /\ o.kind = "Limit" /\ o.qty = order_qty
                                /\ Reflects(l.position, o.side, 0)
                                /\ Waits(strategy, l.position)
      BY <1>5 DEF OneOrder, Idle, Flying, Queued
    <2>2. DOMAIN pending = {1} /\ pending[1] = o
      BY <2>1
    <2>3. CASE ~has_arrived(o)
      <3>1. ArrivedNow = {} /\ DOMAIN pending \ ArrivedNow = {1}
        BY <2>2, <2>3 DEF ArrivedNow
      <3>2. Arrived = <<>> /\ StillInFlight = pending
        BY <2>1, <3>1, SubsequenceShort DEF Arrived, StillInFlight
      <3>3. QED
        BY <1>3, <3>2
    <2>4. CASE has_arrived(o)
      <3>1. ArrivedNow = {1} /\ DOMAIN pending \ ArrivedNow = {}
        BY <2>2, <2>4 DEF ArrivedNow
      <3>2. Arrived = <<o>> /\ StillInFlight = <<>>
        BY <2>1, <3>1, SubsequenceShort DEF Arrived, StillInFlight
      <3> DEFINE r == [side |-> o.side, px |-> o.px, qty |-> o.qty, filled |-> 0,
                       queue_ahead |-> size_at(o.side, o.px)]
                 base == [ledger |-> l, resting |-> <<>>]
      <3>3. Arrivals(l) = Arrive(base, o)
        <4>1. Len(Arrived) = 1 /\ Arrived[1] = o
          BY <3>2
        <4>2. f[1] = Arrive(f[0], o) /\ Arrivals(l) = f[1] /\ f[0] = base
          BY <1>2, <2>1, <4>1
        <4> HIDE DEF base
        <4>3. QED
          BY <4>2
      <3>4. Arrive(base, o) = [base EXCEPT !.resting = Append(@, r)]
        BY <2>1, Zenon DEF Arrive
      <3>5. r \in InLine
        <4>1. o.side \in Side /\ o.px \in Nat /\ o.qty \in Nat \ {0}
          BY DEF InFlight
        <4>2. size_at(o.side, o.px) \in Nat
          BY <4>1, SizeAtType
        <4>3. QED
          BY <4>1, <4>2 DEF InLine, Resting
      <3>6. r.qty = order_qty /\ r.side = o.side /\ r.filled = 0
        BY <2>1
      <3> HIDE DEF r
      <3>7. /\ Arrivals(l).ledger = l
            /\ Arrivals(l).resting = Append(<<>>, r)
        BY <3>3, <3>4
      <3>8. Append(<<>>, r) = <<r>>
        OBVIOUS
      <3>9. Queued(StillInFlight, Arrivals(l).resting, l.position, strategy)
        BY <2>1, <3>2, <3>5, <3>6, <3>7, <3>8, Zenon DEF Queued
      <3>10. QED
        BY <3>7, <3>9 DEF OneOrder
    <2>5. QED
      BY <2>3, <2>4
  <1>6. QED
    BY <1>4, <1>5

LEMMA TotalSingleton ==
    ASSUME NEW X, NEW x \in X, NEW v, \A y \in X : v[y] \in Int
    PROVE  Total(v, <<x>>) = v[x]
  <1>1. <<>> \in Seq(X) /\ Append(<<>>, x) = <<x>>
    OBVIOUS
  <1>2. Total(v, Append(<<>>, x)) = Total(v, <<>>) + v[x]
    BY <1>1, TotalAppend
  <1>3. Total(v, <<>>) = 0 /\ v[x] \in Int
    BY TotalEmpty
  <1>4. QED
    BY <1>1, <1>2, <1>3

(* A trade moves the position and the order's fills together.              *)
LEMMA MakerTrade ==
    ASSUME resting \in Seq(InLine), NEW trade \in Trades, NEW position \in Int,
           OneOrder(pending, resting, position, strategy)
    PROVE  OneOrder(pending, StillResting(trade),
                    position + Total(SignedOf, MakerFills(trade)), strategy)
  <1>1. CASE resting = <<>>
    <2> DEFINE P == {i \in DOMAIN resting : remaining(Matched(trade)[i]) > 0}
    <2>1. MakerFills(trade) = <<>> /\ Matched(trade) = <<>>
      BY <1>1 DEF MakerFills, Matched
    <2>2. StillResting(trade) = <<>>
      <3>1. StillResting(trade) = Subsequence(Matched(trade), P)
        BY DEF StillResting
      <3> HIDE DEF P
      <3>2. QED
        BY <2>1, <3>1, SubsequenceShort
    <2>3. position + Total(SignedOf, MakerFills(trade)) = position
      BY <2>1, TotalEmpty
    <2>4. QED
      BY <1>1, <2>2, <2>3
  <1>2. CASE resting # <<>>
    <2>1. PICK r \in InLine : /\ pending = <<>> /\ resting = <<r>>
                              /\ r.qty = order_qty
                              /\ Reflects(position, r.side, r.filled)
                              /\ r.filled = 0 => Waits(strategy, position)
      BY <1>2 DEF OneOrder, Idle, Flying, Queued
    <2> DEFINE m == match_resting(r, trade)
               fill == MakerFill(r, m)
               P == {i \in DOMAIN resting : remaining(Matched(trade)[i]) > 0}
    <2>2. DOMAIN resting = {1} /\ resting[1] = r
      BY <2>1
    <2>3. Matched(trade) = <<m>> /\ Matched(trade)[1] = m
      <3>1. Matched(trade) = [i \in {1} |-> m]
        BY <2>2 DEF Matched
      <3> HIDE DEF m
      <3>2. QED
        BY <3>1
    <2>4. MakerFills(trade) = <<fill>>
      <3>1. MakerFills(trade) = [i \in {1} |-> fill]
        BY <2>2, <2>3 DEF MakerFills
      <3> HIDE DEF fill
      <3>2. QED
        BY <3>1
    <2>5. /\ m \in Resting /\ RemainingOf[m] \in Nat
          /\ RemainingOf[m] > 0 => m \in InLine
          /\ fill \in Fills /\ RemainingOf[r] = fill.qty + RemainingOf[m]
          /\ m.side = r.side /\ m.qty = r.qty /\ fill.side = r.side
      BY MatchEffect DEF MakerFill
    <2>6. /\ RemainingOf[m] = m.qty - m.filled /\ RemainingOf[m] = remaining(m)
          /\ RemainingOf[r] = r.qty - r.filled
          /\ r.filled \in Nat /\ m.filled \in Nat /\ r.qty \in Nat /\ r.filled < r.qty
          /\ r.side \in Side
      BY <2>5, OrderAmounts DEF remaining, InLine, Resting
    <2>7. Total(SignedOf, MakerFills(trade)) = sign(r.side) * fill.qty /\ fill.qty \in Nat
      <3>1. \A f \in Fills : SignedOf[f] \in Int
        BY FillAmounts
      <3>2. SignedOf[fill] = sign(r.side) * fill.qty /\ fill.qty \in Nat
        BY <2>5, FillAmounts DEF Fills
      <3> HIDE DEF fill
      <3>3. Total(SignedOf, <<fill>>) = SignedOf[fill]
        BY <2>5, <3>1, TotalSingleton
      <3>4. QED
        BY <2>4, <3>2, <3>3
    <2>8. 1 \in P <=> RemainingOf[m] > 0
      BY <2>2, <2>3, <2>6
    <2>9. StillResting(trade) = IF 1 \in P THEN <<m>> ELSE <<>>
      <3>1. StillResting(trade) = Subsequence(Matched(trade), P)
        BY DEF StillResting
      <3> HIDE DEF P, m
      <3>2. QED
        BY <2>3, <3>1, SubsequenceShort
    <2> DEFINE held == position + Total(SignedOf, MakerFills(trade))
    <2> HIDE DEF m, fill, P
    <2>10. m.filled = r.filled + fill.qty
      <3> DEFINE mf == m.filled
                 rf == r.filled
                 fq == fill.qty
                 rq == r.qty
      <3>1. /\ mf \in Nat /\ rf \in Nat /\ fq \in Nat /\ rq \in Nat
            /\ rq - rf = fq + (rq - mf)
        BY <2>5, <2>6, <2>7
      <3> HIDE DEF mf, rf, fq, rq
      <3>2. mf = rf + fq
        BY <3>1
      <3>3. QED
        BY <3>2 DEF mf, rf, fq
    <2>11. held = position + sign(r.side) * fill.qty
      BY <2>7
    <2> HIDE DEF held
    <2>12. Reflects(held, m.side, m.filled)
      <3>1. CASE r.side = "Buy"
        <4>1. sign(r.side) * fill.qty = fill.qty
          BY <2>7, <3>1 DEF sign
        <4>2. QED
          BY <2>1, <2>5, <2>6, <2>7, <2>10, <2>11, <3>1, <4>1 DEF Reflects
      <3>2. CASE r.side = "Sell"
        <4>1. sign(r.side) * fill.qty = -fill.qty
          BY <2>7, <3>2 DEF sign
        <4>2. QED
          BY <2>1, <2>5, <2>6, <2>7, <2>10, <2>11, <3>2, <4>1, EngineAssumption DEF Reflects
      <3>3. QED
        BY <2>6, <3>1, <3>2 DEF Side
    <2>13. m.filled = 0 => Waits(strategy, held)
      <3>1. ASSUME m.filled = 0
            PROVE  r.filled = 0 /\ held = position
        <4>1. r.filled = 0 /\ fill.qty = 0
          BY <2>6, <2>7, <2>10, <3>1
        <4>2. sign(r.side) * fill.qty = 0
          BY <4>1 DEF sign
        <4>3. QED
          BY <2>11, <4>1, <4>2
      <3>2. QED
        BY <2>1, <3>1
    <2>14. CASE RemainingOf[m] > 0
      <3>1. m \in InLine /\ StillResting(trade) = <<m>> /\ m.qty = order_qty
        BY <2>1, <2>5, <2>8, <2>9, <2>14
      <3>2. QED
        BY <2>1, <2>12, <2>13, <3>1, Zenon DEF OneOrder, Queued, held
    <2>15. CASE ~(RemainingOf[m] > 0)
      <3>1. StillResting(trade) = <<>> /\ m.filled = order_qty
        BY <2>1, <2>5, <2>6, <2>8, <2>9, <2>15
      <3>2. held \in {0, order_qty}
        BY <2>12, <3>1, EngineAssumption DEF Reflects
      <3>3. QED
        BY <2>1, <3>1, <3>2, Zenon DEF OneOrder, Idle, held
    <2>16. QED
      BY <2>14, <2>15
  <1>3. QED
    BY <1>1, <1>2

(* A run keeps its strategy, and the maker its order.                      *)
LEMMA MakerTurn ==
    ASSUME book' \in Books, now' \in Nat, NEW in_flight \in Seq(InFlight), submitted \in Counts,
           strategy \in Strategies, NEW position \in Int, NEW rest, Decide(position, in_flight),
           strategy.name = "PassiveMaker" => OneOrder(in_flight, rest, position, strategy)
    PROVE  strategy'.name = "PassiveMaker" => OneOrder(pending', rest, position, strategy')
  <1>1. CASE strategy.name = "PassiveMaker" /\ MakerDecides(position, in_flight)
    BY <1>1, MakerDecision
  <1>2. CASE strategy.name = "Other" /\ OtherDecides(in_flight)
    <2>1. strategy' = strategy
      BY <1>2 DEF OtherDecides
    <2>2. QED
      BY <1>2, <2>1
  <1>3. QED
    BY <1>1, <1>2, Zenon DEF Decide

LEMMA MakerSnapshot ==
    ASSUME MakerInv, NEW snap \in Snapshots, NEW tick \in Ticks, OnSnapshot(snap, tick)
    PROVE  MakerInv'
  <1> DEFINE l == Funded(ledger)
             settled == Arrivals(l)
             in_flight == StillInFlight
  <1>1. /\ Receive("L2Snapshot", tick) /\ book' = apply_snapshot(snap) /\ FundingAdvances
        /\ resting' = settled.resting /\ ledger' = Marked(settled.ledger)
        /\ Decide(settled.ledger.position, in_flight)
    BY Zenon DEF OnSnapshot
  <1>2. EngineInv /\ EngineInv'
    BY SnapshotStep DEF MakerInv
  <1>3. /\ book' \in Books /\ now' \in Nat
        /\ resting \in Seq(InLine) /\ pending \in Seq(InFlight) /\ ledger \in Ledgers
        /\ next_funding \in Nat /\ strategy \in Strategies /\ submitted \in Counts
    BY <1>2, EngineInvParts DEF EngineInv, TypeOK
  <1>4. l \in Ledgers /\ l.position = ledger.position
    BY <1>3, FundedType
  <1> HIDE DEF l
  <1>5. settled \in Settlements
    BY <1>3, <1>4, ArrivalsEffect
  <1>6. in_flight \in Seq(InFlight)
    BY <1>3, ArrivedType
  <1>7. ASSUME strategy.name = "PassiveMaker"
        PROVE  /\ settled.ledger.position = l.position
               /\ OneOrder(in_flight, settled.resting, l.position, strategy)
    <2>1. OneOrder(pending, resting, l.position, strategy)
      BY <1>4, <1>7 DEF MakerInv
    <2>2. QED
      BY <1>3, <1>4, <2>1, MakerArrivals
  <1> HIDE DEF settled, in_flight
  <1>8. settled.ledger \in Ledgers /\ settled.ledger.position \in Int
    BY <1>5 DEF Settlements, Ledgers
  <1>9. ledger'.position = settled.ledger.position
    BY <1>1, <1>3, <1>8, MarkedType
  <1>10. strategy.name = "PassiveMaker"
            => OneOrder(in_flight, settled.resting, settled.ledger.position, strategy)
    BY <1>7
  <1>11. strategy'.name = "PassiveMaker"
            => OneOrder(pending', settled.resting, settled.ledger.position, strategy')
    BY <1>1, <1>3, <1>6, <1>8, <1>10, MakerTurn
  <1>12. QED
    BY <1>1, <1>2, <1>9, <1>11 DEF MakerInv

LEMMA MakerTraded ==
    ASSUME MakerInv, NEW trade \in Trades, NEW tick \in Ticks, OnTrade(trade, tick)
    PROVE  MakerInv'
  <1> DEFINE fills == MakerFills(trade)
             booked == apply_fills(ledger, fills)
             funded == Funded(booked)
  <1>1. /\ Receive("Trade", tick) /\ UNCHANGED book /\ FundingAdvances
        /\ resting' = StillResting(trade) /\ ledger' = Marked(funded)
        /\ Decide(funded.position, pending)
    BY Zenon DEF OnTrade, MakerFills, Matched, StillResting
  <1>2. EngineInv /\ EngineInv'
    BY TradeStep DEF MakerInv
  <1>3. /\ book' \in Books /\ now' \in Nat
        /\ resting \in Seq(InLine) /\ pending \in Seq(InFlight) /\ ledger \in Ledgers
        /\ next_funding \in Nat /\ strategy \in Strategies /\ submitted \in Counts
        /\ ledger.position \in Int
    BY <1>2, EngineInvParts DEF EngineInv, TypeOK
  <1>4. fills \in Seq(Fills)
    BY <1>3, TradeEffect
  <1>5. strategy.name = "PassiveMaker"
           => OneOrder(pending, StillResting(trade),
                       ledger.position + Total(SignedOf, fills), strategy)
    BY <1>3, MakerTrade DEF MakerInv
  <1> HIDE DEF fills
  <1>6. /\ booked \in Ledgers /\ booked.position = ledger.position + Total(SignedOf, fills)
    BY <1>3, <1>4, ApplyFills
  <1> HIDE DEF booked
  <1>7. funded \in Ledgers /\ funded.position = booked.position
    BY <1>3, <1>6, FundedType
  <1> HIDE DEF funded
  <1>8. funded.position \in Int /\ ledger'.position = funded.position
    <2>1. ledger'.position = funded.position
      BY <1>1, <1>3, <1>7, MarkedType
    <2>2. QED
      BY <1>7, <2>1 DEF Ledgers
  <1>9. strategy.name = "PassiveMaker"
           => OneOrder(pending, resting', funded.position, strategy)
    BY <1>1, <1>5, <1>6, <1>7
  <1>10. strategy'.name = "PassiveMaker"
            => OneOrder(pending', resting', funded.position, strategy')
    BY <1>1, <1>3, <1>8, <1>9, MakerTurn
  <1>11. QED
    BY <1>2, <1>8, <1>10 DEF MakerInv

LEMMA MakerCandle ==
    ASSUME MakerInv, NEW tick \in Ticks, OnCandle(tick)
    PROVE  MakerInv'
  <1> DEFINE funded == Funded(ledger)
  <1>1. /\ Receive("Candle", tick) /\ book' = book /\ resting' = resting /\ FundingAdvances
        /\ ledger' = Marked(funded) /\ Decide(ledger.position, pending)
    BY Zenon DEF OnCandle
  <1>2. EngineInv /\ EngineInv'
    BY CandleStep DEF MakerInv
  <1>3. /\ book' \in Books /\ now' \in Nat
        /\ resting \in Seq(InLine) /\ pending \in Seq(InFlight) /\ ledger \in Ledgers
        /\ next_funding \in Nat /\ strategy \in Strategies /\ submitted \in Counts
        /\ ledger.position \in Int
    BY <1>2, EngineInvParts DEF EngineInv, TypeOK
  <1>4. funded \in Ledgers /\ funded.position = ledger.position
    BY <1>3, FundedType
  <1> HIDE DEF funded
  <1>5. ledger'.position = ledger.position
    BY <1>1, <1>3, <1>4, MarkedType
  <1>6. strategy.name = "PassiveMaker"
           => OneOrder(pending, resting, ledger.position, strategy)
    BY DEF MakerInv
  <1>7. strategy'.name = "PassiveMaker"
           => OneOrder(pending', resting, ledger.position, strategy')
    BY <1>1, <1>3, <1>6, MakerTurn
  <1>8. QED
    BY <1>1, <1>2, <1>5, <1>7 DEF MakerInv

(* What the maker's one order means for its orders and its position.       *)
LEMMA MakerWithinOne ==
    ASSUME MakerInv
    PROVE  OneWorkingOrder
  <1> SUFFICES ASSUME strategy.name = "PassiveMaker"
               PROVE  /\ Len(pending) + Len(resting) <= 1
                      /\ ledger.position \in 0..order_qty
    BY DEF OneWorkingOrder
  <1> DEFINE position == ledger.position
  <1>1. OneOrder(pending, resting, position, strategy)
    BY DEF MakerInv
  <1> HIDE DEF position
  <1>2. order_qty \in Nat
    BY EngineAssumption
  <1>3. \A x : Len(<<x>>) = 1
    BY Singletons
  <1>4. CASE Idle(pending, resting, position)
    BY <1>2, <1>4, Singletons DEF Idle, position
  <1>5. CASE Flying(pending, resting, position, strategy)
    <2>1. PICK o \in InFlight : pending = <<o>> /\ Reflects(position, o.side, 0)
      BY <1>5 DEF Flying
    <2>2. resting = <<>>
      BY <1>5 DEF Flying
    <2>3. Len(pending) = 1 /\ Len(resting) = 0
      BY <1>3, <2>1, <2>2, Singletons
    <2>4. position = 0 \/ position = order_qty
      BY <1>2, <2>1 DEF Reflects
    <2>5. QED
      BY <1>2, <2>3, <2>4 DEF position
  <1>6. CASE Queued(pending, resting, position, strategy)
    <2>1. PICK r \in InLine : /\ resting = <<r>> /\ r.qty = order_qty
                              /\ Reflects(position, r.side, r.filled)
      BY <1>6 DEF Queued
    <2>2. pending = <<>>
      BY <1>6 DEF Queued
    <2>3. Len(resting) = 1 /\ Len(pending) = 0
      BY <1>3, <2>1, <2>2, Singletons
    <2> DEFINE filled == r.filled
    <2>4. filled \in Nat /\ filled < order_qty
      BY <2>1 DEF InLine, Resting
    <2>5. position = filled \/ position = order_qty - filled
      BY <2>1 DEF Reflects
    <2> HIDE DEF filled
    <2>6. position \in 0..order_qty
      BY <1>2, <2>4, <2>5
    <2>7. QED
      BY <2>3, <2>6 DEF position
  <1>7. QED
    BY <1>1, <1>4, <1>5, <1>6 DEF OneOrder

(* The maker never has a second order working and never holds more than    *)
(* one order's quantity or goes short, whatever fills partially, at any    *)
(* latency (strategy.rs:166-171).                                          *)
THEOREM MakerHasOneOrder == Spec => []OneWorkingOrder
  <1>1. Init => MakerInv
    <2> SUFFICES ASSUME Init
                 PROVE  MakerInv
      OBVIOUS
    <2>1. pending = <<>> /\ resting = <<>> /\ ledger.position = 0
      BY DEF Init
    <2>2. OneOrder(pending, resting, ledger.position, strategy)
      BY <2>1 DEF OneOrder, Idle
    <2>3. QED
      BY <2>2, InitialEngine DEF MakerInv
  <1>2. MakerInv /\ [Next]_vars => MakerInv'
    <2> SUFFICES ASSUME MakerInv, [Next]_vars
                 PROVE  MakerInv'
      OBVIOUS
    <2>1. CASE UNCHANGED vars
      <3>1. EngineInv'
        BY EngineStep DEF MakerInv
      <3>2. QED
        BY <2>1, <3>1 DEF MakerInv, vars
    <2>2. QED
      BY <2>1, MakerSnapshot, MakerTraded, MakerCandle DEF Next
  <1>3. MakerInv => OneWorkingOrder
    BY MakerWithinOne
  <1>4. QED
    BY <1>1, <1>2, <1>3, PTL DEF Spec
=============================================================================
