---------------------------- MODULE ResearchData ----------------------------
(***************************************************************************)
(* The data the research scripts share: the daily candle file and the      *)
(* sealed holdout (python/quantis/data).  A bar is the day it opens and    *)
(* the revision of its prices: what a script computes from it matters only *)
(* through which bars it has seen.  Python's slices count from 0.          *)
(***************************************************************************)
EXTENDS RegimeRows, SequencesExt

CONSTANTS SealedDays,             \* bars in the file when the holdout was sealed
          HoldoutNum, HoldoutDen, \* the sealed fraction
          MaxDays,                \* bound: days the file may ever reach
          Restated                \* bound: the places where a bar may be restated

\* The fraction is in (0, 1) and leaves both parts with data.
ASSUME SealAssumption ==
    /\ SealedDays \in Nat /\ MaxDays \in Nat
    /\ Restated \subseteq 1..SealedDays
    /\ HoldoutDen \in Nat \ {0} /\ HoldoutNum \in 1..(HoldoutDen - 1)
    /\ (SealedDays * (HoldoutDen - HoldoutNum)) \div HoldoutDen \in 1..(SealedDays - 1)

VARIABLE candles    \* the rows of the candle CSV, in file order

Bar(day) == [day |-> day, rev |-> 0]

\* The elements close[from:to] and close[from:].
Slice(bars, from, to) == SubSeq(bars, from + 1, to)
SliceFrom(bars, from) == Slice(bars, from, Len(bars))
BarsOf(bars) == {bars[k] : k \in DOMAIN bars}
-----------------------------------------------------------------------------
\* The order a stable sort by day gives to the rows i and j of the file.
Earlier(i, j) ==
    \/ candles[i].day < candles[j].day
    \/ candles[i].day = candles[j].day /\ i < j

load_candles ==
    [k \in DOMAIN candles |->
        candles[CHOOSE i \in DOMAIN candles :
                   Cardinality({j \in DOMAIN candles : j = i \/ Earlier(j, i)}) = k]]

\* Only SHA-256 of the holdout is kept; distinct bars are taken to hash apart.
HashValues(bars) == bars

build_manifest(bars) ==
    LET n == Len(bars)
        boundary == (n * (HoldoutDen - HoldoutNum)) \div HoldoutDen
    IN  [n_total |-> n, boundary_index |-> boundary, n_holdout |-> n - boundary,
         holdout_sha256 |-> HashValues(SliceFrom(bars, boundary))]

SealedFile == [d \in 1..SealedDays |-> Bar(d)]
Manifest == build_manifest(SealedFile)
Boundary == Manifest.boundary_index
SealedBars == BarsOf(SliceFrom(SealedFile, Boundary))

\* load_research raises unless the length is the sealed one.
ResearchLoads(bars) == Len(bars) = Manifest.n_total
load_research(bars) == Slice(bars, 0, Boundary)

(* MUTANT of HoldoutReveals: the length alone is compared. *)
HoldoutReveals_any_content(bars) == Len(bars) = Manifest.n_total

\* reveal_holdout also compares the hash with the manifest.
HoldoutReveals(bars) ==
    /\ Len(bars) = Manifest.n_total
    /\ HashValues(SliceFrom(bars, Boundary)) = Manifest.holdout_sha256
reveal_holdout(bars) == SliceFrom(bars, Boundary)
-----------------------------------------------------------------------------
DataInit == candles = SealedFile

LastDay == LET days == {bar.day : bar \in BarsOf(candles)}
           IN  CHOOSE d \in days : \A e \in days : e <= d

\* What happens to the file between two scripts.  New days arrive, one or, when
\* a refresh was missed, two at a time; a download lists them latest first.
Refresh(k) ==
    /\ LastDay + k <= MaxDays
    /\ candles' = candles \o [i \in 1..k |-> Bar(LastDay + k + 1 - i)]

\* A download of the latest bars replaces the file: the oldest day goes and the
\* length stays.
RollWindow ==
    /\ LastDay < MaxDays
    /\ candles[1].day = 1
    /\ candles' = Append(Tail(candles), Bar(LastDay + 1))

\* One bar of the file is restated by its source.
Restate(k) ==
    /\ \A i \in DOMAIN candles : candles[i].rev = 0
    /\ candles' = [candles EXCEPT ![k].rev = 1]

DataNext ==
    \/ \E k \in 1..2 : Refresh(k)
    \/ RollWindow
    \/ \E k \in Restated : Restate(k)
=============================================================================
