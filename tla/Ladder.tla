------------------------------- MODULE Ladder -------------------------------
(***************************************************************************)
(* The ladders of crates/market-data/src/book.rs: how OrderBook stores the *)
(* levels of an L2 snapshot and what it answers about them.  A level keeps *)
(* its price and size; its order count is only passed through.             *)
(***************************************************************************)
EXTENDS FixedPoint, Sequences, FiniteSets

RawLevels == [px : Nat, qty : Int]          \* as they arrive
Levels == [px : Nat, qty : Nat \ {0}]       \* as the book stores them

\* Whether price p is better than price q on this side: bids descend, asks ascend.
better(side, p, q) == IF side = "Buy" THEN p > q ELSE p < q

Sorted(side, ladder) ==
    \A i, j \in 1..Len(ladder) : i < j => ~better(side, ladder[j].px, ladder[i].px)

\* The order a stable sort by price gives to positions i and j of a snapshot.
Before(side, raw, i, j) ==
    \/ better(side, raw[i].px, raw[j].px)
    \/ raw[i].px = raw[j].px /\ i < j

(* MUTANT of Kept: levels without a size are stored too. *)
Kept_all(raw) == 1..Len(raw)

Kept(raw) == {i \in 1..Len(raw) : raw[i].qty > 0}

\* The place of the kept level i once the kept levels are sorted.
Rank(side, raw, i) ==
    Cardinality({j \in Kept(raw) : j = i \/ Before(side, raw, j, i)})

\* copy_levels and the re-sort: levels without size are dropped, the others
\* are sorted best first, keeping the arrival order of equal prices.
StoredLadder(side, raw) ==
    [k \in 1..Cardinality(Kept(raw)) |->
        raw[CHOOSE i \in Kept(raw) : Rank(side, raw, i) = k]]

EmptyBook == [bids |-> <<>>, asks |-> <<>>]
Books == [bids : Seq(Levels), asks : Seq(Levels)]

apply_snapshot(snap) ==
    [bids |-> StoredLadder("Buy", snap.bids), asks |-> StoredLadder("Sell", snap.asks)]

\* mid() is Some only when both sides have a level.
has_mid(book) == book.bids # <<>> /\ book.asks # <<>>
mid(book) == midpoint(book.bids[1].px, book.asks[1].px)

\* The ladder a market order on this side walks.
Opposite(book, side) == IF side = "Buy" THEN book.asks ELSE book.bids
=============================================================================
