----------------------------- MODULE OrderBook ------------------------------
(***************************************************************************)
(* crates/market-data/src/book.rs: OrderBook under snapshots and level     *)
(* updates, with its integrity counters, next to BTreeBook, the price map  *)
(* it is tested and benchmarked against.  Both get the same events.        *)
(***************************************************************************)
EXTENDS Ladder

CONSTANTS Snapshots,   \* the ladders a snapshot may bring
          Times,       \* exchange timestamps of snapshots
          Updates,     \* the [side, px, qty] of level updates
          MaxEvents    \* events applied (bound)

ASSUME BookAssumption ==
    /\ Snapshots \subseteq [bids : Seq(RawLevels), asks : Seq(RawLevels)]
    /\ Times \subseteq Nat
    /\ Updates \subseteq [side : Side, px : Nat, qty : Int]
    /\ MaxEvents \in Nat

VARIABLES book,          \* OrderBook's ladders
          last_exch_ts,  \* timestamp of the last snapshot
          stats,         \* BookStats
          btree,         \* BTreeBook: price to size, on each side
          repeated       \* history: the last snapshot had a price twice

vars == <<book, last_exch_ts, stats, btree, repeated>>

NoLevels == [p \in {} |-> 0]

Init ==
    /\ book = EmptyBook
    /\ last_exch_ts = 0
    /\ stats = [snapshots |-> 0, level_updates |-> 0, crossed |-> 0,
                bad_qty_levels |-> 0, unsorted |-> 0, ts_regressions |-> 0]
    /\ btree = [bids |-> NoLevels, asks |-> NoLevels]
    /\ repeated = FALSE

Count(condition) == IF condition THEN 1 ELSE 0
-----------------------------------------------------------------------------
(* Snapshots.                                                              *)

\* is_sorted_by with a strict order, over the kept levels as they arrived.
is_sorted(side, raw) ==
    \A i, j \in Kept(raw) : i < j => better(side, raw[i].px, raw[j].px)

dropped(raw) == Len(raw) - Cardinality(Kept(raw))

(* MUTANT of crossed: a locked touch passes. *)
crossed_only_beyond(b) == has_mid(b) /\ b.bids[1].px > b.asks[1].px

crossed(b) == has_mid(b) /\ b.bids[1].px >= b.asks[1].px

\* BTreeBook::apply_snapshot: of levels at one price the last one stays.
PriceMap(raw) ==
    [p \in {raw[i].px : i \in Kept(raw)} |->
        raw[CHOOSE i \in Kept(raw) :
               raw[i].px = p /\ \A j \in Kept(raw) : raw[j].px = p => j <= i].qty]

RepeatsPrice(raw) == \E i, j \in Kept(raw) : i # j /\ raw[i].px = raw[j].px

Counted(snap, ts) ==
    [stats EXCEPT
        !.snapshots      = @ + 1,
        !.ts_regressions = @ + Count(ts < last_exch_ts),
        !.bad_qty_levels = @ + dropped(snap.bids) + dropped(snap.asks),
        !.unsorted       = @ + Count(~is_sorted("Buy", snap.bids))
                             + Count(~is_sorted("Sell", snap.asks)),
        !.crossed        = @ + Count(crossed(book'))]

OnSnapshot(snap, ts) ==
    /\ stats.snapshots + stats.level_updates < MaxEvents
    /\ book' = apply_snapshot(snap)
    /\ last_exch_ts' = ts
    /\ stats' = Counted(snap, ts)
    /\ btree' = [bids |-> PriceMap(snap.bids), asks |-> PriceMap(snap.asks)]
    /\ repeated' = (RepeatsPrice(snap.bids) \/ RepeatsPrice(snap.asks))
-----------------------------------------------------------------------------
(* Level updates.                                                          *)

PlacesOf(ladder, px) == {k \in 1..Len(ladder) : ladder[k].px = px}

Removed(ladder, k) ==
    [i \in 1..(Len(ladder) - 1) |-> IF i < k THEN ladder[i] ELSE ladder[i + 1]]
Inserted(ladder, k, level) ==
    [i \in 1..(Len(ladder) + 1) |->
        IF i < k THEN ladder[i] ELSE IF i = k THEN level ELSE ladder[i - 1]]

(* MUTANT of InsertionPlace: both sides are searched in the asks' order. *)
InsertionPlace_unsided(side, ladder, px) ==
    1 + Cardinality({k \in 1..Len(ladder) : ladder[k].px < px})

\* Where the binary search leaves a price that the ladder does not hold.
InsertionPlace(side, ladder, px) ==
    1 + Cardinality({k \in 1..Len(ladder) : better(side, ladder[k].px, px)})

(* MUTANT of AfterUpdate: an update without size replaces the level. *)
AfterUpdate_keeps_empty(side, ladder, px, qty) ==
    IF PlacesOf(ladder, px) # {}
    THEN {[ladder EXCEPT ![k].qty = qty] : k \in PlacesOf(ladder, px)}
    ELSE IF qty > 0 THEN {Inserted(ladder, InsertionPlace(side, ladder, px),
                                   [px |-> px, qty |-> qty])}
    ELSE {ladder}

\* The ladders an update may lead to: of several levels at its price the
\* binary search may find any.
AfterUpdate(side, ladder, px, qty) ==
    IF PlacesOf(ladder, px) # {}
    THEN {IF qty <= 0 THEN Removed(ladder, k) ELSE [ladder EXCEPT ![k].qty = qty]
             : k \in PlacesOf(ladder, px)}
    ELSE IF qty > 0 THEN {Inserted(ladder, InsertionPlace(side, ladder, px),
                                   [px |-> px, qty |-> qty])}
    ELSE {ladder}

\* BTreeBook::apply_level.
MapAfterUpdate(levels, px, qty) ==
    [p \in IF qty <= 0 THEN DOMAIN levels \ {px} ELSE DOMAIN levels \cup {px} |->
        IF p = px THEN qty ELSE levels[p]]

OnLevel(side, px, qty) ==
    /\ stats.snapshots + stats.level_updates < MaxEvents
    /\ IF side = "Buy"
       THEN /\ book' \in {[book EXCEPT !.bids = l] : l \in AfterUpdate(side, book.bids, px, qty)}
            /\ btree' = [btree EXCEPT !.bids = MapAfterUpdate(@, px, qty)]
       ELSE /\ book' \in {[book EXCEPT !.asks = l] : l \in AfterUpdate(side, book.asks, px, qty)}
            /\ btree' = [btree EXCEPT !.asks = MapAfterUpdate(@, px, qty)]
    /\ stats' = [stats EXCEPT !.level_updates = @ + 1]
    /\ UNCHANGED <<last_exch_ts, repeated>>

Next ==
    \/ \E snap \in Snapshots, ts \in Times : OnSnapshot(snap, ts)
    \/ \E u \in Updates : OnLevel(u.side, u.px, u.qty)

Spec == Init /\ [][Next]_vars
-----------------------------------------------------------------------------
TypeOK ==
    /\ book \in Books
    /\ last_exch_ts \in Nat
    /\ stats \in [snapshots : Nat, level_updates : Nat, crossed : Nat, bad_qty_levels : Nat,
                 unsorted : Nat, ts_regressions : Nat]
    /\ \A side \in {"bids", "asks"} : \A p \in DOMAIN btree[side] : btree[side][p] > 0
    /\ repeated \in BOOLEAN

(* Both ladders stay best first under any mixture of snapshots, which may  *)
(* arrive unsorted, and level updates, whose binary search relies on it    *)
(* (book.rs:17-20: "bids sorted descending, asks ascending").              *)
LaddersSorted == TypeOK /\ Sorted("Buy", book.bids) /\ Sorted("Sell", book.asks)

(* The vector book and the price map hold the same levels, and so the same *)
(* touch, as long as no price occurs twice in a snapshot                   *)
(* (vec_and_btree_books_agree_under_random_updates, for level updates).    *)
AsMap(ladder) ==
    [p \in {ladder[k].px : k \in 1..Len(ladder)} |->
        ladder[CHOOSE k \in PlacesOf(ladder, p) : TRUE].qty]
BooksAgree ==
    ~repeated => /\ btree = [bids |-> AsMap(book.bids), asks |-> AsMap(book.asks)]
                 /\ \A p \in DOMAIN btree.bids : Cardinality(PlacesOf(book.bids, p)) = 1
                 /\ \A p \in DOMAIN btree.asks : Cardinality(PlacesOf(book.asks, p)) = 1

(* No repair is silent: whenever the stored ladders are not the ones that  *)
(* arrived, the counter of dropped levels or that of re-sorted ladders has *)
(* gone up; every dropped level is counted; and the snapshot is counted as *)
(* crossed exactly when it sizes some bid at or above some ask, wherever   *)
(* in its ladders they stood (book.rs:17-20: violations "are repaired and  *)
(* counted, never silently absorbed"; 71-75).                              *)
Meet(snap) ==
    \E i \in DOMAIN snap.bids, j \in DOMAIN snap.asks :
        /\ snap.bids[i].qty > 0 /\ snap.asks[j].qty > 0
        /\ snap.bids[i].px >= snap.asks[j].px
RepairsAreCounted ==
    [][\A snap \in Snapshots, ts \in Times : OnSnapshot(snap, ts) =>
          /\ book' # [bids |-> snap.bids, asks |-> snap.asks] =>
                stats'.bad_qty_levels + stats'.unsorted
                   > stats.bad_qty_levels + stats.unsorted
          /\ stats'.bad_qty_levels - stats.bad_qty_levels
                = Len(snap.bids) + Len(snap.asks) - Len(book'.bids) - Len(book'.asks)
          /\ stats'.crossed - stats.crossed = IF Meet(snap) THEN 1 ELSE 0]_vars
=============================================================================
