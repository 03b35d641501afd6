---------------------------- MODULE PaperGateway ----------------------------
(***************************************************************************)
(* crates/execution/src/paper.rs: the paper venue.  It composes an order   *)
(* book, the fill engine's market-order walk, the risk gate and the order  *)
(* manager behind on_event, submit, cancel and poll_reports.               *)
(*                                                                         *)
(* submit runs to completion in one call.  Its loop over the ladder is one *)
(* step per level here, so that the invariants also hold between fills;    *)
(* while a walk is under way no other action is enabled, as no other call  *)
(* is possible on the exclusively borrowed gateway.                        *)
(***************************************************************************)
EXTENDS OrderManager, Ladder, RiskGate, FiniteSetsExt, SequencesExt

CONSTANTS initial_cash,    \* starting cash
          taker_fee_ppm,   \* the taker fee
          Snapshots,       \* the L2 snapshots the feed may deliver
          Quantities       \* the quantities of submitted orders

ASSUME GatewayAssumption ==
    /\ initial_cash \in Nat \ {0}
    /\ taker_fee_ppm \in Nat /\ taker_fee_ppm <= PPM \div 10
    /\ Quantities \subseteq Nat \ {0}
ASSUME FillIdAssumption == FillIds = Nat   \* a counter numbers the fills
ASSUME SnapshotAssumption ==
    Snapshots \subseteq [bids : Seq(RawLevels), asks : Seq(RawLevels)]

VARIABLES mgr,              \* the order manager
          book,             \* the order book
          gate,             \* the risk gate
          pending_reports,  \* reports not yet polled
          next_fill_id,     \* the venue's fill id counter
          walk,             \* the market order being filled, or NoWalk
          polled_position,  \* history: the position in the reports handed out
          killed_at         \* history: the position when the switch tripped

vars == <<mgr, book, gate, pending_reports, next_fill_id, walk,
          polled_position, killed_at>>

Requests == [cloid : Cloids, side : Side, qty : Quantities, kind : {"Market", "Limit"}]

\* No market order is being walked.
NoWalk == [active |-> FALSE]
Walks == [active : {TRUE}, request : Requests, remaining : Nat, level : Nat \ {0}]

Idle == ~walk.active

Init ==
    /\ mgr = NewManager
    /\ book = EmptyBook
    /\ gate = NewGate(initial_cash)
    /\ pending_reports = <<>>
    /\ next_fill_id = 0
    /\ walk = NoWalk
    /\ polled_position = 0
    /\ killed_at = 0

(* Mark-to-mid equity: the open position counts only while both sides of   *)
(* the book are there.                                                     *)
unrealized(m, b) ==
    IF ~has_mid(b) \/ m.position = 0 THEN 0
    ELSE notional(IF m.position > 0 THEN mid(b) - m.avg_entry ELSE m.avg_entry - mid(b),
                  Abs(m.position))

equity(m, b) == initial_cash + m.realized_pnl + unrealized(m, b)

(* MUTANT of OnSnapshot: the gate is marked before the book is updated. *)
OnSnapshot_marks_first(snap) ==
    /\ Idle
    /\ book' = apply_snapshot(snap)
    /\ gate' = on_equity(gate, equity(mgr, book))
    /\ killed_at' = IF gate'.kill_switched /\ ~gate.kill_switched
                    THEN mgr.position ELSE killed_at
    /\ UNCHANGED <<mgr, pending_reports, next_fill_id, walk, polled_position>>

\* on_event for a snapshot; the other events leave this state alone.
OnSnapshot(snap) ==
    /\ Idle
    /\ book' = apply_snapshot(snap)
    /\ gate' = on_equity(gate, equity(mgr, book'))
    /\ killed_at' = IF gate'.kill_switched /\ ~gate.kill_switched
                    THEN mgr.position ELSE killed_at
    /\ UNCHANGED <<mgr, pending_reports, next_fill_id, walk, polled_position>>

\* emit: a report is applied to the manager and queued for the caller.
Emit(m, report) ==
    /\ mgr' = apply(m, report)
    /\ pending_reports' = Append(pending_reports, report)

Rejection(cloid) == [type |-> "Rejected", cloid |-> cloid]
Acknowledgement(cloid) == [type |-> "Ack", cloid |-> cloid]
Cancellation(cloid) == [type |-> "Cancelled", cloid |-> cloid]

passes_gate(request) ==
    /\ has_mid(book)
    /\ check_order(gate, mgr.position, request.side, request.qty, mid(book))

DuplicateSubmit(request) ==
    /\ Idle
    /\ is_tracked(mgr, request.cloid)
    /\ UNCHANGED vars

SubmitRejected(request) ==
    /\ Idle
    /\ ~is_tracked(mgr, request.cloid)
    /\ ~passes_gate(request)
    /\ Emit(register(mgr, request), Rejection(request.cloid))
    /\ UNCHANGED <<book, gate, next_fill_id, walk, polled_position, killed_at>>

\* An accepted market order goes on to walk the book; a limit order rests.
SubmitAccepted(request) ==
    /\ Idle
    /\ ~is_tracked(mgr, request.cloid)
    /\ passes_gate(request)
    /\ Emit(register(mgr, request), Acknowledgement(request.cloid))
    /\ walk' = IF request.kind = "Market"
               THEN [active |-> TRUE, request |-> request,
                     remaining |-> request.qty, level |-> 1]
               ELSE NoWalk
    /\ UNCHANGED <<book, gate, next_fill_id, polled_position, killed_at>>

Submit(request) ==
    DuplicateSubmit(request) \/ SubmitRejected(request) \/ SubmitAccepted(request)

(* MUTANT of FillAt: each level is walked for the whole order. *)
FillAt_ignores_remaining(level) ==
    LET take == Lesser(level.qty, walk.request.qty)
    IN  [type |-> "Fill", cloid |-> walk.request.cloid, fill_id |-> next_fill_id,
         qty |-> take, px |-> level.px,
         fee |-> fee_ppm(notional(level.px, take), taker_fee_ppm)]

(* MUTANT of FillAt: fills are numbered per level, not per gateway. *)
FillAt_reuses_id(level) ==
    LET take == Lesser(level.qty, walk.remaining)
    IN  [type |-> "Fill", cloid |-> walk.request.cloid, fill_id |-> 0,
         qty |-> take, px |-> level.px,
         fee |-> fee_ppm(notional(level.px, take), taker_fee_ppm)]

\* The fill of the walked order at one level.
FillAt(level) ==
    LET take == Lesser(level.qty, walk.remaining)
    IN  [type |-> "Fill", cloid |-> walk.request.cloid, fill_id |-> next_fill_id,
         qty |-> take, px |-> level.px,
         fee |-> fee_ppm(notional(level.px, take), taker_fee_ppm)]

WalkedLadder == Opposite(book, walk.request.side)

\* One iteration of FillEngine::market's loop and the report it leads to.
FillLevel ==
    /\ walk.active
    /\ walk.remaining > 0
    /\ walk.level <= Len(WalkedLadder)
    /\ LET fill == FillAt(WalkedLadder[walk.level])
       IN  /\ Emit(mgr, fill)
           /\ walk' = [walk EXCEPT !.remaining = @ - fill.qty, !.level = @ + 1]
    /\ next_fill_id' = next_fill_id + 1
    /\ UNCHANGED <<book, gate, polled_position, killed_at>>

\* Nothing remains, or the visible depth is exhausted: submit returns.
EndWalk ==
    /\ walk.active
    /\ walk.remaining <= 0 \/ walk.level > Len(WalkedLadder)
    /\ walk' = NoWalk
    /\ UNCHANGED <<mgr, book, gate, pending_reports, next_fill_id,
                   polled_position, killed_at>>

Cancel(cloid) ==
    /\ Idle
    /\ is_tracked(mgr, cloid)
    /\ ~is_terminal(mgr.orders[cloid].status)
    /\ Emit(mgr, Cancellation(cloid))
    /\ UNCHANGED <<book, gate, next_fill_id, walk, polled_position, killed_at>>

\* A terminal or unknown order: Ok or an error, and no change.
CancelIgnored(cloid) ==
    /\ Idle
    /\ is_tracked(mgr, cloid) => is_terminal(mgr.orders[cloid].status)
    /\ UNCHANGED vars

\* The signed quantity a report tells its reader about.
Reported(report) == IF report.type = "Fill" THEN SignedQty(mgr, report) ELSE 0
ReportedBy(reports) == SumFunction([i \in DOMAIN reports |-> Reported(reports[i])])

PollReports ==
    /\ Idle
    /\ pending_reports # <<>>
    /\ pending_reports' = <<>>
    /\ polled_position' = polled_position + ReportedBy(pending_reports)
    /\ UNCHANGED <<mgr, book, gate, next_fill_id, walk, killed_at>>

Next ==
    \/ \E snap \in Snapshots : OnSnapshot(snap)
    \/ \E request \in Requests : Submit(request)
    \/ FillLevel
    \/ EndWalk
    \/ \E cloid \in Cloids : Cancel(cloid) \/ CancelIgnored(cloid)
    \/ PollReports

Spec == Init /\ [][Next]_vars
-----------------------------------------------------------------------------
\* Of polled_position ReportsMatchPosition says more than a type.
TypeOK ==
    /\ ManagerOK(mgr)
    /\ book \in Books
    /\ gate \in Gates
    /\ pending_reports \in Seq(ExecReports)
    /\ next_fill_id \in Nat
    /\ walk \in {NoWalk} \cup Walks
    /\ killed_at \in Int

(* The position never passes the cap, whatever mixture of increasing,      *)
(* reducing and reversing orders the gate lets through and however far     *)
(* each of them fills (gate.rs:3-8: "hard bounds that must hold").         *)
PositionCap == Abs(mgr.position) <= max_position_qty

(* Once the kill switch has tripped the exposure never exceeds what it was *)
(* at that moment (gate.rs:122-125, runbook.md:56-58).                     *)
KilledExposureBounded == gate.kill_switched => Abs(mgr.position) <= Abs(killed_at)

(* While an order is walked, what its order manager entry has filled and   *)
(* what remains to be filled make up the order: each fill that takes from  *)
(* the remainder is also booked, none is dropped as a duplicate or as late *)
(* (paper.rs:149-159 hands every fill to the manager under a fresh id).    *)
WalkFillsBooked ==
    walk.active =>
        LET o == mgr.orders[walk.request.cloid]
        IN  o.request = walk.request /\ o.filled_qty + walk.remaining = walk.request.qty

(* What these rest on: an order under way is open and was admitted for the *)
(* position it leads to, each fill only moves part of that way, and fill   *)
(* ids still to be used are fresh.                                         *)
WalkTarget ==
    mgr.position + (IF walk.active THEN sign(walk.request.side) * walk.remaining ELSE 0)
ExposureInv ==
    /\ Abs(mgr.position) <= max_position_qty
    /\ Abs(WalkTarget) <= max_position_qty
    /\ gate.kill_switched => /\ Abs(mgr.position) <= Abs(killed_at)
                             /\ Abs(WalkTarget) <= Abs(killed_at)
WalkInv ==
    /\ WalkFillsBooked
    /\ walk.active =>
          /\ is_tracked(mgr, walk.request.cloid)
          /\ walk.remaining > 0 => ~is_terminal(mgr.orders[walk.request.cloid].status)
    /\ \A c \in DOMAIN mgr.orders : \A id \in mgr.orders[c].seen_fills : id < next_fill_id
GatewayInv == TypeOK /\ ExposureInv /\ WalkInv

(* A reader who adds up the fills it polled, and those waiting for it, has *)
(* the gateway's position: no fill is reported that was not booked, and    *)
(* none is booked under a fill id the manager drops (emit, next_fill_id).  *)
ReportsMatchPosition == polled_position + ReportedBy(pending_reports) = mgr.position

(* When a market order has been walked, exactly the visible depth it could *)
(* reach is filled, and the order is Filled if that was all of it          *)
(* (fill.rs:7-8: depth it cannot absorb is reported, never invented).      *)
Depth(ladder) == SumFunction([i \in DOMAIN ladder |-> ladder[i].qty])
FillsAreVisibleDepth ==
    [][(walk.active /\ ~walk'.active) =>
          LET o == mgr'.orders[walk.request.cloid]
          IN  /\ o.filled_qty = Lesser(walk.request.qty, Depth(WalkedLadder))
              /\ (o.status = "Filled") <=> (o.filled_qty = walk.request.qty)]_vars

(* What the gate's documentation says of orders that pass a tripped kill   *)
(* switch (gate.rs:122-125): they shrink the position "without flipping    *)
(* past flat".  check_order compares absolute values only, so an order     *)
(* that reverses a position passes, and the code does not satisfy this.    *)
KilledNeverReverses ==
    gate.kill_switched => mgr.position = 0 \/ Signum(mgr.position) = Signum(killed_at)
=============================================================================
