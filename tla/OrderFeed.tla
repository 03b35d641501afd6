----------------------------- MODULE OrderFeed ------------------------------
(***************************************************************************)
(* The order manager at the end of an unreliable report feed: the setting  *)
(* of crates/execution/tests/chaos.rs.  A venue acknowledges, fills and    *)
(* closes orders; each report it sends may arrive late, in any order and   *)
(* any number of times, or not at all; the engine may submit an order      *)
(* again after a reconnect.  The venue is outside the repository: it is    *)
(* modelled from what its reports must satisfy for the manager to make     *)
(* sense of them (unique fill ids, no fill beyond the order's quantity).   *)
(***************************************************************************)
EXTENDS OrderManager, FiniteSets, Functions

CONSTANTS MaxQty,    \* the largest order quantity (bound)
          Prices,    \* fill prices
          Fees       \* fees charged on a fill

ASSUME FeedAssumption ==
    /\ IsFiniteSet(Cloids)
    /\ MaxQty \in Nat \ {0}
    /\ FillIds \subseteq Nat
    /\ Prices \subseteq Nat
    /\ Fees \subseteq Nat

VARIABLES mgr,          \* the engine's order manager
          venue,        \* per order: is it working at the venue, how much is filled
          next_fill_id, \* the venue's next fill id
          sent,         \* every report the venue has sent
          delivered     \* those that arrived at least once

vars == <<mgr, venue, next_fill_id, sent, delivered>>

Requests == [cloid : Cloids, side : Side, qty : 1..MaxQty, kind : {"Market"}]

Init ==
    /\ mgr = NewManager
    /\ venue = [c \in Cloids |-> [open |-> FALSE, filled |-> 0]]
    /\ next_fill_id = 1
    /\ sent = {}
    /\ delivered = {}

\* OrderGateway::submit: the order reaches the venue only if its cloid is new.
Submit(request) ==
    /\ mgr' = register(mgr, request)
    /\ IF is_tracked(mgr, request.cloid)
       THEN UNCHANGED venue
       ELSE venue' = [venue EXCEPT ![request.cloid].open = TRUE]
    /\ UNCHANGED <<next_fill_id, sent, delivered>>

Send(report) == sent' = sent \cup {report}

VenueAck(c) ==
    /\ venue[c].open
    /\ Send([type |-> "Ack", cloid |-> c])
    /\ UNCHANGED <<mgr, venue, next_fill_id, delivered>>

VenueFill(c, qty, px, fee) ==
    /\ venue[c].open
    /\ next_fill_id \in FillIds
    /\ venue[c].filled + qty <= mgr.orders[c].request.qty
    /\ Send([type |-> "Fill", cloid |-> c, fill_id |-> next_fill_id,
             qty |-> qty, px |-> px, fee |-> fee])
    /\ next_fill_id' = next_fill_id + 1
    /\ venue' = [venue EXCEPT ![c] =
            [open   |-> @.filled + qty < mgr.orders[c].request.qty,
             filled |-> @.filled + qty]]
    /\ UNCHANGED <<mgr, delivered>>

\* The venue cancels what is left of an order, or rejects an unfilled one.
VenueClose(c, type) ==
    /\ venue[c].open
    /\ type = "Rejected" => venue[c].filled = 0
    /\ Send([type |-> type, cloid |-> c])
    /\ venue' = [venue EXCEPT ![c].open = FALSE]
    /\ UNCHANGED <<mgr, next_fill_id, delivered>>

Deliver(report) ==
    /\ report \in sent
    /\ mgr' = apply(mgr, report)
    /\ delivered' = delivered \cup {report}
    /\ UNCHANGED <<venue, next_fill_id, sent>>

Next ==
    \/ \E request \in Requests : Submit(request)
    \/ \E c \in Cloids : VenueAck(c)
    \/ \E c \in Cloids, qty \in 1..MaxQty, px \in Prices, fee \in Fees :
          VenueFill(c, qty, px, fee)
    \/ \E c \in Cloids, type \in {"Cancelled", "Rejected"} : VenueClose(c, type)
    \/ \E report \in sent : Deliver(report)

Spec == Init /\ [][Next]_vars

\* A lost report is redelivered once the connection is back (chaos.rs:55-68).
DeliverNew == \E report \in sent \ delivered : Deliver(report)
FairSpec == Spec /\ WF_vars(DeliverNew)
-----------------------------------------------------------------------------
(* The fills the manager has booked, as the entries of a PositionLedger.   *)

SentFills == {r \in sent : r.type = "Fill"}

Booked == {f \in SentFills : /\ is_tracked(mgr, f.cloid)
                             /\ f.fill_id \in mgr.orders[f.cloid].seen_fills}

Entry(f) == [id |-> f.fill_id, signed |-> SignedQty(mgr, f)]
BookedEntries == {Entry(f) : f \in Booked}

Ledger == INSTANCE PositionLedger WITH
    Entries  <- [id : FillIds, signed : -MaxQty..MaxQty],
    position <- mgr.position,
    booked   <- BookedEntries

VenuePosition ==
    SumFunction([c \in Cloids |-> IF is_tracked(mgr, c)
                                  THEN sign(mgr.orders[c].request.side) * venue[c].filled
                                  ELSE 0])
-----------------------------------------------------------------------------
TypeOK ==
    /\ ManagerOK(mgr)
    /\ venue \in [Cloids -> [open : BOOLEAN, filled : Nat]]
    /\ next_fill_id \in Nat
    /\ sent \subseteq ExecReports
    /\ delivered \subseteq sent

(* What makes the refinement below inductive: fill ids name at most one    *)
(* sent fill, ids still to be used are fresh on both sides of the feed,    *)
(* and the venue fills only orders the engine tracks.                      *)
FillIdsUnique ==
    /\ \A f, g \in SentFills : f.fill_id = g.fill_id => f = g
    /\ \A f \in SentFills : f.fill_id < next_fill_id
SeenIdsAreSent ==
    \A c \in DOMAIN mgr.orders : \A id \in mgr.orders[c].seen_fills : id < next_fill_id
VenueOrdersTracked ==
    /\ \A c \in Cloids : venue[c].open => is_tracked(mgr, c)
    /\ \A f \in SentFills : is_tracked(mgr, f.cloid) /\ f.qty \in 1..MaxQty
FeedInv == TypeOK /\ FillIdsUnique /\ SeenIdsAreSent /\ VenueOrdersTracked

(* Refinement: every step of the feed books at most one fill that was not  *)
(* booked before, and moves the position by exactly its signed quantity    *)
(* (manager.rs:98-129: "no sequence of duplicated or reordered reports can *)
(* produce a phantom position").                                           *)
RefinesLedger == Ledger!Spec

(* The incrementally kept accounts agree with the booked fills taken as a  *)
(* set: fees are their sum, and realized PnL plus the open position at its *)
(* average entry is the cash they moved.  Each fill may round one division *)
(* toward zero, of a closing notional (less than one unit of cash, SCALE   *)
(* units here) or of a blended entry (less than one price unit times the   *)
(* position); nothing else may drift (apply_to_position, vwap).            *)
CashFlow == SumFunction([f \in Booked |-> -SignedQty(mgr, f) * f.px])
RoundingPerFill == Greater(SCALE, MaxQty * Cardinality(Cloids)) - 1

PnLMatchesCashFlow ==
    /\ mgr.fees_paid = SumFunction([f \in Booked |-> f.fee])
    /\ Abs(SCALE * (mgr.realized_pnl + mgr.fees_paid)
             - CashFlow - mgr.position * mgr.avg_entry)
         <= RoundingPerFill * Cardinality(Booked)

\* reconcile(local, exchange, tolerance).in_sync
in_sync(local, exchange, tolerance) == Abs(exchange - local) <= Abs(tolerance)

(* Once every report has arrived, in whatever order and however often, and *)
(* no order was closed before it was filled, the position reconciles with  *)
(* the venue's (chaos.rs:70-86; manager.rs:4-8).                           *)
NoPhantomPosition ==
    (delivered = sent /\ \A r \in sent : r.type \in {"Ack", "Fill"})
        => in_sync(mgr.position, VenuePosition, 0)

(* The same without the exception for closed orders, which is what         *)
(* reconcile.rs:6-9 says: "after a disruption, the tracked position must   *)
(* still equal the truth".  A fill overtaken by its order's cancellation   *)
(* is dropped (manager.rs:107-109), so the code does not satisfy it.       *)
TrackedPositionIsTruth == delivered = sent => in_sync(mgr.position, VenuePosition, 0)

(* No report changes an order in a terminal state (OrderStatus::is_terminal *)
(* "no further transitions are possible"), and no resubmission reopens it. *)
TerminalIsFinal ==
    [][\A c \in DOMAIN mgr.orders :
          is_terminal(mgr.orders[c].status) => mgr'.orders[c] = mgr.orders[c]]_vars

(* A fill the venue sent is eventually in the position, unless its order   *)
(* was closed first: being filled exactly is no excuse, and neither is a   *)
(* lost or late acknowledgement.                                           *)
EveryFillLands ==
    \A id \in FillIds :
        (\E f \in SentFills : f.fill_id = id)
          ~> (\E f \in SentFills :
                 /\ f.fill_id = id
                 /\ \/ f \in Booked
                    \/ mgr.orders[f.cloid].status \in {"Cancelled", "Rejected"})
=============================================================================
