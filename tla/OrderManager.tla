---------------------------- MODULE OrderManager ----------------------------
(***************************************************************************)
(* crates/execution/src/manager.rs and order.rs: the order manager, as a   *)
(* record value and the two operations that change it.  register tracks a  *)
(* submitted order; apply applies one execution report, idempotently, and  *)
(* maintains the position, the average entry price and the realized PnL.   *)
(* Both return the manager unchanged where the code ignores the call.      *)
(***************************************************************************)
EXTENDS FixedPoint

CONSTANTS Cloids,    \* client order ids, the idempotency keys
          FillIds    \* the venue's fill ids

OrderStatus == {"Pending", "Acked", "PartiallyFilled",
                "Filled", "Cancelled", "Rejected"}
is_terminal(status) == status \in {"Filled", "Cancelled", "Rejected"}

OrderRequests ==
    [cloid : Cloids, side : Side, qty : Nat, kind : {"Market", "Limit"}]

Orders == [request    : OrderRequests,
           status     : OrderStatus,
           filled_qty : Nat,
           avg_px     : Nat,
           seen_fills : SUBSET FillIds]

FillReports ==
    [type : {"Fill"}, cloid : Cloids, fill_id : FillIds,
     qty : Nat, px : Nat, fee : Nat]

\* The status each of the other reports moves its order to.
StatusAfter == [Ack |-> "Acked", Cancelled |-> "Cancelled", Rejected |-> "Rejected"]
StatusReports == [type : DOMAIN StatusAfter, cloid : Cloids]

ExecReports == FillReports \cup StatusReports

NewOrder(request) ==
    [request |-> request, status |-> "Pending",
     filled_qty |-> 0, avg_px |-> 0, seen_fills |-> {}]

NewManager ==
    [orders |-> [c \in {} |-> 0], position |-> 0,
     realized_pnl |-> 0, fees_paid |-> 0, avg_entry |-> 0]

\* The type of a manager value.
ManagerOK(m) ==
    /\ m \in [orders : {m.orders}, position : Int, realized_pnl : Int,
              fees_paid : Nat, avg_entry : Nat]
    /\ DOMAIN m.orders \subseteq Cloids
    /\ m.orders \in [DOMAIN m.orders -> Orders]

is_tracked(m, cloid) == cloid \in DOMAIN m.orders

Track(m, request) ==
    [m EXCEPT !.orders =
        [c \in DOMAIN m.orders \cup {request.cloid} |->
            IF c = request.cloid THEN NewOrder(request) ELSE m.orders[c]]]

(* MUTANT of register: a resubmission replaces the tracked order. *)
register_overwrites(m, request) == Track(m, request)

register(m, request) ==
    IF is_tracked(m, request.cloid) THEN m ELSE Track(m, request)

\* Volume-weighted average of two price/size pairs with non-negative sizes.
vwap(px_a, qty_a, px_b, qty_b) ==
    IF qty_a + qty_b = 0 THEN px_b
    ELSE TruncDiv(px_a * qty_a + px_b * qty_b, qty_a + qty_b)

extends_position(old, signed) == old = 0 \/ Signum(old) = Signum(signed)

(* MUTANT of EntryAfter: a flip keeps the closed position's entry price. *)
EntryAfter_flip_keeps_entry(old, signed, entry, px) ==
    IF old + signed = 0 THEN 0
    ELSE IF extends_position(old, signed)
         THEN vwap(entry, Abs(old), px, Abs(signed))
    ELSE entry

\* The entry price after a fill: blended when the fill opens or extends the
\* position, the fill's price when it flips it, unchanged when it reduces it.
EntryAfter(old, signed, entry, px) ==
    IF old + signed = 0 THEN 0
    ELSE IF extends_position(old, signed)
         THEN vwap(entry, Abs(old), px, Abs(signed))
    ELSE IF Signum(old + signed) = Signum(signed) THEN px
    ELSE entry

\* The PnL that the closing part of a fill realizes against the entry price.
RealizedBy(old, signed, entry, px) ==
    IF extends_position(old, signed) THEN 0
    ELSE notional(IF old > 0 THEN px - entry ELSE entry - px,
                  Lesser(Abs(old), Abs(signed)))

record_fill(o, fill) ==
    [request    |-> o.request,
     status     |-> IF o.filled_qty + fill.qty >= o.request.qty
                    THEN "Filled" ELSE "PartiallyFilled",
     filled_qty |-> o.filled_qty + fill.qty,
     avg_px     |-> vwap(o.avg_px, o.filled_qty, fill.px, fill.qty),
     seen_fills |-> o.seen_fills \cup {fill.fill_id}]

SignedQty(m, fill) == sign(m.orders[fill.cloid].request.side) * fill.qty

book_fill(m, fill) ==
    [orders       |-> [m.orders EXCEPT ![fill.cloid] = record_fill(@, fill)],
     position     |-> m.position + SignedQty(m, fill),
     realized_pnl |-> m.realized_pnl - fill.fee
                        + RealizedBy(m.position, SignedQty(m, fill), m.avg_entry, fill.px),
     fees_paid    |-> m.fees_paid + fill.fee,
     avg_entry    |-> EntryAfter(m.position, SignedQty(m, fill), m.avg_entry, fill.px)]

(* MUTANT of accepts: fills are not deduplicated by fill id. *)
accepts_fill_twice(o, report) ==
    /\ ~is_terminal(o.status)
    /\ report.type = "Ack" => o.status = "Pending"

(* MUTANT of accepts: a terminal order still takes fills. *)
accepts_when_terminal(o, report) ==
    /\ report.type \in DOMAIN StatusAfter => ~is_terminal(o.status)
    /\ report.type = "Ack" => o.status = "Pending"
    /\ report.type = "Fill" => report.fill_id \notin o.seen_fills

(* MUTANT of accepts: only an acknowledged order takes a fill, so that one *)
(* overtaking its acknowledgement is lost.                                 *)
accepts_acked_only(o, report) ==
    /\ ~is_terminal(o.status)
    /\ report.type = "Ack" => o.status = "Pending"
    /\ report.type = "Fill" => /\ report.fill_id \notin o.seen_fills
                               /\ o.status # "Pending"

\* Whether a report is Updated rather than Duplicate for a tracked order.
accepts(o, report) ==
    /\ ~is_terminal(o.status)
    /\ report.type = "Ack" => o.status = "Pending"
    /\ report.type = "Fill" => report.fill_id \notin o.seen_fills

apply(m, report) ==
    IF ~is_tracked(m, report.cloid) THEN m
    ELSE IF ~accepts(m.orders[report.cloid], report) THEN m
    ELSE IF report.type = "Fill" THEN book_fill(m, report)
    ELSE [m EXCEPT !.orders[report.cloid].status = StatusAfter[report.type]]
=============================================================================
