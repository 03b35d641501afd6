----------------------------- MODULE TradeLoop ------------------------------
(***************************************************************************)
(* crates/cli/src/trade.rs: the paper trading loop.  For each event it     *)
(* feeds the gateway, asks the strategy, submits what the strategy asks    *)
(* for, polls the reports into the metrics and sets the gauges.  The four  *)
(* phases run in this order in one closure; only snapshots are modelled,   *)
(* since the strategy ignores every other event and the gateway only notes *)
(* its time.                                                               *)
(***************************************************************************)
EXTENDS PaperGateway, SmaCross

ASSUME LoopAssumption ==
    /\ IsFiniteSet(Cloids) /\ Cloids = 1..Cardinality(Cloids)
    /\ 1..2 * order_qty \subseteq Quantities   \* from one target to the other

VARIABLES phase,     \* where the loop body is
          sma,       \* the strategy's state
          metrics    \* the counters and gauges of TradingMetrics

loopVars == <<vars, phase, sma, metrics>>

LoopInit ==
    /\ Init
    /\ phase = "recv"
    /\ sma = NewSma
    /\ metrics = [orders_submitted |-> 0, orders_rejected |-> 0, fills_total |-> 0,
                  position |-> 0, equity |-> 0]

\* CloidGenerator: ids are numbered in the order they are asked for.
next_cloid == Cardinality(DOMAIN mgr.orders) + 1

\* gateway.on_event, then strategy.on_event on the same book and position.
HandleSnapshot(snap) ==
    /\ phase = "recv"
    /\ next_cloid \in Cloids          \* bound: the session ends with its ids
    /\ OnSnapshot(snap)
    /\ sma' = IF has_mid(book') THEN Observe(sma, mid(book')) ELSE sma
    /\ phase' = IF /\ sma'.last_above # sma.last_above
                   /\ Delta(sma'.last_above, mgr.position) # 0
                THEN "submit" ELSE "poll"
    /\ UNCHANGED metrics

(* MUTANT of Intent: a sale keeps the sign of what is missing. *)
Intent_signed ==
    LET delta == Delta(sma.last_above, mgr.position)
    IN  [cloid |-> next_cloid, side |-> IF delta > 0 THEN "Buy" ELSE "Sell",
         qty |-> delta, kind |-> "Market"]

Intent ==
    LET delta == Delta(sma.last_above, mgr.position)
    IN  [cloid |-> next_cloid, side |-> IF delta > 0 THEN "Buy" ELSE "Sell",
         qty |-> Abs(delta), kind |-> "Market"]

SubmitIntent ==
    /\ phase = "submit"
    /\ Submit(Intent)
    /\ metrics' = [metrics EXCEPT !.orders_submitted = @ + 1]
    /\ phase' = "fill"
    /\ UNCHANGED sma

\* The rest of submit: the market order walks the book.
WalkBook ==
    /\ phase = "fill"
    /\ FillLevel \/ EndWalk
    /\ UNCHANGED <<phase, sma, metrics>>

SubmitReturns ==
    /\ phase = "fill"
    /\ Idle
    /\ phase' = "poll"
    /\ UNCHANGED <<vars, sma, metrics>>

CountOf(type) == Cardinality({i \in 1..Len(pending_reports) : pending_reports[i].type = type})

(* MUTANT of PollAndRecord: the gauges show what was known before the event's *)
(* orders were filled.                                                      *)
PollAndRecord_stale_gauges ==
    /\ phase = "poll"
    /\ PollReports \/ (pending_reports = <<>> /\ UNCHANGED vars)
    /\ metrics' = [metrics EXCEPT
          !.fills_total     = @ + CountOf("Fill"),
          !.orders_rejected = @ + CountOf("Rejected"),
          !.position        = polled_position,
          !.equity          = gate.last_equity]
    /\ phase' = "recv"
    /\ UNCHANGED sma

PollAndRecord ==
    /\ phase = "poll"
    /\ PollReports \/ (pending_reports = <<>> /\ UNCHANGED vars)
    /\ metrics' = [metrics EXCEPT
          !.fills_total     = @ + CountOf("Fill"),
          !.orders_rejected = @ + CountOf("Rejected"),
          !.position        = mgr.position,
          !.equity          = equity(mgr, book)]
    /\ phase' = "recv"
    /\ UNCHANGED sma

FinishEvent == SubmitIntent \/ WalkBook \/ SubmitReturns \/ PollAndRecord

LoopNext == (\E snap \in Snapshots : HandleSnapshot(snap)) \/ FinishEvent

LoopSpec == LoopInit /\ [][LoopNext]_loopVars
-----------------------------------------------------------------------------
LoopTypeOK ==
    /\ TypeOK
    /\ phase \in {"recv", "submit", "fill", "poll"}
    /\ sma \in [window : Seq(Nat), fast_sum : Int, slow_sum : Int, last_above : Signals]
    /\ metrics \in [orders_submitted : Nat, orders_rejected : Nat, fills_total : Nat,
                    position : Int, equity : Int]

(* The strategy's running sums never drift from the prices they stand for: *)
(* they are the sums of the last fast_n and the last slow_n mids, or of    *)
(* fewer while the windows fill (strategy.rs:129-143).                     *)
SumLast(n, prices) ==
    SumFunctionOnSet(prices, Greater(1, Len(prices) - n + 1)..Len(prices))
RollingSumsExact ==
    /\ Len(sma.window) <= slow_n
    /\ sma.fast_sum = SumLast(fast_n, sma.window)
    /\ sma.slow_sum = SumLast(slow_n, sma.window)

(* However partially its orders fill, and whichever of them are vetoed,    *)
(* the loop never holds more than the strategy's target on either side     *)
(* (strategy.rs:71-72: "must not assume their orders filled fully").       *)
WithinTarget == Abs(mgr.position) <= order_qty

(* No order is adjudicated on a stale mark: if the portfolio is at its     *)
(* drawdown limit when the gate is asked, the kill switch has tripped      *)
(* (trade.rs:78-89: the gate is marked on the book the strategy sees).     *)
KilledWhenDue ==
    (phase = "submit" /\ DrawdownReached(gate.peak_equity, equity(mgr, book)))
        => gate.kill_switched

(* Between events the metrics a scrape reads agree with the gateway they   *)
(* describe: what was submitted, rejected and filled, and both gauges      *)
(* (trade.rs:89-102).  The initial gauges are not set before an event.     *)
OrdersIn(status) == {c \in DOMAIN mgr.orders : mgr.orders[c].status = status}
MetricsAgree ==
    /\ LoopTypeOK
    /\ phase = "recv" =>
           /\ metrics.orders_submitted = Cardinality(DOMAIN mgr.orders)
           /\ metrics.orders_rejected = Cardinality(OrdersIn("Rejected"))
           /\ metrics.fills_total = SumFunction(
                 [c \in DOMAIN mgr.orders |-> Cardinality(mgr.orders[c].seen_fills)])
           /\ metrics.position = mgr.position
           /\ book # EmptyBook => metrics.equity = equity(mgr, book)

(* The loop is a user of the gateway: all it does to it are the gateway's  *)
(* own calls, with requests the gateway expects, so what is proved of the  *)
(* gateway holds in the loop.                                              *)
UsesGateway == Spec
=============================================================================
