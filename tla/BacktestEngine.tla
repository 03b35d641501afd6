--------------------------- MODULE BacktestEngine ---------------------------
(***************************************************************************)
(* crates/backtest/src/engine.rs with the fill engine of fill.rs: the      *)
(* backtest's loop over recorded events.  One action handles one event:    *)
(* the book or the resting orders first, then funding, then the orders     *)
(* that have arrived, then the strategy, then the mark.  The engine runs   *)
(* any Strategy; here it is the PassiveMaker of strategy.rs, or one that   *)
(* may ask for anything, at any event.  The counts of fills and events and *)
(* the traded volume, which are only reported, are left out.               *)
(***************************************************************************)
EXTENDS Ladder, Functions, FiniteSetsExt

CONSTANTS initial_cash, taker_fee_ppm, maker_fee_ppm,
          latency_ms,            \* from submission to arrival
          funding_interval_ms,   \* 0 disables funding
          funding_rate_ppm,
          order_qty,             \* what the maker quotes
          Snapshots, Trades,     \* the market data of the stream
          Ticks,                 \* how far an event's timestamp moves; may be negative
          Intents,               \* what another strategy may ask for
          MaxEvents,             \* length of the stream, by strategy (bound)
          MaxIntents             \* orders such a strategy asks for (bound)

ASSUME EngineAssumption ==
    /\ initial_cash \in Nat \ {0}
    /\ taker_fee_ppm \in Nat /\ maker_fee_ppm \in Nat
    /\ latency_ms \in Nat /\ funding_interval_ms \in Nat /\ funding_rate_ppm \in Int
    /\ order_qty \in Nat \ {0}
    /\ Snapshots \subseteq [bids : Seq(RawLevels), asks : Seq(RawLevels)]
    /\ Trades \subseteq [side : Side, px : Nat, qty : Nat \ {0}]
    /\ Ticks \subseteq Int
    /\ Intents \subseteq [side : Side, qty : Nat \ {0}, kind : {"Market", "Limit"}, px : Nat]

VARIABLES book,          \* the order book
          pending,       \* orders in flight to the exchange
          resting,       \* limit orders in the exchange's queue
          ledger,        \* the account
          next_funding,  \* the next funding boundary, 0 before the first event
          strategy,      \* which strategy runs, and the maker's state
          now,           \* timestamp of the last event
          event,         \* history: how many events, and the last one's type
          submitted      \* history: how many orders, and their total quantity

vars == <<book, pending, resting, ledger, next_funding, strategy, now, event, submitted>>

Init ==
    /\ book = EmptyBook
    /\ pending = <<>>
    /\ resting = <<>>
    /\ ledger = [cash |-> initial_cash, position |-> 0, fees |-> 0, funding_paid |-> 0,
                 filled |-> 0, unfilled |-> 0, peak |-> initial_cash,
                 max_drawdown |-> 0, last_equity |-> initial_cash]
    /\ next_funding = 0
    /\ \E name \in {"PassiveMaker", "Other"} :
          strategy = [name |-> name, outstanding |-> FALSE, last_position |-> 0]
    /\ now = 0
    /\ event = [nr |-> 0, type |-> "None"]
    /\ submitted = [orders |-> 0, qty |-> 0]

SumOf(value(_), seq) == SumFunction([i \in DOMAIN seq |-> value(seq[i])])

\* What is left of a sequence when it only keeps these positions.
Subsequence(seq, positions) ==
    LET kept[n \in 0..Len(seq)] ==
            IF n = 0 THEN <<>>
            ELSE IF n \in positions THEN Append(kept[n - 1], seq[n])
            ELSE kept[n - 1]
    IN  kept[Len(seq)]
-----------------------------------------------------------------------------
(* Fills.                                                                  *)

\* apply_fills; filled stands for the quantity behind volume.
Value(fill) == notional(fill.px, fill.qty)
Fee(fill) == fee_ppm(Value(fill), fill.fee_rate)
apply_fills(l, fills) ==
    [l EXCEPT !.position = @ + SumOf(LAMBDA f : sign(f.side) * f.qty, fills),
              !.cash     = @ - SumOf(LAMBDA f : sign(f.side) * Value(f) + Fee(f), fills),
              !.fees     = @ + SumOf(Fee, fills),
              !.filled   = @ + SumOf(LAMBDA f : f.qty, fills)]

\* What a market order takes from level k of the ladder it walks: no more
\* than the levels before have left of it.  A fill of 0 stands for none.
Depth(ladder, k) == SumFunctionOnSet([i \in DOMAIN ladder |-> ladder[i].qty], 1..k)
Take(ladder, qty, k) == Greater(0, Lesser(ladder[k].qty, qty - Depth(ladder, k - 1)))

market(side, qty) ==
    LET ladder == Opposite(book', side)
        fills  == [k \in DOMAIN ladder |->
                      [side |-> side, px |-> ladder[k].px, qty |-> Take(ladder, qty, k),
                       fee_rate |-> taker_fee_ppm]]
    IN  [fills |-> fills, unfilled |-> qty - SumOf(LAMBDA f : f.qty, fills)]

remaining(order) == order.qty - order.filled

eligible(order, trade) ==
    /\ trade.side # order.side
    /\ IF order.side = "Buy" THEN trade.px <= order.px ELSE trade.px >= order.px

(* MUTANT of match_resting: the volume is not used up by the queue ahead. *)
match_resting_keeps_volume(order, trade) ==
    IF ~eligible(order, trade) THEN order
    ELSE [order EXCEPT
             !.queue_ahead = @ - Lesser(trade.qty, @),
             !.filled      = @ + Lesser(trade.qty, remaining(order))]

\* One trade against one resting order: the queue ahead of it first.
match_resting(order, trade) ==
    IF ~eligible(order, trade) THEN order
    ELSE LET consumed == Lesser(trade.qty, order.queue_ahead)
         IN  [order EXCEPT
                 !.queue_ahead = @ - consumed,
                 !.filled      = @ + Lesser(trade.qty - consumed, remaining(order))]

MakerFill(order, matched) ==
    [side |-> order.side, px |-> order.px, qty |-> matched.filled - order.filled,
     fee_rate |-> maker_fee_ppm]
-----------------------------------------------------------------------------
(* The stages of an event's handling.                                      *)

\* How many funding boundaries, the first being next, the time at has reached.
Boundaries(next, at) ==
    IF funding_interval_ms = 0 \/ at < next THEN 0
    ELSE (at - next) \div funding_interval_ms + 1

first_boundary == IF next_funding = 0 THEN now' + funding_interval_ms ELSE next_funding

\* Each boundary charges the position once, if the book has a mid.
Funded(l) ==
    LET payment == IF has_mid(book')
                   THEN rate_ppm_signed(notional(mid(book'), l.position), funding_rate_ppm)
                   ELSE 0
        paid    == Boundaries(first_boundary, now') * payment
    IN  [l EXCEPT !.cash = @ - paid, !.funding_paid = @ + paid]

(* MUTANT of FundingAdvances: the next boundary is counted from the event. *)
FundingAdvances_from_now ==
    next_funding' = IF funding_interval_ms = 0 THEN next_funding
                    ELSE IF Boundaries(first_boundary, now') = 0 THEN first_boundary
                    ELSE now' + funding_interval_ms

FundingAdvances ==
    next_funding' = IF funding_interval_ms = 0 THEN next_funding
                    ELSE first_boundary + Boundaries(first_boundary, now') * funding_interval_ms

size_at(side, px) ==
    LET ladder == IF side = "Buy" THEN book'.bids ELSE book'.asks
        at     == {k \in 1..Len(ladder) : ladder[k].px = px}
    IN  IF at = {} THEN 0 ELSE ladder[Min(at)].qty

(* MUTANT of Arrive: what a market order could not fill is forgotten. *)
Arrive_forgets_unfilled(state, order) ==
    IF order.kind = "Market"
    THEN [state EXCEPT !.ledger = apply_fills(@, market(order.side, order.qty).fills)]
    ELSE [state EXCEPT !.resting = Append(@,
             [side |-> order.side, px |-> order.px, qty |-> order.qty, filled |-> 0,
              queue_ahead |-> size_at(order.side, order.px)])]

\* One order reaches the exchange.
Arrive(state, order) ==
    IF order.kind = "Market"
    THEN LET outcome == market(order.side, order.qty)
             filled  == apply_fills(state.ledger, outcome.fills)
         IN  [state EXCEPT !.ledger =
                 [filled EXCEPT !.unfilled = filled.unfilled + outcome.unfilled]]
    ELSE [state EXCEPT !.resting = Append(@,
             [side |-> order.side, px |-> order.px, qty |-> order.qty, filled |-> 0,
              queue_ahead |-> size_at(order.side, order.px)])]

(* MUTANT of has_arrived: an order arriving at the snapshot's time waits. *)
has_arrived_late(order) == order.arrival_ms < now'

has_arrived(order) == order.arrival_ms <= now'

ArrivedNow == {i \in DOMAIN pending : has_arrived(pending[i])}
StillInFlight == Subsequence(pending, DOMAIN pending \ ArrivedNow)

\* The orders that have arrived are settled one by one, in their order.
Arrivals(l) ==
    LET arrived == Subsequence(pending, ArrivedNow)
        settled[n \in 0..Len(arrived)] ==
            IF n = 0 THEN [ledger |-> l, resting |-> resting]
            ELSE Arrive(settled[n - 1], arrived[n])
    IN  settled[Len(arrived)]

\* mark_to_market: without a mid the last mark stands.
Marked(l) ==
    LET equity == l.cash + notional(mid(book'), l.position)
        peak   == Greater(l.peak, equity)
    IN  IF ~has_mid(book') THEN l
        ELSE [l EXCEPT !.peak = peak, !.last_equity = equity,
                       !.max_drawdown = Greater(@, peak - equity)]
-----------------------------------------------------------------------------
(* The strategy, and the orders it submits.                                *)

Dispatch(in_flight, intents) ==
    /\ pending' = in_flight \o
          [i \in DOMAIN intents |->
              [side |-> intents[i].side, qty |-> intents[i].qty, kind |-> intents[i].kind,
               px |-> intents[i].px, arrival_ms |-> now' + latency_ms]]
    /\ submitted' = [orders |-> submitted.orders + Len(intents),
                     qty    |-> submitted.qty + SumOf(LAMBDA i : i.qty, intents)]

limit(side, px) == <<[side |-> side, qty |-> order_qty, kind |-> "Limit", px |-> px]>>

(* MUTANT of Quotes: an exit is quoted as soon as anything is held. *)
Quotes_exit_early(position) ==
    IF ~has_mid(book') THEN <<>>
    ELSE IF position = 0 THEN limit("Buy", book'.bids[1].px)
    ELSE IF position > 0 THEN limit("Sell", book'.asks[1].px)
    ELSE <<>>

\* What the maker quotes when it has no order outstanding.
Quotes(position) ==
    IF ~has_mid(book') THEN <<>>
    ELSE IF position = 0 THEN limit("Buy", book'.bids[1].px)
    ELSE IF position >= order_qty THEN limit("Sell", book'.asks[1].px)
    ELSE <<>>

\* PassiveMaker::on_event: a changed position means that the order filled.
MakerDecides(position, in_flight) ==
    LET waiting == strategy.outstanding /\ position = strategy.last_position
        quotes  == IF waiting THEN <<>> ELSE Quotes(position)
    IN  IF event'.type # "L2Snapshot"
        THEN UNCHANGED strategy /\ Dispatch(in_flight, <<>>)
        ELSE /\ strategy' = [strategy EXCEPT !.last_position = position,
                                             !.outstanding   = waiting \/ quotes # <<>>]
             /\ Dispatch(in_flight, quotes)

\* Any other strategy: at most one order an event, MaxIntents in all.
OtherDecides(in_flight) ==
    /\ UNCHANGED strategy
    /\ \/ Dispatch(in_flight, <<>>)
       \/ /\ submitted.orders < MaxIntents
          /\ \E intent \in Intents : Dispatch(in_flight, <<intent>>)

Decide(position, in_flight) ==
    \/ strategy.name = "PassiveMaker" /\ MakerDecides(position, in_flight)
    \/ strategy.name = "Other" /\ OtherDecides(in_flight)
-----------------------------------------------------------------------------
\* The next event of the stream and its timestamp.  Below, an \E over one value
\* names a stage's result, as a LET would.
Receive(type, tick) ==
    /\ event.nr < MaxEvents[strategy.name]   \* bound: the length of the stream
    /\ event' = [nr |-> event.nr + 1, type |-> type]
    /\ now + tick > 0
    /\ now' = now + tick

OnSnapshot(snap, tick) ==
    /\ Receive("L2Snapshot", tick)
    /\ book' = apply_snapshot(snap)
    /\ FundingAdvances
    /\ \E settled \in {Arrivals(Funded(ledger))} :
           /\ resting' = settled.resting
           /\ ledger' = Marked(settled.ledger)
           /\ Decide(settled.ledger.position, StillInFlight)

OnTrade(trade, tick) ==
    /\ Receive("Trade", tick)
    /\ UNCHANGED book
    /\ FundingAdvances
    /\ \E matched \in {[i \in DOMAIN resting |-> match_resting(resting[i], trade)]} :
          /\ resting' = Subsequence(matched, {i \in DOMAIN resting : remaining(matched[i]) > 0})
          /\ LET fills == [i \in DOMAIN resting |-> MakerFill(resting[i], matched[i])]
             IN  \E funded \in {Funded(apply_fills(ledger, fills))} :
                    /\ ledger' = Marked(funded)
                    /\ Decide(funded.position, pending)

OnCandle(tick) ==
    /\ Receive("Candle", tick)
    /\ UNCHANGED <<book, resting>>
    /\ FundingAdvances
    /\ ledger' = Marked(Funded(ledger))
    /\ Decide(ledger.position, pending)

Next ==
    \/ \E snap \in Snapshots, tick \in Ticks : OnSnapshot(snap, tick)
    \/ \E trade \in Trades, tick \in Ticks : OnTrade(trade, tick)
    \/ \E tick \in Ticks : OnCandle(tick)

Spec == Init /\ [][Next]_vars
-----------------------------------------------------------------------------
InFlight == [side : Side, qty : Nat \ {0}, kind : {"Market", "Limit"}, px : Nat,
             arrival_ms : Int]
Resting == [side : Side, px : Nat, qty : Nat \ {0}, filled : Nat, queue_ahead : Nat]
Ledgers == [cash : Int, position : Int, fees : Nat, funding_paid : Int, filled : Nat,
            unfilled : Nat, peak : Int, max_drawdown : Nat, last_equity : Int]

TypeOK ==
    /\ book \in Books
    /\ pending \in Seq(InFlight)
    /\ resting \in Seq(Resting)
    /\ ledger \in Ledgers
    /\ next_funding \in Nat
    /\ strategy \in [name : {"PassiveMaker", "Other"}, outstanding : BOOLEAN,
                     last_position : Int]
    /\ now \in Nat
    /\ event \in [nr : Nat, type : {"None", "L2Snapshot", "Trade", "Candle"}]
    /\ submitted \in [orders : Nat, qty : Nat]

(* Every quantity submitted is accounted for: it was filled, found no      *)
(* depth, or is still in flight or resting, to be reported as expired      *)
(* (engine.rs:75-78, 211, 238-239): the engine loses and invents nothing,  *)
(* whatever arrives partially and in whatever order.                       *)
Expired == SumOf(LAMBDA o : o.qty, pending) + SumOf(remaining, resting)
QuantitiesAccountedFor ==
    TypeOK /\ submitted.qty = ledger.filled + ledger.unfilled + Expired

(* No look-ahead, and no delay: what a snapshot settles at market are the  *)
(* orders that were in flight before it and whose arrival it has reached,  *)
(* all of them; the order a snapshot triggers never fills against it       *)
(* (engine.rs:8-12: "you cannot trade on the snapshot that triggered your  *)
(* signal").                                                               *)
Due(order) == IF order.kind = "Market" /\ order.arrival_ms <= now' THEN order.qty ELSE 0
OrdersFillWhenDue ==
    [][event'.type = "L2Snapshot" =>
          ledger'.filled + ledger'.unfilled
             = ledger.filled + ledger.unfilled + SumOf(Due, pending)]_vars

(* A resting order is last in line: it has no fill while any of the size   *)
(* that was ahead of it has still to trade (fill.rs:9-13, 110-114).        *)
LastInLine == \A i \in DOMAIN resting : resting[i].filled > 0 => resting[i].queue_ahead = 0

(* The maker has at most one order working, in flight or resting, and so   *)
(* never goes short or holds more than one order's quantity, although it   *)
(* learns of fills only through its position (strategy.rs:166-171: "it     *)
(* holds at most one resting order at a time, so it needs no               *)
(* cancellation").                                                         *)
OneWorkingOrder ==
    strategy.name = "PassiveMaker" =>
        /\ Len(pending) + Len(resting) <= 1
        /\ ledger.position \in 0..order_qty

(* Funding boundaries lie one interval apart from the first event on.  The *)
(* first event to reach one charges it, with all it has jumped over, and   *)
(* none again when time goes back and forth: the charge is the number of   *)
(* boundaries passed times one payment, by the position that pays, the one *)
(* after the event's own trades and before its arrivals; without a mid it  *)
(* is skipped (engine.rs:166-195).                                         *)
FundingChargedOnce ==
    [][funding_interval_ms > 0 =>
          LET from   == IF next_funding = 0 THEN now' + funding_interval_ms ELSE next_funding
              passed == (next_funding' - from) \div funding_interval_ms
              payer  == IF event'.type = "L2Snapshot" THEN ledger.position ELSE ledger'.position
              due    == IF has_mid(book')
                        THEN rate_ppm_signed(notional(mid(book'), payer), funding_rate_ppm)
                        ELSE 0
          IN  /\ passed >= 0
              /\ next_funding' = from + passed * funding_interval_ms
              /\ now' < next_funding'
              /\ passed > 0 => next_funding' - funding_interval_ms <= now'
              /\ ledger'.funding_paid = ledger.funding_paid + passed * due]_vars

(* What the maker model says of itself (fill.rs:110-114: "it never         *)
(* over-credits a maker fill"): one trade fills no more than it traded.    *)
(* Each resting order is matched against the whole trade, so two orders    *)
(* at one price both fill, and the code does not satisfy this.             *)
NeverOverCredits ==
    [][\A trade \in Trades, tick \in Ticks :
          OnTrade(trade, tick) => ledger'.filled - ledger.filled <= trade.qty]_vars
=============================================================================
