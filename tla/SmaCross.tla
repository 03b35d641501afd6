------------------------------ MODULE SmaCross ------------------------------
(***************************************************************************)
(* SmaCross of crates/backtest/src/strategy.rs: the strategy's state as a  *)
(* record, and what one L2 snapshot with a mid price does to it.  The two  *)
(* sums are kept incrementally; an order is asked for only when the fast   *)
(* average moves to the other side of the slow one.                        *)
(***************************************************************************)
EXTENDS FixedPoint, Sequences

CONSTANTS fast_n, slow_n,   \* window lengths, in snapshots
          order_qty         \* the position targeted on either side of flat

ASSUME SmaAssumption ==     \* EngineConfig::validate
    /\ fast_n \in Nat \ {0} /\ slow_n \in Nat /\ fast_n < slow_n
    /\ order_qty \in Nat \ {0}

Signals == {"none", "above", "below"}       \* last_above: Option<bool>

NewSma == [window |-> <<>>, fast_sum |-> 0, slow_sum |-> 0, last_above |-> "none"]

(* MUTANT of Leaving: the fast window keeps one price too many. *)
Leaving_late(prices) ==
    IF Len(prices) > fast_n + 1 THEN prices[Len(prices) - 1 - fast_n] ELSE 0

\* The price that leaves the fast window when the last of prices enters it.
Leaving(prices) == IF Len(prices) > fast_n THEN prices[Len(prices) - fast_n] ELSE 0

\* fast_sum / fast_n > slow_sum / slow_n, cross-multiplied.
fast_above(fast_sum, slow_sum) ==
    IF fast_sum * slow_n > slow_sum * fast_n THEN "above" ELSE "below"

\* on_event, for a snapshot that leaves this mid price: the next state.
Observe(sma, price) ==
    LET prices   == Append(sma.window, price)
        overflow == Len(prices) > slow_n
        fast_sum == sma.fast_sum + price - Leaving(prices)
        slow_sum == sma.slow_sum + price - (IF overflow THEN Head(prices) ELSE 0)
        window   == IF overflow THEN Tail(prices) ELSE prices
    IN  [window |-> window, fast_sum |-> fast_sum, slow_sum |-> slow_sum,
         last_above |-> IF Len(window) < slow_n THEN sma.last_above
                        ELSE fast_above(fast_sum, slow_sum)]

(* MUTANT of Delta: the order ignores the position already held. *)
Delta_ignores_position(signal, position) ==
    IF signal = "above" THEN order_qty ELSE -order_qty

\* What is missing to the target that a signal sets.
Delta(signal, position) ==
    (IF signal = "above" THEN order_qty ELSE -order_qty) - position
=============================================================================
