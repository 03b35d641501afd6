------------------------------ MODULE RiskGate ------------------------------
(***************************************************************************)
(* crates/risk/src/gate.rs: the pre-trade risk gate as a record value, the *)
(* operation that marks it and the decision it takes.  The drawdown limit, *)
(* a fraction in (0, 1], is the rational dd_num / dd_den: the code divides *)
(* floating-point numbers, and its rounding at the exact limit is left     *)
(* out.                                                                    *)
(***************************************************************************)
EXTENDS FixedPoint

CONSTANTS max_position_qty, max_notional, dd_num, dd_den

ASSUME RiskLimitsAssumption ==     \* RiskLimits::validate
    /\ max_position_qty \in Nat \ {0}
    /\ max_notional \in Nat \ {0}
    /\ dd_num \in Nat \ {0} /\ dd_den \in Nat \ {0}
    /\ dd_num <= dd_den

Gates == [peak_equity : Int, last_equity : Int, kill_switched : BOOLEAN]

NewGate(initial_equity) ==
    [peak_equity |-> initial_equity, last_equity |-> initial_equity,
     kill_switched |-> FALSE]

\* 1 - equity / peak >= dd_num / dd_den, for a positive peak.
DrawdownReached(peak, equity) ==
    peak > 0 /\ dd_den * (peak - equity) >= dd_num * peak

\* Marks the equity, raises the peak and latches the kill switch.
on_equity(gate, equity) ==
    LET peak == Greater(gate.peak_equity, equity)
    IN  [peak_equity   |-> peak,
         last_equity   |-> equity,
         kill_switched |-> gate.kill_switched \/ DrawdownReached(peak, equity)]

Resulting(position, side, qty) == position + sign(side) * qty
increasing(position, side, qty) == Abs(Resulting(position, side, qty)) > Abs(position)

(* MUTANT of check_order: the position cap is checked on the order, not on *)
(* the position it results in.                                             *)
check_order_caps_order(gate, position, side, qty, price) ==
    \/ ~increasing(position, side, qty)
    \/ /\ ~gate.kill_switched
       /\ qty <= max_position_qty
       /\ Abs(notional(price, Resulting(position, side, qty))) <= max_notional

(* MUTANT of check_order: the kill switch is not consulted. *)
check_order_ignores_kill(gate, position, side, qty, price) ==
    \/ ~increasing(position, side, qty)
    \/ /\ Abs(Resulting(position, side, qty)) <= max_position_qty
       /\ Abs(notional(price, Resulting(position, side, qty))) <= max_notional

\* TRUE where the code answers Allow.
check_order(gate, position, side, qty, price) ==
    \/ ~increasing(position, side, qty)
    \/ /\ ~gate.kill_switched
       /\ Abs(Resulting(position, side, qty)) <= max_position_qty
       /\ Abs(notional(price, Resulting(position, side, qty))) <= max_notional
=============================================================================
