----------------------------- MODULE FixedPoint -----------------------------
(***************************************************************************)
(* The integer fixed-point arithmetic of crates/core/src/types.rs.  A Px,  *)
(* a Qty and a Cash are raw integers in units of 1/SCALE.  Widths are not  *)
(* modelled: the code multiplies in 128 bits and panics when a result does *)
(* not fit in 64, far above the amounts the engine is configured with.     *)
(***************************************************************************)
EXTENDS Integers

CONSTANT SCALE   \* FIXED_SCALE: 10^8 in the code, any positive integer here

ASSUME ScaleAssumption == SCALE \in Nat \ {0}

PPM == 1000000

Abs(x) == IF x < 0 THEN -x ELSE x
Signum(x) == IF x < 0 THEN -1 ELSE IF x > 0 THEN 1 ELSE 0
Lesser(x, y) == IF x < y THEN x ELSE y
Greater(x, y) == IF x < y THEN y ELSE x

\* Rust's integer division truncates toward zero; \div rounds down.  d > 0.
TruncDiv(n, d) == IF n >= 0 THEN n \div d ELSE -((-n) \div d)

\* Px::notional, Px::mid, Cash::fee_ppm, Cash::rate_ppm_signed.
notional(px, qty) == TruncDiv(px * qty, SCALE)
midpoint(bid, ask) == TruncDiv(bid + ask, 2)
fee_ppm(cash, ppm) == TruncDiv(Abs(cash) * ppm, PPM)
rate_ppm_signed(cash, ppm) == TruncDiv(cash * ppm, PPM)

Side == {"Buy", "Sell"}
sign(side) == IF side = "Buy" THEN 1 ELSE -1
=============================================================================
