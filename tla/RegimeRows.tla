----------------------------- MODULE RegimeRows -----------------------------
(***************************************************************************)
(* Which rows of a slice of closing prices a regime strategy has a         *)
(* position for: what every evaluation in python/ aligns by.               *)
(***************************************************************************)
EXTENDS Integers

CONSTANT VolWindow      \* DEFAULT_VOL_WINDOW

ASSUME VolWindowAssumption == VolWindow \in Nat \ {0}

\* The candle_index of causal_regime_returns for a slice of the given length: the
\* bars with warm features and a bar after them to realise the return.
CandleIndex(length, vol_window) == vol_window..(length - 2)
-----------------------------------------------------------------------------
AtMost(a, b) == IF a <= b THEN a ELSE b
AtLeast(a, b) == IF a >= b THEN a ELSE b

(* MUTANT of Warmup: one bar short of what the first feature row needs. *)
Warmup_one_short == VolWindow - 1
Warmup == VolWindow + 2

\* The rows a window of walk_forward_evaluate scores, in a series of the given
\* length, after a fit on close[:train_end].  The slice borrows bars from before
\* the test, so that its features are warm at train_end; only the rows from
\* train_end on are kept.
WindowRows(length, train_end, test_window) ==
    LET test_end == AtMost(train_end + test_window, length)
        slice_start == AtLeast(0, train_end - Warmup)
        global_index == {slice_start + r : r \in CandleIndex(test_end - slice_start, VolWindow)}
    IN  {g \in global_index : g >= train_end}
=============================================================================
