---------------------------- MODULE WalkForward ----------------------------
(***************************************************************************)
(* walk_forward_evaluate (python/quantis/evaluation/walk_forward.py): fit  *)
(* on close[:train_end], score the next bars, move on.  Which rows a       *)
(* window scores and what its model has seen is kept; its numbers are not. *)
(***************************************************************************)
EXTENDS RegimeRows, Sequences, FiniteSets

CONSTANT MinOos         \* min_oos

ASSUME WalkAssumption == MinOos \in Nat \ {0}

VARIABLES n,            \* bars of close
          plan,         \* the arguments train_min, test_window, step
          train_end,
          windows       \* the windows kept so far

walkVars == <<n, plan, train_end, windows>>

\* The arguments the function does not refuse.
Plans == [train_min : Nat, test_window : Nat, step : Nat]
Accepts(p) == p.train_min > VolWindow + 2 /\ p.test_window >= MinOos /\ p.step >= 1
-----------------------------------------------------------------------------
OosRows == WindowRows(n, train_end, plan.test_window)

WalkStart(length, p) ==
    /\ n = length /\ plan = p
    /\ train_end = p.train_min
    /\ windows = <<>>

WalkInit == \E length \in Nat, p \in Plans : Accepts(p) /\ WalkStart(length, p)

WalkWindow ==
    /\ train_end < n - 1
    /\ windows' = IF Cardinality(OosRows) >= MinOos
                  THEN Append(windows, [train_end_index |-> train_end, oos |-> OosRows])
                  ELSE windows
    /\ train_end' = train_end + plan.step
    /\ UNCHANGED <<n, plan>>

WalkSpec == WalkInit /\ [][WalkWindow]_walkVars
-----------------------------------------------------------------------------
\* The borrowed bars are enough and not too many: a window scores exactly the
\* test bars whose return is realised inside the window, none of them seen by
\* the fit; and windows a step of at least test_window - 1 apart never score the
\* same bar twice.
WindowsOutOfSample ==
    /\ \A i \in DOMAIN windows :
          LET w == windows[i]
          IN  w.oos = w.train_end_index..(AtMost(w.train_end_index + plan.test_window, n) - 2)
    /\ \A i, j \in DOMAIN windows :
          (i # j /\ plan.step >= plan.test_window - 1) => windows[i].oos \cap windows[j].oos = {}
=============================================================================
