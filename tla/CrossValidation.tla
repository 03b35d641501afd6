-------------------------- MODULE CrossValidation --------------------------
(***************************************************************************)
(* python/quantis/evaluation/cross_validation.py: the folds of a time      *)
(* series, as sets of row indices from 0, and the check that none leaks.   *)
(***************************************************************************)
EXTENDS Integers

\* np.arange(from, to)
Arange(from, to) == from..(to - 1)
Split(train, test) == [train |-> train, test |-> test]
Nonempty(splits) == {s \in splits : s.train # {} /\ s.test # {}}

Check(n_samples, n_splits, embargo) == n_samples >= 2 /\ n_splits >= 2 /\ embargo >= 0

WalkForwardAccepts(n_samples, n_splits, embargo) ==
    Check(n_samples, n_splits, embargo) /\ n_samples \div (n_splits + 1) # 0

\* Expanding window: each block after the first is tested on what precedes it,
\* up to the embargo.
walk_forward(n_samples, n_splits, embargo) ==
    LET fold == n_samples \div (n_splits + 1)
        test_end(i) == IF i = n_splits THEN n_samples ELSE (i + 1) * fold
        split(i) == Split(Arange(0, i * fold - embargo), Arange(i * fold, test_end(i)))
    IN  Nonempty({split(i) : i \in 1..n_splits})

PurgedAccepts(n_samples, n_splits, embargo, label_span) ==
    /\ Check(n_samples, n_splits, embargo) /\ label_span >= 0
    /\ n_samples \div n_splits # 0

\* Every block is tested once; before it the rows whose labels reach into it are
\* purged, after it the embargo is left out.
purged_kfold(n_samples, n_splits, embargo, label_span) ==
    LET fold == n_samples \div n_splits
        test_end(i) == IF i = n_splits - 1 THEN n_samples ELSE (i + 1) * fold
        keep(i) == {j \in Arange(0, n_samples) :
                        /\ j < i * fold - label_span \/ j >= test_end(i) + embargo
                        /\ j < i * fold \/ j >= test_end(i)}
        split(i) == Split(keep(i), Arange(i * fold, test_end(i)))
    IN  Nonempty({split(i) : i \in 0..(n_splits - 1)})

\* A walk-forward spec does not see the label span.
splits_from_config(n_samples, cv, label_span) ==
    IF cv.scheme = "walk_forward"
    THEN walk_forward(n_samples, cv.n_splits, cv.embargo_bars)
    ELSE purged_kfold(n_samples, cv.n_splits, cv.embargo_bars, label_span)

ConfigAccepts(n_samples, cv, label_span) ==
    IF cv.scheme = "walk_forward"
    THEN WalkForwardAccepts(n_samples, cv.n_splits, cv.embargo_bars)
    ELSE PurgedAccepts(n_samples, cv.n_splits, cv.embargo_bars, label_span)
-----------------------------------------------------------------------------
\* assert_no_leakage: a training row leaks if its label window [j, j + span]
\* meets [min(test), max(test)].
Leaks(split, label_span) ==
    \E j \in split.train : /\ \E hi \in split.test : j <= hi
                           /\ \E lo \in split.test : j + label_span >= lo
Causal(split) == \A j \in split.train : \A k \in split.test : j < k

assert_no_leakage(splits, label_span, causal) ==
    \A s \in splits : ~Leaks(s, label_span) /\ (causal => Causal(s))
=============================================================================
