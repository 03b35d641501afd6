-------------------------- MODULE MultipleTesting --------------------------
(***************************************************************************)
(* The corrections for searching among many strategies: the performance    *)
(* matrix of a trial log, the probability of backtest overfitting (cscv)   *)
(* and the test for superior predictive ability (multiple_testing).        *)
(* Returns are integers; a ratio of a sum to a root of squares is kept as  *)
(* the pair of the sum and the squares and compared without rounding.      *)
(***************************************************************************)
EXTENDS Integers, Sequences, FiniteSetsExt, Functions

CONSTANTS NBlocks,             \* n_blocks
          NBootstrap,          \* n_bootstrap
          ThresholdNum, ThresholdDen,   \* 2 ln ln T
          Columns,             \* bound: the return series a trial may have
          Resamples,           \* bound: the index paths the generator may draw
          MaxTrials            \* bound: trials logged

ASSUME TestsAssumption ==
    /\ NBlocks \in Nat /\ NBootstrap \in Nat
    /\ ThresholdNum \in Nat /\ ThresholdDen \in Nat
    /\ Columns \subseteq Seq(Int)

VARIABLES trial_returns,       \* the log: one return series per trial
          boot_paths,          \* the resamples drawn so far
          verdict              \* what the tests answered

testVars == <<trial_returns, boot_paths, verdict>>
NotYet == [kind |-> "not yet"]
Refused == [kind |-> "refused"]

Sq(x) == x * x

\* The ratio sum / sqrt(squares); zero where the squares are.
Ratio(sum, squares) ==
    IF squares = 0 THEN [num |-> 0, den |-> 1]
    ELSE [num |-> IF sum < 0 THEN -Sq(sum) ELSE Sq(sum), den |-> squares]
RatioAtMost(a, b) == a.num * b.den <= b.num * a.den
Zero == Ratio(0, 0)
-----------------------------------------------------------------------------
\* TrialLog.performance_matrix: all trials, one column each, if they align.
Aligned(trials) == trials # <<>> /\ \A i, j \in DOMAIN trials : Len(trials[i]) = Len(trials[j])

\* The Sharpe ratio of a column over some rows, up to the factor the rows share.
Over(col, rows) == [t \in rows |-> col[t]]
(* MUTANT of SharpeOver: the mean, not over the deviation. *)
SharpeOver_mean_only(col, rows) == Ratio(SumFunction(Over(col, rows)), Cardinality(rows))
SharpeOver(col, rows) ==
    LET sum == SumFunction(Over(col, rows))
    IN  Ratio(sum, Cardinality(rows) * SumFunction([t \in rows |-> Sq(col[t])]) - Sq(sum))

CscvAccepts(d) ==
    /\ Len(d) >= 2
    /\ NBlocks >= 4 /\ NBlocks % 2 = 0
    /\ Len(d[1]) \div NBlocks >= 2

\* The choices of half of the blocks; the performance of each trial on some.
Halves == {s \in SUBSET (0..(NBlocks - 1)) : Cardinality(s) = NBlocks \div 2}
Performance(d, blocks) ==
    LET block_len == Len(d[1]) \div NBlocks
        rows == {t \in 1..(block_len * NBlocks) : (t - 1) \div block_len \in blocks}
    IN  [k \in DOMAIN d |-> SharpeOver(d[k], rows)]

\* The first of the best, and twice the rank of a trial, ties averaged.
Best(perf) == Min({k \in DOMAIN perf : \A j \in DOMAIN perf : RatioAtMost(perf[j], perf[k])})
TwiceRank(perf, k) ==
    LET below == {j \in DOMAIN perf : RatioAtMost(perf[j], perf[k])}
        equal == {j \in below : RatioAtMost(perf[k], perf[j])}
    IN  2 * Cardinality(below) - Cardinality(equal) + 1

\* How often the winner in sample ranks at or below the median out of sample,
\* and how often it loses.
cscv_pbo(d) ==
    LET winner == [s \in Halves |-> Best(Performance(d, s))]
        oos == [s \in Halves |-> Performance(d, (0..(NBlocks - 1)) \ s)]
    IN  [n_splits |-> Cardinality(Halves),
         overfit  |-> Cardinality({s \in Halves : TwiceRank(oos[s], winner[s]) <= Len(d) + 1}),
         oos_loss |-> Cardinality({s \in Halves : oos[s][winner[s]].num < 0})]
-----------------------------------------------------------------------------
SpaAccepts(d) == Len(d[1]) >= 8

\* The generator jumps anywhere or steps on by one, so it may draw any path.
_stationary_bootstrap_indices(n) == [1..n -> 1..n]

\* Means are kept times T.  A strategy that no resample moves has an infinite
\* deviation and never counts.
Mean(d, k) == SumFunction(d[k])
Centered(d, path, k) == SumFunction([t \in DOMAIN path |-> d[k][path[t]]]) - Mean(d, k)
Omega(d, paths, k) == SumFunction([b \in DOMAIN paths |-> Sq(Centered(d, paths[b], k))])
Observed(d, paths, k) == Ratio(Mean(d, k), Omega(d, paths, k))
Resampled(d, paths, b, k) == Ratio(Centered(d, paths[b], k), Omega(d, paths, k))

\* The strategies that are not too far below the benchmark.
Relevant(d, paths) ==
    {k \in DOMAIN d : LET z == Observed(d, paths, k)
                      IN  z.num < 0 => -z.num * Len(paths) * ThresholdDen <= z.den * ThresholdNum}

\* The largest ratio, and how many resamples reach the observed one.
Largest(S) == CHOOSE a \in S : \A c \in S : RatioAtMost(c, a)
Statistic(d, paths) == Largest({Zero} \cup {Observed(d, paths, k) : k \in DOMAIN d})
Reaching(d, paths, S) ==
    {b \in DOMAIN paths :
        RatioAtMost(Statistic(d, paths),
                    Largest({Zero} \cup {Resampled(d, paths, b, k) : k \in S}))}

spa_test(d, paths) ==
    [best    |-> Min({k \in DOMAIN d : \A j \in DOMAIN d : Mean(d, j) <= Mean(d, k)}),
     t_obs   |-> Statistic(d, paths),
     spa     |-> Cardinality(Reaching(d, paths, Relevant(d, paths))),
     reality |-> Cardinality(Reaching(d, paths, DOMAIN d))]
-----------------------------------------------------------------------------
TestsInit == trial_returns = <<>> /\ boot_paths = <<>> /\ verdict = NotYet

LogTrial(returns) ==
    /\ verdict = NotYet /\ boot_paths = <<>>
    /\ Len(trial_returns) < MaxTrials
    /\ trial_returns' = Append(trial_returns, returns)
    /\ UNCHANGED <<boot_paths, verdict>>

Resample(path) ==
    /\ Aligned(trial_returns) /\ SpaAccepts(trial_returns)
    /\ path \in _stationary_bootstrap_indices(Len(trial_returns[1]))
    /\ Len(boot_paths) < NBootstrap
    /\ boot_paths' = Append(boot_paths, path)
    /\ UNCHANGED <<trial_returns, verdict>>

Judge ==
    /\ verdict = NotYet
    /\ IF Aligned(trial_returns) /\ CscvAccepts(trial_returns) /\ SpaAccepts(trial_returns)
       THEN /\ Len(boot_paths) = NBootstrap
            /\ verdict' = [kind |-> "verdict", pbo |-> cscv_pbo(trial_returns),
                           spa |-> spa_test(trial_returns, boot_paths)]
       ELSE verdict' = Refused
    /\ UNCHANGED <<trial_returns, boot_paths>>

TestsNext ==
    \/ \E returns \in Columns : LogTrial(returns)
    \/ \E path \in Resamples : Resample(path)
    \/ Judge
-----------------------------------------------------------------------------
Doubled(d, k) == [d EXCEPT ![k] = [t \in DOMAIN d[k] |-> 2 * d[k][t]]]

\* The corrections cannot be gamed by size: a trial run at twice the leverage
\* changes neither the overfitting count nor a p-value.  The test that discards
\* poor strategies is never the more severe of the two, and a search of which
\* nothing beats the benchmark is never significant.
SelectionTestsSound ==
    verdict.kind = "verdict" =>
        /\ \A k \in DOMAIN trial_returns :
              LET d == Doubled(trial_returns, k)
                  spa == spa_test(d, boot_paths)
              IN  /\ cscv_pbo(d) = verdict.pbo
                  /\ spa.spa = verdict.spa.spa /\ spa.reality = verdict.spa.reality
        /\ verdict.spa.spa <= verdict.spa.reality
        /\ verdict.spa.t_obs.num = 0 => verdict.spa.spa = NBootstrap
=============================================================================
