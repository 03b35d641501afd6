-------------------------- MODULE RegimeStrategies --------------------------
(***************************************************************************)
(* The causal strategies of python/quantis/evaluation: features and a      *)
(* fitted model give a weight for each warm bar, the weight is held over   *)
(* the next bar's return, and turnover and funding are charged.  Weights   *)
(* and returns are in units of 1 / Scale.                                  *)
(***************************************************************************)
EXTENDS Features, GaussianHmm, Bocpd, RegimeRows

CONSTANTS MinRunLength,        \* min_run_length
          TargetVol,           \* target_vol, times Scale
          MaxLeverage,         \* max_leverage
          KellyFraction,       \* fraction, times Scale
          KellyCap,            \* cap
          CostRate,            \* cost_bps, per unit of turnover
          Scale

ASSUME StrategyAssumption ==
    /\ TargetVol \in Nat \ {0} /\ Scale \in Nat \ {0}
    /\ MaxLeverage \in Nat /\ KellyFraction \in Nat /\ KellyCap \in Nat /\ MinRunLength \in Nat

Clip(x, low, high) == Max({low, Min({x, high})})
IntSqrt(x) == CHOOSE r \in 0..x : r * r <= x /\ (r + 1) * (r + 1) > x
-----------------------------------------------------------------------------
regime_features(close) ==
    build_features(close, <<[name |-> "log_return", param |-> 1],
                            [name |-> "realized_vol", param |-> VolWindow]>>)

\* The warm rows in order, as the model takes them.
InOrder(fm) == [t \in 1..Cardinality(fm.valid) |-> fm.values[Min(fm.valid) + t - 1]]
Observations(close) == InOrder(regime_features(close))

(* MUTANT of Filtered: decodes with the smoothed posteriors. *)
Filtered_smoothed(model, close) == predict_proba(model, Observations(close))
Filtered(model, close) == filter_proba(model, Observations(close))
RegimeOf(model, row) ==
    LET order == regime_order(model)
    IN  (CHOOSE r \in DOMAIN order : order[r] = Argmax(row)) - 1
ordered_regimes(model, proba) == [t \in DOMAIN proba |-> RegimeOf(model, proba[t])]
Bear == 0
Bull(model) == Len(model.means) - 1

\* What every strategy computes first: the warm bars, the filtered weights of
\* the states and the ranked regimes, row by row, and the volatility.
ViewFrom(model, close, valid, proba) ==
    [model |-> model, close |-> close, valid |-> valid, proba |-> proba,
     regimes |-> Row(ordered_regimes(model, proba)), rv |-> realized_vol(close, VolWindow)]
View(model, close) ==
    ViewFrom(model, close, regime_features(close).valid, Row(Filtered(model, close)))
RowOf(view, i) == i - Min(view.valid) + 1

\* Per warm bar, 1 where the filtered regime has the given rank.
InRegime(view, rank) ==
    [i \in view.valid |-> IF view.regimes[RowOf(view, i)] = rank THEN 1 ELSE 0]
InBull(view) == InRegime(view, Bull(view.model))
-----------------------------------------------------------------------------
\* The weight of a bar is held over the return into the next one, so the last
\* bar is dropped; turnover is charged, and funding for the day the weight is
\* held.  The sizers share this accounting; the other strategies each repeat it.
_weighted_returns(close, weight, funding_daily) ==
    LET idx == {i \in DOMAIN weight : i + 1 \in DOMAIN close}
        next_ret(i) == close[i + 1] - close[i]
        prev(i) == IF i - 1 \in idx THEN weight[i - 1] ELSE 0
        cost(i) == CostRate * Max({weight[i] - prev(i), prev(i) - weight[i]})
    IN  [position |-> Restrict(weight, idx),
         hold     |-> [i \in idx |-> next_ret(i)],
         strat    |-> [i \in idx |->
            weight[i] * next_ret(i) - cost(i) - weight[i] * funding_daily[i + 1]]]

\* Long in the bull regime, with the accounting of causal_regime_returns.
RegimeWeight(view) == [i \in view.valid |-> Scale * InBull(view)[i]]
RegimeAccount(close, target, funding_daily) ==
    LET idx == {i \in DOMAIN target : i + 1 \in DOMAIN close}
        next_ret(i) == close[i + 1] - close[i]
        prev(i) == IF i - 1 \in idx THEN target[i - 1] ELSE 0
        cost(i) == CostRate * Max({target[i] - prev(i), prev(i) - target[i]})
    IN  [position |-> Restrict(target, idx),
         hold     |-> [i \in idx |-> next_ret(i)],
         strat    |-> [i \in idx |->
            target[i] * next_ret(i) - cost(i) - target[i] * funding_daily[i + 1]]]
causal_regime_returns(view, funding) ==
    RegimeAccount(view.close, RegimeWeight(view), funding)

\* Short in the bear regime as well, with the accounting of
\* causal_long_short_returns.
LongShortWeight(view, short_bear) ==
    [i \in view.valid |-> IF short_bear /\ InRegime(view, Bear)[i] = 1 THEN -Scale
                          ELSE Scale * InBull(view)[i]]
(* MUTANT of LongShortAccount: funding of the day the weight was decided. *)
LongShortAccount_funding_early(close, target, funding_daily) ==
    _weighted_returns(close, target,
                      [t \in DOMAIN funding_daily |-> funding_daily[Max({t - 1, 0})]])
LongShortAccount(close, target, funding_daily) ==
    LET idx == {i \in DOMAIN target : i + 1 \in DOMAIN close}
        next_ret(i) == close[i + 1] - close[i]
        prev(i) == IF i - 1 \in idx THEN target[i - 1] ELSE 0
        cost(i) == CostRate * Max({target[i] - prev(i), prev(i) - target[i]})
    IN  [position |-> Restrict(target, idx),
         hold     |-> [i \in idx |-> next_ret(i)],
         strat    |-> [i \in idx |->
            target[i] * next_ret(i) - cost(i) - target[i] * funding_daily[i + 1]]]
causal_long_short_returns(view, funding, short_bear) ==
    LongShortAccount(view.close, LongShortWeight(view, short_bear), funding)
-----------------------------------------------------------------------------
\* Returns over the volatility of the bars before them, rounded towards zero;
\* the rows where that volatility is not zero.
_vol_standardized_returns(close) ==
    LET vol == realized_vol(close, VolWindow)
        ret == log_return(close, 1)
        finite == {t \in DOMAIN ret : t - 1 \in DOMAIN vol /\ vol[t - 1] > 0}
        size(t) == IntSqrt(Square(VolWindow * ret[t]) \div vol[t - 1])
    IN  [t \in finite |-> IF ret[t] < 0 THEN -size(t) ELSE size(t)]

\* The run length refuses a series with a hole in it; before its first bar it
\* counts as longer than any threshold.
RunLengthDefined(close) ==
    LET finite == DOMAIN _vol_standardized_returns(close)
    IN  finite # {} => Min(finite)..(Length(close) - 1) \subseteq finite
Stable == 2147483647
RowsFrom(z) == [t \in 1..Cardinality(DOMAIN z) |-> z[Min(DOMAIN z) + t - 1]]
Standardized(close) == RowsFrom(_vol_standardized_returns(close))
RunLengths(close, beliefs) ==
    LET first == Length(close) - Len(beliefs)
    IN  [i \in DOMAIN close |-> IF i < first THEN Stable ELSE MapRunLength(beliefs[i - first + 1])]
causal_run_length(close) == RunLengths(close, fit_predict(Row(Standardized(close))))

\* The overlay keeps a long only in a segment that has lasted, with the accounting
\* of causal_ensemble_returns; the run lengths may be given.
(* MUTANT of EnsembleWeight: a segment must be longer than the threshold. *)
EnsembleWeight_longer(view, run_length) ==
    [i \in view.valid |-> IF run_length[i] > MinRunLength THEN Scale * InBull(view)[i] ELSE 0]
EnsembleWeight(view, run_length) ==
    [i \in view.valid |-> IF run_length[i] >= MinRunLength THEN Scale * InBull(view)[i] ELSE 0]
EnsembleAccount(close, target, funding_daily) ==
    LET idx == {i \in DOMAIN target : i + 1 \in DOMAIN close}
        next_ret(i) == close[i + 1] - close[i]
        prev(i) == IF i - 1 \in idx THEN target[i - 1] ELSE 0
        cost(i) == CostRate * Max({target[i] - prev(i), prev(i) - target[i]})
    IN  [position |-> Restrict(target, idx),
         hold     |-> [i \in idx |-> next_ret(i)],
         strat    |-> [i \in idx |->
            target[i] * next_ret(i) - cost(i) - target[i] * funding_daily[i + 1]]]
causal_ensemble_returns(view, funding, run_length) ==
    EnsembleAccount(view.close, EnsembleWeight(view, run_length), funding)
-----------------------------------------------------------------------------
\* Volatility targeting: a weight inverse to the volatility, up to the cap; with
\* conviction the probability of the bull state takes the place of the regime.
causal_position_weight(view, target_vol, conviction_weighted) ==
    LET bull == regime_order(view.model)[Len(view.model.means)]
        size(i) == IF target_vol = 0 THEN Scale
                   ELSE IF view.rv[i] = 0 THEN 0
                   ELSE Clip(IntSqrt(Square(target_vol * VolWindow) \div view.rv[i]),
                             0, Scale * MaxLeverage)
        row(i) == view.proba[RowOf(view, i)]
    IN  [i \in view.valid |-> IF conviction_weighted
                              THEN (row(i)[bull] * size(i)) \div SumFunction(row(i))
                              ELSE InBull(view)[i] * size(i)]
causal_sized_returns(view, funding, target_vol, conviction_weighted) ==
    _weighted_returns(view.close, causal_position_weight(view, target_vol, conviction_weighted),
                      funding)

\* The expected return over the variance, times Scale.
KellyRaw(model, row, rv) ==
    LET edge == SumFunction([k \in States(model) |-> row[k] * model.means[k][1]])
    IN  (KellyFraction * edge * Square(VolWindow)) \div (SumFunction(row) * rv)
\* Kelly: never short, up to the cap.
causal_kelly_weight(view) ==
    [i \in view.valid |->
        IF view.rv[i] = 0 THEN 0
        ELSE Clip(KellyRaw(view.model, view.proba[RowOf(view, i)], view.rv[i]), 0, Scale * KellyCap)]
causal_kelly_returns(view, funding) ==
    _weighted_returns(view.close, causal_kelly_weight(view), funding)
=============================================================================
