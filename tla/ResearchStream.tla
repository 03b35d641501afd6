--------------------------- MODULE ResearchStream ---------------------------
(***************************************************************************)
(* The evaluation library at work, one task at a time: bars arrive and     *)
(* every strategy is evaluated on the series so far; the folds of a        *)
(* research configuration are built; a strategy is walked forward; a trial *)
(* log is judged.                                                          *)
(***************************************************************************)
EXTENDS RegimeStrategies, WalkForward, CrossValidation, MultipleTesting

CONSTANTS Models,          \* fitted models
          Steps,           \* bound: log returns of a bar
          MaxBars,         \* bound: bars of the series
          MaxLength,       \* bound: bars a walk or a cross-validation is given
          Specs,           \* bound: feature specifications
          WalkPlans,       \* bound: walk-forward arguments
          LabelSpans       \* bound: bars a label looks ahead

ASSUME StreamAssumption ==
    /\ MaxLength \in Nat /\ LabelSpans \subseteq Nat
    /\ MaxBars \in Nat /\ Steps \subseteq Int /\ \A m \in Models : Fitted(m)
    /\ Specs \subseteq [name : _REGISTRY, param : Nat \ {0}]
    /\ WalkPlans \subseteq Plans /\ \E p \in WalkPlans : Accepts(p)

VARIABLES task,
          close, model,    \* the series and the model it is evaluated under
          folds            \* the configuration and the splits built from it

streamVars == <<close, model>>
vars == <<task, streamVars, folds, walkVars, testVars>>

\* The daily funding rate, aligned to close.
DailyFunding == [t \in 0..MaxBars |-> IF t % 3 = 0 THEN -1 ELSE 1]

\* CrossValidationSpec: what a configuration may say.
CvSpecs == [scheme : {"walk_forward", "purged_kfold"}, n_splits : 2..3, embargo_bars : 0..2]
Unbuilt == [cv |-> "none"]

Init ==
    /\ task \in {"stream", "folds", "walk", "tests"}
    /\ close = [t \in {0} |-> MaxBars]     \* so that no price falls below 1
    /\ IF task = "stream" THEN model \in Models ELSE model = CHOOSE m \in Models : TRUE
    /\ folds = Unbuilt
    /\ IF task = "walk"
       THEN \E length \in 1..MaxLength, p \in WalkPlans : Accepts(p) /\ WalkStart(length, p)
       ELSE WalkStart(0, CHOOSE p \in WalkPlans : Accepts(p))
    /\ TestsInit

ArriveBar ==
    /\ task = "stream"
    /\ Length(close) < MaxBars
    /\ \E step \in Steps : close' = [t \in 0..Length(close) |->
          IF t \in DOMAIN close THEN close[t] ELSE close[t - 1] + step]
    /\ UNCHANGED <<task, model, folds, walkVars, testVars>>

BuildFolds ==
    /\ task = "folds" /\ folds = Unbuilt
    /\ \E n_samples \in 1..MaxLength, cv \in CvSpecs, label_span \in LabelSpans :
          /\ ConfigAccepts(n_samples, cv, label_span)
          /\ folds' = [cv |-> cv, n_samples |-> n_samples, label_span |-> label_span,
                       splits |-> splits_from_config(n_samples, cv, label_span)]
    /\ UNCHANGED <<task, streamVars, walkVars, testVars>>

Next ==
    \/ ArriveBar
    \/ BuildFolds
    \/ task = "walk" /\ WalkWindow /\ UNCHANGED <<task, streamVars, folds, testVars>>
    \/ task = "tests" /\ TestsNext /\ UNCHANGED <<task, streamVars, folds, walkVars>>

Spec == Init /\ [][Next]_vars
-----------------------------------------------------------------------------
Warm == task = "stream" /\ Length(close) > VolWindow

\* What each strategy makes of a series; the overlay gives up on one with a bar
\* of no volatility inside.
Strategies(series) == {"regime", "long_short", "vol_target", "conviction", "kelly"}
                          \cup (IF RunLengthDefined(series) THEN {"ensemble"} ELSE {})
ReturnsOf(strategy, view) ==
    CASE strategy = "regime"     -> causal_regime_returns(view, DailyFunding)
      [] strategy = "long_short" -> causal_long_short_returns(view, DailyFunding, TRUE)
      [] strategy = "ensemble"   -> causal_ensemble_returns(view, DailyFunding,
                                                          causal_run_length(view.close))
      [] strategy = "vol_target" -> causal_sized_returns(view, DailyFunding, TargetVol, FALSE)
      [] strategy = "conviction" -> causal_sized_returns(view, DailyFunding, TargetVol, TRUE)
      [] strategy = "kelly"      -> causal_kelly_returns(view, DailyFunding)

\* A longer series continues the positions and returns of a shorter one.
Continues(old, now) ==
    \A column \in {"position", "hold", "strat"} : IsRestriction(old[column], now[column])
Unrevised(strategies, before, after) ==
    \A s \in strategies : Continues(ReturnsOf(s, before), ReturnsOf(s, after))

\* The bar that arrived last revised nothing that was computed before it: not a
\* position, not a return after costs and funding, of any strategy; and the
\* canary finds every registered feature causal.
PositionsFinal ==
    Warm =>
        LET before == Prefix(close, Length(close) - 1)
        IN  /\ Length(before) > VolWindow =>
                  Unrevised(Strategies(before) \cap Strategies(close),
                            View(model, before), View(model, close))
            /\ \A spec \in Specs : is_causal(spec, close, MaxBars)

\* The HMM's filter, posteriors, expected transitions and Viterbi path, and the
\* run-length posterior with its statistics, are what their definitions over all
\* state paths and all segmentations of the bars so far give.
InferenceExact ==
    Warm => /\ HmmExact(model, Observations(close))
            /\ RunLengthDefined(close) => BocpdExact(Standardized(close))

\* The strategies on one view, next to the base strategy they vary.
Beside(s, r, base) ==
    /\ r.hold = base.hold
    /\ \A i \in DOMAIN base.position :
          /\ s = "ensemble" => r.position[i] \in {0, base.position[i]}
          /\ s = "long_short" => r.position[i] \in {-Scale, base.position[i]}
          /\ s = "vol_target" => (r.position[i] # 0 => base.position[i] > 0)
Confirmed(view) == [i \in view.valid |-> MinRunLength]
Reduces(view, base) ==
    /\ causal_long_short_returns(view, DailyFunding, FALSE) = base
    /\ causal_ensemble_returns(view, DailyFunding, Confirmed(view)) = base
    /\ causal_sized_returns(view, DailyFunding, 0, FALSE) = base
Certain(base, sized, conviction) ==
    \A i \in DOMAIN base : base[i] > 0 => conviction[i] \in 0..sized[i]
Agree(view) ==
    LET base == ReturnsOf("regime", view)
    IN  /\ \A s \in Strategies(view.close) :
              LET r == ReturnsOf(s, view)
              IN  /\ DOMAIN r.position = CandleIndex(Length(view.close), VolWindow)
                  /\ Beside(s, r, base)
        /\ Certain(base.position, ReturnsOf("vol_target", view).position,
                   ReturnsOf("conviction", view).position)
        /\ Reduces(view, base)

\* The strategies, each with an accounting of its own, stay comparable.  All hold
\* a position for the same bars and over the same returns.  The long/short
\* strategy without its shorts, the overlay in segments that have just lasted
\* long enough, and the sizers without a volatility target or conviction repeat
\* the regime strategy exactly: position, costs and funding.  The overlay keeps
\* its position or goes flat, the long/short strategy keeps it or goes short, the
\* volatility target holds only where it is long, and there conviction holds no
\* more than the volatility target.  Elsewhere conviction, and Kelly anywhere,
\* are not bounded by it.
StrategiesAgree == Warm => Agree(View(model, close))

\* No purged fold leaks, and no window scores a bar its model was fitted on.
\* Folds built by walk-forward leak exactly when labels reach further than the
\* embargo: that scheme is not told the label span.
FoldsOutOfSample ==
    folds # Unbuilt =>
        LET walk == folds.cv.scheme = "walk_forward"
        IN  assert_no_leakage(folds.splits, folds.label_span, walk)
                <=> \/ ~walk
                    \/ folds.label_span <= folds.cv.embargo_bars
                    \/ folds.splits = {}
OutOfSample == FoldsOutOfSample /\ WindowsOutOfSample
=============================================================================
