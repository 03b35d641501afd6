------------------------------ MODULE Features ------------------------------
(***************************************************************************)
(* python/quantis/features/pipeline.py.  A series is a function on 0..n-1; *)
(* a feature is a function on the rows where it is warm (where the code    *)
(* has a number and not NaN).  Prices are powers of two and a bar is its   *)
(* exponent, so that a log return is an integer.                           *)
(***************************************************************************)
EXTENDS Integers, FiniteSetsExt, Functions

Length(series) == Cardinality(DOMAIN series)
Prefix(series, n) == [t \in 0..(n - 1) |-> series[t]]
Sliced(series, from, to) == [t \in 0..(to - from - 1) |-> series[from + t]]
Total(f) == SumFunction(f)
Square(x) == x * x
-----------------------------------------------------------------------------
\* The window ending at each row, where it is full: no window reaches past t.
_rolling(series, window) ==
    [t \in {t \in DOMAIN series : (t - window + 1)..t \subseteq DOMAIN series} |->
        [offset \in 0..(window - 1) |-> series[t - window + 1 + offset]]]

log_return(series, lag) ==
    [t \in lag..(Length(series) - 1) |-> series[t] - series[t - lag]]

\* Variances are kept times the square of the window: no division, no root.
Spread(win) == Cardinality(DOMAIN win) * Total([o \in DOMAIN win |-> Square(win[o])])
                   - Square(Total(win))

realized_vol(series, window) ==
    LET win == _rolling(log_return(series, 1), window)
    IN  [t \in DOMAIN win |-> Spread(win[t])]

Prices(series) == [t \in DOMAIN series |-> 2 ^ series[t]]

\* The mean, times the window.
sma(series, window) ==
    LET win == _rolling(Prices(series), window)
    IN  [t \in DOMAIN win |-> Total(win[t])]

momentum(series, window) == log_return(series, window)

\* Deviation from the mean, and the variance to scale it by; 0/0 is not a number.
zscore(series, window) ==
    LET win == _rolling(Prices(series), window)
        warm == {t \in DOMAIN win : Spread(win[t]) > 0}
    IN  [t \in warm |-> <<window * Prices(series)[t] - Total(win[t]), Spread(win[t])>>]

_REGISTRY == {"log_return", "realized_vol", "sma", "momentum", "zscore"}
Compute(spec, series) ==
    CASE spec.name = "log_return"   -> log_return(series, spec.param)
      [] spec.name = "realized_vol" -> realized_vol(series, spec.param)
      [] spec.name = "sma"          -> sma(series, spec.param)
      [] spec.name = "momentum"     -> momentum(series, spec.param)
      [] spec.name = "zscore"       -> zscore(series, spec.param)

\* The columns and the rows where every feature is warm.
build_features(series, specs) ==
    LET valid == {t \in DOMAIN series : \A k \in DOMAIN specs :
                    t \in DOMAIN Compute(specs[k], series)}
    IN  [valid |-> valid,
         values |-> [t \in valid |-> [k \in DOMAIN specs |-> Compute(specs[k], series)[t]]]]
-----------------------------------------------------------------------------
\* The positions the canary probes: np.linspace(1, n - 1, num), truncated.
Probes(n, n_probe) ==
    LET num == Min({n_probe, n - 1})
    IN  IF num = 1 THEN {1} ELSE {1 + (k * (n - 2)) \div (num - 1) : k \in 0..(num - 1)}

\* A value computed from the bars up to t alone is the value at t of the whole.
is_causal(spec, series, n_probe) ==
    LET n == Length(series)
        full == Compute(spec, series)
    IN  n >= 2 => \A t \in Probes(n, n_probe) \cap DOMAIN full :
            LET endpoint == Compute(spec, Prefix(series, t + 1))
            IN  t \in DOMAIN endpoint /\ endpoint[t] = full[t]
=============================================================================
