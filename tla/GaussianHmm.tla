---------------------------- MODULE GaussianHmm ----------------------------
(***************************************************************************)
(* python/quantis/models/hmm.py: inference in a hidden Markov model with   *)
(* diagonal Gaussian emissions.  Probabilities are integer weights and     *)
(* nothing is normalised, so that every recursion is exact; what the code  *)
(* divides by (the likelihood, a row sum) is a factor common to the        *)
(* numbers it compares.  States and rows count from 1.                     *)
(***************************************************************************)
EXTENDS Integers, SequencesExt

\* HmmParams: start and transition weights, and per state the mean and variance
\* of each feature.
States(params) == DOMAIN params.means
\* Fitted ones: where the chain starts and where it goes from a state are
\* distributions.
Distribution(row, n_states) ==
    row \in [1..n_states -> Nat] /\ \E k \in 1..n_states : row[k] > 0
Fitted(params) ==
    LET n_states == Len(params.means)
    IN  /\ params.means \in Seq(Seq(Int) \ {<<>>}) /\ n_states >= 1
        /\ Distribution(params.startprob, n_states)
        /\ DOMAIN params.transmat = 1..n_states
        /\ \A k \in 1..n_states : Distribution(params.transmat[k], n_states)

SumOver(S, Term(_)) == MapThenSumSet(Term, S)
\* The function with its values computed once.
Row(f) == SubSeq(f, 1, Len(f))
\* np.argmax: the first of the largest.
Argmax(row) == CHOOSE k \in DOMAIN row : /\ \A j \in DOMAIN row : row[j] <= row[k]
                                         /\ \A j \in 1..(k - 1) : row[j] < row[k]

\* The density of a row under each state, a product over the features, kept as
\* two levels: within a standard deviation of the mean or further away.
Density(x, mean, variance) ==
    IF (x - mean) * (x - mean) <= variance THEN 2 ELSE 1
RowDensity(x, mean, variance) ==
    LET p[d \in 0..Len(x)] ==
            IF d = 0 THEN 1 ELSE p[d - 1] * Density(x[d], mean[d], variance[d])
    IN  p[Len(x)]
Emissions(x, params) ==
    Row([k \in States(params) |-> RowDensity(x, params.means[k], params.variances[k])])
_log_gaussian(obs, params) == Row([t \in DOMAIN obs |-> Emissions(obs[t], params)])
-----------------------------------------------------------------------------
\* The weights of the states before and after a row is seen.
Reach(params, prev) ==
    [j \in States(params) |->
        SumFunction([i \in States(params) |-> prev[i] * params.transmat[i][j]])]
Weigh(params, row, reach) == Row([j \in States(params) |-> row[j] * reach[j]])
_forward(params, b) ==
    LET log_alpha[t \in 1..Len(b)] ==
            Weigh(params, b[t], IF t = 1 THEN params.startprob ELSE Reach(params, log_alpha[t - 1]))
    IN  log_alpha

(* MUTANT of _backward: without the emission of the row moved to. *)
_backward_without_emission(params, b) ==
    LET log_beta[t \in 1..Len(b)] ==
            LET next == log_beta[t + 1]
            IN  Row([i \in States(params) |->
                        IF t = Len(b) THEN 1
                        ELSE SumOver(States(params), LAMBDA j : params.transmat[i][j] * next[j])])
    IN  log_beta
_backward(params, b) ==
    LET log_beta[t \in 1..Len(b)] ==
            LET next == log_beta[t + 1]
            IN  Row([i \in States(params) |->
                        IF t = Len(b) THEN 1
                        ELSE SumOver(States(params),
                                     LAMBDA j : params.transmat[i][j] * b[t + 1][j] * next[j])])
    IN  log_beta

\* The expected visits of each state and uses of each transition, times P(x).
_posteriors(params, b, log_alpha, log_beta) ==
    [gamma  |-> Row([t \in DOMAIN b |-> Row([k \in States(params) |-> log_alpha[t][k] * log_beta[t][k]])]),
     xi_sum |-> [i \in States(params) |-> [j \in States(params) |->
        SumOver(1..(Len(b) - 1), LAMBDA t :
            log_alpha[t][i] * params.transmat[i][j] * b[t + 1][j] * log_beta[t + 1][j])]]]

\* The next parameters, as numerators over what each is divided by.
_m_step(obs, post) ==
    LET K == DOMAIN post.xi_sum
        nk(k) == SumOver(DOMAIN obs, LAMBDA t : post.gamma[t][k])
    IN  [startprob |-> post.gamma[1],
         transmat  |-> post.xi_sum,
         denom     |-> [i \in K |-> SumOver(K, LAMBDA j : post.xi_sum[i][j])],
         means     |-> [k \in K |-> [d \in DOMAIN obs[1] |->
                          SumOver(DOMAIN obs, LAMBDA t : post.gamma[t][k] * obs[t][d])]],
         nk        |-> [k \in K |-> nk(k)]]

_viterbi(params, b) ==
    LET delta[t \in 1..Len(b)] ==
            LET prev == delta[t - 1]
            IN  Row([j \in States(params) |->
                b[t][j] * (IF t = 1 THEN params.startprob[j]
                           ELSE Max({prev[i] * params.transmat[i][j] : i \in States(params)}))])
        psi(t, j) == Argmax(Row([i \in States(params) |-> delta[t - 1][i] * params.transmat[i][j]]))
        path[t \in 1..Len(b)] ==
            IF t = Len(b) THEN Argmax(delta[t]) ELSE psi(t + 1, path[t + 1])
    IN  path
-----------------------------------------------------------------------------
\* Only the forward pass: the weights of the states at t given the rows up to t.
filter_proba(params, obs) == _forward(params, _log_gaussian(obs, params))

\* Smoothed: the weights at t given all rows, later ones too.
predict_proba(params, obs) ==
    LET b == _log_gaussian(obs, params)
    IN  _posteriors(params, b, _forward(params, b), _backward(params, b)).gamma

\* The most likely path.
predict(params, obs) == _viterbi(params, _log_gaussian(obs, params))

\* The states by mean return, worst first; equal ones as they are numbered.
Worse(params, j, k) ==
    \/ params.means[j][1] < params.means[k][1]
    \/ params.means[j][1] = params.means[k][1] /\ j < k
regime_order(params) ==
    [r \in States(params) |-> CHOOSE k \in States(params) :
        Cardinality({j \in States(params) : j = k \/ Worse(params, j, k)}) = r]
-----------------------------------------------------------------------------
\* What the recursions should compute, from their definition: sums and maxima
\* over all state paths.  The paths are numbered: the state of path c at t is a
\* digit of c.
StateAt(K, c, t) == (((c - 1) \div K ^ (t - 1)) % K) + 1
PathWeight(params, b, c) ==
    LET at(t) == StateAt(Len(params.means), c, t)
        w[t \in 1..Len(b)] ==
            b[t][at(t)] * (IF t = 1 THEN params.startprob[at(1)]
                           ELSE params.transmat[at(t - 1)][at(t)] * w[t - 1])
    IN  w[Len(b)]

\* The likelihood, the smoothed and filtered weights, the expected transitions
\* and the best path, and the M-step they feed (its transition rows add up to
\* one, its means lie between the smallest and the largest row).
HmmExact(params, obs) ==
    LET b == _log_gaussian(obs, params)
        T == Len(b)
        K == States(params)
        n_paths == Len(params.means) ^ T
        state == Row([c \in 1..n_paths |-> Row([t \in 1..T |-> StateAt(Len(params.means), c, t)])])
        weight == Row([c \in 1..n_paths |-> PathWeight(params, b, c)])
        Mass(Of(_)) == LET upto[c \in 0..n_paths] == IF c = 0 THEN 0 ELSE
                               upto[c - 1] + (IF Of(state[c]) THEN weight[c] ELSE 0)
                       IN  upto[n_paths]
        alpha == Row(_forward(params, b))
        post == _posteriors(params, b, alpha, Row(_backward(params, b)))
        best == Row(_viterbi(params, b))
        next == _m_step(obs, post)
    IN  /\ \A k \in K : alpha[T][k] = Mass(LAMBDA p : p[T] = k)
        /\ \A t \in 1..T, k \in K : post.gamma[t][k] = Mass(LAMBDA p : p[t] = k)
        /\ \A i, j \in K :
              post.xi_sum[i][j] = SumOver(1..(T - 1), LAMBDA t : Mass(LAMBDA p : p[t] = i /\ p[t + 1] = j))
        /\ \E c \in 1..n_paths : state[c] = best /\ \A d \in 1..n_paths : weight[d] <= weight[c]
        /\ \A k \in K : next.denom[k] = next.nk[k] - post.gamma[T][k]
        /\ \A k \in K, d \in DOMAIN obs[1] :
              /\ next.means[k][d] >= next.nk[k] * Min({obs[t][d] : t \in 1..T})
              /\ next.means[k][d] <= next.nk[k] * Max({obs[t][d] : t \in 1..T})
=============================================================================
