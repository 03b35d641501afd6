------------------------------- MODULE Bocpd -------------------------------
(***************************************************************************)
(* python/quantis/models/bocpd.py: online changepoint detection.  Joint    *)
(* weights of run lengths are integers, never normalised; a run length's   *)
(* Normal-Inverse-Gamma statistics start from the default prior (0, 1, 1,  *)
(* 1) and are kept as integers: kappa, kappa * mu, 2 * alpha, Unit * beta. *)
(***************************************************************************)
EXTENDS Integers, SequencesExt

CONSTANTS HazardLambda,     \* hazard_lambda: a changepoint has weight 1 of HazardLambda
          MaxRunLength      \* max_run_length: the cap on run lengths

ASSUME BocpdAssumption == HazardLambda \in Nat \ {0, 1} /\ MaxRunLength \in Nat \ {0, 1}

Unit == 120     \* divisible by 2 kappa (kappa + 1) up to kappa = 5
Prior == [kappa |-> 1, kmu |-> 0, alpha2 |-> 2, beta |-> Unit]
LOCAL Sq(x) == x * x

_nig_update(x, s) ==
    [kappa  |-> s.kappa + 1,
     kmu    |-> s.kmu + x,
     alpha2 |-> s.alpha2 + 1,
     beta   |-> s.beta + Sq(s.kappa * x - s.kmu) * (Unit \div (2 * s.kappa * (s.kappa + 1)))]

\* The Student-t predictive density, kept as two levels: within its scale,
\* beta (kappa + 1) / (alpha kappa), of the mean or further away.
_student_t(x, s) ==
    IF Sq(s.kappa * x - s.kmu) * Unit * s.alpha2 <= 2 * s.beta * (s.kappa + 1) * s.kappa THEN 2 ELSE 1

Start == [joint |-> <<1>>, stats |-> <<Prior>>]

\* One bar: every run length grows by one or falls to zero, its statistics
\* absorb the bar, and the longest goes when the cap is reached.
Cut(seq) == SubSeq(seq, 1, Min({Len(seq), MaxRunLength}))
Absorb(belief, x) ==
    LET pred == [r \in DOMAIN belief.joint |-> belief.joint[r] * _student_t(x, belief.stats[r])]
        growth == [r \in DOMAIN pred |-> pred[r] * (HazardLambda - 1)]
        log_cp == SumFunction(pred)
    IN  [joint |-> Cut(<<log_cp>> \o growth),
         stats |-> Cut(<<Prior>> \o [r \in DOMAIN pred |-> _nig_update(x, belief.stats[r])])]

\* The beliefs after each bar.
fit_predict(obs) ==
    LET belief[t \in 0..Len(obs)] == IF t = 0 THEN Start ELSE Absorb(belief[t - 1], obs[t])
    IN  [t \in 1..Len(obs) |-> belief[t]]

\* np.argmax over run lengths 0, 1, ...
MapRunLength(belief) ==
    LET j == belief.joint
    IN  (CHOOSE r \in DOMAIN j : /\ \A q \in DOMAIN j : j[q] <= j[r]
                                 /\ \A q \in 1..(r - 1) : j[q] < j[r]) - 1
-----------------------------------------------------------------------------
\* What the recursion should compute, from its definition: a history says at
\* which bars the run length fell to zero, and has the weight of its bars.
RunStart(changes, t) == Max({0} \cup {c \in changes : c < t})
SegmentStats(obs, from, to) ==
    LET seg == SubSeq(obs, from, to)
        kappa == 1 + Len(seg)
        sum == SumFunction(seg)
    IN  [kappa |-> kappa, kmu |-> sum, alpha2 |-> 2 + Len(seg),
         beta |-> Unit + (Unit \div 2) * SumFunction([i \in DOMAIN seg |-> Sq(seg[i])])
                       - (Unit \div (2 * kappa)) * Sq(sum)]
HistoryWeight(obs, changes) ==
    FoldLeft(LAMBDA w, t : w * _student_t(obs[t], SegmentStats(obs, RunStart(changes, t) + 1, t - 1))
                             * (IF t \in changes THEN 1 ELSE HazardLambda - 1),
             1, [t \in DOMAIN obs |-> t])

\* A run length's statistics are those of exactly the bars since the run began,
\* and its weight is that of all histories, none of whose runs passed the cap.
BocpdExact(obs) ==
    LET T == Len(obs)
        belief == Last(<<Start>> \o fit_predict(obs))
        Histories == {c \in SUBSET (1..T) : \A t \in 1..T :
                        t - RunStart(c, t + 1) <= MaxRunLength - 1}
        Ending(r) == {c \in Histories : T - RunStart(c, T + 1) = r}
    IN  /\ Len(belief.joint) = Min({T + 1, MaxRunLength})
        /\ \A r \in DOMAIN belief.joint :
              /\ belief.stats[r] = SegmentStats(obs, T - r + 2, T)
              /\ belief.joint[r] = MapThenSumSet(LAMBDA c : HistoryWeight(obs, c), Ending(r - 1))
=============================================================================
