-------------------------- MODULE MCResearchStream --------------------------
(* Three regimes and one-letter bars; two models, one that moves between      *)
(* regimes easily and one that stays.                                         *)
EXTENDS ResearchStream

LOCAL Means == <<<<0, 1>>, <<-1, 1>>, <<1, 2>>>>
LOCAL Variances == <<<<0, 1>>, <<1, 4>>, <<1, 1>>>>
LOCAL HmmParams(start, trans) ==
    [startprob |-> start, transmat |-> trans, means |-> Means, variances |-> Variances]
MCModels == {HmmParams(<<1, 1, 1>>, <<<<2, 1, 1>>, <<1, 2, 1>>, <<1, 1, 2>>>>),
             HmmParams(<<2, 1, 1>>, <<<<1, 1, 2>>, <<0, 3, 1>>, <<1, 0, 3>>>>)}
MCSteps == {-1, 0, 1}
MCSpecs == [name : _REGISTRY, param : {1, 2}]
MCWalkPlans == [train_min : {5, 6}, test_window : {2, 3, 5}, step : {1, 2, 4}]

MCColumns == {<<1, -1, 2, 1, 0, 1, -1, 1>>, <<1, 1, 1, 1, 1, 1, 1, 1>>,
              <<-1, 0, -1, -2, 1, -1, 0, -1>>, <<2, 2, -1, -1, 2, -2, 0, 0>>,
              <<0, 0, 0, 0, 0, 0, 0, 0>>, <<1, 2, 1>>}
MCResamples == {<<1, 2, 3, 4, 5, 6, 7, 8>>, <<3, 4, 5, 1, 2, 3, 4, 5>>, <<7, 8, 1, 2, 6, 4, 5, 6>>}
=============================================================================
