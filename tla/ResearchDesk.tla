---------------------------- MODULE ResearchDesk ----------------------------
(***************************************************************************)
(* The research desk: the studies and the daily signal work from the same  *)
(* candle file, which new days keep changing after the holdout was sealed. *)
(***************************************************************************)
EXTENDS ResearchStudies, SignalLog

vars == <<candles, studyVars, signalVars>>

Init == StudiesInit /\ SignalInit

Next ==
    \/ DataNext /\ UNCHANGED <<studyVars, signalVars>>
    \/ StudiesNext /\ UNCHANGED signalVars
    \/ SignalNext /\ UNCHANGED studyVars

Spec == Init /\ [][Next]_vars
-----------------------------------------------------------------------------
\* Day by day appending is the only thing that has happened to the file.
OnlyExtended ==
    SubSeq(candles, 1, SealedDays) = SealedFile

\* What the studies learn from.
AllTrials ==
    (UNION {BarsOf(trial_log[s]) \ {Torn} : s \in StudyNames})
        \cup {t \in {chart} : t # None}

\* As long as the candle file only grows at its end, no trial and no chart has
\* been fitted on a sealed bar or has looked at one, its warm-up included, and no
\* study has walked forward over one: the studies slice close at the boundary,
\* they do not call load_research.
HoldoutStaysSealed ==
    OnlyExtended =>
        /\ \A t \in AllTrials : (t.fit \cup t.seen) \cap SealedBars = {}
        /\ \A s \in StudyNames : artifact[s] \notin {None, Torn} =>
              /\ artifact[s].walked \cap SealedBars = {}
              /\ \A t \in BarsOf(artifact[s].trials) : t.seen \cap SealedBars = {}

\* The holdout is kept: what the studies learn from never meets it, and what was
\* published for it is computed on it.
HoldoutKept == HoldoutStaysSealed /\ HoldoutResultsSound

\* A chart reaches the disk only with a holdout segment that is, number by
\* number, what evaluate_holdout has published there: not after the research
\* bars the model is fitted on were restated, not without those numbers, not
\* from a file a crash has cut ("the chart cannot silently drift from the sealed
\* number").
ChartDrawn ==
    /\ revealed'["full_history_chart"] # revealed["full_history_chart"]
    /\ revealed'["full_history_chart"] # Torn
ChartIsPublished ==
    ChartDrawn =>
        /\ revealed["evaluate_holdout"] \notin {None, Torn}
        /\ revealed'["full_history_chart"].holdout = revealed["evaluate_holdout"].holdout
ChartNeverDrifts == [][ChartIsPublished]_vars
=============================================================================
