-------------------------- MODULE ResearchStudies --------------------------
(***************************************************************************)
(* The research scripts and what they leave on disk: four studies, each    *)
(* with its trial log and its artifact, the strategy comparison, the       *)
(* consolidated report, and the three scripts that reveal the holdout.     *)
(* One terminal runs them one at a time, alone or through make research,   *)
(* and a script may die between any two writes or in the middle of one.    *)
(***************************************************************************)
EXTENDS ResearchData

CONSTANTS RegimeGrid,    \* _VOL_WINDOWS x _N_STATES of regime_search: configurations
          ShortGrid,     \* the same of short_eval
          OverlayGrid,   \* _HAZARDS x _MIN_RUN_LENGTHS
          SizingGrid,    \* the sizing variants
          SlicePad,      \* the bars a slice starts before its warm-up (5)
          TrainMin, TestWindow, WalkStep, MinOos,
                         \* the walk of evaluate_funding_impact: its train_min,
                         \* test_window and step, and the default min_oos
          MaxJobs,       \* bound: scripts or makes started from the terminal
          MaxDeaths      \* bound: scripts that die

\* A trial is known by its name in every log; each study tries something, and
\* every window leaves a row of the research partition with a return after it.
GridNames == [i \in DOMAIN RegimeGrid |-> RegimeGrid[i].name]
                 \o OverlayGrid \o SizingGrid
                 \o [i \in DOMAIN ShortGrid |-> ShortGrid[i].name]
ASSUME GridAssumption ==
    /\ {RegimeGrid, ShortGrid}
           \subseteq Seq([name : STRING, vol_window : 1..(Boundary - 2)]) \ {<<>>}
    /\ {OverlayGrid, SizingGrid} \subseteq Seq(STRING) \ {<<>>}
    /\ IsInjective(GridNames)
    /\ SlicePad \in Nat /\ VolWindow <= Boundary - 2
ASSUME WalkArgsAssumption ==
    /\ TrainMin \in Nat /\ TrainMin > VolWindow + 2
    /\ MinOos \in Nat \ {0} /\ TestWindow \in Nat /\ TestWindow >= MinOos
    /\ WalkStep \in Nat \ {0}

VARIABLES trial_log,   \* per study, the lines of its log
          artifact,    \* per study, its JSON artifact
          report,      \* research-report.json
          chart,       \* strategy-comparison.png
          revealed,    \* per holdout script, the JSON file or plot it writes
          job,         \* the running script
          queue,       \* the scripts still to run
          by_make,     \* history: they are those of make research
          jobs, deaths

filesVars == <<trial_log, artifact, report, chart, revealed>>
studyVars == <<filesVars, job, queue, by_make, jobs, deaths>>

Studies == <<"regime_search", "ensemble_eval", "sizing_eval", "short_eval">>
StudyNames == BarsOf(Studies)
MakeResearch == Studies \o <<"compare_strategies", "research_report">>
HoldoutScripts == {"evaluate_holdout", "evaluate_funding_impact", "full_history_chart"}

None == [kind |-> "none"]
Torn == [kind |-> "torn"]      \* a file, or the last line of one, cut by a crash
Idle == [script |-> "idle"]
-----------------------------------------------------------------------------
\* Which bars a trial is fitted on, sees, and is scored over.  The studies
\* split the research partition in two and never call load_research: they cut
\* close at the manifest's boundary.
TrainEnd == Boundary \div 2
SliceStart(vol_window) ==
    LET start == TrainEnd - (vol_window + SlicePad) IN IF start < 0 THEN 0 ELSE start
OosRows(start, vol_window) ==
    {start + r : r \in CandleIndex(Boundary - start, vol_window)} \ 0..(TrainEnd - 1)

Trial(bars, name, start, rows) ==
    [name |-> name,
     fit  |-> BarsOf(Slice(bars, 0, TrainEnd)),
     seen |-> BarsOf(Slice(bars, start, Boundary)),
     rows |-> {bars[r + 1].day : r \in rows}]

\* Every configuration is evaluated on one slice, warm for the longest window,
\* and cut down to the days all of them have.
RegimeTrials(bars) ==
    LET start == SliceStart(Max({cfg.vol_window : cfg \in BarsOf(RegimeGrid)}))
        rows(cfg) == OosRows(start, cfg.vol_window)
        common == {r \in 0..Boundary : \A cfg \in BarsOf(RegimeGrid) : r \in rows(cfg)}
    IN  [i \in DOMAIN RegimeGrid |->
            Trial(bars, RegimeGrid[i].name, start, rows(RegimeGrid[i]) \cap common)]

\* Here every configuration has a slice of its own.
ShortTrials(bars) ==
    LET rows(cfg) == OosRows(SliceStart(cfg.vol_window), cfg.vol_window)
        common == {r \in 0..Boundary : \A cfg \in BarsOf(ShortGrid) : r \in rows(cfg)}
    IN  [i \in DOMAIN ShortGrid |->
            Trial(bars, ShortGrid[i].name, SliceStart(ShortGrid[i].vol_window),
                  rows(ShortGrid[i]) \cap common)]

\* The overlays and the sizing variants share one model and one slice; each
\* asserts that its rows are those of the baseline.
SharedRows == OosRows(SliceStart(VolWindow), VolWindow)
OverlayTrials(bars) ==
    [i \in DOMAIN OverlayGrid |->
        Trial(bars, OverlayGrid[i], SliceStart(VolWindow), SharedRows)]
SizingTrials(bars) ==
    [i \in DOMAIN SizingGrid |->
        Trial(bars, SizingGrid[i], SliceStart(VolWindow), SharedRows)]

TrialsOf(study, bars) ==
    CASE study = "regime_search" -> RegimeTrials(bars)
      [] study = "ensemble_eval" -> OverlayTrials(bars)
      [] study = "sizing_eval"   -> SizingTrials(bars)
      [] study = "short_eval"    -> ShortTrials(bars)

\* The bars a study's walk-forward evaluation is given: those of the research
\* partition; regime_search has none.
Walked(study, bars) ==
    IF study = "regime_search" THEN {} ELSE BarsOf(Slice(bars, 0, Boundary))
-----------------------------------------------------------------------------
\* TrialLog.load fails on a line that is not JSON; a missing file is empty.
LogLoads(lines) == \A k \in DOMAIN lines : lines[k] # Torn

\* TrialLog.append opens the file at its end: after a torn line the new trial is
\* written on that line.
AppendTo(lines, trial) ==
    IF lines # <<>> /\ Last(lines) = Torn THEN lines ELSE Append(lines, trial)

\* A script that takes long enough to die half way keeps its place in pc; done
\* is how many trials are logged.
StudyJob(study) ==
    [script |-> study, pc |-> "append", trials |-> TrialsOf(study, load_candles),
     done |-> 0, walked |-> Walked(study, load_candles)]

StudiesInit ==
    /\ DataInit
    /\ trial_log = [s \in StudyNames |-> <<>>]
    /\ artifact = [s \in StudyNames |-> None]
    /\ report = None /\ chart = None
    /\ revealed = [s \in HoldoutScripts |-> None]
    /\ job = Idle /\ queue = <<>> /\ by_make = FALSE
    /\ jobs = 0 /\ deaths = 0

\* make stops at the first script that fails.
Finish == job' = Idle /\ UNCHANGED <<queue, by_make>>
(* MUTANT of Fail: make goes on with the next script. *)
Fail_goes_on == job' = Idle /\ UNCHANGED <<queue, by_make>>
Fail == job' = Idle /\ queue' = <<>> /\ by_make' = FALSE
Proceed == queue' = Tail(queue) /\ UNCHANGED by_make

\* The terminal starts make or one script.
Launch(scripts) ==
    /\ job = Idle /\ queue = <<>>
    /\ jobs < MaxJobs
    /\ jobs' = jobs + 1
    /\ queue' = scripts
    /\ by_make' = (scripts = MakeResearch)
    /\ UNCHANGED <<filesVars, job, deaths, candles>>
-----------------------------------------------------------------------------
Starting(script) == job = Idle /\ queue # <<>> /\ Head(queue) = script

(* MUTANT of StartStudy: the old log stays, the trials are appended to it. *)
StartStudy_keeps_log(study) ==
    /\ Starting(study)
    /\ job' = StudyJob(study)
    /\ Proceed
    /\ UNCHANGED <<filesVars, jobs, deaths, candles>>

\* main loads the candles, evaluates, and removes the old log.
StartStudy(study) ==
    /\ Starting(study)
    /\ job' = StudyJob(study)
    /\ trial_log' = [trial_log EXCEPT ![study] = <<>>]
    /\ Proceed
    /\ UNCHANGED <<artifact, report, chart, revealed, jobs, deaths, candles>>

AppendTrial(study) ==
    /\ job # Idle /\ job.script = study /\ job.pc = "append"
    /\ job.done < Len(job.trials)
    /\ trial_log' = [trial_log EXCEPT ![study] = AppendTo(@, job.trials[job.done + 1])]
    /\ job' = [job EXCEPT !.done = @ + 1]
    /\ UNCHANGED <<artifact, report, chart, revealed, queue, by_make, jobs, deaths, candles>>

\* The corrections: log.sharpes reads back from the log what the best trial is
\* deflated by; then the artifact replaces the old one.
WriteArtifact(study) ==
    /\ job # Idle /\ job.script = study /\ job.pc = "append"
    /\ job.done = Len(job.trials)
    /\ IF LogLoads(trial_log[study])
       THEN /\ artifact' = [artifact EXCEPT ![study] =
                  [kind |-> "artifact", trials |-> job.trials, walked |-> job.walked,
                   deflated_by |-> trial_log[study]]]
            /\ Finish
       ELSE /\ UNCHANGED artifact
            /\ Fail
    /\ UNCHANGED <<trial_log, report, chart, revealed, jobs, deaths, candles>>

\* compare_strategies draws every strategy over the rows of the shared slice.
CompareStrategies ==
    /\ Starting("compare_strategies")
    /\ chart' = Trial(load_candles, "comparison", SliceStart(VolWindow), SharedRows)
    /\ Proceed
    /\ UNCHANGED <<trial_log, artifact, report, revealed, job, jobs, deaths, candles>>
-----------------------------------------------------------------------------
\* The report covers the studies whose artifact is there.
LoadPresent == {s \in StudyNames : artifact[s] # None}
ReportReads(present) ==
    \A s \in present : artifact[s] # Torn /\ LogLoads(trial_log[s])

StudyRow(study) ==
    [n_trials |-> Len(trial_log[study]), dsr_over |-> Len(artifact[study].deflated_by)]

\* Every logged trial of the studies present, in one search.
GlobalTrials(present) ==
    LET records(s) == IF s \in present THEN trial_log[s] ELSE <<>>
    IN  records("regime_search") \o records("ensemble_eval")
            \o records("sizing_eval") \o records("short_eval")

StartReport ==
    /\ Starting("research_report")
    /\ LET present == LoadPresent
       IN  IF present = {} \/ ~ReportReads(present) \/ GlobalTrials(present) = <<>>
           THEN Fail
           ELSE /\ job' = [script |-> "research_report", pc |-> "write",
                           rows |-> [s \in present |-> StudyRow(s)],
                           pool |-> GlobalTrials(present)]
                /\ Proceed
    /\ UNCHANGED <<filesVars, jobs, deaths, candles>>

WriteReport ==
    /\ job # Idle /\ job.script = "research_report"
    /\ report' = [kind |-> "report", rows |-> job.rows, pool |-> job.pool, by_make |-> by_make]
    /\ Finish
    /\ UNCHANGED <<trial_log, artifact, chart, revealed, jobs, deaths, candles>>
-----------------------------------------------------------------------------
\* The bars a strategy is scored on, for a slice given to it alone.
ScoredBars(bars) == {bars[r + 1] : r \in CandleIndex(Len(bars), VolWindow)}

\* What the three scripts that reveal the holdout have in common: a model fitted
\* on the research partition, scored on the rows of the holdout.
HoldoutPart(bars) ==
    LET holdout == reveal_holdout(bars)
    IN  [fit |-> BarsOf(load_research(bars)), seen |-> BarsOf(holdout),
         scored |-> ScoredBars(holdout)]

\* evaluate_funding_impact then walks forward over all of the file, the sealed
\* bars included; a window with too few rows is dropped.
WalkedWindows(bars) ==
    LET n == Len(bars)
        rows(train_end) == WindowRows(n, train_end, TestWindow)
        kept == {t \in TrainMin..(n - 2) : /\ (t - TrainMin) % WalkStep = 0
                                           /\ Cardinality(rows(t)) >= MinOos}
    IN  {[fit |-> BarsOf(Slice(bars, 0, t)), scored |-> {bars[g + 1] : g \in rows(t)}] : t \in kept}

\* full_history_chart draws the same model on the research partition as well.
HoldoutResult(script, bars) ==
    [kind      |-> "result",
     holdout   |-> HoldoutPart(bars),
     walked    |-> IF script = "evaluate_funding_impact" THEN WalkedWindows(bars) ELSE {},
     in_sample |-> IF script = "full_history_chart" THEN ScoredBars(load_research(bars)) ELSE {}]

(* MUTANT of VerifyHoldout: it is enough that sealed numbers are there. *)
VerifyHoldout_any_numbers(holdout) == revealed["evaluate_holdout"] \notin {None, Torn}

\* The chart is refused unless its holdout segment reproduces the numbers that
\* evaluate_holdout left on disk; other bars are taken to give other numbers.
VerifyHoldout(holdout) ==
    /\ revealed["evaluate_holdout"] \notin {None, Torn}
    /\ revealed["evaluate_holdout"].holdout = holdout

\* What stops a script after its data has loaded: a walk without a window, a
\* chart that does not reproduce the numbers.
Completes(script, result) ==
    /\ script = "evaluate_funding_impact" => result.walked # {}
    /\ script = "full_history_chart" => VerifyHoldout(result.holdout)

StartHoldout(script) ==
    /\ Starting(script)
    /\ LET result == HoldoutResult(script, load_candles)
       IN  IF /\ ResearchLoads(load_candles) /\ HoldoutReveals(load_candles)
              /\ Completes(script, result)
           THEN /\ job' = [script |-> script, pc |-> "write", result |-> result]
                /\ Proceed
           ELSE Fail
    /\ UNCHANGED <<filesVars, jobs, deaths, candles>>

WriteHoldout(script) ==
    /\ job.script = script
    /\ revealed' = [revealed EXCEPT ![script] = job.result]
    /\ Finish
    /\ UNCHANGED <<trial_log, artifact, report, chart, jobs, deaths, candles>>
-----------------------------------------------------------------------------
\* The script dies; what it was writing may be cut.
Die ==
    /\ job # Idle /\ deaths < MaxDeaths
    /\ deaths' = deaths + 1
    /\ Fail
    /\ UNCHANGED <<chart, jobs, candles>>

DieBetweenWrites == Die /\ UNCHANGED <<trial_log, artifact, report, revealed>>

DieAppending(study) ==
    /\ job.script = study
    /\ job.done < Len(job.trials)
    /\ Die
    /\ trial_log' = [trial_log EXCEPT ![study] = AppendTo(@, Torn)]
    /\ UNCHANGED <<artifact, report, revealed>>

DieWritingArtifact(study) ==
    /\ job.script = study
    /\ job.done = Len(job.trials)
    /\ Die
    /\ artifact' = [artifact EXCEPT ![study] = Torn]
    /\ UNCHANGED <<trial_log, report, revealed>>

DieWritingReport ==
    /\ job.script = "research_report"
    /\ Die
    /\ report' = Torn
    /\ UNCHANGED <<trial_log, artifact, revealed>>

DieRevealing(script) ==
    /\ job.script = script
    /\ Die
    /\ revealed' = [revealed EXCEPT ![script] = Torn]
    /\ UNCHANGED <<trial_log, artifact, report>>
-----------------------------------------------------------------------------
StudyStep(study) ==
    \/ Launch(<<study>>)
    \/ StartStudy(study) \/ AppendTrial(study) \/ WriteArtifact(study)
    \/ DieAppending(study) \/ DieWritingArtifact(study)

HoldoutStep(script) ==
    \/ Launch(<<script>>)
    \/ StartHoldout(script) \/ WriteHoldout(script) \/ DieRevealing(script)

StudiesNext ==
    \/ Launch(MakeResearch) \/ Launch(<<"research_report">>)
    \/ \E study \in StudyNames : StudyStep(study)
    \/ CompareStrategies
    \/ StartReport \/ WriteReport \/ DieWritingReport
    \/ \E script \in HoldoutScripts : HoldoutStep(script)
    \/ DieBetweenWrites
-----------------------------------------------------------------------------
Grids == [regime_search |-> RegimeGrid, ensemble_eval |-> OverlayGrid,
          sizing_eval |-> SizingGrid, short_eval |-> ShortGrid]
Done(study) == artifact[study] \notin {None, Torn}

\* The Sharpe ratio in an artifact was deflated by the trials of the search that
\* produced it, each once: nothing of an earlier or interrupted run is in the
\* log it was read from.  Those trials are scored over the same days, some days,
\* and none of them a day the model was fitted on, whatever their warm-up.
ArtifactsSound ==
    \A study \in StudyNames : Done(study) =>
        LET trials == artifact[study].trials
        IN  /\ artifact[study].deflated_by = trials
            /\ \A t, u \in BarsOf(trials) :
                  /\ t.rows = u.rows /\ t.rows # {}
                  /\ t.rows \cap {bar.day : bar \in t.fit} = {}

\* A report that make research has reached covers the four studies, corrects
\* for every trial of their grids exactly once, and shows beside each deflated
\* ratio the number of trials it was deflated by, whatever interrupted runs had
\* left behind.
ReportCountsEveryTrial ==
    (report \notin {None, Torn} /\ report.by_make) =>
        /\ DOMAIN report.rows = StudyNames
        /\ \A s \in StudyNames : /\ report.rows[s].n_trials = Len(Grids[s])
                                 /\ report.rows[s].dsr_over = report.rows[s].n_trials
        /\ Len(report.pool) = Len(RegimeGrid) + Len(OverlayGrid) + Len(SizingGrid)
                                  + Len(ShortGrid)
        /\ IsInjective([i \in DOMAIN report.pool |-> report.pool[i].name])

\* Whatever happened to the candle file, what was published for the holdout was
\* computed on exactly the bars that were sealed, by a model fitted on none of
\* them, and the in-sample half of the chart is about none of them.  The windows
\* evaluate_funding_impact publishes next to it are no part of that: each is
\* scored on bars its own model was not fitted on, but they walk over the whole
\* file, so they may be fitted and scored on sealed bars.
HoldoutResultsSound ==
    \A script \in HoldoutScripts :
        LET result == revealed[script]
        IN  result \notin {None, Torn} =>
                /\ result.holdout.seen = SealedBars
                /\ result.holdout.fit \cap SealedBars = {}
                /\ result.in_sample \cap SealedBars = {}
                /\ \A w \in result.walked : w.scored \cap w.fit = {}
=============================================================================
