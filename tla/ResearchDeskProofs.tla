------------------------- MODULE ResearchDeskProofs -------------------------
(***************************************************************************)
(* Proofs about the research desk, for any grids, fractions and numbers of *)
(* days, and for any order of scripts, deaths, new days and restatements:  *)
(* the signal log and its review, the artifacts of the studies, the report *)
(* of make research, and the holdout.                                      *)
(***************************************************************************)
EXTENDS ResearchDesk, BasicLemmas

-----------------------------------------------------------------------------
(* The inductive invariant, part by part.                                  *)

Bars == [day : Nat \ {0}, rev : {0, 1}]

\* The file never has two bars of one day, and never fewer bars than when it was
\* sealed: a download that drops the oldest day brings a new one.
FileOK(file) ==
    /\ file \in Seq(Bars)
    /\ Len(file) >= SealedDays
    /\ \A i, j \in 1..Len(file) : file[i].day = file[j].day => i = j
FileInv == FileOK(candles)

\* The signal log: what a row must be for the row before it.
LoggedRows == [date : Nat \ {0}, target : {"LONG", "FLAT"},
               action : {"ENTER", "EXIT", "HOLD"}, trained_through : Nat]
Follows(prev, row) ==
    /\ row.trained_through <= row.date
    /\ prev.date < row.date
    /\ row.action = ActionFrom(prev.target, row.target)

LogTyped ==
    /\ signal_log \in [made : BOOLEAN, lines : Seq({Header} \cup LoggedRows)]
    /\ \A i \in 2..Len(signal_log.lines) : signal_log.lines[i] \in LoggedRows
    /\ ~signal_log.made => signal_log.lines = <<>>

\* No model has been trained on a day that is not in the file yet.
ModelInv == frozen \in {NoModel, CutModel} \cup {Model(day) : day \in 0..LastDay}

CommandTyped ==
    \/ signal = NoCommand
    \/ signal \in [cmd : {"freeze"}, trained_through : 0..LastDay]
    \/ /\ signal \in [cmd : {"signal"}, pc : {"read"}, date : 1..LastDay,
                      target : {"LONG", "FLAT"}, trained_through : Nat]
       /\ signal.trained_through <= signal.date
    \/ /\ signal \in [cmd : {"signal"}, pc : {"append"}, row : LoggedRows]
       /\ signal.row.date <= LastDay

\* As long as the header is there: each row follows the one before it, no row is
\* later than the file, and the running command has not scored an older bar
\* than the last one logged.
RowsFollow ==
    /\ \A i \in 2..Len(signal_log.lines) : Follows(signal_log.lines[i - 1], signal_log.lines[i])
    /\ LastLogged.date <= LastDay
CommandFollows ==
    /\ (signal.cmd = "signal" /\ signal.pc = "read") => LastLogged.date <= signal.date
    /\ (signal.cmd = "signal" /\ signal.pc = "append") => Follows(LastLogged, signal.row)

SignalInv ==
    LogTyped /\ ModelInv /\ CommandTyped /\ (Headed => RowsFollow /\ CommandFollows)

\* The studies.
TrialNames == STRING \cup {"comparison"}
Trials == [name : TrialNames, fit : SUBSET Bars, seen : SUBSET Bars, rows : SUBSET Nat]
NamesOf ==
    [regime_search |-> [i \in DOMAIN RegimeGrid |-> RegimeGrid[i].name],
     ensemble_eval |-> OverlayGrid,
     sizing_eval   |-> SizingGrid,
     short_eval    |-> [i \in DOMAIN ShortGrid |-> ShortGrid[i].name]]

\* While the file has only grown at its end, these bars are not sealed ones.
Unsealed(bars) == OnlyExtended => bars \cap SealedBars = {}
TrialUnsealed(t) == Unsealed(t.fit \cup t.seen)

\* The trials of one run of a study over its whole grid.
Named(trials) == [i \in DOMAIN trials |-> trials[i].name]
SoundSearch(study, trials) ==
    /\ trials \in Seq(Trials)
    /\ Named(trials) = NamesOf[study]
    /\ \A t, u \in BarsOf(trials) :
          /\ t.rows = u.rows /\ t.rows # {}
          /\ t.rows \cap {bar.day : bar \in t.fit} = {}
SearchOf(study, trials) ==
    SoundSearch(study, trials) /\ \A t \in BarsOf(trials) : TrialUnsealed(t)

LogsInv ==
    /\ trial_log \in [StudyNames -> Seq(Trials \cup {Torn})]
    /\ \A s \in StudyNames : \A t \in BarsOf(trial_log[s]) : t # Torn => TrialUnsealed(t)

Artifacts == [kind : {"artifact"}, trials : Seq(Trials), walked : SUBSET Bars,
              deflated_by : Seq(Trials \cup {Torn})]
ArtifactInv ==
    /\ artifact \in [StudyNames -> {None, Torn} \cup Artifacts]
    /\ \A s \in StudyNames : Done(s) =>
          /\ SearchOf(s, artifact[s].trials)
          /\ artifact[s].deflated_by = artifact[s].trials
          /\ Unsealed(artifact[s].walked)

ChartInv == chart = None \/ (chart \in Trials /\ TrialUnsealed(chart))

\* A result of the holdout is about exactly the sealed bars; no window beside it
\* is scored on a bar its model was fitted on.
SoundResult(result) ==
    /\ result.holdout.seen = SealedBars
    /\ result.holdout.fit \cap SealedBars = {}
    /\ result.in_sample \cap SealedBars = {}
    /\ \A w \in result.walked : w.scored \cap w.fit = {}
RevealedInv ==
    /\ revealed = [h \in HoldoutScripts |-> revealed[h]]
    /\ \A h \in HoldoutScripts : revealed[h] \notin {None, Torn} => SoundResult(revealed[h])

\* What a report of a whole make research says.
CountsEveryTrial(rows, pool) ==
    /\ DOMAIN rows = StudyNames
    /\ \A s \in StudyNames : /\ rows[s].n_trials = Len(Grids[s])
                             /\ rows[s].dsr_over = rows[s].n_trials
    /\ Len(pool) = Len(RegimeGrid) + Len(OverlayGrid) + Len(SizingGrid) + Len(ShortGrid)
    /\ IsInjective([i \in DOMAIN pool |-> pool[i].name])

\* The log of a running study holds the trials it has done, and nothing else.
StudyJobs == [script : StudyNames, pc : {"append"}, trials : Seq(Trials), done : Nat,
              walked : SUBSET Bars]
StudyRunning ==
    /\ job \in StudyJobs
    /\ SearchOf(job.script, job.trials)
    /\ Unsealed(job.walked)
    /\ job.done <= Len(job.trials)
    /\ trial_log[job.script] = SubSeq(job.trials, 1, job.done)
ReportRunning ==
    /\ job.script = "research_report"
    /\ by_make => CountsEveryTrial(job.rows, job.pool)
HoldoutRunning ==
    /\ job.script \in HoldoutScripts
    /\ SoundResult(job.result)
    /\ job.script = "full_history_chart" => VerifyHoldout(job.result.holdout)
JobInv == job = Idle \/ StudyRunning \/ ReportRunning \/ HoldoutRunning

\* A study is complete when its artifact and its log come from one run.
Complete(study) == Done(study) /\ trial_log[study] = artifact[study].deflated_by

\* make research has started its first k scripts: all studies among them but the
\* one that runs are complete.
MakeAt(k) ==
    /\ queue = SubSeq(MakeResearch, k + 1, 6)
    /\ job # Idle => k >= 1 /\ job.script = MakeResearch[k]
    /\ \A i \in 1..4 : (i <= k /\ job.script # Studies[i]) => Complete(Studies[i])
MakeInv ==
    /\ by_make \in BOOLEAN
    /\ by_make => \E k \in 0..6 : MakeAt(k)

StudiesInv == /\ LogsInv /\ ArtifactInv /\ ChartInv /\ RevealedInv /\ JobInv /\ MakeInv
              /\ ReportCountsEveryTrial

DeskInv == FileInv /\ SignalInv /\ StudiesInv

-----------------------------------------------------------------------------
(* The candle file and what load_candles makes of it.                      *)

\* The place of row i in the sorted file.
Place(i) == Cardinality({j \in DOMAIN candles : j = i \/ Earlier(j, i)})

LEMMA FileTypes ==
    ASSUME FileInv
    PROVE  /\ Len(candles) \in Nat /\ DOMAIN candles = 1..Len(candles)
           /\ \A i \in 1..Len(candles) : candles[i] \in Bars /\ candles[i].day \in Nat \ {0}
  <1>1. Len(candles) \in Nat /\ DOMAIN candles = 1..Len(candles)
    BY LenProperties DEF FileInv, FileOK
  <1>2. \A i \in 1..Len(candles) : candles[i] \in Bars
    BY ElementOfSeq DEF FileInv, FileOK
  <1>3. \A bar \in Bars : bar.day \in Nat \ {0}
    BY DEF Bars
  <1>4. QED
    BY <1>1, <1>2, <1>3

(* Sorting puts every row at a place of its own, earlier days first.       *)
LEMMA Places ==
    ASSUME FileInv
    PROVE  /\ \A i \in 1..Len(candles) : Place(i) \in 1..Len(candles)
           /\ \A i, j \in 1..Len(candles) : candles[j].day < candles[i].day => Place(j) < Place(i)
           /\ \A k \in 1..Len(candles) : \E i \in 1..Len(candles) : Place(i) = k
  <1> DEFINE K == 1..Len(candles)
             R == {p \in K \X K : Earlier(p[1], p[2])}
  <1>1. Len(candles) \in Nat /\ DOMAIN candles = K
    BY FileTypes
  <1>2. IsFiniteSet(K) /\ Cardinality(K) = Len(candles)
    BY <1>1, Positions
  <1>3. \A i, j \in K : <<i, j>> \in R <=> Earlier(i, j)
    OBVIOUS
  <1>4. StrictlyOrders(R, K)
    <2>1. \A i \in K : candles[i].day \in Nat /\ i \in Nat
      BY FileTypes
    <2> HIDE DEF R
    <2>2. \A i \in K : <<i, i>> \notin R
      BY <2>1, <1>3 DEF Earlier
    <2>3. \A i, j \in K : i # j => <<i, j>> \in R \/ <<j, i>> \in R
      BY <2>1, <1>3 DEF Earlier
    <2>4. \A i, j, k \in K : <<i, j>> \in R /\ <<j, k>> \in R => <<i, k>> \in R
      <3> SUFFICES ASSUME NEW i \in K, NEW j \in K, NEW k \in K,
                          <<i, j>> \in R, <<j, k>> \in R
                   PROVE  <<i, k>> \in R
        OBVIOUS
      <3>1. Earlier(i, j) /\ Earlier(j, k)
        BY <1>3
      <3>2. /\ candles[i].day \in Nat /\ candles[j].day \in Nat /\ candles[k].day \in Nat
            /\ i \in Nat /\ j \in Nat /\ k \in Nat
        BY <2>1
      <3>3. Earlier(i, k)
        BY <3>1, <3>2 DEF Earlier
      <3>4. QED
        BY <1>3, <3>3
    <2>5. QED
      BY <2>2, <2>3, <2>4 DEF StrictlyOrders
  <1>5. \A i \in K : Place(i) = Cardinality(UpTo(R, K, i))
    <2> SUFFICES ASSUME NEW i \in K PROVE Place(i) = Cardinality(UpTo(R, K, i))
      OBVIOUS
    <2>1. UpTo(R, K, i) = {j \in K : j = i \/ Earlier(j, i)}
      BY <1>3 DEF UpTo
    <2>2. QED
      BY <2>1, <1>1 DEF Place
  <1>6. \A i, j \in K : candles[j].day < candles[i].day => <<j, i>> \in R
    BY <1>3 DEF Earlier
  <1> HIDE DEF R, K
  <1>7. /\ \A i \in K : Cardinality(UpTo(R, K, i)) \in 1..Cardinality(K)
        /\ \A i, j \in K : <<j, i>> \in R
                => Cardinality(UpTo(R, K, j)) < Cardinality(UpTo(R, K, i))
        /\ \A k \in 1..Cardinality(K) : \E i \in K : Cardinality(UpTo(R, K, i)) = k
    BY <1>2, <1>4, RanksOfAnOrder
  <1>8. QED
    BY <1>2, <1>5, <1>6, <1>7 DEF K

(* load_candles holds exactly the rows of the file, by increasing day.     *)
LEMMA SortedFile ==
    ASSUME FileInv
    PROVE  /\ load_candles \in Seq(Bars)
           /\ Len(load_candles) = Len(candles)
           /\ \A i \in 1..Len(candles) : Place(i) \in 1..Len(candles)
                                            /\ load_candles[Place(i)] = candles[i]
           /\ \A k \in 1..Len(candles) : \E i \in 1..Len(candles) :
                 Place(i) = k /\ load_candles[k] = candles[i]
           /\ \A j, k \in 1..Len(candles) : j < k => load_candles[j].day < load_candles[k].day
  <1> DEFINE K == 1..Len(candles)
             row(k) == CHOOSE i \in K : Place(i) = k
  <1>1. Len(candles) \in Nat /\ DOMAIN candles = K
    BY FileTypes
  <1>2. load_candles = [k \in K |-> candles[row(k)]]
    BY <1>1 DEF load_candles, Place
  <1>3. \A k \in K : row(k) \in K /\ Place(row(k)) = k
    BY Places
  <1>4. \A i, j \in K : Place(i) = Place(j) => i = j
    <2> SUFFICES ASSUME NEW i \in K, NEW j \in K, Place(i) = Place(j), i # j PROVE FALSE
      OBVIOUS
    <2>1. candles[i].day # candles[j].day
      BY DEF FileInv, FileOK
    <2>2. candles[i].day < candles[j].day \/ candles[j].day < candles[i].day
      BY <2>1, FileTypes
    <2>3. Place(i) < Place(j) \/ Place(j) < Place(i)
      BY <2>2, Places
    <2>4. Place(i) \in Nat
      BY Places
    <2>5. QED
      BY <2>3, <2>4
  <1>5. \A i \in K : Place(i) \in K /\ row(Place(i)) = i
    <2>1. \A i \in K : Place(i) \in K
      BY Places
    <2> HIDE DEF row, K
    <2>2. QED
      BY <2>1, <1>3, <1>4
  <1> HIDE DEF row
  <1>6. load_candles \in Seq(Bars) /\ Len(load_candles) = Len(candles)
    <2>1. \A k \in K : candles[row(k)] \in Bars
      BY <1>3, FileTypes
    <2>2. load_candles \in [K -> Bars]
      BY <1>2, <2>1
    <2>3. QED
      BY <2>2, <1>1
  <1>7. \A i \in K : load_candles[Place(i)] = candles[i]
    BY <1>2, <1>5
  <1>8. \A k \in K : load_candles[k] = candles[row(k)]
    BY <1>2
  <1>9. \A j, k \in K : j < k => load_candles[j].day < load_candles[k].day
    <2> SUFFICES ASSUME NEW j \in K, NEW k \in K, j < k
                 PROVE  candles[row(j)].day < candles[row(k)].day
      BY <1>8
    <2>1. row(j) \in K /\ row(k) \in K /\ Place(row(j)) = j /\ Place(row(k)) = k
      BY <1>3
    <2>2. row(j) # row(k)
      BY <2>1, <1>1
    <2>3. candles[row(j)].day # candles[row(k)].day
      BY <2>1, <2>2 DEF FileInv, FileOK
    <2>4. ASSUME candles[row(k)].day < candles[row(j)].day
          PROVE  FALSE
      <3>1. Place(row(k)) < Place(row(j))
        BY <2>1, <2>4, Places
      <3>2. QED
        BY <3>1, <2>1, <1>1
    <2>5. QED
      BY <2>1, <2>3, <2>4, FileTypes
  <1>10. QED
    BY <1>3, <1>5, <1>6, <1>7, <1>8, <1>9

(* The latest day of a file is the day of one of its bars.                 *)
LatestDay(file) == LET days == {bar.day : bar \in BarsOf(file)}
                   IN  CHOOSE d \in days : \A e \in days : e <= d

LEMMA LatestDayIs ==
    ASSUME NEW file, FileOK(file)
    PROVE  /\ LatestDay(file) \in Nat \ {0}
           /\ \A i \in 1..Len(file) : file[i].day <= LatestDay(file)
           /\ \E i \in 1..Len(file) : file[i].day = LatestDay(file)
  <1> DEFINE n == Len(file)
             days == {bar.day : bar \in BarsOf(file)}
             day == [i \in 1..n |-> file[i].day]
  <1>1. n \in Nat \ {0} /\ DOMAIN file = 1..n /\ \A i \in 1..n : file[i] \in Bars
    BY LenProperties, ElementOfSeq, SealAssumption DEF FileOK
  <1>2. \A i \in 1..n : file[i].day \in Nat \ {0}
    BY <1>1 DEF Bars
  <1>3. days = {file[i].day : i \in 1..n}
    BY <1>1 DEF BarsOf
  <1>4. days \in SUBSET Int /\ days # {}
    <2>1. 1 \in 1..n
      BY <1>1
    <2> HIDE DEF days
    <2>2. days \in SUBSET Int
      BY <1>2, <1>3
    <2>3. file[1].day \in days
      BY <2>1, <1>3
    <2>4. QED
      BY <2>2, <2>3
  <1>5. IsFiniteSet(days)
    <2>1. day \in Surjection(1..n, days)
      BY <1>3 DEF Surjection
    <2>2. IsFiniteSet(1..n)
      BY <1>1, Positions
    <2> HIDE DEF day, days
    <2>3. QED
      BY <2>1, <2>2, FS_Surjection
  <1>6. LatestDay(file) = CHOOSE d \in days : \A e \in days : e <= d
    BY DEF LatestDay
  <1>7. \E d \in days : \A e \in days : e <= d
    <2> HIDE DEF days
    <2>1. QED
      BY <1>4, <1>5, GreatestOfFinite
  <1>8. LatestDay(file) \in days /\ \A e \in days : e <= LatestDay(file)
    <2> HIDE DEF days
    <2>1. QED
      BY <1>6, <1>7
  <1>9. QED
    BY <1>2, <1>3, <1>8

LEMMA LastDayIs == LastDay = LatestDay(candles) /\ LastDay' = LatestDay(candles')
  BY DEF LastDay, LatestDay

(* The last bar of the sorted file is that of the last day.                *)
LEMMA LastBar ==
    ASSUME FileInv
    PROVE  load_candles[Len(candles)].day = LastDay
  <1> DEFINE n == Len(candles)
  <1>1. n \in 1..n
    BY FileTypes, SealAssumption DEF FileInv, FileOK
  <1>2. PICK i \in 1..n : load_candles[n] = candles[i]
    BY <1>1, SortedFile
  <1>3. PICK j \in 1..n : candles[j].day = LastDay
    BY LatestDayIs, LastDayIs DEF FileInv
  <1>4. candles[i].day <= candles[j].day
    BY <1>3, LatestDayIs, LastDayIs DEF FileInv
  <1>5. Place(j) \in 1..n /\ load_candles[Place(j)] = candles[j]
    BY SortedFile
  <1>6. Place(j) = n \/ Place(j) < n
    BY <1>5, FileTypes
  <1>7. candles[j].day = candles[i].day \/ candles[j].day < candles[i].day
    BY <1>1, <1>2, <1>5, <1>6, SortedFile
  <1>8. QED
    BY <1>2, <1>3, <1>4, <1>7, FileTypes

LEMMA SealedSizes ==
    /\ SealedDays \in Nat /\ Boundary \in 1..(SealedDays - 1)
    /\ Len(SealedFile) = SealedDays /\ DOMAIN SealedFile = 1..SealedDays
    /\ Manifest.n_total = SealedDays
    /\ Manifest.holdout_sha256 = SliceFrom(SealedFile, Boundary)
    /\ \A d \in 1..SealedDays : SealedFile[d] = Bar(d) /\ Bar(d) \in Bars /\ Bar(d).day = d
  <1>1. SealedDays \in Nat
    BY SealAssumption
  <1>2. SealedFile \in Seq(Bars) /\ Len(SealedFile) = SealedDays /\ DOMAIN SealedFile = 1..SealedDays
    <2>1. \A d \in 1..SealedDays : Bar(d) \in Bars
      BY <1>1 DEF Bar, Bars
    <2>2. QED
      BY <1>1, <2>1 DEF SealedFile
  <1>3. Boundary = (SealedDays * (HoldoutDen - HoldoutNum)) \div HoldoutDen
    BY <1>2 DEF Boundary, Manifest, build_manifest
  <1>4. Manifest.n_total = SealedDays
    BY <1>2 DEF Manifest, build_manifest
  <1>5. Manifest.holdout_sha256 = SliceFrom(SealedFile, Boundary)
    BY DEF Manifest, Boundary, build_manifest, HashValues
  <1>6. \A d \in 1..SealedDays : SealedFile[d] = Bar(d) /\ Bar(d) \in Bars /\ Bar(d).day = d
    BY <1>1 DEF SealedFile, Bar, Bars
  <1>7. QED
    BY <1>1, <1>2, <1>3, <1>4, <1>5, <1>6, SealAssumption

LEMMA SealedFileOK == FileOK(SealedFile)
  <1>1. \A d \in 1..SealedDays : Bar(d) \in Bars
    BY SealedSizes
  <1>2. SealedFile \in Seq(Bars)
    BY <1>1, SealedSizes DEF SealedFile
  <1>3. QED
    BY <1>2, SealedSizes DEF FileOK

LEMMA FileInitInv == DataInit => FileInv
  BY SealedFileOK DEF DataInit, FileInv

\* What may happen to the file is told by its rows.
OldRowsKept(old, new) ==
    /\ Len(new) >= Len(old)
    /\ \A i \in 1..Len(old) : new[i] = old[i]

(* A refresh only adds rows at the end, all of later days.                 *)
LEMMA RefreshStep ==
    ASSUME FileInv, NEW k \in 1..2, Refresh(k)
    PROVE  FileInv' /\ OldRowsKept(candles, candles')
  <1> DEFINE n == Len(candles)
             fresh == [i \in 1..k |-> Bar(LastDay + k + 1 - i)]
  <1>1. n \in Nat /\ LastDay \in Nat \ {0} /\ candles \in Seq(Bars)
    BY FileTypes, LatestDayIs, LastDayIs DEF FileInv, FileOK
  <1>2. \A i \in 1..k : fresh[i] = Bar(LastDay + k + 1 - i)
                           /\ Bar(LastDay + k + 1 - i) \in Bars
                           /\ fresh[i].day = LastDay + k + 1 - i
    BY <1>1 DEF Bar, Bars
  <1>3. fresh \in Seq(Bars) /\ Len(fresh) = k
    BY <1>2
  <1>4. candles' = candles \o fresh
    BY DEF Refresh
  <1> HIDE DEF fresh
  <1>5. /\ candles' \in Seq(Bars) /\ Len(candles') = n + k
        /\ \A i \in 1..(n + k) : candles'[i] = IF i <= n THEN candles[i] ELSE fresh[i - n]
    BY <1>1, <1>3, <1>4, ConcatProperties
  <1>6. \A i \in 1..n : candles'[i] = candles[i] /\ candles'[i].day <= LastDay
    BY <1>1, <1>5, LatestDayIs, LastDayIs DEF FileInv
  <1>7. \A i \in (n + 1)..(n + k) : candles'[i].day = LastDay + k + 1 - (i - n)
    <2> SUFFICES ASSUME NEW i \in (n + 1)..(n + k)
                 PROVE  candles'[i].day = LastDay + k + 1 - (i - n)
      OBVIOUS
    <2>1. i - n \in 1..k /\ i \in 1..(n + k) /\ ~(i <= n)
      BY <1>1
    <2>2. QED
      BY <2>1, <1>2, <1>5
  <1>8. ASSUME NEW i \in 1..(n + k), NEW j \in 1..(n + k), candles'[i].day = candles'[j].day
        PROVE  i = j
    <2>1. CASE i <= n /\ j <= n
      <3>1. i \in 1..n /\ j \in 1..n
        BY <1>1, <2>1
      <3>2. candles[i].day = candles[j].day
        BY <3>1, <1>6, <1>8
      <3>3. QED
        BY <3>1, <3>2 DEF FileInv, FileOK
    <2>2. CASE i > n /\ j > n
      <3>1. i \in (n + 1)..(n + k) /\ j \in (n + 1)..(n + k)
        BY <1>1, <2>2
      <3>2. LastDay + k + 1 - (i - n) = LastDay + k + 1 - (j - n)
        BY <3>1, <1>7, <1>8
      <3>3. QED
        BY <3>1, <3>2, <1>1
    <2>3. ASSUME NEW a \in 1..n, NEW b \in (n + 1)..(n + k)
          PROVE  candles'[a].day # candles'[b].day
      <3>1. candles'[a].day <= LastDay /\ candles'[b].day = LastDay + k + 1 - (b - n)
        BY <1>6, <1>7
      <3>2. LastDay + k + 1 - (b - n) > LastDay
        BY <1>1
      <3>3. candles'[a].day \in Int
        BY <1>6, FileTypes
      <3>4. QED
        BY <3>1, <3>2, <3>3, <1>1
    <2>4. QED
      BY <2>1, <2>2, <2>3, <1>1, <1>8
  <1>9. Len(candles') >= SealedDays
    BY <1>1, <1>5, SealedSizes DEF FileInv, FileOK
  <1>10. QED
    BY <1>1, <1>5, <1>6, <1>8, <1>9 DEF FileInv, FileOK, OldRowsKept

(* A download of the latest bars keeps the length: the day dropped is not  *)
(* the last one, and the day added is later than all.                      *)
LEMMA RollStep ==
    ASSUME FileInv, RollWindow
    PROVE  /\ FileInv'
           /\ \E i \in 1..Len(candles') : candles'[i].day > LastDay
           /\ candles'[1].day # 1
  <1> DEFINE n == Len(candles)
             rest == Tail(candles)
             new == Bar(LastDay + 1)
  <1>1. n \in Nat /\ n >= 2 /\ LastDay \in Nat \ {0} /\ candles \in Seq(Bars)
    BY FileTypes, LatestDayIs, LastDayIs, SealedSizes DEF FileInv, FileOK
  <1>2. /\ rest \in Seq(Bars) /\ Len(rest) = n - 1
        /\ \A i \in 1..(n - 1) : rest[i] = candles[i + 1]
    BY <1>1, HeadTailProperties, EmptySeq
  <1>3. new \in Bars /\ new.day = LastDay + 1
    BY <1>1 DEF Bar, Bars
  <1>4. candles' = Append(rest, new)
    BY DEF RollWindow
  <1> HIDE DEF rest, new
  <1>5. /\ candles' \in Seq(Bars) /\ Len(candles') = n
        /\ \A i \in 1..(n - 1) : candles'[i] = rest[i]
        /\ candles'[n] = new
    <2>1. (n - 1) + 1 = n
      BY <1>1
    <2>2. QED
      BY <1>2, <1>3, <1>4, <2>1, AppendProperties
  <1>6. \A i \in 1..(n - 1) : /\ i + 1 \in 1..n
                              /\ candles'[i] = candles[i + 1]
                              /\ candles'[i].day <= LastDay
                              /\ candles'[i].day \in Nat
    <2> SUFFICES ASSUME NEW i \in 1..(n - 1)
                 PROVE  /\ i + 1 \in 1..n
                        /\ candles'[i] = candles[i + 1]
                        /\ candles'[i].day <= LastDay
                        /\ candles'[i].day \in Nat
      OBVIOUS
    <2>1. i + 1 \in 1..n
      BY <1>1
    <2>2. candles'[i] = candles[i + 1]
      BY <1>2, <1>5
    <2>3. QED
      BY <2>1, <2>2, FileTypes, LatestDayIs, LastDayIs DEF FileInv
  <1>7. ASSUME NEW i \in 1..n, NEW j \in 1..n, candles'[i].day = candles'[j].day
        PROVE  i = j
    <2>1. CASE i < n /\ j < n
      <3>1. i \in 1..(n - 1) /\ j \in 1..(n - 1)
        BY <1>1, <2>1
      <3>2. candles[i + 1].day = candles[j + 1].day
        BY <3>1, <1>6, <1>7
      <3>3. i + 1 = j + 1
        BY <3>1, <3>2, <1>6 DEF FileInv, FileOK
      <3>4. QED
        BY <3>1, <3>3, <1>1
    <2>2. ASSUME NEW a \in 1..(n - 1) PROVE candles'[a].day # candles'[n].day
      BY <1>1, <1>3, <1>5, <1>6
    <2>3. QED
      BY <2>1, <2>2, <1>1, <1>7
  <1>8. Len(candles') >= SealedDays
    BY <1>5 DEF FileInv, FileOK
  <1>9. candles'[n].day > LastDay /\ n \in 1..n
    BY <1>1, <1>3, <1>5
  <1>10. candles'[1].day # 1
    <2>1. 1 \in 1..(n - 1) /\ 1 \in 1..n /\ 2 \in 1..n
      BY <1>1
    <2>2. candles'[1] = candles[2]
      BY <2>1, <1>6
    <2>3. candles[1].day = 1
      BY DEF RollWindow
    <2>4. candles[2].day # candles[1].day
      BY <2>1 DEF FileInv, FileOK
    <2>5. QED
      BY <2>2, <2>3, <2>4
  <1>11. QED
    BY <1>5, <1>7, <1>8, <1>9, <1>10 DEF FileInv, FileOK

(* A restatement leaves every day where it was.                            *)
LEMMA RestateStep ==
    ASSUME FileInv, NEW k \in Restated, Restate(k)
    PROVE  /\ FileInv'
           /\ Len(candles') = Len(candles)
           /\ \A i \in 1..Len(candles) : candles'[i].day = candles[i].day
           /\ k \in 1..SealedDays /\ candles'[k].rev = 1
  <1> DEFINE n == Len(candles)
             restated == [candles[k] EXCEPT !.rev = 1]
  <1>1. k \in 1..n /\ k \in 1..SealedDays /\ n \in Nat /\ DOMAIN candles = 1..n
    BY FileTypes, SealAssumption DEF FileInv, FileOK
  <1>2. restated \in Bars /\ restated.day = candles[k].day /\ restated.rev = 1
    <2>1. candles[k] \in Bars
      BY <1>1, FileTypes
    <2>2. QED
      BY <2>1 DEF Bars
  <1>3. candles' = [candles EXCEPT ![k] = restated]
    BY DEF Restate
  <1> HIDE DEF restated
  <1>4. /\ candles' \in Seq(Bars) /\ Len(candles') = n
        /\ \A i \in 1..n : candles'[i] = IF i = k THEN restated ELSE candles[i]
    BY <1>1, <1>2, <1>3, ExceptSeq DEF FileInv, FileOK
  <1>5. \A i \in 1..n : candles'[i].day = candles[i].day
    BY <1>2, <1>4
  <1>6. QED
    BY <1>1, <1>2, <1>4, <1>5 DEF FileInv, FileOK

\* Appending aside, what happened to the file cannot be undone.
LEMMA ExtendedRows ==
    ASSUME NEW file, FileOK(file)
    PROVE  SubSeq(file, 1, SealedDays) = SealedFile
              <=> \A d \in 1..SealedDays : file[d] = Bar(d)
  <1>1. /\ SubSeq(file, 1, SealedDays) \in Seq(Bars)
        /\ Len(SubSeq(file, 1, SealedDays)) = SealedDays
        /\ \A d \in 1..SealedDays : SubSeq(file, 1, SealedDays)[d] = file[d]
    <2>1. \A d \in 1..SealedDays : file[d] \in Bars
      BY LenProperties, ElementOfSeq, SealedSizes DEF FileOK
    <2>2. SealedDays \in Nat \ {0}
      BY SealedSizes
    <2> DEFINE cut == SubSeq(file, 1, SealedDays)
    <2>3. /\ cut \in Seq(Bars)
          /\ Len(cut) = IF 1 <= SealedDays THEN SealedDays - 1 + 1 ELSE 0
          /\ \A i \in 1..(SealedDays - 1 + 1) : cut[i] = file[1 + i - 1]
      <3> HIDE DEF cut
      <3>1. cut = SubSeq(file, 1, SealedDays)
        BY DEF cut
      <3>2. QED
        BY <3>1, <2>1, <2>2, SubSeqProperties
    <2>4. SealedDays - 1 + 1 = SealedDays /\ \A i \in 1..SealedDays : 1 + i - 1 = i
      BY <2>2
    <2>5. QED
      BY <2>2, <2>3, <2>4
  <1>2. \A d \in 1..SealedDays : SealedFile[d] = Bar(d)
    BY SealedSizes
  <1>3. ASSUME \A d \in 1..SealedDays : file[d] = Bar(d)
        PROVE  SubSeq(file, 1, SealedDays) = SealedFile
    BY <1>1, <1>2, <1>3, SealedSizes, SealedFileOK, SeqEqual DEF FileOK
  <1>4. QED
    BY <1>1, <1>2, <1>3

LEMMA DataStep ==
    ASSUME FileInv, DataNext
    PROVE  FileInv' /\ LastDay <= LastDay' /\ (OnlyExtended' => OnlyExtended)
  <1>1. OnlyExtended <=> \A d \in 1..SealedDays : candles[d] = Bar(d)
    BY ExtendedRows DEF OnlyExtended, FileInv
  <1>2. ASSUME FileInv'
        PROVE  OnlyExtended' <=> \A d \in 1..SealedDays : candles'[d] = Bar(d)
    BY <1>2, ExtendedRows DEF OnlyExtended, FileInv
  <1>3. Len(candles) \in Nat /\ SealedDays \in Nat /\ SealedDays <= Len(candles) /\ 1 \in 1..SealedDays
    BY FileTypes, SealedSizes DEF FileInv, FileOK
  <1>4. /\ LastDay \in Nat
        /\ \E i \in 1..Len(candles) : candles[i].day = LastDay
    BY LatestDayIs, LastDayIs DEF FileInv
  <1>5. ASSUME FileInv'
        PROVE  LastDay' \in Nat /\ \A i \in 1..Len(candles') : candles'[i].day <= LastDay'
                                                                  /\ candles'[i].day \in Nat
    <2>1. Len(candles') \in Nat /\ \A i \in 1..Len(candles') : candles'[i] \in Bars
      BY <1>5, LenProperties, ElementOfSeq DEF FileInv, FileOK
    <2>2. \A i \in 1..Len(candles') : candles'[i].day \in Nat
      BY <2>1 DEF Bars
    <2>3. QED
      BY <1>5, <2>2, LatestDayIs, LastDayIs DEF FileInv
  <1>6. ASSUME NEW k \in 1..2, Refresh(k)
        PROVE  FileInv' /\ LastDay <= LastDay' /\ (OnlyExtended' => OnlyExtended)
    <2>1. FileInv' /\ OldRowsKept(candles, candles')
      BY <1>6, RefreshStep
    <2>2. PICK i \in 1..Len(candles) : candles[i].day = LastDay
      BY <1>4
    <2>3. Len(candles') \in Nat
      BY <2>1, LenProperties DEF FileInv, FileOK
    <2>4. i \in 1..Len(candles') /\ candles'[i].day = LastDay
      BY <1>3, <2>1, <2>2, <2>3 DEF OldRowsKept
    <2>5. LastDay <= LastDay'
      BY <1>5, <2>1, <2>4
    <2>6. \A d \in 1..SealedDays : d \in 1..Len(candles)
      BY <1>3
    <2>7. OnlyExtended' => OnlyExtended
      BY <1>1, <1>2, <2>1, <2>6 DEF OldRowsKept
    <2>8. QED
      BY <2>1, <2>5, <2>7
  <1>7. ASSUME RollWindow
        PROVE  FileInv' /\ LastDay <= LastDay' /\ (OnlyExtended' => OnlyExtended)
    <2>1. /\ FileInv' /\ \E i \in 1..Len(candles') : candles'[i].day > LastDay
          /\ candles'[1].day # 1
      BY <1>7, RollStep
    <2>2. Bar(1).day = 1
      BY DEF Bar
    <2>3. ~OnlyExtended'
      BY <1>2, <1>3, <2>1, <2>2
    <2>4. LastDay <= LastDay'
      <3>1. PICK i \in 1..Len(candles') : candles'[i].day > LastDay
        BY <2>1
      <3>2. LastDay' \in Nat /\ candles'[i].day <= LastDay' /\ candles'[i].day \in Nat
        BY <1>5, <2>1
      <3>3. QED
        BY <1>4, <3>1, <3>2
    <2>5. QED
      BY <2>1, <2>3, <2>4
  <1>8. ASSUME NEW k \in Restated, Restate(k)
        PROVE  FileInv' /\ LastDay <= LastDay' /\ (OnlyExtended' => OnlyExtended)
    <2>1. /\ FileInv' /\ Len(candles') = Len(candles)
          /\ \A i \in 1..Len(candles) : candles'[i].day = candles[i].day
          /\ k \in 1..SealedDays /\ candles'[k].rev = 1
      BY <1>8, RestateStep
    <2>2. Bar(k).rev = 0
      BY DEF Bar
    <2>3. ~OnlyExtended'
      BY <1>2, <2>1, <2>2
    <2>4. LastDay <= LastDay'
      BY <1>4, <1>5, <2>1
    <2>5. QED
      BY <2>1, <2>3, <2>4
  <1>9. QED
    BY <1>6, <1>7, <1>8 DEF DataNext

-----------------------------------------------------------------------------
(* The daily signal.                                                       *)

(* Whatever window the features need, the bar scored is the last one.      *)
LEMMA ScoredBarIsLast ==
    ASSUME FileInv, Len(candles) > VolWindow
    PROVE  ScoredBar(load_candles) = LastDay
  <1> DEFINE n == Len(load_candles)
             S == VolWindow..(n - 1)
  <1>1. n = Len(candles) /\ n \in Nat /\ VolWindow \in Nat /\ n - 1 \in S
    BY FileTypes, SortedFile, VolWindowAssumption
  <1>2. Max(S) = n - 1
    <2>1. \A x \in S : x \in Int /\ x <= n - 1
      BY <1>1
    <2>2. \A x \in S : (\A y \in S : x >= y) => x = n - 1
      <3> HIDE DEF S
      <3>1. QED
        BY <1>1, <2>1
    <2>3. \E x \in S : \A y \in S : x >= y
      <3> HIDE DEF S
      <3>1. QED
        BY <1>1, <2>1
    <2>4. Max(S) = CHOOSE x \in S : \A y \in S : x >= y
      BY DEF Max
    <2> HIDE DEF S
    <2>5. QED
      BY <2>2, <2>3, <2>4
  <1>3. 1 + (n - 1) = Len(candles)
    BY <1>1
  <1>4. ScoredBar(load_candles) = load_candles[Len(candles)].day
    BY <1>2, <1>3 DEF ScoredBar
  <1>5. QED
    BY <1>4, LastBar

LEMMA HeaderTyped == Header.date = 0 /\ Header.target = "FLAT"
  BY DEF Header

(* The row the next one is decided from is a row of the log or the header. *)
LEMMA LastLoggedTyped ==
    ASSUME LogTyped
    PROVE  /\ LastLogged = Header \/ LastLogged \in LoggedRows
           /\ LastLogged.date \in Nat
           /\ Len(signal_log.lines) \in Nat
           /\ signal_log.lines \in Seq({Header} \cup LoggedRows)
  <1> DEFINE lines == signal_log.lines
  <1>1. lines \in Seq({Header} \cup LoggedRows) /\ Len(lines) \in Nat
    BY LenProperties DEF LogTyped
  <1>2. CASE Len(lines) <= 1
    BY <1>1, <1>2, HeaderTyped DEF LastLogged
  <1>3. CASE Len(lines) > 1
    <2>1. Len(lines) \in 2..Len(lines)
      BY <1>1, <1>3
    <2>2. LastLogged = lines[Len(lines)]
      BY <1>1, <1>3 DEF LastLogged, Last
    <2>3. LastLogged \in LoggedRows
      BY <2>1, <2>2 DEF LogTyped
    <2>4. LastLogged.date \in Nat
      BY <2>3 DEF LoggedRows
    <2>5. QED
      BY <1>1, <2>3, <2>4
  <1>4. QED
    BY <1>1, <1>2, <1>3

LEMMA SameLog ==
    ASSUME SignalInv, UNCHANGED <<signal_log, candles>>
    PROVE  /\ LastDay' = LastDay /\ LastLogged' = LastLogged /\ (Headed' <=> Headed)
           /\ LogTyped' /\ (Headed' => RowsFollow')
  <1>1. LastDay' = LastDay
    BY LastDayIs
  <1>2. LastLogged' = LastLogged /\ (Headed' <=> Headed)
    BY DEF LastLogged, Headed
  <1>3. LogTyped'
    BY DEF SignalInv, LogTyped
  <1>4. Headed' => RowsFollow'
    BY <1>1, <1>2 DEF SignalInv, RowsFollow
  <1>5. QED
    BY <1>1, <1>2, <1>3, <1>4

LEMMA SignalInitInv == FileInv /\ SignalInit => SignalInv
  <1> SUFFICES ASSUME FileInv, SignalInit PROVE SignalInv
    OBVIOUS
  <1>1. signal_log = [made |-> FALSE, lines |-> <<>>] /\ Len(<<>>) = 0
    BY DEF SignalInit
  <1>2. LogTyped
    BY <1>1 DEF LogTyped
  <1>3. ModelInv /\ CommandTyped
    BY DEF SignalInit, ModelInv, CommandTyped
  <1>4. signal.cmd # "signal"
    BY DEF SignalInit, NoCommand
  <1>5. LastLogged.date <= LastDay
    <2>1. LastLogged = Header
      BY <1>1 DEF LastLogged
    <2>2. LastDay \in Nat
      BY LatestDayIs, LastDayIs DEF FileInv
    <2>3. QED
      BY <2>1, <2>2, HeaderTyped
  <1>6. QED
    BY <1>1, <1>2, <1>3, <1>4, <1>5 DEF SignalInv, RowsFollow, CommandFollows

(* Freezing: the model is trained on the days the file has.                *)
LEMMA FreezeStep ==
    ASSUME FileInv, SignalInv, StartFreeze \/ WriteFrozen \/ DieFreezing
    PROVE  SignalInv'
  <1>1. UNCHANGED <<signal_log, candles>>
    BY DEF StartFreeze, WriteFrozen, DieFreezing
  <1>2. /\ LastDay' = LastDay /\ LogTyped' /\ (Headed' => RowsFollow')
    BY <1>1, SameLog
  <1>3. LastDay \in Nat
    BY LatestDayIs, LastDayIs DEF FileInv
  <1>4. NoCommand.cmd # "signal" /\ NoCommand.cmd # "freeze"
    BY DEF NoCommand
  <1>5. CASE StartFreeze
    <2>1. Last(load_candles).day = LastDay
      BY LastBar, SortedFile DEF Last
    <2>2. signal' = [cmd |-> "freeze", trained_through |-> LastDay] /\ frozen' = frozen
      BY <1>5, <2>1 DEF StartFreeze
    <2>3. ModelInv'
      BY <1>2, <2>2 DEF SignalInv, ModelInv
    <2>4. CommandTyped' /\ signal'.cmd # "signal"
      BY <1>2, <1>3, <2>2 DEF CommandTyped
    <2>5. QED
      BY <1>2, <2>3, <2>4 DEF SignalInv, CommandFollows
  <1>6. CASE WriteFrozen \/ DieFreezing
    <2>1. signal.cmd = "freeze" /\ signal' = NoCommand
      BY <1>6 DEF WriteFrozen, DieFreezing
    <2>2. signal.trained_through \in 0..LastDay
      BY <1>4, <2>1 DEF SignalInv, CommandTyped
    <2>3. ModelInv'
      BY <1>2, <1>6, <2>2 DEF ModelInv, WriteFrozen, DieFreezing
    <2>4. CommandTyped' /\ signal'.cmd # "signal"
      BY <1>4, <2>1 DEF CommandTyped
    <2>5. QED
      BY <1>2, <2>3, <2>4 DEF SignalInv, CommandFollows
  <1>7. QED
    BY <1>5, <1>6

(* The bar a signal scores is the last one, so its model has seen no later *)
(* bar, and no row of the log is later.                                    *)
LEMMA StartSignalStep ==
    ASSUME FileInv, SignalInv, StartSignal
    PROVE  SignalInv'
  <1>1. UNCHANGED <<frozen, signal_log, candles>>
    BY DEF StartSignal
  <1>2. /\ LastDay' = LastDay /\ LogTyped' /\ (Headed' => RowsFollow')
        /\ LastLogged' = LastLogged /\ (Headed' <=> Headed)
    BY <1>1, SameLog
  <1>3. LastDay \in Nat \ {0}
    BY LatestDayIs, LastDayIs DEF FileInv
  <1>4. PICK regime \in {"bear", "chop", "bull"} :
           signal' = [cmd |-> "signal", pc |-> "read", date |-> LastDay,
                      target |-> TargetOf(regime),
                      trained_through |-> frozen.trained_through]
    BY ScoredBarIsLast DEF StartSignal
  <1>5. TargetOf(regime) \in {"LONG", "FLAT"}
    BY DEF TargetOf
  <1>6. frozen.trained_through \in 0..LastDay
    <2>1. frozen \in {Model(day) : day \in 0..LastDay}
      BY DEF SignalInv, ModelInv, StartSignal, ModelLoads
    <2>2. QED
      BY <2>1 DEF Model
  <1>7. ModelInv'
    BY <1>1, <1>2 DEF SignalInv, ModelInv
  <1>8. CommandTyped'
    BY <1>2, <1>3, <1>4, <1>5, <1>6 DEF CommandTyped
  <1>9. Headed' => CommandFollows'
    <2> SUFFICES ASSUME Headed' PROVE CommandFollows'
      OBVIOUS
    <2>1. LastLogged'.date <= LastDay
      BY <1>2 DEF SignalInv, RowsFollow
    <2>2. signal'.pc = "read" /\ signal'.date = LastDay
      BY <1>4
    <2>3. QED
      BY <2>1, <2>2 DEF CommandFollows
  <1>10. QED
    BY <1>2, <1>7, <1>8, <1>9 DEF SignalInv

(* A row is decided from the last one, and only for a later bar.           *)
LEMMA ReadLogStep ==
    ASSUME FileInv, SignalInv, ReadLog
    PROVE  SignalInv'
  <1>1. UNCHANGED <<frozen, signal_log, candles>>
    BY DEF ReadLog
  <1>2. /\ LastDay' = LastDay /\ LogTyped' /\ (Headed' => RowsFollow')
        /\ LastLogged' = LastLogged /\ (Headed' <=> Headed)
    BY <1>1, SameLog
  <1>3. LastDay \in Nat \ {0}
    BY LatestDayIs, LastDayIs DEF FileInv
  <1>4. signal.cmd = "signal" /\ signal.pc = "read"
    BY DEF ReadLog
  <1>5. /\ signal \in [cmd : {"signal"}, pc : {"read"}, date : 1..LastDay,
                       target : {"LONG", "FLAT"}, trained_through : Nat]
        /\ signal.trained_through <= signal.date
    BY <1>4 DEF SignalInv, CommandTyped, NoCommand
  <1>6. ModelInv'
    BY <1>1, <1>2 DEF SignalInv, ModelInv
  <1>7. CASE LastLogged.date = signal.date
    <2>1. signal' = NoCommand
      BY <1>7 DEF ReadLog
    <2>2. CommandTyped' /\ signal'.cmd # "signal"
      BY <2>1 DEF CommandTyped, NoCommand
    <2>3. QED
      BY <1>2, <1>6, <2>2 DEF SignalInv, CommandFollows
  <1>8. CASE LastLogged.date # signal.date
    <2> DEFINE row == Row(LastLogged.target)
    <2>1. signal' = [cmd |-> "signal", pc |-> "append", row |-> row]
      BY <1>8 DEF ReadLog
    <2>2. /\ row.date = signal.date /\ row.target = signal.target
          /\ row.trained_through = signal.trained_through
          /\ row.action = ActionFrom(LastLogged.target, signal.target)
          /\ row = [date |-> signal.date, target |-> signal.target, action |-> row.action,
                    trained_through |-> signal.trained_through]
      BY DEF Row
    <2>3. row.action \in {"ENTER", "EXIT", "HOLD"}
      <3>1. \A prev, target : ActionFrom(prev, target) \in {"ENTER", "EXIT", "HOLD"}
        BY DEF ActionFrom
      <3>2. QED
        BY <2>2, <3>1
    <2> HIDE DEF row
    <2>4. row \in LoggedRows /\ row.date <= LastDay
      <3>1. signal.date \in 1..LastDay /\ signal.target \in {"LONG", "FLAT"}
            /\ signal.trained_through \in Nat
        BY <1>5
      <3>2. QED
        BY <1>3, <2>2, <2>3, <3>1 DEF LoggedRows
    <2>5. CommandTyped'
      BY <1>2, <2>1, <2>4 DEF CommandTyped
    <2>6. Headed' => CommandFollows'
      <3> SUFFICES ASSUME Headed' PROVE CommandFollows'
        OBVIOUS
      <3>1. LastLogged.date <= signal.date
        BY <1>2, <1>4 DEF SignalInv, CommandFollows
      <3>2. LastLogged.date < row.date
        <4>1. LastLogged.date \in Nat /\ signal.date \in Nat
          BY <1>3, <1>5, LastLoggedTyped DEF SignalInv
        <4>2. QED
          BY <1>8, <2>2, <3>1, <4>1
      <3>3. Follows(LastLogged, row)
        BY <1>5, <2>2, <3>2 DEF Follows
      <3>4. QED
        BY <1>2, <2>1, <3>3 DEF CommandFollows
    <2>7. QED
      BY <1>2, <1>6, <2>5, <2>6 DEF SignalInv
  <1>9. QED
    BY <1>7, <1>8

(* What is appended follows the last row, or the header written before it. *)
LEMMA AppendLogStep ==
    ASSUME FileInv, SignalInv, AppendLog
    PROVE  SignalInv'
  <1> DEFINE Lines == {Header} \cup LoggedRows
             lines == signal_log.lines
             old == IF signal_log.made THEN lines ELSE <<Header>>
             n == Len(old)
             row == signal.row
  <1>1. signal.cmd = "signal" /\ signal.pc = "append" /\ UNCHANGED <<frozen, candles>>
        /\ signal' = NoCommand
    BY DEF AppendLog
  <1>2. row \in LoggedRows /\ row.date <= LastDay
    BY <1>1 DEF SignalInv, CommandTyped, NoCommand
  <1>3. row.date \in Nat \ {0} /\ row \in Lines
    BY <1>2 DEF LoggedRows
  <1>4. lines \in Seq(Lines) /\ Len(lines) \in Nat
    BY LastLoggedTyped DEF SignalInv
  <1>5. old \in Seq(Lines) /\ n \in Nat
    <2>1. <<Header>> \in Seq(Lines) /\ Len(<<Header>>) = 1
      OBVIOUS
    <2>2. QED
      BY <1>4, <2>1
  <1>6. \A i \in 2..n : old[i] \in LoggedRows
    <2>1. CASE signal_log.made
      BY <2>1 DEF SignalInv, LogTyped
    <2>2. CASE ~signal_log.made
      <3>1. n = 1
        BY <2>2
      <3>2. QED
        BY <3>1
    <2>3. QED
      BY <2>1, <2>2
  <1>7. Headed => n >= 1 /\ old[1] = Header /\ old[n] = LastLogged
    <2> SUFFICES ASSUME Headed PROVE n >= 1 /\ old[1] = Header /\ old[n] = LastLogged
      OBVIOUS
    <2>1. CASE signal_log.made
      <3>1. lines # <<>> /\ lines[1] = Header /\ old = lines
        BY <2>1 DEF Headed
      <3>2. n >= 1
        BY <1>4, <3>1, EmptySeq
      <3>3. LastLogged = lines[Len(lines)]
        <4>1. CASE Len(lines) = 1
          BY <3>1, <4>1 DEF LastLogged
        <4>2. CASE Len(lines) > 1
          BY <1>4, <4>2 DEF LastLogged, Last
        <4>3. QED
          BY <1>4, <3>1, <3>2, <4>1, <4>2
      <3>4. QED
        BY <3>1, <3>2, <3>3
    <2>2. CASE ~signal_log.made
      <3>1. old = <<Header>> /\ n = 1 /\ lines = <<>>
        BY <2>2 DEF SignalInv, LogTyped
      <3>2. Len(lines) <= 1
        BY <3>1, EmptySeq
      <3>3. LastLogged = Header
        BY <3>2 DEF LastLogged
      <3>4. QED
        BY <3>1, <3>3
    <2>3. QED
      BY <2>1, <2>2
  <1>8. signal_log' = [made |-> TRUE, lines |-> Append(old, row)]
    BY DEF AppendLog
  <1> HIDE DEF old, row, Lines
  <1> DEFINE new == signal_log'.lines
  <1>9. /\ new \in Seq(Lines) /\ Len(new) = n + 1
        /\ \A i \in 1..n : new[i] = old[i]
        /\ new[n + 1] = row
    <2>1. new = Append(old, row)
      BY <1>8
    <2>2. QED
      BY <1>3, <1>5, <2>1, AppendProperties
  <1> HIDE DEF new, lines
  <1>10. \A i \in 2..Len(new) : new[i] \in LoggedRows
    <2> SUFFICES ASSUME NEW i \in 2..Len(new) PROVE new[i] \in LoggedRows
      OBVIOUS
    <2>1. i = n + 1 \/ i \in 2..n
      BY <1>5, <1>9
    <2>2. QED
      BY <1>2, <1>5, <1>6, <1>9, <2>1
  <1>11. LogTyped'
    <2>1. signal_log' = [made |-> TRUE, lines |-> new] /\ signal_log'.lines = new
          /\ signal_log'.made = TRUE
      BY <1>8 DEF new
    <2>2. new \in Seq({Header} \cup LoggedRows)
      BY <1>9 DEF Lines
    <2>3. QED
      BY <1>10, <2>1, <2>2 DEF LogTyped
  <1>12. Headed' => Headed
    <2> SUFFICES ASSUME Headed', ~Headed PROVE FALSE
      OBVIOUS
    <2>1. signal_log.made /\ (lines = <<>> \/ lines[1] # Header)
      BY DEF Headed, lines
    <2>2. new[1] = Header
      BY <1>8 DEF Headed, new
    <2>3. old = lines
      BY <2>1 DEF old, lines
    <2>4. CASE n = 0
      <3>1. new[1] = row
        BY <1>9, <2>4
      <3>2. QED
        BY <1>3, <2>2, <3>1, HeaderTyped
    <2>5. CASE n >= 1
      <3>1. lines # <<>>
        BY <2>3, <2>5, EmptySeq
      <3>2. new[1] = old[1]
        BY <1>5, <1>9, <2>5
      <3>3. QED
        BY <2>1, <2>2, <2>3, <3>1, <3>2
    <2>6. QED
      BY <1>5, <2>4, <2>5
  <1>13. LastDay' = LastDay /\ LastDay \in Nat
    BY <1>1, LatestDayIs, LastDayIs DEF FileInv
  <1>14. Headed' => RowsFollow'
    <2> SUFFICES ASSUME Headed' PROVE RowsFollow'
      OBVIOUS
    <2>1. Headed /\ RowsFollow /\ Follows(LastLogged, row)
      BY <1>1, <1>12 DEF SignalInv, CommandFollows, row
    <2>2. n >= 1 /\ old[n] = LastLogged
      BY <1>7, <2>1
    <2>3. \A i \in 2..n : Follows(old[i - 1], old[i])
      <3>1. CASE signal_log.made
        BY <2>1, <3>1 DEF RowsFollow, old, lines
      <3>2. CASE ~signal_log.made
        <4>1. n = 1
          BY <3>2 DEF old
        <4>2. QED
          BY <4>1
      <3>3. QED
        BY <3>1, <3>2
    <2>4. \A i \in 2..Len(new) : Follows(new[i - 1], new[i])
      <3> SUFFICES ASSUME NEW i \in 2..Len(new) PROVE Follows(new[i - 1], new[i])
        OBVIOUS
      <3>1. CASE i = n + 1
        <4>1. new[i - 1] = old[n] /\ new[i] = row
          BY <1>5, <1>9, <2>2, <3>1
        <4>2. QED
          BY <2>1, <2>2, <4>1
      <3>2. CASE i # n + 1
        <4>1. i \in 2..n /\ i \in 1..n /\ i - 1 \in 1..n
          BY <1>5, <1>9, <3>2
        <4>2. QED
          BY <1>9, <2>3, <4>1
      <3>3. QED
        BY <3>1, <3>2
    <2>5. LastLogged' = row
      <3>1. ~(Len(new) <= 1)
        BY <1>5, <1>9, <2>2
      <3>2. LastLogged' = new[Len(new)]
        BY <3>1 DEF LastLogged, Last, new
      <3>3. QED
        BY <1>9, <3>2
    <2>6. QED
      BY <1>2, <1>13, <2>4, <2>5 DEF RowsFollow, new, row
  <1>15. CommandTyped' /\ signal'.cmd # "signal"
    BY <1>1 DEF CommandTyped, NoCommand
  <1>16. ModelInv'
    BY <1>1, <1>13 DEF SignalInv, ModelInv
  <1>17. QED
    BY <1>11, <1>14, <1>15, <1>16 DEF SignalInv, CommandFollows

(* A run that dies leaves the log, or an empty file without a header.      *)
LEMMA DieSignallingStep ==
    ASSUME FileInv, SignalInv, DieSignalling
    PROVE  SignalInv'
  <1>1. /\ UNCHANGED <<frozen, candles>> /\ signal' = NoCommand
        /\ signal_log' = signal_log \/ signal_log' = [signal_log EXCEPT !.made = TRUE]
    BY DEF DieSignalling
  <1>2. CommandTyped' /\ signal'.cmd # "signal"
    BY <1>1 DEF CommandTyped, NoCommand
  <1>3. LastDay' = LastDay
    BY <1>1, LastDayIs
  <1>4. ModelInv'
    BY <1>1, <1>3 DEF SignalInv, ModelInv
  <1>5. CASE signal_log' = signal_log
    <2>1. LogTyped' /\ (Headed' => RowsFollow')
      BY <1>1, <1>5, SameLog
    <2>2. QED
      BY <1>2, <1>4, <2>1 DEF SignalInv, CommandFollows
  <1>6. CASE signal_log' = [signal_log EXCEPT !.made = TRUE]
    <2>1. signal_log \in [made : BOOLEAN, lines : Seq({Header} \cup LoggedRows)]
      BY DEF SignalInv, LogTyped
    <2>2. signal_log'.made = TRUE /\ signal_log'.lines = signal_log.lines
          /\ signal_log' \in [made : BOOLEAN, lines : Seq({Header} \cup LoggedRows)]
      BY <1>6, <2>1
    <2>3. LogTyped'
      BY <2>2 DEF SignalInv, LogTyped
    <2>4. Headed' => Headed
      BY <2>2 DEF Headed
    <2>5. LastLogged' = LastLogged
      BY <2>2 DEF LastLogged
    <2>6. Headed' => RowsFollow'
      BY <1>3, <2>2, <2>4, <2>5 DEF SignalInv, RowsFollow
    <2>7. QED
      BY <1>2, <1>4, <2>3, <2>6 DEF SignalInv, CommandFollows
  <1>7. QED
    BY <1>1, <1>5, <1>6

LEMMA SignalStep ==
    ASSUME FileInv, SignalInv, SignalNext
    PROVE  SignalInv'
  <1>1. CASE StartFreeze \/ WriteFrozen \/ DieFreezing
    BY <1>1, FreezeStep
  <1>2. CASE StartSignal
    BY <1>2, StartSignalStep
  <1>3. CASE ReadLog
    BY <1>3, ReadLogStep
  <1>4. CASE AppendLog
    BY <1>4, AppendLogStep
  <1>5. CASE DieSignalling
    BY <1>5, DieSignallingStep
  <1>6. QED
    BY <1>1, <1>2, <1>3, <1>4, <1>5 DEF SignalNext

(* Days that arrive, and rows that are restated, change nothing the        *)
(* command has already read.                                               *)
LEMMA SignalUntouched ==
    ASSUME FileInv, SignalInv, UNCHANGED signalVars,
           LastDay' \in Nat, LastDay <= LastDay'
    PROVE  SignalInv'
  <1>1. frozen' = frozen /\ signal_log' = signal_log /\ signal' = signal
    BY DEF signalVars
  <1>2. LastLogged' = LastLogged /\ (Headed' <=> Headed)
    BY <1>1 DEF LastLogged, Headed
  <1>3. LastDay \in Nat /\ \A d \in Nat : d <= LastDay => d <= LastDay'
    BY LatestDayIs, LastDayIs DEF FileInv
  <1>4. LogTyped'
    BY <1>1 DEF SignalInv, LogTyped
  <1>5. 0..LastDay \subseteq 0..LastDay' /\ 1..LastDay \subseteq 1..LastDay'
    BY <1>3
  <1>6. ModelInv'
    BY <1>1, <1>5 DEF SignalInv, ModelInv
  <1>7. CommandTyped'
    <2>1. CASE signal = NoCommand
      BY <1>1, <2>1 DEF CommandTyped
    <2>2. CASE signal \in [cmd : {"freeze"}, trained_through : 0..LastDay]
      BY <1>1, <1>5, <2>2 DEF CommandTyped
    <2>3. CASE /\ signal \in [cmd : {"signal"}, pc : {"read"}, date : 1..LastDay,
                              target : {"LONG", "FLAT"}, trained_through : Nat]
               /\ signal.trained_through <= signal.date
      BY <1>1, <1>5, <2>3 DEF CommandTyped
    <2>4. CASE /\ signal \in [cmd : {"signal"}, pc : {"append"}, row : LoggedRows]
               /\ signal.row.date <= LastDay
      <3>1. signal.row.date \in Nat
        BY <2>4 DEF LoggedRows
      <3>2. signal.row.date <= LastDay'
        BY <1>3, <2>4, <3>1
      <3>3. QED
        BY <1>1, <2>4, <3>2 DEF CommandTyped
    <2>5. QED
      BY <2>1, <2>2, <2>3, <2>4 DEF SignalInv, CommandTyped
  <1>8. Headed' => RowsFollow' /\ CommandFollows'
    <2>1. LastLogged.date \in Nat
      BY LastLoggedTyped DEF SignalInv
    <2>2. QED
      BY <1>1, <1>2, <1>3, <2>1 DEF SignalInv, RowsFollow, CommandFollows
  <1>9. QED
    BY <1>4, <1>6, <1>7, <1>8 DEF SignalInv

-----------------------------------------------------------------------------
(* What the invariant says of the log and of its review.                   *)

LEMMA RowsOfLog ==
    ASSUME SignalInv, Headed
    PROVE  /\ Rows \in Seq(LoggedRows) /\ Len(Rows) \in Nat /\ DOMAIN Rows = 1..Len(Rows)
           /\ \A i \in 1..Len(Rows) :
                 /\ Rows[i] \in LoggedRows
                 /\ Follows(IF i = 1 THEN Header ELSE Rows[i - 1], Rows[i])
  <1> DEFINE lines == signal_log.lines
             Lines == {Header} \cup LoggedRows
  <1>1. lines \in Seq(Lines) /\ Len(lines) \in Nat
    BY LastLoggedTyped DEF SignalInv
  <1>2. CASE lines = <<>>
    <2>1. Rows = <<>>
      BY <1>2 DEF Rows
    <2>2. QED
      BY <2>1
  <1>3. CASE lines # <<>>
    <2> DEFINE n == Len(lines) - 1
    <2>1. lines[1] = Header
      BY <1>3 DEF SignalInv, LogTyped, Headed
    <2>2. n \in Nat /\ Rows = Tail(lines)
      BY <1>1, <1>3, EmptySeq DEF Rows
    <2>3. Rows \in Seq(Lines) /\ Len(Rows) = n /\ \A i \in 1..n : Rows[i] = lines[i + 1]
      BY <1>1, <1>3, <2>2, HeadTailProperties
    <2>4. \A i \in 1..n : Rows[i] \in LoggedRows
      <3> SUFFICES ASSUME NEW i \in 1..n PROVE Rows[i] \in LoggedRows
        OBVIOUS
      <3>1. i + 1 \in 2..Len(lines)
        BY <1>1, <2>2
      <3>2. lines[i + 1] \in LoggedRows
        BY <3>1 DEF SignalInv, LogTyped
      <3>3. QED
        BY <2>3, <3>2
    <2>5. Rows \in Seq(LoggedRows)
      <3>1. Rows = SubSeq(lines, 2, Len(lines))
        BY <1>1, <1>3, <2>2, TailIsSubSeq
      <3>2. \A i \in 2..Len(lines) : lines[i] \in LoggedRows
        BY DEF SignalInv, LogTyped
      <3> HIDE DEF lines
      <3>3. QED
        BY <1>1, <3>1, <3>2, SubSeqProperties
    <2>6. \A i \in 1..n : Follows(IF i = 1 THEN Header ELSE Rows[i - 1], Rows[i])
      <3> SUFFICES ASSUME NEW i \in 1..n
                   PROVE  Follows(IF i = 1 THEN Header ELSE Rows[i - 1], Rows[i])
        OBVIOUS
      <3>1. i + 1 \in 2..Len(lines) /\ (i + 1) - 1 = i
        BY <1>1, <2>2
      <3>2. Follows(lines[i], lines[i + 1])
        BY <3>1 DEF SignalInv, RowsFollow
      <3>3. lines[i] = IF i = 1 THEN Header ELSE Rows[i - 1]
        <4>1. CASE i = 1
          BY <2>1, <4>1
        <4>2. CASE i # 1
          <5>1. i - 1 \in 1..n /\ (i - 1) + 1 = i
            BY <2>2, <4>2
          <5>2. QED
            BY <2>3, <4>2, <5>1
        <4>3. QED
          BY <4>1, <4>2
      <3>4. QED
        BY <2>3, <3>2, <3>3
    <2>7. QED
      BY <2>2, <2>3, <2>4, <2>5, <2>6, LenProperties
  <1>4. QED
    BY <1>2, <1>3

LEMMA LogIsInOrder == SignalInv => OneRowPerBar
  <1> SUFFICES ASSUME SignalInv, Headed, NEW i \in DOMAIN Rows
               PROVE  /\ Rows[i].trained_through <= Rows[i].date
                      /\ i > 1 => Rows[i - 1].date < Rows[i].date
    BY DEF OneRowPerBar
  <1>1. i \in 1..Len(Rows) /\ Len(Rows) \in Nat
    BY RowsOfLog
  <1>2. Follows(IF i = 1 THEN Header ELSE Rows[i - 1], Rows[i])
    BY <1>1, RowsOfLog
  <1>3. QED
    BY <1>1, <1>2 DEF Follows

(* Increasing whole numbers span as much as their count exactly when none  *)
(* is left out.                                                            *)
LEMMA NoneLeftOut ==
    ASSUME NEW n \in Nat \ {0}, NEW d, \A i \in 1..n : d[i] \in Int,
           \A i \in 1..(n - 1) : d[i] < d[i + 1]
    PROVE  d[n] - d[1] = n - 1 <=> \A i \in 1..(n - 1) : d[i + 1] - d[i] = 1
  <1> DEFINE P == {m \in Nat : m + 1 <= n =>
                      /\ d[m + 1] - d[1] >= m
                      /\ d[m + 1] - d[1] = m <=> \A i \in 1..m : d[i + 1] - d[i] = 1}
  <1>1. 0 \in P
    <2>1. 1 \in 1..n
      OBVIOUS
    <2>2. d[1] - d[1] = 0
      BY <2>1
    <2>3. QED
      BY <2>2
  <1>2. ASSUME NEW m \in Nat, m \in P
        PROVE  m + 1 \in P
    <2> SUFFICES ASSUME m + 2 <= n
                 PROVE  /\ d[m + 2] - d[1] >= m + 1
                        /\ d[m + 2] - d[1] = m + 1
                              <=> \A i \in 1..(m + 1) : d[i + 1] - d[i] = 1
      OBVIOUS
    <2>1. m + 1 \in 1..(n - 1) /\ m + 1 \in 1..n /\ m + 2 \in 1..n /\ 1 \in 1..n /\ (m + 1) + 1 = m + 2
      OBVIOUS
    <2>2. d[m + 1] \in Int /\ d[m + 2] \in Int /\ d[1] \in Int /\ d[m + 1] < d[m + 2]
      BY <2>1
    <2>3. /\ d[m + 1] - d[1] >= m
          /\ d[m + 1] - d[1] = m <=> \A i \in 1..m : d[i + 1] - d[i] = 1
      BY <1>2
    <2>4. d[m + 2] - d[1] >= m + 1
      BY <2>2, <2>3
    <2>5. d[m + 2] - d[1] = m + 1 <=> d[m + 1] - d[1] = m /\ d[m + 2] - d[m + 1] = 1
      BY <2>2, <2>3
    <2>6. (\A i \in 1..(m + 1) : d[i + 1] - d[i] = 1)
             <=> (\A i \in 1..m : d[i + 1] - d[i] = 1) /\ d[m + 2] - d[m + 1] = 1
      <3>1. \A i \in 1..(m + 1) : i \in 1..m \/ i = m + 1
        OBVIOUS
      <3>2. 1..m \subseteq 1..(m + 1) /\ m + 1 \in 1..(m + 1)
        OBVIOUS
      <3>3. QED
        BY <2>1, <3>1, <3>2, Zenon
    <2>7. QED
      BY <2>3, <2>4, <2>5, <2>6
  <1>3. n - 1 \in P
    <2>1. n - 1 \in Nat
      OBVIOUS
    <2> HIDE DEF P
    <2>2. QED
      BY <2>1, <1>1, <1>2, NumberInduction
  <1>4. (n - 1) + 1 = n
    OBVIOUS
  <1>5. QED
    BY <1>3, <1>4

LEMMA ReviewIsHonest == SignalInv => TrackRecordHonest
  <1> DEFINE n == Len(Rows)
             tr == TrackRecord(Rows)
             held == DOMAIN tr.position
             Doing(acts) == {i \in held : Rows[i].action \in acts}
  <1> SUFFICES ASSUME SignalInv, Headed, n >= 2
               PROVE  /\ tr.n_trades = Cardinality(Doing({"ENTER"}))
                      /\ tr.charged = Doing({"ENTER", "EXIT"})
                      /\ tr.gaps = 0 <=> Last(Rows).date - Rows[1].date = n - 1
    BY DEF TrackRecordHonest
  <1> DEFINE h == 1..(n - 1)
             pos == [i \in h |-> IF Rows[i].target = "LONG" THEN 1 ELSE 0]
             before(i) == IF i = 1 THEN 0 ELSE pos[i - 1]
  <1>1. n \in Nat /\ \A i \in 1..n : /\ Rows[i] \in LoggedRows
                                     /\ Follows(IF i = 1 THEN Header ELSE Rows[i - 1], Rows[i])
    BY RowsOfLog
  <1>2. /\ tr.position = pos
        /\ tr.charged = {i \in h : pos[i] # before(i)}
        /\ tr.n_trades = Cardinality({i \in h : pos[i] > before(i)})
        /\ tr.gaps = Cardinality({i \in h : Rows[i + 1].date - Rows[i].date # 1})
    BY DEF TrackRecord
  <1>3. held = h
    BY <1>2
  <1>4. \A i \in h : /\ (pos[i] # before(i)) <=> Rows[i].action \in {"ENTER", "EXIT"}
                     /\ (pos[i] > before(i)) <=> Rows[i].action = "ENTER"
    <2> SUFFICES ASSUME NEW i \in h
                 PROVE  /\ (pos[i] # before(i)) <=> Rows[i].action \in {"ENTER", "EXIT"}
                        /\ (pos[i] > before(i)) <=> Rows[i].action = "ENTER"
      OBVIOUS
    <2> DEFINE prev == IF i = 1 THEN Header ELSE Rows[i - 1]
    <2>1. i \in 1..n /\ (i # 1 => i - 1 \in h /\ i - 1 \in 1..n)
      BY <1>1
    <2>2. Rows[i].target \in {"LONG", "FLAT"} /\ prev.target \in {"LONG", "FLAT"}
      BY <1>1, <2>1, HeaderTyped DEF LoggedRows
    <2>3. pos[i] = IF Rows[i].target = "LONG" THEN 1 ELSE 0
      OBVIOUS
    <2>4. before(i) = IF prev.target = "LONG" THEN 1 ELSE 0
      BY <2>1, HeaderTyped
    <2>5. Rows[i].action = ActionFrom(prev.target, Rows[i].target)
      BY <1>1, <2>1 DEF Follows
    <2> HIDE DEF pos, before, prev
    <2>6. QED
      BY <2>2, <2>3, <2>4, <2>5 DEF ActionFrom
  <1> HIDE DEF pos, before
  <1>5. tr.charged = Doing({"ENTER", "EXIT"})
    BY <1>2, <1>3, <1>4
  <1>6. tr.n_trades = Cardinality(Doing({"ENTER"}))
    <2>1. {i \in h : pos[i] > before(i)} = Doing({"ENTER"})
      BY <1>3, <1>4
    <2>2. QED
      BY <1>2, <2>1
  <1>7. tr.gaps = 0 <=> Last(Rows).date - Rows[1].date = n - 1
    <2> DEFINE d == [i \in 1..n |-> Rows[i].date]
               S == {i \in h : Rows[i + 1].date - Rows[i].date # 1}
    <2>1. \A i \in 1..n : d[i] \in Int
      BY <1>1 DEF LoggedRows
    <2>2. \A i \in 1..(n - 1) : d[i] < d[i + 1]
      <3> SUFFICES ASSUME NEW i \in 1..(n - 1) PROVE d[i] < d[i + 1]
        OBVIOUS
      <3>1. i + 1 \in 1..n /\ i \in 1..n /\ i + 1 # 1 /\ (i + 1) - 1 = i
        BY <1>1
      <3>2. Follows(Rows[i], Rows[i + 1])
        BY <1>1, <3>1
      <3>3. QED
        BY <3>1, <3>2 DEF Follows
    <2>3. S = {i \in h : d[i + 1] - d[i] # 1}
      <3>1. \A i \in h : i \in 1..n /\ i + 1 \in 1..n
        BY <1>1
      <3>2. QED
        BY <3>1
    <2>4. IsFiniteSet(S)
      <3>1. IsFiniteSet(h)
        BY <1>1, FS_Interval
      <3>2. QED
        BY <3>1, FS_Subset
    <2>5. tr.gaps = 0 <=> S = {}
      <3> HIDE DEF S
      <3>1. Cardinality(S) = 0 <=> S = {}
        BY <2>4, FS_EmptySet
      <3>2. QED
        BY <1>2, <3>1 DEF S
    <2>6. Last(Rows).date = d[n] /\ Rows[1].date = d[1]
      BY <1>1 DEF Last
    <2> HIDE DEF d, S
    <2>7. d[n] - d[1] = n - 1 <=> \A i \in 1..(n - 1) : d[i + 1] - d[i] = 1
      <3>1. n \in Nat \ {0}
        BY <1>1
      <3> HIDE DEF n
      <3>2. QED
        BY <2>1, <2>2, <3>1, NoneLeftOut
    <2>8. QED
      BY <2>3, <2>5, <2>6, <2>7
  <1>8. QED
    BY <1>5, <1>6, <1>7

-----------------------------------------------------------------------------
(* What the studies compute from the file.                                 *)

LEMMA SliceBars ==
    ASSUME NEW s \in Seq(Bars), NEW from \in Nat, NEW to \in 0..Len(s)
    PROVE  BarsOf(Slice(s, from, to)) = {s[k] : k \in (from + 1)..to}
  <1> DEFINE cut == SubSeq(s, from + 1, to)
             len == to - (from + 1) + 1
  <1>1. \A k \in (from + 1)..to : s[k] \in Bars /\ k \in 1..Len(s)
    <2> SUFFICES ASSUME NEW k \in (from + 1)..to PROVE s[k] \in Bars /\ k \in 1..Len(s)
      OBVIOUS
    <2>1. k \in 1..Len(s)
      BY LenProperties
    <2>2. QED
      BY <2>1, ElementOfSeq
  <1>2. /\ cut \in Seq(Bars)
        /\ Len(cut) = IF from + 1 <= to THEN len ELSE 0
        /\ \A i \in 1..len : cut[i] = s[from + 1 + i - 1]
    <2>1. from + 1 \in Int /\ to \in Int
      OBVIOUS
    <2>2. QED
      BY <1>1, <2>1, SubSeqProperties
  <1>3. DOMAIN cut = 1..len
    BY <1>2, LenProperties
  <1>4. \A i \in 1..len : cut[i] = s[from + i]
    <2>1. \A i \in 1..len : from + 1 + i - 1 = from + i
      OBVIOUS
    <2>2. QED
      BY <1>2, <2>1
  <1>5. Slice(s, from, to) = cut
    BY DEF Slice
  <1> HIDE DEF cut
  <1>6. \A k \in (from + 1)..to : k - from \in 1..len /\ cut[k - from] = s[k]
    <2> SUFFICES ASSUME NEW k \in (from + 1)..to
                 PROVE  k - from \in 1..len /\ cut[k - from] = s[k]
      OBVIOUS
    <2>1. k - from \in 1..len /\ from + (k - from) = k
      OBVIOUS
    <2>2. QED
      BY <1>4, <2>1
  <1>7. \A i \in 1..len : from + i \in (from + 1)..to
    OBVIOUS
  <1>8. BarsOf(cut) = {cut[i] : i \in 1..len}
    BY <1>3 DEF BarsOf
  <1>9. BarsOf(cut) \subseteq {s[k] : k \in (from + 1)..to}
    BY <1>4, <1>7, <1>8
  <1>10. {s[k] : k \in (from + 1)..to} \subseteq BarsOf(cut)
    BY <1>6, <1>8
  <1>11. QED
    BY <1>5, <1>9, <1>10

LEMMA SealedBarsAre == SealedBars = {Bar(d) : d \in (Boundary + 1)..SealedDays}
  <1>1. SealedFile \in Seq(Bars) /\ Boundary \in Nat /\ SealedDays \in 0..Len(SealedFile)
    BY SealedSizes, SealedFileOK DEF FileOK
  <1>2. SealedBars = BarsOf(Slice(SealedFile, Boundary, SealedDays))
    BY SealedSizes DEF SealedBars, SliceFrom
  <1>3. SealedBars = {SealedFile[d] : d \in (Boundary + 1)..SealedDays}
    BY <1>1, <1>2, SliceBars
  <1>4. \A d \in (Boundary + 1)..SealedDays : SealedFile[d] = Bar(d)
    BY <1>1, SealedSizes
  <1>5. QED
    BY <1>3, <1>4

(* While the file only grows, sorting it leaves the sealed days in place.  *)
LEMMA SortedKeepsSealed ==
    ASSUME FileInv, OnlyExtended
    PROVE  \A d \in 1..SealedDays : load_candles[d] = Bar(d)
  <1> SUFFICES ASSUME NEW d \in 1..SealedDays PROVE load_candles[d] = Bar(d)
    OBVIOUS
  <1> DEFINE n == Len(candles)
  <1>1. \A e \in 1..SealedDays : candles[e] = Bar(e) /\ candles[e].day = e
    BY ExtendedRows, SealedSizes DEF OnlyExtended, FileInv
  <1>2. /\ n \in Nat /\ SealedDays \in Nat /\ SealedDays <= n /\ DOMAIN candles = 1..n
        /\ d \in 1..n /\ d \in Nat
    BY FileTypes, SealedSizes DEF FileInv, FileOK
  <1>3. ASSUME NEW j \in 1..n, j > SealedDays PROVE candles[j].day > SealedDays
    <2>1. candles[j].day \in Nat \ {0}
      BY FileTypes
    <2>2. ASSUME candles[j].day <= SealedDays PROVE FALSE
      <3> DEFINE e == candles[j].day
      <3>1. e \in 1..SealedDays /\ e \in 1..n
        BY <1>2, <2>1, <2>2
      <3>2. candles[e].day = candles[j].day
        BY <1>1, <3>1
      <3>3. e = j
        BY <3>1, <3>2 DEF FileInv, FileOK
      <3>4. QED
        BY <1>3, <3>1, <3>3, <1>2
    <2>3. QED
      BY <1>2, <2>1, <2>2
  <1>4. \A j \in 1..n : Earlier(j, d) <=> j < d
    <2> SUFFICES ASSUME NEW j \in 1..n PROVE Earlier(j, d) <=> j < d
      OBVIOUS
    <2>1. CASE j <= SealedDays
      <3>1. j \in 1..SealedDays
        BY <1>2, <2>1
      <3>2. candles[j].day = j /\ candles[d].day = d
        BY <1>1, <3>1
      <3>3. QED
        BY <1>2, <3>2 DEF Earlier
    <2>2. CASE j > SealedDays
      <3>1. candles[j].day > SealedDays /\ candles[d].day = d /\ candles[j].day \in Nat
        BY <1>1, <1>3, <2>2, FileTypes
      <3>2. QED
        BY <1>2, <2>2, <3>1 DEF Earlier
    <2>3. QED
      BY <1>2, <2>1, <2>2
  <1>5. {j \in 1..n : j = d \/ Earlier(j, d)} = 1..d
    BY <1>2, <1>4
  <1>6. Place(d) = d
    BY <1>2, <1>5, Positions DEF Place
  <1>7. QED
    BY <1>1, <1>2, <1>6, SortedFile

LEMMA FileLongEnough ==
    ASSUME FileInv
    PROVE  /\ load_candles \in Seq(Bars) /\ Len(load_candles) \in Nat
           /\ Boundary \in 0..Len(load_candles) /\ Boundary < Len(load_candles)
           /\ Boundary \in Nat \ {0} /\ SealedDays <= Len(load_candles)
           /\ \A k \in 1..Len(load_candles) : load_candles[k] \in Bars /\ load_candles[k].day \in Nat \ {0}
           /\ \A j, k \in 1..Len(load_candles) : j < k => load_candles[j].day < load_candles[k].day
  <1>1. load_candles \in Seq(Bars) /\ Len(load_candles) = Len(candles) /\ Len(candles) \in Nat
    BY SortedFile, FileTypes
  <1>2. Boundary \in 1..(SealedDays - 1) /\ SealedDays \in Nat /\ SealedDays <= Len(candles)
    BY SealedSizes DEF FileInv, FileOK
  <1>3. \A k \in 1..Len(load_candles) : load_candles[k] \in Bars
    BY <1>1, ElementOfSeq
  <1>4. \A bar \in Bars : bar.day \in Nat \ {0}
    BY DEF Bars
  <1>5. \A j, k \in 1..Len(load_candles) : j < k => load_candles[j].day < load_candles[k].day
    BY <1>1, SortedFile
  <1>6. /\ Boundary \in 0..Len(load_candles) /\ Boundary < Len(load_candles)
        /\ Boundary \in Nat \ {0}
    BY <1>1, <1>2
  <1>7. QED
    BY <1>1, <1>2, <1>3, <1>4, <1>5, <1>6

(* A slice that ends at the boundary meets no sealed bar while the file    *)
(* has only grown at its end.                                              *)
LEMMA BeforeTheBoundary ==
    ASSUME FileInv, NEW from \in Nat, NEW to \in 0..Boundary
    PROVE  /\ BarsOf(Slice(load_candles, from, to)) = {load_candles[k] : k \in (from + 1)..to}
           /\ BarsOf(Slice(load_candles, from, to)) \in SUBSET Bars
           /\ Unsealed(BarsOf(Slice(load_candles, from, to)))
  <1> DEFINE bars == {load_candles[k] : k \in (from + 1)..to}
  <1>1. to \in 0..Len(load_candles)
    BY FileLongEnough
  <1>2. BarsOf(Slice(load_candles, from, to)) = bars
    BY <1>1, FileLongEnough, SliceBars
  <1>3. \A k \in (from + 1)..to : k \in 1..Len(load_candles) /\ k \in 1..SealedDays /\ k <= Boundary
    BY FileLongEnough, SealedSizes
  <1>4. bars \in SUBSET Bars
    BY <1>3, FileLongEnough
  <1>5. ASSUME OnlyExtended PROVE bars \cap SealedBars = {}
    <2> SUFFICES ASSUME NEW k \in (from + 1)..to, NEW d \in (Boundary + 1)..SealedDays,
                        load_candles[k] = Bar(d)
                 PROVE  FALSE
      BY SealedBarsAre
    <2>1. load_candles[k] = Bar(k)
      BY <1>3, <1>5, SortedKeepsSealed
    <2>2. Bar(k).day = k /\ Bar(d).day = d
      BY DEF Bar
    <2>3. k = d
      BY <2>1, <2>2
    <2>4. QED
      BY <1>3, <2>3, SealedSizes
  <1> HIDE DEF bars
  <1>6. QED
    BY <1>2, <1>4, <1>5 DEF Unsealed, bars

(* The rows a trial is scored over start at the middle of the research     *)
(* partition, end before the boundary, and always contain the last of them *)
(* when the slice is warm for a window at least as long.                   *)
LEMMA HalfOfThePartition ==
    TrainEnd \in Nat /\ TrainEnd <= Boundary - 2 /\ Boundary - 2 \in Nat /\ SlicePad \in Nat
        /\ Boundary \in Nat
  <1>1. Boundary \in Nat
    BY SealedSizes
  <1>2. Boundary - 2 >= 1
    BY <1>1, VolWindowAssumption, GridAssumption
  <1>3. TrainEnd \in Nat /\ TrainEnd <= Boundary - 2
    BY <1>1, <1>2 DEF TrainEnd
  <1>4. QED
    BY <1>1, <1>2, <1>3, GridAssumption

LEMMA OosRowsAre ==
    ASSUME NEW w \in 1..(Boundary - 2), NEW v \in 1..w
    PROVE  /\ SliceStart(w) \in Nat
           /\ OosRows(SliceStart(w), v) \in SUBSET (TrainEnd..(Boundary - 2))
           /\ Boundary - 2 \in OosRows(SliceStart(w), v)
  <1> DEFINE B == Boundary
             E == TrainEnd
             start == SliceStart(w)
  <1>1. E \in Nat /\ E <= B - 2 /\ B \in Nat /\ SlicePad \in Nat
    BY HalfOfThePartition
  <1>2. start \in Nat /\ start + w <= B - 2
    <2>1. start = IF E - (w + SlicePad) < 0 THEN 0 ELSE E - (w + SlicePad)
      BY DEF SliceStart
    <2> HIDE DEF start, E, B
    <2>2. w \in Nat /\ w <= B - 2
      BY <1>1 DEF B
    <2>3. QED
      BY <1>1, <2>1, <2>2
  <1>3. v \in Nat /\ v <= w /\ w \in Nat
    BY <1>1
  <1>4. OosRows(start, v) = {start + r : r \in v..(B - start - 2)} \ 0..(E - 1)
    BY DEF OosRows, CandleIndex
  <1> HIDE DEF start, E, B
  <1>5. \A r \in v..(B - start - 2) : start + r \in Nat /\ start + r <= B - 2
    BY <1>1, <1>2, <1>3
  <1>6. ASSUME NEW x \in OosRows(start, v) PROVE x \in E..(B - 2)
    <2>1. x \in Nat /\ x <= B - 2 /\ x \notin 0..(E - 1)
      BY <1>4, <1>5
    <2>2. QED
      BY <1>1, <2>1
  <1>7. B - 2 \in OosRows(start, v)
    <2>1. B - start - 2 \in v..(B - start - 2) /\ start + (B - start - 2) = B - 2
      BY <1>1, <1>2, <1>3
    <2>2. B - 2 \notin 0..(E - 1)
      BY <1>1
    <2>3. B - 2 \in {start + r : r \in v..(B - start - 2)}
      BY <2>1
    <2>4. QED
      BY <1>4, <2>2, <2>3
  <1>8. QED
    BY <1>2, <1>6, <1>7 DEF start, E, B

\* A trial of this name scored over these days.
SoundTrial(t, name, days) ==
    /\ t \in Trials /\ t.name = name
    /\ t.rows = days /\ days # {}
    /\ days \cap {bar.day : bar \in t.fit} = {}
    /\ TrialUnsealed(t)

(* A trial is never scored on a day its model was fitted on.               *)
LEMMA TrialIs ==
    ASSUME FileInv, NEW name \in TrialNames, NEW start \in Nat,
           NEW rows \in SUBSET (TrainEnd..(Boundary - 2)), Boundary - 2 \in rows
    PROVE  SoundTrial(Trial(load_candles, name, start, rows), name,
                      {load_candles[r + 1].day : r \in rows})
  <1> DEFINE t == Trial(load_candles, name, start, rows)
             fit == BarsOf(Slice(load_candles, 0, TrainEnd))
             seen == BarsOf(Slice(load_candles, start, Boundary))
             days == {load_candles[r + 1].day : r \in rows}
  <1>1. t = [name |-> name, fit |-> fit, seen |-> seen, rows |-> days]
    BY DEF Trial
  <1>2. TrainEnd \in 0..Boundary /\ Boundary \in 0..Boundary /\ TrainEnd \in Nat
        /\ Boundary < Len(load_candles) /\ Len(load_candles) \in Nat
    BY HalfOfThePartition, FileLongEnough
  <1>3. /\ fit = {load_candles[k] : k \in 1..TrainEnd}
        /\ fit \in SUBSET Bars /\ Unsealed(fit)
    BY <1>2, BeforeTheBoundary
  <1>4. seen \in SUBSET Bars /\ Unsealed(seen)
    BY <1>2, BeforeTheBoundary
  <1>5. \A r \in rows : r + 1 \in 1..Len(load_candles) /\ r + 1 > TrainEnd
    BY <1>2, HalfOfThePartition
  <1>6. days \in SUBSET Nat
    BY <1>5, FileLongEnough
  <1>7. load_candles[Boundary - 2 + 1].day \in days
    OBVIOUS
  <1>8. ASSUME NEW r \in rows, NEW k \in 1..TrainEnd
        PROVE  load_candles[r + 1].day # load_candles[k].day
    <2>1. k \in 1..Len(load_candles) /\ r + 1 \in 1..Len(load_candles) /\ k < r + 1
      BY <1>2, <1>5
    <2>2. load_candles[k].day < load_candles[r + 1].day
      BY <2>1, FileLongEnough
    <2>3. load_candles[k].day \in Nat /\ load_candles[r + 1].day \in Nat
      BY <2>1, FileLongEnough
    <2>4. QED
      BY <2>2, <2>3
  <1>9. days \cap {bar.day : bar \in fit} = {}
    BY <1>3, <1>8
  <1> HIDE DEF fit, seen, days
  <1>10. Unsealed(fit \cup seen)
    BY <1>3, <1>4 DEF Unsealed
  <1>11. t \in Trials /\ t.name = name /\ t.rows = days /\ t.fit = fit /\ t.seen = seen
    BY <1>1, <1>3, <1>4, <1>6 DEF Trials
  <1> HIDE DEF t
  <1>12. SoundTrial(t, name, days)
    BY <1>7, <1>9, <1>10, <1>11 DEF TrialUnsealed, SoundTrial
  <1>13. QED
    BY <1>12 DEF t, days

\* One trial for each name, all over the same rows.
TrialsOver(trials, n, names, start, rows) ==
    trials = [i \in 1..n |-> Trial(load_candles, names[i], start[i], rows)]

LEMMA TrialsFromNames ==
    ASSUME FileInv, NEW n \in Nat, NEW names \in [1..n -> STRING],
           NEW start, \A i \in 1..n : start[i] \in Nat,
           NEW rows \in SUBSET (TrainEnd..(Boundary - 2)), Boundary - 2 \in rows,
           NEW trials, TrialsOver(trials, n, names, start, rows),
           NEW study, NamesOf[study] = names
    PROVE  SearchOf(study, trials)
  <1> DEFINE days == {load_candles[r + 1].day : r \in rows}
  <1>1. DOMAIN trials = 1..n
    BY DEF TrialsOver
  <1>2. \A i \in 1..n : SoundTrial(trials[i], names[i], days)
    <2> SUFFICES ASSUME NEW i \in 1..n PROVE SoundTrial(trials[i], names[i], days)
      OBVIOUS
    <2>1. trials[i] = Trial(load_candles, names[i], start[i], rows)
      BY DEF TrialsOver
    <2>2. names[i] \in TrialNames /\ start[i] \in Nat
      BY DEF TrialNames
    <2>3. SoundTrial(Trial(load_candles, names[i], start[i], rows), names[i], days)
      BY <2>2, TrialIs
    <2> HIDE DEF days
    <2>4. QED
      BY <2>1, <2>3
  <1> HIDE DEF days
  <1>3. trials \in [1..n -> Trials]
    <2>1. trials = [i \in 1..n |-> trials[i]]
      BY DEF TrialsOver
    <2>2. \A i \in 1..n : trials[i] \in Trials
      BY <1>2 DEF SoundTrial
    <2>3. QED
      BY <2>1, <2>2
  <1>4. trials \in Seq(Trials)
    BY <1>3
  <1>5. [i \in DOMAIN trials |-> trials[i].name] = names
    <2>1. [i \in 1..n |-> names[i]] = names
      OBVIOUS
    <2>2. [i \in 1..n |-> trials[i].name] = [i \in 1..n |-> names[i]]
      BY <1>2 DEF SoundTrial
    <2>3. QED
      BY <1>1, <2>1, <2>2
  <1>6. \A t \in BarsOf(trials) : \E i \in 1..n : SoundTrial(t, names[i], days)
    BY <1>1, <1>2 DEF BarsOf
  <1>7. \A t \in BarsOf(trials) : /\ t.rows = days /\ t.rows # {}
                                  /\ t.rows \cap {bar.day : bar \in t.fit} = {}
                                  /\ TrialUnsealed(t)
    <2> SUFFICES ASSUME NEW t \in BarsOf(trials)
                 PROVE  /\ t.rows = days /\ t.rows # {}
                        /\ t.rows \cap {bar.day : bar \in t.fit} = {}
                        /\ TrialUnsealed(t)
      OBVIOUS
    <2>1. PICK i \in 1..n : SoundTrial(t, names[i], days)
      BY <1>6
    <2>2. QED
      BY <2>1 DEF SoundTrial
  <1>8. QED
    BY <1>4, <1>5, <1>7 DEF SearchOf, SoundSearch, Named

\* What is assumed of a grid of configurations.
Configs == [name : STRING, vol_window : 1..(Boundary - 2)]
ConfigGrid(grid) ==
    /\ Len(grid) \in Nat \ {0} /\ DOMAIN grid = 1..Len(grid)
    /\ \A i \in 1..Len(grid) : grid[i] \in Configs /\ grid[i].name \in STRING
                                  /\ grid[i].vol_window \in 1..(Boundary - 2)

LEMMA ConfigGrids == ConfigGrid(RegimeGrid) /\ ConfigGrid(ShortGrid)
  <1> SUFFICES ASSUME NEW grid \in {RegimeGrid, ShortGrid} PROVE ConfigGrid(grid)
    OBVIOUS
  <1>1. grid \in Seq(Configs) /\ grid # <<>>
    BY GridAssumption DEF Configs
  <1>2. \A cfg \in Configs : cfg.name \in STRING /\ cfg.vol_window \in 1..(Boundary - 2)
    BY DEF Configs
  <1>3. \A i \in 1..Len(grid) : grid[i] \in Configs
    BY <1>1, ElementOfSeq
  <1>4. QED
    BY <1>1, <1>2, <1>3, LenProperties, EmptySeq DEF ConfigGrid

LEMMA NameGrids ==
    \A grid \in {OverlayGrid, SizingGrid} :
        /\ Len(grid) \in Nat \ {0} /\ DOMAIN grid = 1..Len(grid)
        /\ grid \in [1..Len(grid) -> STRING]
  <1> SUFFICES ASSUME NEW grid \in {OverlayGrid, SizingGrid}
               PROVE  /\ Len(grid) \in Nat \ {0} /\ DOMAIN grid = 1..Len(grid)
                      /\ grid \in [1..Len(grid) -> STRING]
    OBVIOUS
  <1>1. grid \in Seq(STRING) /\ grid # <<>>
    BY GridAssumption
  <1>2. QED
    BY <1>1, LenProperties, EmptySeq

(* The rows all configurations of a grid have, with slices warm enough for *)
(* each of them.                                                           *)
LEMMA CommonRows ==
    ASSUME NEW grid, ConfigGrid(grid), NEW rows,
           \A i \in 1..Len(grid) : /\ rows[i] \in SUBSET (TrainEnd..(Boundary - 2))
                                   /\ Boundary - 2 \in rows[i],
           NEW common, common = {r \in 0..Boundary : \A i \in 1..Len(grid) : r \in rows[i]}
    PROVE  /\ common \in SUBSET (TrainEnd..(Boundary - 2)) /\ Boundary - 2 \in common
           /\ \A i \in 1..Len(grid) : rows[i] \cap common = common
  <1>1. 1 \in 1..Len(grid)
    BY DEF ConfigGrid
  <1>2. Boundary - 2 \in 0..Boundary
    BY HalfOfThePartition
  <1>3. QED
    BY <1>1, <1>2

LEMMA RegimeSearch ==
    ASSUME FileInv
    PROVE  SearchOf("regime_search", RegimeTrials(load_candles))
  <1> DEFINE n == Len(RegimeGrid)
             windows == {cfg.vol_window : cfg \in BarsOf(RegimeGrid)}
             w == Max(windows)
             start == SliceStart(w)
             rows == [i \in 1..n |-> OosRows(start, RegimeGrid[i].vol_window)]
             common == {r \in 0..Boundary : \A i \in 1..n : r \in rows[i]}
             names == [i \in 1..n |-> RegimeGrid[i].name]
             starts == [i \in 1..n |-> start]
  <1>1. /\ n \in Nat \ {0} /\ DOMAIN RegimeGrid = 1..n
        /\ \A i \in 1..n : RegimeGrid[i].name \in STRING
                              /\ RegimeGrid[i].vol_window \in 1..(Boundary - 2)
    BY ConfigGrids DEF ConfigGrid
  <1>2. BarsOf(RegimeGrid) = {RegimeGrid[i] : i \in 1..n}
    BY <1>1 DEF BarsOf
  <1>3. windows = {RegimeGrid[i].vol_window : i \in 1..n}
    BY <1>2
  <1>4. w \in 1..(Boundary - 2) /\ \A i \in 1..n : RegimeGrid[i].vol_window \in 1..w
    <2>1. Boundary - 2 \in Nat
      BY HalfOfThePartition
    <2> HIDE DEF windows
    <2>2. windows \in SUBSET (1..(Boundary - 2)) /\ RegimeGrid[1].vol_window \in windows
      BY <1>1, <1>3
    <2>3. windows \in SUBSET (0..(Boundary - 2)) /\ windows # {}
      BY <2>1, <2>2
    <2>4. \E x \in windows : \A y \in windows : y <= x
      BY <2>1, <2>3, GreatestElement
    <2>5. \E x \in windows : \A y \in windows : x >= y
      <3>1. \A x, y \in windows : y <= x <=> x >= y
        BY <2>1, <2>2
      <3>2. QED
        BY <2>4, <3>1
    <2>6. w \in windows /\ \A y \in windows : w >= y
      BY <2>5 DEF Max
    <2> HIDE DEF w
    <2>7. QED
      BY <1>1, <1>3, <2>1, <2>2, <2>6
  <1> HIDE DEF w, windows
  <1>5. \A i \in 1..n : /\ rows[i] \in SUBSET (TrainEnd..(Boundary - 2))
                        /\ Boundary - 2 \in rows[i]
    BY <1>4, OosRowsAre
  <1>6. start \in Nat
    BY <1>4, OosRowsAre
  <1>7. /\ common \in SUBSET (TrainEnd..(Boundary - 2)) /\ Boundary - 2 \in common
        /\ \A i \in 1..n : rows[i] \cap common = common
    <2> HIDE DEF rows
    <2>1. QED
      BY <1>5, ConfigGrids, CommonRows
  <1>8. RegimeTrials(load_candles) =
           [i \in 1..n |-> Trial(load_candles, names[i], starts[i], common)]
    <2>1. common = {r \in 0..Boundary : \A cfg \in BarsOf(RegimeGrid) :
                                           r \in OosRows(start, cfg.vol_window)}
      BY <1>2
    <2> DEFINE cut(i) == OosRows(start, RegimeGrid[i].vol_window) \cap common
    <2>2. RegimeTrials(load_candles) =
             [i \in DOMAIN RegimeGrid |->
                 Trial(load_candles, RegimeGrid[i].name, start, cut(i))]
      <3> DEFINE all == {r \in 0..Boundary : \A cfg \in BarsOf(RegimeGrid) :
                                                r \in OosRows(start, cfg.vol_window)}
      <3>1. RegimeTrials(load_candles) =
               [i \in DOMAIN RegimeGrid |->
                   Trial(load_candles, RegimeGrid[i].name, start,
                         OosRows(start, RegimeGrid[i].vol_window) \cap all)]
        BY DEF RegimeTrials, w, windows
      <3>2. common = all
        BY <2>1
      <3> HIDE DEF common, all
      <3>3. QED
        BY <3>1, <3>2
    <2>3. \A i \in 1..n : cut(i) = common
      BY <1>7
    <2> HIDE DEF cut, common
    <2>4. \A i \in 1..n : Trial(load_candles, RegimeGrid[i].name, start, cut(i))
                             = Trial(load_candles, names[i], starts[i], common)
      BY <2>3
    <2>5. QED
      BY <1>1, <2>2, <2>4
  <1>9. names \in [1..n -> STRING] /\ \A i \in 1..n : starts[i] \in Nat
    BY <1>1, <1>6
  <1>10. NamesOf["regime_search"] = names
    BY <1>1 DEF NamesOf
  <1> DEFINE trials == RegimeTrials(load_candles)
  <1> HIDE DEF names, starts, common, start, rows, trials
  <1>11. TrialsOver(trials, n, names, starts, common)
    BY <1>8 DEF trials, TrialsOver
  <1>12. SearchOf("regime_search", trials)
    <2> HIDE DEF n
    <2>1. QED
      BY <1>1, <1>7, <1>9, <1>10, <1>11, TrialsFromNames
  <1>13. QED
    BY <1>12 DEF trials

LEMMA ShortSearch ==
    ASSUME FileInv
    PROVE  SearchOf("short_eval", ShortTrials(load_candles))
  <1> DEFINE n == Len(ShortGrid)
             window(i) == ShortGrid[i].vol_window
             rows == [i \in 1..n |-> OosRows(SliceStart(window(i)), window(i))]
             common == {r \in 0..Boundary : \A i \in 1..n : r \in rows[i]}
             names == [i \in 1..n |-> ShortGrid[i].name]
             starts == [i \in 1..n |-> SliceStart(window(i))]
  <1>1. /\ n \in Nat \ {0} /\ DOMAIN ShortGrid = 1..n
        /\ \A i \in 1..n : ShortGrid[i].name \in STRING /\ window(i) \in 1..(Boundary - 2)
    BY ConfigGrids DEF ConfigGrid
  <1>2. BarsOf(ShortGrid) = {ShortGrid[i] : i \in 1..n}
    BY <1>1 DEF BarsOf
  <1>3. \A i \in 1..n : /\ rows[i] \in SUBSET (TrainEnd..(Boundary - 2))
                        /\ Boundary - 2 \in rows[i]
                        /\ starts[i] \in Nat
    <2> SUFFICES ASSUME NEW i \in 1..n
                 PROVE  /\ rows[i] \in SUBSET (TrainEnd..(Boundary - 2))
                        /\ Boundary - 2 \in rows[i]
                        /\ starts[i] \in Nat
      OBVIOUS
    <2> DEFINE v == window(i)
    <2>1. v \in 1..(Boundary - 2) /\ rows[i] = OosRows(SliceStart(v), v)
          /\ starts[i] = SliceStart(v)
      BY <1>1
    <2> HIDE DEF v, rows, starts
    <2>2. v \in 1..v
      BY <2>1, HalfOfThePartition
    <2>3. QED
      BY <2>1, <2>2, OosRowsAre
  <1>4. /\ common \in SUBSET (TrainEnd..(Boundary - 2)) /\ Boundary - 2 \in common
        /\ \A i \in 1..n : rows[i] \cap common = common
    <2> HIDE DEF rows
    <2>1. QED
      BY <1>3, ConfigGrids, CommonRows
  <1>5. ShortTrials(load_candles) =
           [i \in 1..n |-> Trial(load_candles, names[i], starts[i], common)]
    <2> DEFINE all == {r \in 0..Boundary : \A cfg \in BarsOf(ShortGrid) :
                          r \in OosRows(SliceStart(cfg.vol_window), cfg.vol_window)}
    <2>1. ShortTrials(load_candles) =
             [i \in DOMAIN ShortGrid |->
                 Trial(load_candles, ShortGrid[i].name, SliceStart(window(i)),
                       OosRows(SliceStart(window(i)), window(i)) \cap all)]
      BY DEF ShortTrials
    <2>2. common = all
      BY <1>2
    <2> HIDE DEF common, all
    <2>3. \A i \in 1..n : OosRows(SliceStart(window(i)), window(i)) \cap all = common
      BY <1>4, <2>2
    <2>4. \A i \in 1..n : Trial(load_candles, ShortGrid[i].name, SliceStart(window(i)),
                                OosRows(SliceStart(window(i)), window(i)) \cap all)
                             = Trial(load_candles, names[i], starts[i], common)
      BY <2>3
    <2> HIDE DEF names, starts, window
    <2>5. QED
      BY <1>1, <2>1, <2>4
  <1>6. names \in [1..n -> STRING]
    BY <1>1
  <1>7. NamesOf["short_eval"] = names
    BY <1>1 DEF NamesOf
  <1> DEFINE trials == ShortTrials(load_candles)
  <1> HIDE DEF names, starts, common, window, rows, trials
  <1>8. TrialsOver(trials, n, names, starts, common)
    BY <1>5 DEF trials, TrialsOver
  <1>9. SearchOf("short_eval", trials)
    <2> HIDE DEF n
    <2>1. QED
      BY <1>1, <1>3, <1>4, <1>6, <1>7, <1>8, TrialsFromNames
  <1>10. QED
    BY <1>9 DEF trials

(* The overlays and the sizing variants share one slice.                   *)
LEMMA SharedRowsAre ==
    /\ SliceStart(VolWindow) \in Nat
    /\ SharedRows \in SUBSET (TrainEnd..(Boundary - 2)) /\ Boundary - 2 \in SharedRows
  <1>1. VolWindow \in 1..(Boundary - 2) /\ VolWindow \in 1..VolWindow
    BY VolWindowAssumption, GridAssumption, HalfOfThePartition
  <1>2. QED
    BY <1>1, OosRowsAre DEF SharedRows

LEMMA SharedSearch ==
    ASSUME FileInv, NEW grid \in {OverlayGrid, SizingGrid}, NEW study, NamesOf[study] = grid,
           NEW trials,
           trials = [i \in DOMAIN grid |->
                        Trial(load_candles, grid[i], SliceStart(VolWindow), SharedRows)]
    PROVE  SearchOf(study, trials)
  <1> DEFINE n == Len(grid)
             starts == [i \in 1..n |-> SliceStart(VolWindow)]
  <1>1. n \in Nat /\ DOMAIN grid = 1..n /\ grid \in [1..n -> STRING]
    BY NameGrids
  <1>2. \A i \in 1..n : starts[i] \in Nat /\ starts[i] = SliceStart(VolWindow)
    BY SharedRowsAre
  <1> HIDE DEF starts
  <1>3. TrialsOver(trials, n, grid, starts, SharedRows)
    BY <1>1, <1>2 DEF TrialsOver
  <1> HIDE DEF n
  <1>4. QED
    BY <1>1, <1>2, <1>3, SharedRowsAre, TrialsFromNames

\* The scripts of make research, in order.
ScriptNames == {"regime_search", "ensemble_eval", "sizing_eval", "short_eval",
                "compare_strategies", "research_report"}

LEMMA ScriptsOfMake ==
    /\ Studies \in Seq(ScriptNames) /\ Len(Studies) = 4 /\ DOMAIN Studies = 1..4
    /\ Studies[1] = "regime_search" /\ Studies[2] = "ensemble_eval"
    /\ Studies[3] = "sizing_eval" /\ Studies[4] = "short_eval"
    /\ MakeResearch \in Seq(ScriptNames) /\ Len(MakeResearch) = 6
    /\ \A i \in 1..4 : MakeResearch[i] = Studies[i]
    /\ MakeResearch[5] = "compare_strategies" /\ MakeResearch[6] = "research_report"
  <1> DEFINE more == <<"compare_strategies", "research_report">>
  <1>1. /\ "regime_search" \in ScriptNames /\ "ensemble_eval" \in ScriptNames
        /\ "sizing_eval" \in ScriptNames /\ "short_eval" \in ScriptNames
        /\ "compare_strategies" \in ScriptNames /\ "research_report" \in ScriptNames
    BY DEF ScriptNames
  <1>2. \A a, b, c, d \in ScriptNames : <<a, b, c, d>> \in Seq(ScriptNames)
    OBVIOUS
  <1>3. \A a, b \in ScriptNames : <<a, b>> \in Seq(ScriptNames)
    OBVIOUS
  <1>4. Studies \in Seq(ScriptNames)
    BY <1>1, <1>2 DEF Studies
  <1>5. Len(Studies) = 4 /\ DOMAIN Studies = 1..4
    BY DEF Studies
  <1>6. /\ Studies[1] = "regime_search" /\ Studies[2] = "ensemble_eval"
        /\ Studies[3] = "sizing_eval" /\ Studies[4] = "short_eval"
    BY DEF Studies
  <1>7. more \in Seq(ScriptNames)
    BY <1>1, <1>3
  <1>8. Len(more) = 2
    OBVIOUS
  <1>9. more[1] = "compare_strategies" /\ more[2] = "research_report"
    OBVIOUS
  <1>10. MakeResearch = Studies \o more
    BY DEF MakeResearch
  <1> HIDE DEF more
  <1>11. /\ MakeResearch \in Seq(ScriptNames)
         /\ Len(MakeResearch) = Len(Studies) + Len(more)
         /\ \A i \in 1..(Len(Studies) + Len(more)) :
               MakeResearch[i] = IF i <= Len(Studies) THEN Studies[i]
                                                      ELSE more[i - Len(Studies)]
    BY <1>4, <1>7, <1>10, ConcatProperties
  <1>12. /\ Len(MakeResearch) = 6
         /\ \A i \in 1..6 : MakeResearch[i] = IF i <= 4 THEN Studies[i] ELSE more[i - 4]
    BY <1>5, <1>8, <1>11
  <1>13. /\ \A i \in 1..4 : MakeResearch[i] = Studies[i]
         /\ MakeResearch[5] = more[1] /\ MakeResearch[6] = more[2]
    BY <1>12
  <1>14. QED
    BY <1>4, <1>5, <1>6, <1>9, <1>11, <1>12, <1>13

LEMMA StudyNamesAre ==
    /\ StudyNames = {"regime_search", "ensemble_eval", "sizing_eval", "short_eval"}
    /\ StudyNames = {Studies[i] : i \in 1..4}
  <1>1. StudyNames = {Studies[i] : i \in 1..4}
    BY ScriptsOfMake DEF StudyNames, BarsOf
  <1>2. 1..4 = {1, 2, 3, 4}
    OBVIOUS
  <1>3. StudyNames = {Studies[1], Studies[2], Studies[3], Studies[4]}
    BY <1>1, <1>2
  <1>4. QED
    BY <1>1, <1>3, ScriptsOfMake

(* Whatever the file holds, a study starts from a sound search.            *)
LEMMA StudyStarts ==
    ASSUME FileInv, NEW study \in StudyNames
    PROVE  /\ SearchOf(study, TrialsOf(study, load_candles))
           /\ Walked(study, load_candles) \in SUBSET Bars
           /\ Unsealed(Walked(study, load_candles))
  <1>1. CASE study = "regime_search"
    <2>1. TrialsOf(study, load_candles) = RegimeTrials(load_candles)
      BY <1>1 DEF TrialsOf
    <2>2. Walked(study, load_candles) = {}
      BY <1>1 DEF Walked
    <2>3. QED
      BY <1>1, <2>1, <2>2, RegimeSearch DEF Unsealed
  <1>2. ASSUME study # "regime_search"
        PROVE  /\ Walked(study, load_candles) \in SUBSET Bars
               /\ Unsealed(Walked(study, load_candles))
    <2>1. Boundary \in 0..Boundary /\ 0 \in Nat
      BY HalfOfThePartition
    <2>2. Walked(study, load_candles) = BarsOf(Slice(load_candles, 0, Boundary))
      BY <1>2 DEF Walked
    <2>3. QED
      BY <2>1, <2>2, BeforeTheBoundary
  <1>3. CASE study = "ensemble_eval"
    <2>1. TrialsOf(study, load_candles) = OverlayTrials(load_candles)
      BY <1>3 DEF TrialsOf
    <2>2. NamesOf[study] = OverlayGrid
      BY <1>3 DEF NamesOf
    <2>3. SearchOf(study, OverlayTrials(load_candles))
      BY <2>2, SharedSearch DEF OverlayTrials
    <2>4. QED
      BY <1>2, <1>3, <2>1, <2>3
  <1>4. CASE study = "sizing_eval"
    <2>1. TrialsOf(study, load_candles) = SizingTrials(load_candles)
      BY <1>4 DEF TrialsOf
    <2>2. NamesOf[study] = SizingGrid
      BY <1>4 DEF NamesOf
    <2>3. SearchOf(study, SizingTrials(load_candles))
      BY <2>2, SharedSearch DEF SizingTrials
    <2>4. QED
      BY <1>2, <1>4, <2>1, <2>3
  <1>5. CASE study = "short_eval"
    <2>1. TrialsOf(study, load_candles) = ShortTrials(load_candles)
      BY <1>5 DEF TrialsOf
    <2>2. QED
      BY <1>2, <1>5, <2>1, ShortSearch
  <1>6. QED
    BY <1>1, <1>3, <1>4, <1>5, StudyNamesAre

(* So is the chart of the strategy comparison.                             *)
LEMMA ChartStarts ==
    ASSUME FileInv
    PROVE  /\ Trial(load_candles, "comparison", SliceStart(VolWindow), SharedRows) \in Trials
           /\ TrialUnsealed(Trial(load_candles, "comparison", SliceStart(VolWindow), SharedRows))
  <1> DEFINE days == {load_candles[r + 1].day : r \in SharedRows}
             t == Trial(load_candles, "comparison", SliceStart(VolWindow), SharedRows)
  <1>1. "comparison" \in TrialNames
    BY DEF TrialNames
  <1>2. SoundTrial(t, "comparison", days)
    BY <1>1, SharedRowsAre, TrialIs
  <1> HIDE DEF t, days
  <1>3. t \in Trials /\ TrialUnsealed(t)
    BY <1>2 DEF SoundTrial
  <1>4. QED
    BY <1>3 DEF t

(* A window of the walk over the whole file is scored on later bars than    *)
(* those its model was fitted on.                                          *)
LEMMA WindowsApart ==
    ASSUME FileInv
    PROVE  \A w \in WalkedWindows(load_candles) : w.scored \cap w.fit = {}
  <1> DEFINE n == Len(load_candles)
             rows(t) == WindowRows(n, t, TestWindow)
             fit(t) == BarsOf(Slice(load_candles, 0, t))
             scored(t) == {load_candles[g + 1] : g \in rows(t)}
  <1>1. /\ n \in Nat /\ load_candles \in Seq(Bars)
        /\ \A k \in 1..n : load_candles[k] \in Bars /\ load_candles[k].day \in Nat \ {0}
        /\ \A j, k \in 1..n : j < k => load_candles[j].day < load_candles[k].day
    BY FileLongEnough
  <1>2. TrainMin \in Nat /\ TestWindow \in Nat
    BY WalkArgsAssumption
  <1>3. ASSUME NEW t \in TrainMin..(n - 2)
        PROVE  scored(t) \cap fit(t) = {}
    <2>1. t \in Nat /\ t \in 0..n
      BY <1>1, <1>2, <1>3
    <2>2. fit(t) = {load_candles[k] : k \in (0 + 1)..t}
      BY <1>1, <2>1, SliceBars
    <2>3. \A g \in rows(t) : g \in t..(n - 2)
      <3> DEFINE end == AtMost(t + TestWindow, n)
                 start == AtLeast(0, t - Warmup)
      <3>1. end \in Nat /\ end <= n /\ start \in Nat
        BY <1>1, <1>2, <2>1, VolWindowAssumption DEF AtMost, AtLeast, Warmup
      <3>2. rows(t) = {g \in {start + r : r \in VolWindow..(end - start - 2)} : g >= t}
        BY DEF WindowRows, CandleIndex
      <3> HIDE DEF end, start, rows, n
      <3>3. QED
        BY <1>1, <2>1, <3>1, <3>2, VolWindowAssumption
    <2> HIDE DEF rows, n
    <2>4. ASSUME NEW g \in rows(t), NEW k \in 1..t
          PROVE  load_candles[g + 1] # load_candles[k]
      <3>1. g + 1 \in 1..n /\ k \in 1..n /\ k < g + 1
        BY <1>1, <2>1, <2>3
      <3>2. load_candles[k].day < load_candles[g + 1].day
        BY <1>1, <3>1
      <3>3. load_candles[k].day \in Nat /\ load_candles[g + 1].day \in Nat
        BY <1>1, <3>1
      <3>4. QED
        BY <3>2, <3>3
    <2>5. QED
      BY <2>2, <2>4
  <1> DEFINE kept == {t \in TrainMin..(n - 2) : /\ (t - TrainMin) % WalkStep = 0
                                                 /\ Cardinality(rows(t)) >= MinOos}
  <1>4. WalkedWindows(load_candles) = {[fit |-> fit(t), scored |-> scored(t)] : t \in kept}
    BY DEF WalkedWindows
  <1>5. kept \subseteq TrainMin..(n - 2)
    OBVIOUS
  <1> HIDE DEF kept, fit, scored, rows, n
  <1>6. QED
    BY <1>3, <1>4, <1>5

(* Where the length and the hash agree with the manifest, the holdout is    *)
(* the sealed bars, the model is fitted on none of them, and the in-sample  *)
(* half of the chart is about none of them.                                *)
LEMMA HoldoutResultIs ==
    ASSUME FileInv, NEW script, ResearchLoads(load_candles), HoldoutReveals(load_candles)
    PROVE  SoundResult(HoldoutResult(script, load_candles))
  <1> DEFINE n == Len(load_candles)
             holdout == SliceFrom(load_candles, Boundary)
             fit == BarsOf(load_research(load_candles))
             result == HoldoutResult(script, load_candles)
  <1>1. /\ n \in Nat /\ Boundary \in Nat \ {0} /\ Boundary < n /\ n \in 0..n
        /\ load_candles \in Seq(Bars)
        /\ \A k \in 1..n : load_candles[k] \in Bars /\ load_candles[k].day \in Nat \ {0}
        /\ \A j, k \in 1..n : j < k => load_candles[j].day < load_candles[k].day
    BY FileLongEnough
  <1>2. ASSUME NEW j \in 1..n, NEW k \in 1..n, j < k
        PROVE  load_candles[j] # load_candles[k]
    <2>1. load_candles[j].day < load_candles[k].day
      BY <1>1, <1>2
    <2>2. load_candles[j].day \in Nat /\ load_candles[k].day \in Nat
      BY <1>1
    <2>3. QED
      BY <2>1, <2>2
  <1>3. /\ fit = {load_candles[k] : k \in 1..Boundary}
        /\ load_research(load_candles) \in Seq(Bars)
    <2>1. 0 \in Nat /\ Boundary \in 0..Len(load_candles)
      BY <1>1
    <2>2. BarsOf(Slice(load_candles, 0, Boundary)) = {load_candles[k] : k \in (0 + 1)..Boundary}
      BY <1>1, <2>1, SliceBars
    <2>3. Slice(load_candles, 0, Boundary) = SubSeq(load_candles, 1, Boundary)
      BY DEF Slice
    <2>4. \A k \in 1..Boundary : load_candles[k] \in Bars
      BY <1>1
    <2>5. SubSeq(load_candles, 1, Boundary) \in Seq(Bars)
      BY <1>1, <2>4, SubSeqProperties
    <2>6. QED
      BY <2>2, <2>3, <2>5 DEF load_research
  <1>4. BarsOf(holdout) = {load_candles[k] : k \in (Boundary + 1)..n}
    BY <1>1, SliceBars DEF SliceFrom
  <1>5. BarsOf(holdout) = SealedBars
    <2>1. holdout = SliceFrom(SealedFile, Boundary)
      BY SealedSizes DEF HoldoutReveals, HashValues
    <2>2. QED
      BY <2>1 DEF SealedBars
  <1>6. fit \cap SealedBars = {}
    <2> HIDE DEF n, fit, holdout
    <2>1. ASSUME NEW j \in 1..Boundary, NEW k \in (Boundary + 1)..n
          PROVE  load_candles[j] # load_candles[k]
      <3>1. j \in 1..n /\ k \in 1..n /\ j < k
        BY <1>1
      <3>2. QED
        BY <1>2, <3>1
    <2>2. QED
      BY <1>3, <1>4, <1>5, <2>1
  <1>7. ScoredBars(load_research(load_candles)) \subseteq fit
    <2> DEFINE research == load_research(load_candles)
    <2>1. DOMAIN research = 1..Len(research) /\ Len(research) \in Nat
      BY <1>3, LenProperties
    <2> HIDE DEF research
    <2>2. \A r \in CandleIndex(Len(research), VolWindow) : r + 1 \in DOMAIN research
      BY <2>1, VolWindowAssumption DEF CandleIndex
    <2>3. ScoredBars(research) \subseteq BarsOf(research)
      BY <2>2 DEF ScoredBars, BarsOf
    <2>4. QED
      BY <2>3 DEF research
  <1>8. \A w \in WalkedWindows(load_candles) : w.scored \cap w.fit = {}
    BY WindowsApart
  <1>9. /\ result.holdout = HoldoutPart(load_candles)
        /\ result.walked = IF script = "evaluate_funding_impact"
                            THEN WalkedWindows(load_candles) ELSE {}
        /\ result.in_sample = IF script = "full_history_chart"
                               THEN ScoredBars(load_research(load_candles)) ELSE {}
    BY DEF HoldoutResult
  <1>10. result.holdout.seen = BarsOf(holdout) /\ result.holdout.fit = fit
    BY <1>9 DEF HoldoutPart, reveal_holdout
  <1> HIDE DEF fit, holdout, n, result
  <1>11. result.in_sample \cap SealedBars = {}
    BY <1>6, <1>7, <1>9
  <1>12. \A w \in result.walked : w.scored \cap w.fit = {}
    BY <1>8, <1>9
  <1>13. SoundResult(result)
    BY <1>5, <1>6, <1>10, <1>11, <1>12 DEF SoundResult
  <1>14. QED
    BY <1>13 DEF result

(* A sound search has as many trials as its grid has configurations.       *)
LEMMA SearchSizes ==
    ASSUME NEW study \in StudyNames, NEW trials, SoundSearch(study, trials)
    PROVE  Len(trials) = Len(Grids[study]) /\ Len(Grids[study]) \in Nat \ {0}
  <1>1. /\ DOMAIN NamesOf[study] = DOMAIN Grids[study]
        /\ Len(Grids[study]) \in Nat \ {0}
        /\ DOMAIN Grids[study] = 1..Len(Grids[study])
    <2>1. CASE study = "regime_search"
      <3>1. NamesOf[study] = [i \in DOMAIN RegimeGrid |-> RegimeGrid[i].name]
            /\ Grids[study] = RegimeGrid
        BY <2>1 DEF NamesOf, Grids
      <3>2. QED
        BY <3>1, ConfigGrids DEF ConfigGrid
    <2>2. CASE study = "ensemble_eval"
      <3>1. NamesOf[study] = OverlayGrid /\ Grids[study] = OverlayGrid
        BY <2>2 DEF NamesOf, Grids
      <3>2. QED
        BY <3>1, NameGrids
    <2>3. CASE study = "sizing_eval"
      <3>1. NamesOf[study] = SizingGrid /\ Grids[study] = SizingGrid
        BY <2>3 DEF NamesOf, Grids
      <3>2. QED
        BY <3>1, NameGrids
    <2>4. CASE study = "short_eval"
      <3>1. NamesOf[study] = [i \in DOMAIN ShortGrid |-> ShortGrid[i].name]
            /\ Grids[study] = ShortGrid
        BY <2>4 DEF NamesOf, Grids
      <3>2. QED
        BY <3>1, ConfigGrids DEF ConfigGrid
    <2>5. QED
      BY <2>1, <2>2, <2>3, <2>4, StudyNamesAre
  <1>2. DOMAIN trials = DOMAIN NamesOf[study]
    BY DEF SoundSearch, Named
  <1>3. Len(trials) \in Nat /\ DOMAIN trials = 1..Len(trials)
    BY LenProperties DEF SoundSearch
  <1> DEFINE m == Len(trials)
             n == Len(Grids[study])
  <1>4. m \in Nat /\ n \in Nat \ {0} /\ 1..m = 1..n
    BY <1>1, <1>2, <1>3
  <1> HIDE DEF m, n
  <1>5. m = n
    <2>1. n \in 1..m /\ (m = 0 \/ m \in 1..n)
      BY <1>4
    <2>2. QED
      BY <1>4, <2>1
  <1>6. QED
    BY <1>1, <1>5 DEF m, n

-----------------------------------------------------------------------------
(* The steps of the studies.                                               *)

(* What a step does not touch stays sound: the file never gets its sealed  *)
(* days back once one of them has changed place.                           *)
LEMMA FilesKept ==
    ASSUME StudiesInv, OnlyExtended' => OnlyExtended
    PROVE  /\ UNCHANGED trial_log => LogsInv'
           /\ UNCHANGED artifact => ArtifactInv'
           /\ UNCHANGED chart => ChartInv'
           /\ UNCHANGED revealed => RevealedInv'
           /\ UNCHANGED report => ReportCountsEveryTrial'
  <1>1. UNCHANGED trial_log => LogsInv'
    BY DEF StudiesInv, LogsInv, TrialUnsealed, Unsealed
  <1>2. UNCHANGED artifact => ArtifactInv'
    BY DEF StudiesInv, ArtifactInv, Done, SearchOf, TrialUnsealed, Unsealed
  <1>3. UNCHANGED chart => ChartInv'
    BY DEF StudiesInv, ChartInv, TrialUnsealed, Unsealed
  <1>4. UNCHANGED revealed => RevealedInv'
    BY DEF StudiesInv, RevealedInv, SoundResult
  <1>5. UNCHANGED report => ReportCountsEveryTrial'
    BY DEF StudiesInv, ReportCountsEveryTrial
  <1>6. QED
    BY <1>1, <1>2, <1>3, <1>4, <1>5

LEMMA JobKept ==
    ASSUME StudiesInv, OnlyExtended' => OnlyExtended,
           UNCHANGED <<job, by_make, trial_log, revealed>>
    PROVE  JobInv'
  <1>1. CASE job = Idle
    BY <1>1 DEF JobInv
  <1>2. CASE StudyRunning
    <2>1. StudyRunning'
      BY <1>2 DEF StudyRunning, SearchOf, TrialUnsealed, Unsealed
    <2>2. QED
      BY <2>1 DEF JobInv
  <1>3. CASE ReportRunning
    BY <1>3 DEF JobInv, ReportRunning
  <1>4. CASE HoldoutRunning
    BY <1>4 DEF JobInv, HoldoutRunning, SoundResult, VerifyHoldout
  <1>5. QED
    BY <1>1, <1>2, <1>3, <1>4 DEF StudiesInv, JobInv

LEMMA MakeKept ==
    ASSUME StudiesInv, UNCHANGED <<queue, by_make, job, trial_log, artifact>>
    PROVE  MakeInv'
  <1>1. \A k \in 0..6 : MakeAt(k) => MakeAt(k)'
    BY DEF MakeAt, Complete, Done
  <1>2. QED
    BY <1>1 DEF StudiesInv, MakeInv

(* New days and the daily signal leave the studies as they are.            *)
LEMMA StudiesUntouched ==
    ASSUME StudiesInv, UNCHANGED studyVars, OnlyExtended' => OnlyExtended
    PROVE  StudiesInv'
  <1>1. /\ UNCHANGED <<job, by_make, trial_log, revealed>> /\ UNCHANGED artifact /\ UNCHANGED chart
        /\ UNCHANGED revealed /\ UNCHANGED report /\ UNCHANGED trial_log
        /\ UNCHANGED <<queue, by_make, job, trial_log, artifact>>
    BY DEF studyVars, filesVars
  <1>2. /\ LogsInv' /\ ArtifactInv' /\ ChartInv' /\ RevealedInv' /\ JobInv' /\ MakeInv'
        /\ ReportCountsEveryTrial'
    BY <1>1, FilesKept, JobKept, MakeKept
  <1>3. QED
    BY <1>2 DEF StudiesInv

(* The studies leave the candle file as it is.                             *)
LEMMA SameFile ==
    ASSUME UNCHANGED candles
    PROVE  OnlyExtended' <=> OnlyExtended
  BY DEF OnlyExtended

(* A script that fails stops make.                                         *)
LEMMA Failed ==
    ASSUME Fail
    PROVE  JobInv' /\ MakeInv'
  BY DEF Fail, JobInv, MakeInv

(* Launch starts make or a script when nothing runs.                       *)
LEMMA LaunchStep ==
    ASSUME StudiesInv, NEW scripts, Launch(scripts)
    PROVE  StudiesInv'
  <1>1. /\ job = Idle /\ UNCHANGED <<job, trial_log, artifact, chart, revealed, report, candles>>
        /\ queue' = scripts /\ by_make' = (scripts = MakeResearch)
    BY DEF Launch, filesVars
  <1>2. JobInv'
    BY <1>1 DEF JobInv
  <1>3. MakeInv'
    <2>1. by_make' \in BOOLEAN
      BY <1>1
    <2>2. ASSUME by_make' PROVE MakeAt(0)'
      <3>1. queue' = MakeResearch
        BY <1>1, <2>2
      <3>2. MakeResearch = SubSeq(MakeResearch, 0 + 1, 6)
        <4>1. MakeResearch = SubSeq(MakeResearch, 1, Len(MakeResearch))
          BY ScriptsOfMake, SubSeqFull
        <4>2. QED
          BY <4>1, ScriptsOfMake
      <3>3. job' = Idle /\ \A i \in 1..4 : ~(i <= 0)
        BY <1>1
      <3>4. QED
        BY <3>1, <3>2, <3>3 DEF MakeAt
    <2>3. 0 \in 0..6
      OBVIOUS
    <2>4. QED
      BY <2>1, <2>2, <2>3 DEF MakeInv
  <1>4. LogsInv' /\ ArtifactInv' /\ ChartInv' /\ RevealedInv' /\ ReportCountsEveryTrial'
    BY <1>1, SameFile, FilesKept
  <1>5. QED
    BY <1>2, <1>3, <1>4 DEF StudiesInv

(* make goes on with the next of its scripts, all studies before it        *)
(* complete.                                                               *)
LEMMA NextOfMake ==
    ASSUME MakeInv, by_make, NEW script, Starting(script)
    PROVE  \E k \in 0..5 : /\ MakeResearch[k + 1] = script
                           /\ Tail(queue) = SubSeq(MakeResearch, (k + 1) + 1, 6)
                           /\ \A i \in 1..4 : i <= k => Complete(Studies[i])
  <1>1. PICK k \in 0..6 : MakeAt(k)
    BY DEF MakeInv
  <1>2. job = Idle /\ queue # <<>> /\ Head(queue) = script
    BY DEF Starting
  <1>3. queue = SubSeq(MakeResearch, k + 1, 6)
    BY <1>1 DEF MakeAt
  <1>4. k # 6
    <2> SUFFICES ASSUME k = 6 PROVE FALSE
      OBVIOUS
    <2>1. SubSeq(MakeResearch, k + 1, 6) = <<>>
      BY SubSeqEmpty
    <2>2. QED
      BY <1>2, <1>3, <2>1
  <1>5. k + 1 \in 1..Len(MakeResearch) /\ 6 \in (k + 1)..Len(MakeResearch)
    BY <1>4, ScriptsOfMake
  <1>6. /\ Head(SubSeq(MakeResearch, k + 1, 6)) = MakeResearch[k + 1]
        /\ Tail(SubSeq(MakeResearch, k + 1, 6)) = SubSeq(MakeResearch, (k + 1) + 1, 6)
    BY <1>5, ScriptsOfMake, HeadTailOfSubSeq
  <1>7. \A i \in 1..4 : i <= k => Complete(Studies[i])
    <2> SUFFICES ASSUME NEW i \in 1..4, i <= k PROVE Complete(Studies[i])
      OBVIOUS
    <2>1. Studies[i] \in StudyNames
      BY StudyNamesAre
    <2>2. job.script # Studies[i]
      BY <1>2, <2>1, StudyNamesAre DEF Idle
    <2>3. QED
      BY <1>1, <2>2 DEF MakeAt
  <1>8. k \in 0..5
    BY <1>4
  <1>9. QED
    BY <1>2, <1>3, <1>6, <1>7, <1>8

\* A step that touches only the log and the artifact of one study.
OnlyTouches(study) ==
    \A s \in StudyNames \ {study} :
        trial_log'[s] = trial_log[s] /\ artifact'[s] = artifact[s]

LEMMA OthersComplete ==
    ASSUME NEW study, OnlyTouches(study), NEW s \in StudyNames, s # study, Complete(s)
    PROVE  Complete(s)'
  <1>1. trial_log'[s] = trial_log[s] /\ artifact'[s] = artifact[s]
    BY DEF OnlyTouches
  <1>2. QED
    BY <1>1 DEF Complete, Done

(* make starts its next script,                                            *)
LEMMA MakeStarts ==
    ASSUME MakeInv, NEW script, Starting(script), Proceed, OnlyTouches(script),
           job' # Idle => job'.script = script,
           script \in StudyNames => job' # Idle
    PROVE  MakeInv'
  <1>1. queue' = Tail(queue) /\ by_make' = by_make
    BY DEF Proceed
  <1>2. by_make' \in BOOLEAN
    BY <1>1 DEF MakeInv
  <1>3. ASSUME by_make' PROVE \E k \in 0..6 : MakeAt(k)'
    <2>1. by_make
      BY <1>1, <1>3
    <2>2. PICK k \in 0..5 : /\ MakeResearch[k + 1] = script
                            /\ Tail(queue) = SubSeq(MakeResearch, (k + 1) + 1, 6)
                            /\ \A i \in 1..4 : i <= k => Complete(Studies[i])
      BY <2>1, NextOfMake
    <2> DEFINE m == k + 1
    <2>3. m \in 1..6 /\ m \in 0..6
      OBVIOUS
    <2>4. queue' = SubSeq(MakeResearch, m + 1, 6) /\ MakeResearch[m] = script
      BY <1>1, <2>2
    <2>5. ASSUME NEW i \in 1..4, i <= m, job'.script # Studies[i]
          PROVE  Complete(Studies[i])'
      <3>1. Studies[i] \in StudyNames
        BY StudyNamesAre
      <3>2. Studies[i] # script
        BY <2>5, <3>1
      <3>3. i # m
        BY <2>4, <3>2, ScriptsOfMake
      <3>4. i <= k
        BY <2>5, <3>3
      <3>5. Complete(Studies[i])
        BY <2>2, <3>4
      <3> DEFINE s == Studies[i]
      <3>6. s \in StudyNames /\ s # script /\ Complete(s)
        BY <3>1, <3>2, <3>5
      <3> HIDE DEF s
      <3>7. Complete(s)'
        BY <3>6, OthersComplete
      <3>8. QED
        BY <3>7 DEF s
    <2> HIDE DEF m
    <2>6. MakeAt(m)'
      BY <2>3, <2>4, <2>5 DEF MakeAt
    <2>7. QED
      BY <2>3, <2>6
  <1>4. QED
    BY <1>2, <1>3 DEF MakeInv

(* goes on with it, and leaves it behind complete.                         *)
LEMMA MakeRuns ==
    ASSUME MakeInv, NEW script, job # Idle, job.script = script, OnlyTouches(script),
           UNCHANGED <<queue, by_make>>,
           \/ job' # Idle /\ job'.script = script
           \/ job' = Idle /\ (script \in StudyNames => Complete(script)')
    PROVE  MakeInv'
  <1>1. ASSUME NEW k \in 0..6, MakeAt(k) PROVE MakeAt(k)'
    <2>1. queue' = SubSeq(MakeResearch, k + 1, 6)
      BY <1>1 DEF MakeAt
    <2>2. job' # Idle => k >= 1 /\ job'.script = MakeResearch[k]
      BY <1>1 DEF MakeAt
    <2>3. ASSUME NEW i \in 1..4, i <= k, job'.script # Studies[i]
          PROVE  Complete(Studies[i])'
      <3> DEFINE s == Studies[i]
      <3>1. s \in StudyNames
        BY StudyNamesAre
      <3>2. CASE s = script
        BY <2>3, <3>1, <3>2
      <3>3. CASE s # script
        <4>1. Complete(s)
          BY <1>1, <2>3, <3>3 DEF MakeAt
        <4> HIDE DEF s
        <4>2. Complete(s)'
          BY <3>1, <3>3, <4>1, OthersComplete
        <4>3. QED
          BY <4>2 DEF s
      <3>4. QED
        BY <3>2, <3>3
    <2>4. QED
      BY <2>1, <2>2, <2>3 DEF MakeAt
  <1>2. QED
    BY <1>1 DEF MakeInv

(* A study starts on an empty log.                                         *)
LEMMA StartStudyStep ==
    ASSUME FileInv, StudiesInv, NEW study \in StudyNames, StartStudy(study)
    PROVE  StudiesInv'
  <1>1. /\ Starting(study) /\ Proceed /\ job' = StudyJob(study)
        /\ trial_log' = [trial_log EXCEPT ![study] = <<>>]
        /\ UNCHANGED artifact /\ UNCHANGED chart /\ UNCHANGED revealed /\ UNCHANGED report
        /\ UNCHANGED candles
    BY DEF StartStudy
  <1>2. /\ LogsInv /\ MakeInv /\ trial_log \in [StudyNames -> Seq(Trials \cup {Torn})]
        /\ \A s \in StudyNames : \A t \in BarsOf(trial_log[s]) : t # Torn => TrialUnsealed(t)
    BY DEF StudiesInv, LogsInv
  <1>3. ArtifactInv' /\ ChartInv' /\ RevealedInv' /\ ReportCountsEveryTrial'
    BY <1>1, SameFile, FilesKept
  <1>4. OnlyExtended' <=> OnlyExtended
    BY <1>1, SameFile
  <1>5. LogsInv'
    <2>1. <<>> \in Seq(Trials \cup {Torn}) /\ BarsOf(<<>>) = {}
      BY EmptySeq DEF BarsOf
    <2>2. trial_log' \in [StudyNames -> Seq(Trials \cup {Torn})]
      BY <1>1, <1>2, <2>1
    <2>3. ASSUME NEW s \in StudyNames, NEW t \in BarsOf(trial_log'[s]), t # Torn
          PROVE  TrialUnsealed(t)'
      <3>1. trial_log'[s] = IF s = study THEN <<>> ELSE trial_log[s]
        BY <1>1, <1>2
      <3>2. t \in BarsOf(trial_log[s])
        BY <2>1, <2>3, <3>1
      <3>3. TrialUnsealed(t)
        BY <1>2, <2>3, <3>2
      <3>4. QED
        BY <1>4, <3>3 DEF TrialUnsealed, Unsealed
    <2>4. QED
      BY <2>2, <2>3 DEF LogsInv
  <1> DEFINE trials == TrialsOf(study, load_candles)
             walked == Walked(study, load_candles)
  <1>6. /\ SearchOf(study, trials) /\ walked \in SUBSET Bars /\ Unsealed(walked)
    BY StudyStarts
  <1>7. job' = [script |-> study, pc |-> "append", trials |-> trials, done |-> 0,
                walked |-> walked]
    BY <1>1 DEF StudyJob
  <1> HIDE DEF trials, walked
  <1>8. trials \in Seq(Trials) /\ Len(trials) \in Nat
    BY <1>6, LenProperties DEF SearchOf, SoundSearch
  <1>9. JobInv'
    <2>1. job' \in StudyJobs
      BY <1>6, <1>7, <1>8 DEF StudyJobs
    <2>2. SubSeq(trials, 1, 0) = <<>>
      BY SubSeqEmpty
    <2>3. trial_log'[study] = <<>>
      BY <1>1, <1>2
    <2>4. /\ job'.script = study /\ job'.trials = trials /\ job'.done = 0 /\ job'.walked = walked
      BY <1>7
    <2>5. SearchOf(job.script, job.trials)'
      BY <1>4, <1>6, <2>4 DEF SearchOf, TrialUnsealed, Unsealed
    <2>6. Unsealed(job.walked)'
      BY <1>4, <1>6, <2>4 DEF Unsealed
    <2>7. job'.done <= Len(job'.trials)
      <3>1. 0 <= Len(trials)
        BY <1>8
      <3>2. QED
        BY <2>4, <3>1, Zenon
    <2>8. trial_log'[job'.script] = SubSeq(job'.trials, 1, job'.done)
      BY <2>2, <2>3, <2>4, Zenon
    <2>9. StudyRunning'
      BY <2>1, <2>5, <2>6, <2>7, <2>8 DEF StudyRunning
    <2>10. QED
      BY <2>9 DEF JobInv
  <1>10. OnlyTouches(study)
    BY <1>1, <1>2 DEF OnlyTouches
  <1>11. job'.script = study /\ job' # Idle
    <2>1. job'.script = study
      BY <1>7
    <2>2. study # "idle"
      BY StudyNamesAre
    <2>3. QED
      BY <2>1, <2>2 DEF Idle
  <1>12. MakeInv'
    BY <1>1, <1>2, <1>10, <1>11, MakeStarts
  <1>13. QED
    BY <1>3, <1>5, <1>9, <1>12 DEF StudiesInv

(* Sequences of one length with the same elements are the same.            *)
LEMMA SameSequence ==
    ASSUME NEW X, NEW s \in Seq(X), NEW u \in Seq(X), NEW n \in Nat,
           Len(s) = n, Len(u) = n, \A i \in 1..n : s[i] = u[i]
    PROVE  s = u
  <1>1. s \in [1..n -> X] /\ u \in [1..n -> X]
    BY LenProperties
  <1>2. QED
    BY <1>1

(* The study that runs is told by the script of the job.                   *)
LEMMA RunningStudy ==
    ASSUME StudiesInv, NEW study \in StudyNames, job.script = study
    PROVE  job # Idle /\ StudyRunning
  <1>1. study # "idle" /\ study # "research_report" /\ study \notin HoldoutScripts
    BY StudyNamesAre DEF HoldoutScripts
  <1>2. job # Idle
    BY <1>1 DEF Idle
  <1>3. ~ReportRunning /\ ~HoldoutRunning
    BY <1>1 DEF ReportRunning, HoldoutRunning
  <1>4. QED
    BY <1>2, <1>3 DEF StudiesInv, JobInv

(* A study logs its next trial: its log is never torn while it runs.       *)
LEMMA AppendTrialStep ==
    ASSUME StudiesInv, NEW study \in StudyNames, AppendTrial(study)
    PROVE  StudiesInv'
  <1> DEFINE trials == job.trials
             d == job.done
             log == trial_log[study]
             t == trials[d + 1]
  <1>1. /\ job # Idle /\ job.script = study /\ d < Len(trials)
        /\ trial_log' = [trial_log EXCEPT ![study] = AppendTo(log, t)]
        /\ job' = [job EXCEPT !.done = d + 1]
        /\ UNCHANGED artifact /\ UNCHANGED chart /\ UNCHANGED revealed /\ UNCHANGED report
        /\ UNCHANGED <<queue, by_make>> /\ UNCHANGED candles
    BY DEF AppendTrial
  <1>2. /\ LogsInv /\ MakeInv /\ trial_log \in [StudyNames -> Seq(Trials \cup {Torn})]
        /\ \A s \in StudyNames : \A u \in BarsOf(trial_log[s]) : u # Torn => TrialUnsealed(u)
    BY DEF StudiesInv, LogsInv
  <1>3. ArtifactInv' /\ ChartInv' /\ RevealedInv' /\ ReportCountsEveryTrial'
    BY <1>1, SameFile, FilesKept
  <1>4. OnlyExtended' <=> OnlyExtended
    BY <1>1, SameFile
  <1>5. /\ job \in StudyJobs /\ SearchOf(study, trials) /\ Unsealed(job.walked)
        /\ log = SubSeq(trials, 1, d)
    BY <1>1, RunningStudy DEF StudyRunning
  <1>6. trials \in Seq(Trials) /\ Len(trials) \in Nat /\ DOMAIN trials = 1..Len(trials)
        /\ d \in Nat
    BY <1>5, LenProperties DEF SearchOf, SoundSearch, StudyJobs
  <1>7. t \in Trials /\ t \in BarsOf(trials) /\ TrialUnsealed(t)
    <2>1. d + 1 \in 1..Len(trials)
      BY <1>1, <1>6
    <2>2. t \in Trials
      BY <1>6, <2>1, ElementOfSeq
    <2>3. t \in BarsOf(trials)
      BY <1>6, <2>1 DEF BarsOf
    <2>4. QED
      BY <1>5, <2>2, <2>3 DEF SearchOf
  <1>8. /\ log \in Seq(Trials) /\ Len(log) = d
        /\ \A i \in 1..d : log[i] = trials[i]
    <2> HIDE DEF t
    <2>1. \A i \in 1..d : i \in 1..Len(trials)
      BY <1>1, <1>6
    <2>2. \A i \in 1..d : trials[i] \in Trials
      BY <1>6, <2>1, ElementOfSeq
    <2>3. /\ SubSeq(trials, 1, d) \in Seq(Trials)
          /\ Len(SubSeq(trials, 1, d)) = IF 1 <= d THEN d - 1 + 1 ELSE 0
          /\ \A i \in 1..(d - 1 + 1) : SubSeq(trials, 1, d)[i] = trials[1 + i - 1]
      BY <1>6, <2>2, SubSeqProperties
    <2> HIDE DEF d, trials, log
    <2>4. d - 1 + 1 = d /\ (IF 1 <= d THEN d - 1 + 1 ELSE 0) = d
          /\ \A i \in 1..d : 1 + i - 1 = i
      BY <1>6
    <2>5. QED
      BY <1>5, <2>3, <2>4
  <1> HIDE DEF trials, d, log, t
  <1>9. AppendTo(log, t) = Append(log, t)
    <2>1. ASSUME log # <<>> PROVE Last(log) # Torn
      <3>1. d # 0
        <4>1. ASSUME d = 0 PROVE log = <<>>
          BY <1>8, <4>1, EmptySeq
        <4>2. QED
          BY <2>1, <4>1
      <3>2. d \in 1..Len(log)
        BY <1>6, <1>8, <3>1
      <3>3. log[d] \in Trials
        BY <1>8, <3>2, ElementOfSeq
      <3>4. Torn \notin Trials
        BY DEF Torn, Trials
      <3>5. QED
        BY <1>8, <3>3, <3>4 DEF Last
    <2>2. QED
      BY <2>1 DEF AppendTo
  <1>10. Append(log, t) = SubSeq(trials, 1, d + 1)
    <2>1. d + 1 \in Nat /\ d + 1 <= Len(trials)
      BY <1>1, <1>6
    <2>2. \A i \in 1..(d + 1) : trials[i] \in Trials
      <3>1. \A i \in 1..(d + 1) : i \in 1..Len(trials)
        BY <1>6, <2>1
      <3>2. QED
        BY <1>6, <3>1, ElementOfSeq
    <2> DEFINE n == d + 1
    <2>3. n \in Nat /\ 1 <= n /\ 1 \in Int /\ n \in Int /\ \A i \in 1..n : trials[i] \in Trials
      BY <1>6, <2>1, <2>2
    <2> HIDE DEF n
    <2>4. /\ SubSeq(trials, 1, n) \in Seq(Trials)
          /\ Len(SubSeq(trials, 1, n)) = n
          /\ \A i \in 1..n : SubSeq(trials, 1, n)[i] = trials[i]
      <3>1. /\ SubSeq(trials, 1, n) \in Seq(Trials)
            /\ Len(SubSeq(trials, 1, n)) = IF 1 <= n THEN n - 1 + 1 ELSE 0
            /\ \A i \in 1..(n - 1 + 1) : SubSeq(trials, 1, n)[i] = trials[1 + i - 1]
        BY <2>3, SubSeqProperties
      <3>2. n - 1 + 1 = n /\ \A i \in 1..n : 1 + i - 1 = i
        BY <2>3
      <3>3. QED
        BY <2>3, <3>1, <3>2
    <2>5. /\ Append(log, t) \in Seq(Trials) /\ Len(Append(log, t)) = d + 1
          /\ \A i \in 1..d : Append(log, t)[i] = log[i]
          /\ Append(log, t)[d + 1] = t
      BY <1>7, <1>8, AppendProperties
    <2>6. \A i \in 1..(d + 1) : Append(log, t)[i] = trials[i]
      <3>1. Append(log, t)[d + 1] = trials[d + 1]
        BY <2>5 DEF t
      <3>2. \A i \in 1..(d + 1) : i = d + 1 \/ i \in 1..d
        BY <1>6
      <3>3. QED
        BY <1>8, <2>5, <3>1, <3>2
    <2>7. QED
      BY <2>3, <2>4, <2>5, <2>6, SameSequence DEF n
  <1>11. LogsInv'
    <2>1. Append(log, t) \in Seq(Trials \cup {Torn})
      BY <1>2, <1>7, AppendProperties DEF log
    <2>2. trial_log' \in [StudyNames -> Seq(Trials \cup {Torn})]
      BY <1>1, <1>2, <1>9, <2>1
    <2>3. ASSUME NEW s \in StudyNames, NEW u \in BarsOf(trial_log'[s]), u # Torn
          PROVE  TrialUnsealed(u)'
      <3>1. TrialUnsealed(u)
        <4>1. CASE s = study
          <5>1. trial_log'[s] = Append(log, t)
            BY <1>1, <1>2, <1>9, <4>1
          <5>2. u \in BarsOf(log) \cup {t}
            <6>1. /\ DOMAIN Append(log, t) = 1..(d + 1)
                  /\ \A i \in 1..d : Append(log, t)[i] = log[i]
                  /\ Append(log, t)[d + 1] = t /\ DOMAIN log = 1..d
              <7>1. /\ Append(log, t) \in Seq(Trials) /\ Len(Append(log, t)) = d + 1
                    /\ \A i \in 1..d : Append(log, t)[i] = log[i]
                    /\ Append(log, t)[d + 1] = t
                BY <1>7, <1>8, AppendProperties
              <7>2. QED
                BY <1>8, <7>1, LenProperties
            <6>2. \A i \in 1..(d + 1) : i = d + 1 \/ i \in 1..d
              BY <1>6
            <6>3. QED
              BY <2>3, <5>1, <6>1, <6>2 DEF BarsOf
          <5>3. QED
            BY <1>2, <1>7, <2>3, <5>2 DEF log
        <4>2. CASE s # study
          BY <1>1, <1>2, <2>3, <4>2
        <4>3. QED
          BY <4>1, <4>2
      <3>2. QED
        BY <1>4, <3>1 DEF TrialUnsealed, Unsealed
    <2>4. QED
      BY <2>2, <2>3 DEF LogsInv
  <1>12. /\ job' \in StudyJobs /\ job'.script = study /\ job'.trials = trials
         /\ job'.done = d + 1 /\ job'.walked = job.walked
    <2> DEFINE e == d + 1
    <2>1. e \in Nat
      BY <1>6
    <2>2. job' = [job EXCEPT !.done = e]
      BY <1>1
    <2> HIDE DEF e
    <2>3. job' \in StudyJobs
      BY <1>5, <2>1, <2>2 DEF StudyJobs
    <2>4. /\ job'.script = job.script /\ job'.trials = job.trials
          /\ job'.done = e /\ job'.walked = job.walked
      BY <1>5, <2>2 DEF StudyJobs
    <2>5. QED
      BY <1>1, <2>3, <2>4 DEF e, trials
  <1>13. StudyRunning'
    <2>1. SearchOf(job.script, job.trials)'
      <3>1. SoundSearch(study, trials) /\ \A u \in BarsOf(trials) : TrialUnsealed(u)
        BY <1>5 DEF SearchOf
      <3>2. SoundSearch(job.script, job.trials)'
        <4>1. job'.script = study /\ job'.trials = trials
          BY <1>12
        <4>2. QED
          BY <3>1, <4>1, Zenon
      <3>3. \A u \in BarsOf(job'.trials) : TrialUnsealed(u)'
        <4>1. job'.trials = trials
          BY <1>12
        <4>2. \A u \in BarsOf(trials) : TrialUnsealed(u)'
          BY <1>4, <3>1 DEF TrialUnsealed, Unsealed
        <4>3. QED
          BY <4>1, <4>2, Zenon
      <3>4. QED
        BY <3>2, <3>3 DEF SearchOf
    <2>2. Unsealed(job.walked)'
      BY <1>4, <1>5, <1>12 DEF Unsealed
    <2>3. job'.done <= Len(job'.trials)
      <3>1. d + 1 <= Len(trials)
        BY <1>1, <1>6
      <3>2. QED
        BY <1>12, <3>1, Zenon
    <2>4. trial_log'[study] = SubSeq(trials, 1, d + 1)
      BY <1>1, <1>2, <1>9, <1>10
    <2>5. trial_log'[job'.script] = SubSeq(job'.trials, 1, job'.done)
      BY <1>12, <2>4, Zenon
    <2>6. QED
      BY <1>12, <2>1, <2>2, <2>3, <2>5 DEF StudyRunning
  <1>14. JobInv'
    BY <1>13 DEF JobInv
  <1>15. OnlyTouches(study)
    BY <1>1, <1>2 DEF OnlyTouches
  <1>16. job' # Idle
    <2>1. study # "idle"
      BY StudyNamesAre
    <2>2. QED
      BY <1>12, <2>1 DEF Idle
  <1>17. MakeInv'
    BY <1>1, <1>2, <1>12, <1>15, <1>16, MakeRuns
  <1>18. QED
    BY <1>3, <1>11, <1>14, <1>17 DEF StudiesInv

(* The artifact of a study is deflated by the trials it has just logged.   *)
LEMMA WriteArtifactStep ==
    ASSUME StudiesInv, NEW study \in StudyNames, WriteArtifact(study)
    PROVE  StudiesInv'
  <1> DEFINE trials == job.trials
             walked == job.walked
             log == trial_log[study]
             new == [kind |-> "artifact", trials |-> trials, walked |-> walked,
                     deflated_by |-> log]
  <1>1. /\ job # Idle /\ job.script = study /\ job.done = Len(trials)
        /\ UNCHANGED trial_log /\ UNCHANGED chart /\ UNCHANGED revealed /\ UNCHANGED report
        /\ UNCHANGED candles
        /\ \/ artifact' = [artifact EXCEPT ![study] = new] /\ Finish
           \/ UNCHANGED artifact /\ Fail
    BY DEF WriteArtifact
  <1>2. LogsInv' /\ ChartInv' /\ RevealedInv' /\ ReportCountsEveryTrial'
    BY <1>1, SameFile, FilesKept
  <1>3. OnlyExtended' <=> OnlyExtended
    BY <1>1, SameFile
  <1>4. CASE UNCHANGED artifact /\ Fail
    <2>1. ArtifactInv'
      BY <1>1, <1>4, SameFile, FilesKept
    <2>2. JobInv' /\ MakeInv'
      BY <1>4, Failed
    <2>3. QED
      BY <1>2, <2>1, <2>2 DEF StudiesInv
  <1>5. CASE artifact' = [artifact EXCEPT ![study] = new] /\ Finish
    <2>1. /\ MakeInv /\ artifact \in [StudyNames -> {None, Torn} \cup Artifacts]
          /\ trial_log \in [StudyNames -> Seq(Trials \cup {Torn})]
          /\ \A s \in StudyNames : Done(s) =>
                /\ SearchOf(s, artifact[s].trials)
                /\ artifact[s].deflated_by = artifact[s].trials
                /\ Unsealed(artifact[s].walked)
      BY DEF StudiesInv, ArtifactInv, LogsInv
    <2>2. /\ job \in StudyJobs /\ SearchOf(study, trials) /\ Unsealed(walked)
          /\ log = SubSeq(trials, 1, Len(trials))
      BY <1>1, RunningStudy DEF StudyRunning
    <2>3. trials \in Seq(Trials) /\ walked \in SUBSET Bars
      BY <2>2 DEF StudyJobs
    <2>4. log = trials
      BY <2>2, <2>3, SubSeqFull
    <2>5. log \in Seq(Trials \cup {Torn})
      BY <2>1
    <2> HIDE DEF trials, walked, log
    <2>6. new \in Artifacts /\ new \notin {None, Torn}
      BY <2>3, <2>5 DEF Artifacts, None, Torn
    <2>7. new.trials = trials /\ new.deflated_by = trials /\ new.walked = walked
          /\ new.deflated_by = log
      BY <2>4
    <2> HIDE DEF new
    <2>8. artifact' \in [StudyNames -> {None, Torn} \cup Artifacts]
          /\ artifact'[study] = new
          /\ \A s \in StudyNames \ {study} : artifact'[s] = artifact[s]
      BY <1>5, <2>1, <2>6
    <2>9. ASSUME NEW s \in StudyNames, Done(s)'
          PROVE  /\ SearchOf(s, artifact[s].trials)'
                 /\ (artifact[s].deflated_by = artifact[s].trials)'
                 /\ Unsealed(artifact[s].walked)'
      <3>1. CASE s = study
        <4>1. artifact'[s].trials = trials /\ artifact'[s].walked = walked
              /\ artifact'[s].deflated_by = trials
          BY <2>7, <2>8, <3>1
        <4>2. SoundSearch(s, trials) /\ \A t \in BarsOf(trials) : TrialUnsealed(t)
          BY <2>2, <3>1 DEF SearchOf
        <4>3. SearchOf(s, artifact[s].trials)'
          BY <1>3, <4>1, <4>2 DEF SearchOf, TrialUnsealed, Unsealed
        <4>4. Unsealed(artifact[s].walked)'
          BY <1>3, <2>2, <4>1 DEF Unsealed
        <4>5. QED
          BY <4>1, <4>3, <4>4
      <3>2. CASE s # study
        <4>1. artifact'[s] = artifact[s]
          BY <2>8, <3>2
        <4>2. Done(s)
          BY <2>9, <4>1 DEF Done
        <4>3. /\ SoundSearch(s, artifact[s].trials)
              /\ \A t \in BarsOf(artifact[s].trials) : TrialUnsealed(t)
              /\ artifact[s].deflated_by = artifact[s].trials
              /\ Unsealed(artifact[s].walked)
          BY <2>1, <4>2 DEF SearchOf
        <4>4. SearchOf(s, artifact[s].trials)'
          BY <1>3, <4>1, <4>3 DEF SearchOf, TrialUnsealed, Unsealed
        <4>5. Unsealed(artifact[s].walked)'
          BY <1>3, <4>1, <4>3 DEF Unsealed
        <4>6. QED
          BY <4>1, <4>3, <4>4, <4>5
      <3>3. QED
        BY <3>1, <3>2
    <2>10. ArtifactInv'
      BY <2>8, <2>9 DEF ArtifactInv
    <2>11. job' = Idle /\ UNCHANGED <<queue, by_make>>
      BY <1>5 DEF Finish
    <2>12. JobInv'
      BY <2>11 DEF JobInv
    <2>13. OnlyTouches(study)
      BY <1>1, <2>8 DEF OnlyTouches
    <2>14. Complete(study)'
      BY <1>1, <2>6, <2>7, <2>8 DEF Complete, Done, log
    <2>15. MakeInv'
      BY <1>1, <2>1, <2>11, <2>13, <2>14, MakeRuns
    <2>16. QED
      BY <1>2, <2>10, <2>12, <2>15 DEF StudiesInv
  <1>6. QED
    BY <1>1, <1>4, <1>5

\* A step that leaves the logs and the artifacts alone touches those of no study.
LEMMA TouchesNone ==
    ASSUME UNCHANGED trial_log, UNCHANGED artifact, NEW script
    PROVE  OnlyTouches(script)
  BY DEF OnlyTouches

LEMMA CompareStrategiesStep ==
    ASSUME FileInv, StudiesInv, CompareStrategies
    PROVE  StudiesInv'
  <1> DEFINE t == Trial(load_candles, "comparison", SliceStart(VolWindow), SharedRows)
  <1>1. /\ Starting("compare_strategies") /\ Proceed /\ chart' = t
        /\ UNCHANGED trial_log /\ UNCHANGED artifact /\ UNCHANGED revealed /\ UNCHANGED report
        /\ UNCHANGED job /\ UNCHANGED candles
    BY DEF CompareStrategies
  <1>2. LogsInv' /\ ArtifactInv' /\ RevealedInv' /\ ReportCountsEveryTrial'
    BY <1>1, SameFile, FilesKept
  <1>3. OnlyExtended' <=> OnlyExtended
    BY <1>1, SameFile
  <1>4. t \in Trials /\ TrialUnsealed(t)
    BY ChartStarts
  <1> HIDE DEF t
  <1>5. ChartInv'
    BY <1>1, <1>3, <1>4 DEF ChartInv, TrialUnsealed, Unsealed
  <1>6. job' = Idle
    BY <1>1 DEF Starting
  <1>7. JobInv'
    BY <1>6 DEF JobInv
  <1>8. "compare_strategies" \notin StudyNames
    BY StudyNamesAre
  <1>9. MakeInv
    BY DEF StudiesInv
  <1>10. MakeInv'
    BY <1>1, <1>6, <1>8, <1>9, TouchesNone, MakeStarts
  <1>11. QED
    BY <1>2, <1>5, <1>7, <1>10 DEF StudiesInv

(* A holdout script holds a result only where load_research and            *)
(* reveal_holdout have let it.                                             *)
LEMMA StartHoldoutStep ==
    ASSUME FileInv, StudiesInv, NEW script \in HoldoutScripts, StartHoldout(script)
    PROVE  StudiesInv'
  <1> DEFINE result == HoldoutResult(script, load_candles)
  <1>1. /\ UNCHANGED trial_log /\ UNCHANGED artifact /\ UNCHANGED chart /\ UNCHANGED revealed
        /\ UNCHANGED report /\ UNCHANGED candles /\ Starting(script)
        /\ \/ /\ ResearchLoads(load_candles) /\ HoldoutReveals(load_candles)
              /\ Completes(script, result)
              /\ job' = [script |-> script, pc |-> "write", result |-> result]
              /\ Proceed
           \/ Fail
    BY DEF StartHoldout, filesVars
  <1>2. /\ LogsInv' /\ ArtifactInv' /\ ChartInv' /\ RevealedInv' /\ ReportCountsEveryTrial'
    BY <1>1, SameFile, FilesKept
  <1>3. CASE Fail
    BY <1>2, <1>3, Failed DEF StudiesInv
  <1>4. CASE /\ ResearchLoads(load_candles) /\ HoldoutReveals(load_candles)
             /\ Completes(script, result)
             /\ job' = [script |-> script, pc |-> "write", result |-> result]
             /\ Proceed
    <2>1. SoundResult(result) /\ Completes(script, result)
      BY <1>4, HoldoutResultIs
    <2> HIDE DEF result
    <2>2. job'.result = result /\ job'.script = script
      BY <1>4
    <2>3. HoldoutRunning'
      <3>1. SoundResult(job.result)'
        BY <2>1, <2>2 DEF SoundResult
      <3>2. script = "full_history_chart" => VerifyHoldout(job.result.holdout)'
        BY <1>1, <2>1, <2>2 DEF Completes, VerifyHoldout
      <3>3. QED
        BY <2>2, <3>1, <3>2 DEF HoldoutRunning
    <2>4. JobInv'
      BY <2>3 DEF JobInv
    <2>5. script \notin StudyNames
      BY StudyNamesAre DEF HoldoutScripts
    <2>6. MakeInv
      BY DEF StudiesInv
    <2>7. MakeInv'
      BY <1>1, <1>4, <2>2, <2>5, <2>6, TouchesNone, MakeStarts
    <2>8. QED
      BY <1>2, <2>4, <2>7 DEF StudiesInv
  <1>5. QED
    BY <1>1, <1>3, <1>4

LEMMA RunningHoldout ==
    ASSUME StudiesInv, NEW script \in HoldoutScripts, job.script = script
    PROVE  job # Idle /\ HoldoutRunning
  <1>1. script # "idle" /\ script # "research_report" /\ script \notin StudyNames
    BY StudyNamesAre DEF HoldoutScripts
  <1>2. job # Idle
    BY <1>1 DEF Idle
  <1>3. ~ReportRunning
    BY <1>1 DEF ReportRunning
  <1>4. ~StudyRunning
    BY <1>1 DEF StudyRunning, StudyJobs
  <1>5. QED
    BY <1>2, <1>3, <1>4 DEF StudiesInv, JobInv

LEMMA WriteHoldoutStep ==
    ASSUME StudiesInv, NEW script \in HoldoutScripts, WriteHoldout(script)
    PROVE  StudiesInv'
  <1> DEFINE result == job.result
  <1>1. /\ UNCHANGED trial_log /\ UNCHANGED artifact /\ UNCHANGED chart
        /\ UNCHANGED report /\ UNCHANGED candles
        /\ job.script = script /\ revealed' = [revealed EXCEPT ![script] = result]
        /\ job' = Idle /\ UNCHANGED <<queue, by_make>>
    BY DEF WriteHoldout, Finish
  <1>2. /\ LogsInv' /\ ArtifactInv' /\ ChartInv' /\ ReportCountsEveryTrial'
    BY <1>1, SameFile, FilesKept
  <1>3. job # Idle /\ SoundResult(result)
    BY <1>1, RunningHoldout DEF HoldoutRunning
  <1> HIDE DEF result
  <1>4. /\ MakeInv /\ revealed = [h \in HoldoutScripts |-> revealed[h]]
        /\ \A h \in HoldoutScripts : revealed[h] \notin {None, Torn} => SoundResult(revealed[h])
    BY DEF StudiesInv, RevealedInv
  <1>5. RevealedInv'
    <2>1. /\ revealed' = [h \in HoldoutScripts |-> revealed'[h]]
          /\ \A h \in HoldoutScripts :
                revealed'[h] = IF h = script THEN result ELSE revealed[h]
      BY <1>1, <1>4
    <2>2. \A h \in HoldoutScripts : revealed'[h] \notin {None, Torn} => SoundResult(revealed'[h])
      BY <1>3, <1>4, <2>1
    <2>3. \A h \in HoldoutScripts : (revealed[h] \notin {None, Torn} => SoundResult(revealed[h]))'
      BY <2>2 DEF SoundResult
    <2>4. QED
      BY <2>1, <2>3 DEF RevealedInv
  <1>6. JobInv'
    BY <1>1 DEF JobInv
  <1>7. script \notin StudyNames
    BY StudyNamesAre DEF HoldoutScripts
  <1>8. MakeInv'
    BY <1>1, <1>3, <1>4, <1>7, TouchesNone, MakeRuns
  <1>9. QED
    BY <1>2, <1>5, <1>6, <1>8 DEF StudiesInv

LEMMA WriteReportStep ==
    ASSUME StudiesInv, WriteReport
    PROVE  StudiesInv'
  <1> DEFINE rows == job.rows
             pool == job.pool
  <1>1. /\ UNCHANGED trial_log /\ UNCHANGED artifact /\ UNCHANGED chart
        /\ UNCHANGED revealed /\ UNCHANGED candles
        /\ job # Idle /\ job.script = "research_report"
        /\ report' = [kind |-> "report", rows |-> rows, pool |-> pool, by_make |-> by_make]
        /\ job' = Idle /\ UNCHANGED <<queue, by_make>>
    BY DEF WriteReport, Finish
  <1>2. /\ LogsInv' /\ ArtifactInv' /\ ChartInv' /\ RevealedInv'
    BY <1>1, SameFile, FilesKept
  <1>3. by_make => CountsEveryTrial(rows, pool)
    <2>1. ~StudyRunning /\ ~HoldoutRunning
      BY <1>1, StudyNamesAre DEF StudyRunning, StudyJobs, HoldoutRunning, HoldoutScripts
    <2>2. ReportRunning
      BY <1>1, <2>1 DEF StudiesInv, JobInv
    <2>3. QED
      BY <2>2 DEF ReportRunning
  <1> HIDE DEF rows, pool
  <1>4. report'.rows = rows /\ report'.pool = pool /\ report'.by_make = by_make
    BY <1>1
  <1>5. ReportCountsEveryTrial'
    BY <1>3, <1>4 DEF ReportCountsEveryTrial, CountsEveryTrial
  <1>6. JobInv'
    BY <1>1 DEF JobInv
  <1>7. "research_report" \notin StudyNames
    BY StudyNamesAre
  <1>8. MakeInv
    BY DEF StudiesInv
  <1>9. MakeInv'
    BY <1>1, <1>7, <1>8, TouchesNone, MakeRuns
  <1>10. QED
    BY <1>2, <1>5, <1>6, <1>9 DEF StudiesInv

(* A crash may leave a torn file or a torn line; make stops.               *)
LEMMA DieStep ==
    ASSUME StudiesInv,
           \/ DieBetweenWrites \/ DieWritingReport
           \/ \E study \in StudyNames : DieAppending(study) \/ DieWritingArtifact(study)
           \/ \E script \in HoldoutScripts : DieRevealing(script)
    PROVE  StudiesInv'
  <1>1. Fail /\ UNCHANGED chart /\ UNCHANGED candles
    BY DEF DieBetweenWrites, DieWritingReport, DieAppending, DieWritingArtifact,
           DieRevealing, Die
  <1>2. JobInv' /\ MakeInv' /\ (OnlyExtended' <=> OnlyExtended) /\ ChartInv'
    BY <1>1, Failed, SameFile, FilesKept
  <1>3. CASE DieBetweenWrites
    <2>1. UNCHANGED trial_log /\ UNCHANGED artifact /\ UNCHANGED report /\ UNCHANGED revealed
      BY <1>3 DEF DieBetweenWrites
    <2>2. LogsInv' /\ ArtifactInv' /\ RevealedInv' /\ ReportCountsEveryTrial'
      BY <1>2, <2>1, FilesKept
    <2>3. QED
      BY <1>2, <2>2 DEF StudiesInv
  <1>4. CASE DieWritingReport
    <2>1. UNCHANGED trial_log /\ UNCHANGED artifact /\ report' = Torn /\ UNCHANGED revealed
      BY <1>4 DEF DieWritingReport
    <2>2. LogsInv' /\ ArtifactInv' /\ RevealedInv'
      BY <1>2, <2>1, FilesKept
    <2>3. ReportCountsEveryTrial'
      BY <2>1 DEF ReportCountsEveryTrial
    <2>4. QED
      BY <1>2, <2>2, <2>3 DEF StudiesInv
  <1>5. ASSUME NEW study \in StudyNames, DieAppending(study)
        PROVE  StudiesInv'
    <2> DEFINE log == trial_log[study]
    <2>1. UNCHANGED artifact /\ UNCHANGED report /\ UNCHANGED revealed
          /\ trial_log' = [trial_log EXCEPT ![study] = AppendTo(log, Torn)]
      BY <1>5 DEF DieAppending
    <2>2. ArtifactInv' /\ RevealedInv' /\ ReportCountsEveryTrial'
      BY <1>2, <2>1, FilesKept
    <2>3. /\ trial_log \in [StudyNames -> Seq(Trials \cup {Torn})]
          /\ \A s \in StudyNames : \A u \in BarsOf(trial_log[s]) : u # Torn => TrialUnsealed(u)
      BY DEF StudiesInv, LogsInv
    <2>4. /\ AppendTo(log, Torn) \in Seq(Trials \cup {Torn})
          /\ BarsOf(AppendTo(log, Torn)) \subseteq BarsOf(log) \cup {Torn}
      <3>1. log \in Seq(Trials \cup {Torn}) /\ Torn \in Trials \cup {Torn}
        BY <2>3
      <3> HIDE DEF log
      <3>2. CASE AppendTo(log, Torn) = log
        BY <3>1, <3>2
      <3>3. CASE AppendTo(log, Torn) = Append(log, Torn)
        <4>1. /\ Append(log, Torn) \in Seq(Trials \cup {Torn})
              /\ Len(Append(log, Torn)) = Len(log) + 1
              /\ \A i \in 1..Len(log) : Append(log, Torn)[i] = log[i]
              /\ Append(log, Torn)[Len(log) + 1] = Torn
          BY <3>1, AppendProperties
        <4>2. /\ DOMAIN Append(log, Torn) = 1..(Len(log) + 1)
              /\ DOMAIN log = 1..Len(log) /\ Len(log) \in Nat
          BY <3>1, <4>1, LenProperties
        <4>3. \A i \in 1..(Len(log) + 1) : i = Len(log) + 1 \/ i \in 1..Len(log)
          BY <4>2
        <4>4. QED
          BY <3>3, <4>1, <4>2, <4>3 DEF BarsOf
      <3>4. QED
        BY <3>2, <3>3 DEF AppendTo
    <2>5. trial_log' \in [StudyNames -> Seq(Trials \cup {Torn})]
      BY <2>1, <2>3, <2>4
    <2>6. ASSUME NEW s \in StudyNames, NEW u \in BarsOf(trial_log'[s]), u # Torn
          PROVE  TrialUnsealed(u)'
      <3>1. trial_log'[s] = IF s = study THEN AppendTo(log, Torn) ELSE trial_log[s]
        BY <2>1, <2>3
      <3>2. u \in BarsOf(trial_log[s])
        BY <2>4, <2>6, <3>1
      <3>3. TrialUnsealed(u)
        BY <2>3, <2>6, <3>2
      <3>4. QED
        BY <1>2, <3>3 DEF TrialUnsealed, Unsealed
    <2>7. LogsInv'
      BY <2>5, <2>6 DEF LogsInv
    <2>8. QED
      BY <1>2, <2>2, <2>7 DEF StudiesInv
  <1>6. ASSUME NEW study \in StudyNames, DieWritingArtifact(study)
        PROVE  StudiesInv'
    <2>1. UNCHANGED trial_log /\ UNCHANGED report /\ UNCHANGED revealed
          /\ artifact' = [artifact EXCEPT ![study] = Torn]
      BY <1>6 DEF DieWritingArtifact
    <2>2. LogsInv' /\ RevealedInv' /\ ReportCountsEveryTrial'
      BY <1>2, <2>1, FilesKept
    <2>3. /\ artifact \in [StudyNames -> {None, Torn} \cup Artifacts]
          /\ \A s \in StudyNames : Done(s) =>
                /\ SearchOf(s, artifact[s].trials)
                /\ artifact[s].deflated_by = artifact[s].trials
                /\ Unsealed(artifact[s].walked)
      BY DEF StudiesInv, ArtifactInv
    <2>4. artifact' \in [StudyNames -> {None, Torn} \cup Artifacts]
      BY <2>1, <2>3
    <2>5. ASSUME NEW s \in StudyNames, Done(s)'
          PROVE  /\ SearchOf(s, artifact[s].trials)'
                 /\ (artifact[s].deflated_by = artifact[s].trials)'
                 /\ Unsealed(artifact[s].walked)'
      <3>1. artifact'[s] = IF s = study THEN Torn ELSE artifact[s]
        BY <2>1, <2>3
      <3>2. s # study
        BY <2>5, <3>1 DEF Done
      <3>3. artifact'[s] = artifact[s]
        BY <3>1, <3>2
      <3>4. Done(s)
        BY <2>5, <3>3 DEF Done
      <3>5. /\ SoundSearch(s, artifact[s].trials)
            /\ \A t \in BarsOf(artifact[s].trials) : TrialUnsealed(t)
            /\ artifact[s].deflated_by = artifact[s].trials
            /\ Unsealed(artifact[s].walked)
        BY <2>3, <3>4 DEF SearchOf
      <3>6. SearchOf(s, artifact[s].trials)'
        BY <1>2, <3>3, <3>5 DEF SearchOf, TrialUnsealed, Unsealed
      <3>7. Unsealed(artifact[s].walked)'
        BY <1>2, <3>3, <3>5 DEF Unsealed
      <3>8. QED
        BY <3>3, <3>5, <3>6, <3>7
    <2>6. ArtifactInv'
      BY <2>4, <2>5 DEF ArtifactInv
    <2>7. QED
      BY <1>2, <2>2, <2>6 DEF StudiesInv
  <1>7. ASSUME NEW script \in HoldoutScripts, DieRevealing(script)
        PROVE  StudiesInv'
    <2>1. UNCHANGED trial_log /\ UNCHANGED artifact /\ UNCHANGED report
          /\ revealed' = [revealed EXCEPT ![script] = Torn]
      BY <1>7 DEF DieRevealing
    <2>2. LogsInv' /\ ArtifactInv' /\ ReportCountsEveryTrial'
      BY <1>2, <2>1, FilesKept
    <2>3. /\ revealed = [h \in HoldoutScripts |-> revealed[h]]
          /\ \A h \in HoldoutScripts : revealed[h] \notin {None, Torn} => SoundResult(revealed[h])
      BY DEF StudiesInv, RevealedInv
    <2>4. /\ revealed' = [h \in HoldoutScripts |-> revealed'[h]]
          /\ \A h \in HoldoutScripts :
                revealed'[h] = IF h = script THEN Torn ELSE revealed[h]
      BY <2>1, <2>3
    <2>5. \A h \in HoldoutScripts :
             (revealed[h] \notin {None, Torn} => SoundResult(revealed[h]))'
      BY <2>3, <2>4 DEF SoundResult
    <2>6. RevealedInv'
      BY <2>4, <2>5 DEF RevealedInv
    <2>7. QED
      BY <1>2, <2>2, <2>6 DEF StudiesInv
  <1>8. QED
    BY <1>3, <1>4, <1>5, <1>6, <1>7

(* The names of the trials of two searches are the names of the one after  *)
(* those of the other.                                                     *)
LEMMA JoinedNames ==
    ASSUME NEW a \in Seq(Trials), NEW b \in Seq(Trials)
    PROVE  /\ a \o b \in Seq(Trials) /\ Len(a \o b) = Len(a) + Len(b)
           /\ Named(a \o b) = Named(a) \o Named(b)
  <1> DEFINE m == Len(a)
             n == Len(b)
  <1>1. m \in Nat /\ n \in Nat /\ DOMAIN a = 1..m /\ DOMAIN b = 1..n
    BY LenProperties
  <1>2. \A t \in Trials : t.name \in TrialNames
    BY DEF Trials
  <1>3. /\ a \o b \in Seq(Trials) /\ Len(a \o b) = m + n
        /\ \A i \in 1..(m + n) : (a \o b)[i] = IF i <= m THEN a[i] ELSE b[i - m]
    BY ConcatProperties
  <1>4. DOMAIN (a \o b) = 1..(m + n)
    BY <1>3, LenProperties
  <1>5. /\ Named(a) = [i \in 1..m |-> a[i].name] /\ Named(b) = [i \in 1..n |-> b[i].name]
        /\ Named(a \o b) = [i \in 1..(m + n) |-> (a \o b)[i].name]
    BY <1>1, <1>4 DEF Named
  <1>6. /\ \A i \in 1..m : a[i].name \in TrialNames
        /\ \A i \in 1..n : b[i].name \in TrialNames
        /\ \A i \in 1..(m + n) : (a \o b)[i].name \in TrialNames
    <2>1. /\ \A i \in 1..m : a[i] \in Trials
          /\ \A i \in 1..n : b[i] \in Trials
          /\ \A i \in 1..(m + n) : (a \o b)[i] \in Trials
      BY <1>3, ElementOfSeq
    <2>2. QED
      BY <1>2, <2>1
  <1> HIDE DEF m, n
  <1>7. /\ Named(a) \in Seq(TrialNames) /\ Len(Named(a)) = m
        /\ Named(b) \in Seq(TrialNames) /\ Len(Named(b)) = n
        /\ Named(a \o b) \in Seq(TrialNames) /\ Len(Named(a \o b)) = m + n
    BY <1>1, <1>5, <1>6
  <1>8. /\ Named(a) \o Named(b) \in Seq(TrialNames)
        /\ Len(Named(a) \o Named(b)) = m + n
        /\ \A i \in 1..(m + n) :
              (Named(a) \o Named(b))[i] = IF i <= m THEN Named(a)[i] ELSE Named(b)[i - m]
    BY <1>7, ConcatProperties
  <1>9. ASSUME NEW i \in 1..(m + n)
        PROVE  Named(a \o b)[i] = (Named(a) \o Named(b))[i]
    <2>1. CASE i <= m
      <3>1. i \in 1..m /\ (a \o b)[i] = a[i]
        BY <1>1, <1>3, <2>1 DEF m, n
      <3>2. (Named(a) \o Named(b))[i] = Named(a)[i]
        BY <1>8, <2>1
      <3>3. Named(a \o b)[i] = (a \o b)[i].name /\ Named(a)[i] = a[i].name
        BY <1>5, <3>1, Zenon
      <3>4. QED
        BY <3>1, <3>2, <3>3, Zenon
    <2>2. CASE ~(i <= m)
      <3>1. i - m \in 1..n
        BY <1>1, <2>2
      <3>2. (a \o b)[i] = b[i - m]
        BY <1>3, <2>2 DEF m, n
      <3>3. (Named(a) \o Named(b))[i] = Named(b)[i - m]
        BY <1>8, <2>2
      <3>4. Named(a \o b)[i] = (a \o b)[i].name /\ Named(b)[i - m] = b[i - m].name
        BY <1>5, <3>1, Zenon
      <3>5. QED
        BY <3>2, <3>3, <3>4, Zenon
    <2>3. QED
      BY <2>1, <2>2
  <1>10. m + n \in Nat
    BY <1>1
  <1>11. Named(a \o b) = Named(a) \o Named(b)
    BY <1>7, <1>8, <1>9, <1>10, SameSequence
  <1>12. QED
    BY <1>3, <1>11 DEF m, n

(* Once all studies are complete, the report counts every trial of their   *)
(* grids once: their names are those of GridNames.                         *)
LEMMA ReportCounts ==
    ASSUME ArtifactInv, \A i \in 1..4 : Complete(Studies[i])
    PROVE  CountsEveryTrial([s \in LoadPresent |-> StudyRow(s)], GlobalTrials(LoadPresent))
  <1>1. \A s \in StudyNames : Complete(s)
    BY StudyNamesAre
  <1>2. ASSUME NEW s \in StudyNames
        PROVE  /\ artifact[s] # None
               /\ SoundSearch(s, trial_log[s]) /\ artifact[s].deflated_by = trial_log[s]
    <2>1. Done(s) /\ trial_log[s] = artifact[s].deflated_by
      BY <1>1 DEF Complete
    <2>2. SearchOf(s, artifact[s].trials) /\ artifact[s].deflated_by = artifact[s].trials
      BY <2>1 DEF ArtifactInv
    <2>3. QED
      BY <2>1, <2>2 DEF Done, SearchOf
  <1>3. LoadPresent = StudyNames
    BY <1>2 DEF LoadPresent
  <1>4. ASSUME NEW s \in StudyNames
        PROVE  StudyRow(s).n_trials = Len(Grids[s]) /\ StudyRow(s).dsr_over = Len(Grids[s])
    BY <1>2, SearchSizes DEF StudyRow
  <1> DEFINE a == trial_log["regime_search"]
             b == trial_log["ensemble_eval"]
             c == trial_log["sizing_eval"]
             d == trial_log["short_eval"]
             rows == [s \in StudyNames |-> StudyRow(s)]
             pool == GlobalTrials(StudyNames)
  <1>5. pool = ((a \o b) \o c) \o d
    BY StudyNamesAre DEF GlobalTrials
  <1>6. /\ DOMAIN rows = StudyNames
        /\ \A s \in StudyNames : rows[s].n_trials = Len(Grids[s])
                                    /\ rows[s].dsr_over = rows[s].n_trials
    BY <1>4
  <1>7. /\ SoundSearch("regime_search", a) /\ SoundSearch("ensemble_eval", b)
        /\ SoundSearch("sizing_eval", c) /\ SoundSearch("short_eval", d)
    BY <1>2, StudyNamesAre
  <1>8. /\ Len(a) = Len(RegimeGrid) /\ Len(b) = Len(OverlayGrid)
        /\ Len(c) = Len(SizingGrid) /\ Len(d) = Len(ShortGrid)
    <2>1. /\ Len(a) = Len(Grids["regime_search"]) /\ Len(b) = Len(Grids["ensemble_eval"])
          /\ Len(c) = Len(Grids["sizing_eval"]) /\ Len(d) = Len(Grids["short_eval"])
      BY <1>2, SearchSizes, StudyNamesAre
    <2>2. QED
      BY <2>1 DEF Grids
  <1>9. /\ a \in Seq(Trials) /\ b \in Seq(Trials) /\ c \in Seq(Trials) /\ d \in Seq(Trials)
        /\ Named(a) = NamesOf["regime_search"] /\ Named(b) = NamesOf["ensemble_eval"]
        /\ Named(c) = NamesOf["sizing_eval"] /\ Named(d) = NamesOf["short_eval"]
    BY <1>7 DEF SoundSearch
  <1> HIDE DEF a, b, c, d, rows, pool
  <1>10. /\ a \o b \in Seq(Trials) /\ Len(a \o b) = Len(a) + Len(b)
         /\ Named(a \o b) = Named(a) \o Named(b)
    BY <1>9, JoinedNames
  <1>11. /\ (a \o b) \o c \in Seq(Trials) /\ Len((a \o b) \o c) = Len(a \o b) + Len(c)
         /\ Named((a \o b) \o c) = Named(a \o b) \o Named(c)
    BY <1>9, <1>10, JoinedNames
  <1>12. /\ Len(((a \o b) \o c) \o d) = Len((a \o b) \o c) + Len(d)
         /\ Named(((a \o b) \o c) \o d) = Named((a \o b) \o c) \o Named(d)
    BY <1>9, <1>11, JoinedNames
  <1>13. Len(pool) = Len(RegimeGrid) + Len(OverlayGrid) + Len(SizingGrid) + Len(ShortGrid)
    BY <1>5, <1>8, <1>10, <1>11, <1>12
  <1>14. Named(pool) = GridNames
    <2>1. /\ NamesOf["regime_search"] = [i \in DOMAIN RegimeGrid |-> RegimeGrid[i].name]
          /\ NamesOf["ensemble_eval"] = OverlayGrid /\ NamesOf["sizing_eval"] = SizingGrid
          /\ NamesOf["short_eval"] = [i \in DOMAIN ShortGrid |-> ShortGrid[i].name]
      BY DEF NamesOf
    <2>2. Named(pool) = ((Named(a) \o Named(b)) \o Named(c)) \o Named(d)
      BY <1>5, <1>10, <1>11, <1>12
    <2>3. QED
      BY <1>9, <2>1, <2>2, Zenon DEF GridNames
  <1>15. IsInjective([i \in DOMAIN pool |-> pool[i].name])
    BY <1>14, GridAssumption, Zenon DEF Named
  <1>16. CountsEveryTrial(rows, pool)
    BY <1>6, <1>13, <1>15 DEF CountsEveryTrial
  <1>17. QED
    BY <1>3, <1>16 DEF rows, pool

LEMMA StartReportStep ==
    ASSUME StudiesInv, StartReport
    PROVE  StudiesInv'
  <1> DEFINE rows == [s \in LoadPresent |-> StudyRow(s)]
             pool == GlobalTrials(LoadPresent)
  <1>1. /\ UNCHANGED trial_log /\ UNCHANGED artifact /\ UNCHANGED chart /\ UNCHANGED revealed
        /\ UNCHANGED report /\ UNCHANGED candles /\ Starting("research_report")
        /\ \/ /\ job' = [script |-> "research_report", pc |-> "write",
                         rows |-> rows, pool |-> pool]
              /\ Proceed
           \/ Fail
    BY DEF StartReport, filesVars
  <1>2. /\ LogsInv' /\ ArtifactInv' /\ ChartInv' /\ RevealedInv' /\ ReportCountsEveryTrial'
    BY <1>1, SameFile, FilesKept
  <1>3. CASE Fail
    BY <1>2, <1>3, Failed DEF StudiesInv
  <1>4. CASE /\ job' = [script |-> "research_report", pc |-> "write",
                        rows |-> rows, pool |-> pool]
             /\ Proceed
    <2>1. ArtifactInv /\ MakeInv
      BY DEF StudiesInv
    <2>2. ASSUME by_make PROVE CountsEveryTrial(rows, pool)
      <3>1. PICK k \in 0..5 : /\ MakeResearch[k + 1] = "research_report"
                              /\ \A i \in 1..4 : i <= k => Complete(Studies[i])
        BY <1>1, <2>1, <2>2, NextOfMake
      <3>2. ASSUME NEW i \in 1..4 PROVE MakeResearch[i] # "research_report"
        <4>1. MakeResearch[i] = Studies[i] /\ Studies[i] \in StudyNames
          BY ScriptsOfMake, StudyNamesAre
        <4>2. QED
          BY <4>1, StudyNamesAre
      <3>3. k >= 4
        BY <3>1, <3>2
      <3>4. \A i \in 1..4 : Complete(Studies[i])
        BY <3>1, <3>3
      <3>5. QED
        BY <2>1, <3>4, ReportCounts
    <2> HIDE DEF rows, pool
    <2>3. job'.script = "research_report" /\ job'.rows = rows /\ job'.pool = pool
      BY <1>4
    <2>4. by_make' = by_make
      BY <1>4 DEF Proceed
    <2>5. ReportRunning'
      BY <2>2, <2>3, <2>4 DEF ReportRunning
    <2>6. JobInv'
      BY <2>5 DEF JobInv
    <2>7. "research_report" \notin StudyNames
      BY StudyNamesAre
    <2>8. MakeInv'
      BY <1>1, <1>4, <2>1, <2>3, <2>7, TouchesNone, MakeStarts
    <2>9. QED
      BY <1>2, <2>6, <2>8 DEF StudiesInv
  <1>5. QED
    BY <1>1, <1>3, <1>4

-----------------------------------------------------------------------------
(* Init, every step, and the theorems.                                     *)

LEMMA StudiesInitInv == StudiesInit => StudiesInv
  <1> SUFFICES ASSUME StudiesInit PROVE StudiesInv
    OBVIOUS
  <1>1. /\ trial_log = [s \in StudyNames |-> <<>>]
        /\ artifact = [s \in StudyNames |-> None]
        /\ report = None /\ chart = None
        /\ revealed = [s \in HoldoutScripts |-> None]
        /\ job = Idle /\ queue = <<>> /\ by_make = FALSE
    BY DEF StudiesInit
  <1>2. LogsInv
    <2>1. <<>> \in Seq(Trials \cup {Torn}) /\ BarsOf(<<>>) = {}
      BY EmptySeq DEF BarsOf
    <2>2. QED
      BY <1>1, <2>1 DEF LogsInv
  <1>3. ArtifactInv
    BY <1>1 DEF ArtifactInv, Done
  <1>4. ChartInv /\ JobInv /\ MakeInv /\ ReportCountsEveryTrial
    BY <1>1 DEF ChartInv, JobInv, MakeInv, ReportCountsEveryTrial
  <1>5. RevealedInv
    BY <1>1 DEF RevealedInv
  <1>6. QED
    BY <1>2, <1>3, <1>4, <1>5 DEF StudiesInv

LEMMA DeskInit == Init => DeskInv
  <1> SUFFICES ASSUME Init PROVE DeskInv
    OBVIOUS
  <1>1. StudiesInit /\ SignalInit /\ DataInit
    BY DEF Init, StudiesInit
  <1>2. FileInv /\ SignalInv /\ StudiesInv
    BY <1>1, FileInitInv, SignalInitInv, StudiesInitInv
  <1>3. QED
    BY <1>2 DEF DeskInv

LEMMA StudiesStep ==
    ASSUME FileInv, StudiesInv, StudiesNext
    PROVE  StudiesInv'
  <1>1. CASE Launch(MakeResearch) \/ Launch(<<"research_report">>)
    BY <1>1, LaunchStep
  <1>2. CASE CompareStrategies
    BY <1>2, CompareStrategiesStep
  <1>3. CASE StartReport
    BY <1>3, StartReportStep
  <1>4. CASE WriteReport
    BY <1>4, WriteReportStep
  <1>5. CASE DieWritingReport \/ DieBetweenWrites
    BY <1>5, DieStep
  <1>6. ASSUME NEW study \in StudyNames, StudyStep(study)
        PROVE  StudiesInv'
    <2>1. CASE Launch(<<study>>)
      BY <2>1, LaunchStep
    <2>2. CASE StartStudy(study)
      BY <2>2, StartStudyStep
    <2>3. CASE AppendTrial(study)
      BY <2>3, AppendTrialStep
    <2>4. CASE WriteArtifact(study)
      BY <2>4, WriteArtifactStep
    <2>5. CASE DieAppending(study) \/ DieWritingArtifact(study)
      BY <2>5, DieStep
    <2>6. QED
      BY <1>6, <2>1, <2>2, <2>3, <2>4, <2>5 DEF StudyStep
  <1>7. ASSUME NEW script \in HoldoutScripts, HoldoutStep(script)
        PROVE  StudiesInv'
    <2>1. CASE Launch(<<script>>)
      BY <2>1, LaunchStep
    <2>2. CASE StartHoldout(script)
      BY <2>2, StartHoldoutStep
    <2>3. CASE WriteHoldout(script)
      BY <2>3, WriteHoldoutStep
    <2>4. CASE DieRevealing(script)
      BY <2>4, DieStep
    <2>5. QED
      BY <1>7, <2>1, <2>2, <2>3, <2>4 DEF HoldoutStep
  <1>8. QED
    BY <1>1, <1>2, <1>3, <1>4, <1>5, <1>6, <1>7 DEF StudiesNext

\* No step of a study or of the signal writes the candle file.
LEMMA StudiesLeaveTheFile == StudiesNext => UNCHANGED candles
  <1> SUFFICES ASSUME StudiesNext PROVE UNCHANGED candles
    OBVIOUS
  <1>1. \A scripts : Launch(scripts) => UNCHANGED candles
    BY DEF Launch
  <1>2. \A study : StudyStep(study) => UNCHANGED candles
    BY <1>1 DEF StudyStep, StartStudy, AppendTrial, WriteArtifact, DieAppending,
                DieWritingArtifact, Die
  <1>3. \A script : HoldoutStep(script) => UNCHANGED candles
    BY <1>1 DEF HoldoutStep, StartHoldout, WriteHoldout, DieRevealing, Die
  <1>4. CompareStrategies \/ StartReport \/ WriteReport => UNCHANGED candles
    BY DEF CompareStrategies, StartReport, WriteReport
  <1>5. DieWritingReport \/ DieBetweenWrites => UNCHANGED candles
    BY DEF DieWritingReport, DieBetweenWrites, Die
  <1>6. QED
    BY <1>1, <1>2, <1>3, <1>4, <1>5 DEF StudiesNext

LEMMA SignalLeavesTheFile == SignalNext => UNCHANGED candles
  BY DEF SignalNext, StartFreeze, WriteFrozen, DieFreezing, StartSignal, ReadLog, AppendLog,
         DieSignalling

LEMMA LastDayTyped ==
    ASSUME FileInv
    PROVE  LastDay \in Nat
  BY LastDayIs, LatestDayIs DEF FileInv

LEMMA LastDayTypedNext ==
    ASSUME FileInv'
    PROVE  LastDay' \in Nat
  <1>1. FileOK(candles')
    BY DEF FileInv
  <1>2. LatestDay(candles') \in Nat \ {0}
    BY <1>1, LatestDayIs
  <1>3. QED
    BY <1>2, LastDayIs

LEMMA SameFileKept ==
    ASSUME FileInv, UNCHANGED candles
    PROVE  FileInv' /\ LastDay' = LastDay /\ LastDay \in Nat
  <1>1. FileInv'
    BY DEF FileInv
  <1>2. LastDay' = LastDay
    BY LastDayIs
  <1>3. QED
    BY <1>1, <1>2, LastDayTyped

LEMMA DeskStep == DeskInv /\ [Next]_vars => DeskInv'
  <1> SUFFICES ASSUME DeskInv, [Next]_vars PROVE FileInv' /\ SignalInv' /\ StudiesInv'
    BY DEF DeskInv
  <1>1. FileInv /\ SignalInv /\ StudiesInv
    BY DEF DeskInv
  <1>2. CASE DataNext /\ UNCHANGED <<studyVars, signalVars>>
    <2>1. FileInv' /\ LastDay <= LastDay' /\ (OnlyExtended' => OnlyExtended)
      BY <1>1, <1>2, DataStep
    <2>2. LastDay' \in Nat
      BY <2>1, LastDayTypedNext
    <2>3. UNCHANGED studyVars /\ UNCHANGED signalVars
      BY <1>2
    <2>4. SignalInv'
      BY <1>1, <2>1, <2>2, <2>3, SignalUntouched
    <2>5. StudiesInv'
      BY <1>1, <2>1, <2>3, StudiesUntouched
    <2>6. QED
      BY <2>1, <2>4, <2>5
  <1>3. CASE StudiesNext /\ UNCHANGED signalVars
    <2>1. UNCHANGED candles
      BY <1>3, StudiesLeaveTheFile
    <2>2. FileInv' /\ LastDay' = LastDay /\ LastDay \in Nat
      BY <1>1, <2>1, SameFileKept
    <2>3. LastDay' \in Nat /\ LastDay <= LastDay'
      BY <2>2
    <2>4. SignalInv'
      BY <1>1, <1>3, <2>3, SignalUntouched
    <2>5. StudiesInv'
      BY <1>1, <1>3, StudiesStep
    <2>6. QED
      BY <2>2, <2>4, <2>5
  <1>4. CASE SignalNext /\ UNCHANGED studyVars
    <2>1. UNCHANGED candles
      BY <1>4, SignalLeavesTheFile
    <2>2. FileInv'
      BY <1>1, <2>1, SameFileKept
    <2>3. OnlyExtended' => OnlyExtended
      BY <2>1, SameFile
    <2>4. SignalInv'
      BY <1>1, <1>4, SignalStep
    <2>5. StudiesInv'
      BY <1>1, <1>4, <2>3, StudiesUntouched
    <2>6. QED
      BY <2>2, <2>4, <2>5
  <1>5. CASE UNCHANGED vars
    <2>1. UNCHANGED candles /\ UNCHANGED studyVars /\ UNCHANGED signalVars
      BY <1>5 DEF vars
    <2>2. FileInv' /\ LastDay' = LastDay /\ LastDay \in Nat
      BY <1>1, <2>1, SameFileKept
    <2>3. LastDay' \in Nat /\ LastDay <= LastDay' /\ (OnlyExtended' => OnlyExtended)
      BY <2>1, <2>2, SameFile
    <2>4. SignalInv'
      BY <1>1, <2>1, <2>3, SignalUntouched
    <2>5. StudiesInv'
      BY <1>1, <2>1, <2>3, StudiesUntouched
    <2>6. QED
      BY <2>2, <2>4, <2>5
  <1>6. QED
    BY <1>2, <1>3, <1>4, <1>5 DEF Next

(* The invariant of the research desk: the candle file never has two bars  *)
(* of a day, the rows of the signal log follow one another, the log of a   *)
(* running study holds the trials it has done, and make research never      *)
(* goes past a study that is not complete.                                 *)
THEOREM DeskInvariant == Spec => []DeskInv
  BY DeskInit, DeskStep, PTL DEF Spec

(* The invariant is about what the properties are about.                   *)
LEMMA InvArtifactsSound == StudiesInv => ArtifactsSound
  <1> SUFFICES ASSUME StudiesInv, NEW s \in StudyNames, Done(s)
               PROVE  LET trials == artifact[s].trials
                      IN  /\ artifact[s].deflated_by = trials
                          /\ \A t, u \in BarsOf(trials) :
                                /\ t.rows = u.rows /\ t.rows # {}
                                /\ t.rows \cap {bar.day : bar \in t.fit} = {}
    BY DEF ArtifactsSound
  <1>1. SearchOf(s, artifact[s].trials) /\ artifact[s].deflated_by = artifact[s].trials
    BY DEF StudiesInv, ArtifactInv
  <1>2. QED
    BY <1>1 DEF SearchOf, SoundSearch

LEMMA InvHoldoutKept == StudiesInv => HoldoutKept
  <1> SUFFICES ASSUME StudiesInv PROVE HoldoutKept
    OBVIOUS
  <1>1. ASSUME OnlyExtended, NEW t \in AllTrials
        PROVE  (t.fit \cup t.seen) \cap SealedBars = {}
    <2>1. TrialUnsealed(t)
      <3>1. CASE t \in {u \in {chart} : u # None}
        BY <3>1 DEF StudiesInv, ChartInv
      <3>2. ASSUME NEW s \in StudyNames, t \in BarsOf(trial_log[s]) \ {Torn}
            PROVE  TrialUnsealed(t)
        BY <3>2 DEF StudiesInv, LogsInv
      <3>3. \/ t \in {u \in {chart} : u # None}
            \/ \E s \in StudyNames : t \in BarsOf(trial_log[s]) \ {Torn}
        <4> DEFINE lines(s) == BarsOf(trial_log[s]) \ {Torn}
                   logged == UNION {lines(s) : s \in StudyNames}
                   charted == {u \in {chart} : u # None}
        <4>1. AllTrials = logged \cup charted
          BY DEF AllTrials
        <4> HIDE DEF logged, charted
        <4>2. t \in logged \/ t \in charted
          BY <1>1, <4>1
        <4> HIDE DEF lines
        <4>3. t \in UNION {lines(s) : s \in StudyNames} => \E s \in StudyNames : t \in lines(s)
          OBVIOUS
        <4>4. QED
          BY <4>2, <4>3 DEF lines, logged, charted
      <3>4. QED
        BY <3>1, <3>2, <3>3
    <2>2. QED
      BY <1>1, <2>1 DEF TrialUnsealed, Unsealed
  <1>2. ASSUME OnlyExtended, NEW s \in StudyNames, artifact[s] \notin {None, Torn}
        PROVE  /\ artifact[s].walked \cap SealedBars = {}
               /\ \A t \in BarsOf(artifact[s].trials) : t.seen \cap SealedBars = {}
    <2>1. SearchOf(s, artifact[s].trials) /\ Unsealed(artifact[s].walked)
      BY <1>2 DEF StudiesInv, ArtifactInv, Done
    <2>2. \A t \in BarsOf(artifact[s].trials) : (t.fit \cup t.seen) \cap SealedBars = {}
      BY <1>2, <2>1 DEF SearchOf, TrialUnsealed, Unsealed
    <2>3. artifact[s].walked \cap SealedBars = {}
      BY <1>2, <2>1 DEF Unsealed
    <2>4. QED
      BY <2>2, <2>3
  <1>3. HoldoutStaysSealed
    BY <1>1, <1>2 DEF HoldoutStaysSealed
  <1>4. HoldoutResultsSound
    BY DEF StudiesInv, RevealedInv, SoundResult, HoldoutResultsSound
  <1>5. QED
    BY <1>3, <1>4 DEF HoldoutKept

(* The rows of the signal log are about ever later bars, and none was      *)
(* decided by a model that had seen a later bar, however refreshes of the  *)
(* candle file, deaths and other commands come between reading the log and *)
(* appending to it (scripts/daily_signal.py).                               *)
THEOREM SignalLogInOrder == Spec => []OneRowPerBar
  <1>1. DeskInv => OneRowPerBar
    BY LogIsInOrder DEF DeskInv
  <1>2. QED
    BY <1>1, DeskInvariant, PTL

(* The review of the log charges and counts exactly the actions that were  *)
(* announced, and reports a gap exactly when a day is missing              *)
(* (scripts/daily_signal.py, compute_track_record).                        *)
THEOREM ReviewHonest == Spec => []TrackRecordHonest
  <1>1. DeskInv => TrackRecordHonest
    BY ReviewIsHonest DEF DeskInv
  <1>2. QED
    BY <1>1, DeskInvariant, PTL

(* An artifact is deflated by exactly the trials of the run that wrote it, *)
(* scored over the same days and none the model was fitted on, for every   *)
(* grid and every crash (the four study scripts and trials.py).            *)
THEOREM ArtifactsStaySound == Spec => []ArtifactsSound
  <1>1. DeskInv => ArtifactsSound
    BY InvArtifactsSound DEF DeskInv
  <1>2. QED
    BY <1>1, DeskInvariant, PTL

(* The report of make research covers the four studies and corrects for    *)
(* every trial of their grids once (scripts/research_report.py).           *)
THEOREM ReportIsComplete == Spec => []ReportCountsEveryTrial
  <1>1. DeskInv => ReportCountsEveryTrial
    BY DEF DeskInv, StudiesInv
  <1>2. QED
    BY <1>1, DeskInvariant, PTL

(* The plot or the results of a holdout script change only when it writes   *)
(* them or dies writing them.                                              *)
LEMMA RevealedChanges ==
    ASSUME Next
    PROVE  \/ UNCHANGED revealed
           \/ \E script \in HoldoutScripts : WriteHoldout(script) \/ DieRevealing(script)
  <1>1. \A scripts : Launch(scripts) => UNCHANGED revealed
    BY DEF Launch, filesVars
  <1>2. \A study : StudyStep(study) => UNCHANGED revealed
    BY <1>1 DEF StudyStep, StartStudy, AppendTrial, WriteArtifact, DieAppending,
                DieWritingArtifact
  <1>3. \A script : StartHoldout(script) => UNCHANGED revealed
    BY DEF StartHoldout, filesVars
  <1>4. CompareStrategies \/ StartReport \/ WriteReport => UNCHANGED revealed
    BY DEF CompareStrategies, StartReport, WriteReport, filesVars
  <1>5. DieWritingReport \/ DieBetweenWrites => UNCHANGED revealed
    BY DEF DieWritingReport, DieBetweenWrites
  <1>6. UNCHANGED studyVars => UNCHANGED revealed
    BY DEF studyVars, filesVars
  <1>7. QED
    BY <1>1, <1>2, <1>3, <1>4, <1>5, <1>6 DEF Next, StudiesNext, HoldoutStep

LEMMA ChartStep ==
    ASSUME StudiesInv, [Next]_vars
    PROVE  ChartIsPublished
  <1> SUFFICES ASSUME ChartDrawn
               PROVE  /\ revealed["evaluate_holdout"] \notin {None, Torn}
                      /\ revealed'["full_history_chart"].holdout
                            = revealed["evaluate_holdout"].holdout
    BY DEF ChartIsPublished
  <1>1. ~UNCHANGED revealed
    BY DEF ChartDrawn
  <1>2. Next
    BY <1>1 DEF vars, studyVars, filesVars
  <1>3. PICK script \in HoldoutScripts : WriteHoldout(script) \/ DieRevealing(script)
    BY <1>1, <1>2, RevealedChanges
  <1>4. /\ revealed = [h \in HoldoutScripts |-> revealed[h]]
        /\ "full_history_chart" \in HoldoutScripts
    BY DEF StudiesInv, RevealedInv, HoldoutScripts
  <1>5. ~DieRevealing(script)
    <2> SUFFICES ASSUME DieRevealing(script) PROVE FALSE
      OBVIOUS
    <2>1. revealed' = [revealed EXCEPT ![script] = Torn]
      BY DEF DieRevealing
    <2>2. revealed'["full_history_chart"] \in {Torn, revealed["full_history_chart"]}
      BY <1>4, <2>1
    <2>3. QED
      BY <2>2 DEF ChartDrawn
  <1>6. job.script = script /\ revealed' = [revealed EXCEPT ![script] = job.result]
    BY <1>3, <1>5 DEF WriteHoldout
  <1>7. script = "full_history_chart"
    <2> SUFFICES ASSUME script # "full_history_chart" PROVE FALSE
      OBVIOUS
    <2>1. revealed'["full_history_chart"] = revealed["full_history_chart"]
      BY <1>4, <1>6
    <2>2. QED
      BY <2>1 DEF ChartDrawn
  <1>8. VerifyHoldout(job.result.holdout)
    BY <1>6, <1>7, RunningHoldout DEF HoldoutRunning
  <1>9. revealed'["full_history_chart"] = job.result
    BY <1>4, <1>6, <1>7
  <1>10. QED
    BY <1>8, <1>9 DEF VerifyHoldout

(* A chart is written only with the holdout numbers evaluate_holdout has    *)
(* published, for any change to the candle file, any crash and any order   *)
(* of the scripts (scripts/full_history_chart.py, _verify_holdout).        *)
THEOREM ChartStaysPublished == Spec => ChartNeverDrifts
  <1>1. DeskInv /\ [Next]_vars => [ChartIsPublished]_vars
    BY ChartStep DEF DeskInv
  <1>2. QED
    BY <1>1, DeskInvariant, PTL DEF Spec, ChartNeverDrifts

(* While the candle file only grows no trial, no chart of the comparison    *)
(* and no walk-forward of a study looks at a sealed bar.  Whatever happens *)
(* to the file, a published holdout number is computed on exactly the      *)
(* sealed bars by a model fitted on none of them (data/holdout.py and the  *)
(* scripts).  The windows evaluate_funding_impact publishes beside it walk *)
(* over the whole file: of them it says that each is scored on bars its    *)
(* own model was not fitted on, not that they keep off the sealed bars.    *)
THEOREM HoldoutIsKept == Spec => []HoldoutKept
  <1>1. DeskInv => HoldoutKept
    BY InvHoldoutKept DEF DeskInv
  <1>2. QED
    BY <1>1, DeskInvariant, PTL
=============================================================================
