----------------------------- MODULE SignalLog -----------------------------
(***************************************************************************)
(* python/scripts/daily_signal.py: once a day the frozen model scores the  *)
(* latest bar of the candle file and the decision goes to a CSV log.  Its  *)
(* runs follow one another (cron, or by hand), may repeat, may miss days,  *)
(* may die between two steps, and the candle file may change under them.   *)
(* Which regime a bar falls in is left open.                               *)
(***************************************************************************)
EXTENDS ResearchData

VARIABLES frozen,      \* frozen-regime-model.json
          signal_log,  \* daily-signal-log.csv: whether it was made, its lines
          signal       \* the running command

signalVars == <<frozen, signal_log, signal>>

NoModel == [kind |-> "none"]
CutModel == [kind |-> "cut"]      \* write_text died half way
Model(through) == [kind |-> "model", trained_through |-> through]
NoCommand == [cmd |-> "none"]
Header == [date |-> 0, target |-> "FLAT"]

SignalInit ==
    /\ frozen = NoModel
    /\ signal_log = [made |-> FALSE, lines |-> <<>>]
    /\ signal = NoCommand
-----------------------------------------------------------------------------
\* freeze: fit on everything there is, then write the parameters.
StartFreeze ==
    /\ signal = NoCommand
    /\ signal' = [cmd |-> "freeze", trained_through |-> Last(load_candles).day]
    /\ UNCHANGED <<frozen, signal_log, candles>>

WriteFrozen ==
    /\ signal.cmd = "freeze"
    /\ frozen' = Model(signal.trained_through)
    /\ signal' = NoCommand
    /\ UNCHANGED <<signal_log, candles>>

DieFreezing ==
    /\ signal.cmd = "freeze"
    /\ frozen' = CutModel
    /\ signal' = NoCommand
    /\ UNCHANGED <<signal_log, candles>>
-----------------------------------------------------------------------------
\* The date of the latest bar whose features are warm.
ScoredBar(bars) == bars[1 + Max(VolWindow..(Len(bars) - 1))].day

TargetOf(regime) == IF regime = "bull" THEN "LONG" ELSE "FLAT"

(* MUTANT of LastLogged: the first row is taken for the last. *)
LastLogged_first_row ==
    IF Len(signal_log.lines) <= 1 THEN Header ELSE signal_log.lines[2]

\* The last logged row, or no date and FLAT for a log of fewer than two lines.
LastLogged == IF Len(signal_log.lines) <= 1 THEN Header ELSE Last(signal_log.lines)

(* MUTANT of ActionFrom: the position held does not matter. *)
ActionFrom_ignores_previous(prev, target) == IF target = "LONG" THEN "ENTER" ELSE "EXIT"

ActionFrom(prev, target) ==
    CASE prev # "LONG" /\ target = "LONG" -> "ENTER"
      [] prev = "LONG" /\ target = "FLAT" -> "EXIT"
      [] OTHER -> "HOLD"

\* emit gives up without a readable model (SystemExit, or the JSON error).
ModelLoads == frozen \notin {NoModel, CutModel}

\* emit loads the model and the candles and scores the latest bar;
StartSignal ==
    /\ signal = NoCommand /\ ModelLoads
    /\ Len(candles) > VolWindow
    /\ \E regime \in {"bear", "chop", "bull"} :
          signal' = [cmd |-> "signal", pc |-> "read", date |-> ScoredBar(load_candles),
                     target |-> TargetOf(regime),
                     trained_through |-> frozen.trained_through]
    /\ UNCHANGED <<frozen, signal_log, candles>>

\* the row it would append to the log, from the last row there;
Row(prev) == [date |-> signal.date, target |-> signal.target,
              action |-> ActionFrom(prev, signal.target),
              trained_through |-> signal.trained_through]

\* it reads that row, and stops when the bar is already logged;
ReadLog ==
    /\ signal.cmd = "signal" /\ signal.pc = "read"
    /\ signal' = IF LastLogged.date = signal.date
                 THEN NoCommand
                 ELSE [cmd |-> "signal", pc |-> "append", row |-> Row(LastLogged.target)]
    /\ UNCHANGED <<frozen, signal_log, candles>>

\* it appends the row, after the header if there was no file.
AppendLog ==
    /\ signal.cmd = "signal" /\ signal.pc = "append"
    /\ LET old == IF signal_log.made THEN signal_log.lines ELSE <<Header>>
       IN  signal_log' = [made |-> TRUE, lines |-> Append(old, signal.row)]
    /\ signal' = NoCommand
    /\ UNCHANGED <<frozen, candles>>

\* The lines reach the file when it is closed: a run that dies leaves the log as
\* it was, but for an empty file when it had just been made.
DieSignalling ==
    /\ signal.cmd = "signal"
    /\ \/ UNCHANGED signal_log
       \/ signal.pc = "append" /\ signal_log' = [signal_log EXCEPT !.made = TRUE]
    /\ signal' = NoCommand
    /\ UNCHANGED <<frozen, candles>>

SignalNext ==
    \/ StartFreeze \/ WriteFrozen \/ DieFreezing
    \/ StartSignal \/ ReadLog \/ AppendLog \/ DieSignalling
-----------------------------------------------------------------------------
\* csv.DictReader: the rows below the first line, header or not.
Rows == IF signal_log.lines = <<>> THEN <<>> ELSE Tail(signal_log.lines)

\* The first run to make the file lived to write its header.
Headed == signal_log.made => (signal_log.lines # <<>> /\ signal_log.lines[1] = Header)

\* compute_track_record: the target of a row is held into the next row; the last
\* row has none.
TrackRecord(rows) ==
    LET held == 1..(Len(rows) - 1)
        pos == [i \in held |-> IF rows[i].target = "LONG" THEN 1 ELSE 0]
        prev(i) == IF i = 1 THEN 0 ELSE pos[i - 1]
    IN  [dates    |-> [i \in held |-> rows[i].date],
         position |-> pos,
         charged  |-> {i \in held : pos[i] # prev(i)},
         n_trades |-> Cardinality({i \in held : pos[i] > prev(i)}),
         gaps     |-> Cardinality({i \in held : rows[i + 1].date - rows[i].date # 1})]
-----------------------------------------------------------------------------
\* A rerun never logs a bar twice, days missed are skipped and never filled in
\* out of order, and no row was decided by a model that had seen later bars.
\* A run that died making the file is left out: without a header the next runs
\* do forget their first row.
OneRowPerBar ==
    Headed =>
        \A i \in DOMAIN Rows :
            /\ Rows[i].trained_through <= Rows[i].date
            /\ i > 1 => Rows[i - 1].date < Rows[i].date

\* The review, which reads only targets, agrees with the actions that were
\* announced: it counts a trade for every ENTER and charges a cost for every
\* ENTER or EXIT that has been held, and it reports a gap exactly when a day
\* between the first and the last row is missing.
TrackRecordHonest ==
    Headed /\ Len(Rows) >= 2 =>
        LET tr == TrackRecord(Rows)
            held == DOMAIN tr.position
            Doing(acts) == {i \in held : Rows[i].action \in acts}
        IN  /\ tr.n_trades = Cardinality(Doing({"ENTER"}))
            /\ tr.charged = Doing({"ENTER", "EXIT"})
            /\ (tr.gaps = 0) <=> (Last(Rows).date - Rows[1].date = Len(Rows) - 1)
=============================================================================
