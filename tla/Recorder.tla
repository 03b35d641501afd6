------------------------------ MODULE Recorder ------------------------------
(***************************************************************************)
(* crates/cli/src/record.rs: a recording session.  The feed task and the   *)
(* recording loop run concurrently, joined by the channel; at the deadline *)
(* the loop ends, the feed is aborted and the log is finished.  The        *)
(* process may be killed at any moment.  Afterwards the log is read.       *)
(***************************************************************************)
EXTENDS MarketFeed, EventLog

vars == <<feedVars, logVars>>

Init == FeedInit /\ LogInit

Running == log_state = "open" /\ open

\* The feed task, until the process ends.
Feed == log_state = "open" /\ FeedStep /\ UNCHANGED logVars

\* recv returns an event: it is written to the log.
RecordEvent ==
    /\ Running
    /\ Recv /\ write_event(Head(channel))

\* The deadline, or all senders gone (Ok(None)): the receiver is dropped.
StopReceiving ==
    /\ Running
    /\ DropReceiver
    /\ UNCHANGED logVars

\* feed.abort() and finish(), the feed possibly having run in between.
FinishSession ==
    /\ log_state = "open" /\ ~open
    /\ FeedEnds
    /\ finish

KillProcess == Kill /\ FeedEnds

Read == (Open \/ ReadNext) /\ UNCHANGED feedVars

Next == Feed \/ RecordEvent \/ StopReceiving \/ FinishSession \/ KillProcess \/ Read

Spec == Init /\ [][Next]_vars

\* What the feed task does without the venue: its timers and its sends.
FeedAlone ==
    /\ log_state = "open"
    /\ Tick \/ SendPing \/ GoStale \/ Retry \/ Forward
    /\ UNCHANGED logVars

(* The runtime runs the feed task and its timers.  Nothing is assumed of   *)
(* the venue, of the consumer, or of a connect, which has no timeout.      *)
FairSpec == Spec /\ WF_vars(FeedAlone)
-----------------------------------------------------------------------------
(* While the session records, every event the feed parsed is in the log,   *)
(* waiting in the channel, about to be forwarded, or counted as dropped:   *)
(* the two tasks lose nothing between them without counting it             *)
(* (ws.rs:7-9: "dropped and counted, never silently buffered").  With it,  *)
(* the type of the feed's state.                                           *)
EventsAccountedFor ==
    /\ FeedTypeOK
    /\ Running => parsed = Len(EventsWritten) + Len(channel) + to_send + stats.dropped

(* Whatever was dropped on the way and wherever the file was cut, what is  *)
(* read back is in the order in which it was received, nothing twice.      *)
ReadInOrder ==
    \A i, j \in DOMAIN reader.events : i < j => reader.events[i] < reader.events[j]

(* A connection that goes quiet does not stay so: a message arrives, or    *)
(* the feed gives the connection up and, after its delay, dials again,     *)
(* for as long as the session runs (ws.rs:86-90 "Reconnects forever").     *)
QuietFeedReconnects ==
    (Running /\ idle > 0)
        ~> (idle = 0 \/ conn = "connecting" \/ ~Running
            \/ stats.disconnects = MaxFailures)
=============================================================================
