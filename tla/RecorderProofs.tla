--------------------------- MODULE RecorderProofs ---------------------------
(***************************************************************************)
(* A recording session on any connection, with a channel of any capacity   *)
(* and messages of any size: no silence outlives the watchdog, and no      *)
(* event is lost between the feed and the log without being counted.       *)
(***************************************************************************)
EXTENDS Recorder, FiniteSetTheorems, SequenceTheorems, WellFoundedInduction, TLAPS

\* The next watchdog check comes before the silence is too long.
WatchdogDue == conn = "streaming" => idle + ping_in <= STALENESS_LIMIT + PING_INTERVAL

\* What is still to be forwarded has been parsed.
MessageParsed == to_send <= parsed

\* The backoff counts no more failures than there were.
AttemptsCounted == attempt <= stats.disconnects /\ stats.disconnects <= MaxFailures

\* The log begins with its header.
FramesTyped == frames \in Seq([event : Nat, len : Nat]) /\ Len(frames) >= 1

Accounted ==
    Running => parsed = Len(EventsWritten) + Len(channel) + to_send + stats.dropped

FeedInv == FeedTypeOK /\ WatchdogDue /\ MessageParsed /\ AttemptsCounted
SessionInv == FeedInv /\ FramesTyped /\ Accounted
-----------------------------------------------------------------------------
\* What counting does to the counters.
LEMMA ConnectCounted ==
    ASSUME NEW s \in FeedStats, NEW t, t = [s EXCEPT !.connects = @ + 1]
    PROVE  t \in FeedStats /\ t.disconnects = s.disconnects /\ t.dropped = s.dropped
BY DEF FeedStats

LEMMA FailureCounted ==
    ASSUME NEW s \in FeedStats, NEW t, t = [s EXCEPT !.disconnects = @ + 1]
    PROVE  t \in FeedStats /\ t.disconnects = s.disconnects + 1 /\ t.dropped = s.dropped
BY DEF FeedStats

LEMMA MessageCounted ==
    ASSUME NEW s \in FeedStats, NEW t, t = [s EXCEPT !.messages = @ + 1]
    PROVE  t \in FeedStats /\ t.disconnects = s.disconnects /\ t.dropped = s.dropped
BY DEF FeedStats

LEMMA GarbageCounted ==
    ASSUME NEW s \in FeedStats, NEW t, t = [s EXCEPT !.messages = @ + 1, !.parse_errors = @ + 1]
    PROVE  t \in FeedStats /\ t.disconnects = s.disconnects /\ t.dropped = s.dropped
<1> DEFINE u == [s EXCEPT !.messages = @ + 1]
<1>1. u \in FeedStats /\ u.disconnects = s.disconnects /\ u.dropped = s.dropped
  BY MessageCounted
<1>2. t = [u EXCEPT !.parse_errors = @ + 1]
  BY Zenon
<1> HIDE DEF u
<1> QED
  BY <1>1, <1>2 DEF FeedStats

LEMMA EventCounted ==
    ASSUME NEW s \in FeedStats, NEW t, t = [s EXCEPT !.events = @ + 1]
    PROVE  t \in FeedStats /\ t.disconnects = s.disconnects /\ t.dropped = s.dropped
BY DEF FeedStats

LEMMA DropCounted ==
    ASSUME NEW s \in FeedStats, NEW t, t = [s EXCEPT !.dropped = @ + 1]
    PROVE  t \in FeedStats /\ t.disconnects = s.disconnects /\ t.dropped = s.dropped + 1
BY DEF FeedStats

\* Counters are natural numbers.
LEMMA CountersTyped == ASSUME NEW s \in FeedStats PROVE s.disconnects \in Nat /\ s.dropped \in Nat
BY DEF FeedStats

\* The feed starts, and ends, with all counters at zero and nothing waiting.
LEMMA NoStatsTyped == NoStats \in FeedStats /\ NoStats.disconnects = 0 /\ NoStats.dropped = 0
BY DEF NoStats, FeedStats

\* Before the first connection.
LEMMA FeedInitInv == FeedInit => FeedInv
<1> SUFFICES ASSUME FeedInit PROVE FeedInv
  OBVIOUS
<1>1. channel \in Seq(1..parsed) /\ Len(channel) <= capacity
  BY FeedAssumption DEF FeedInit
<1> QED
  BY <1>1, FeedAssumption, NoStatsTyped
  DEF FeedInit, FeedInv, FeedTypeOK, WatchdogDue, MessageParsed, AttemptsCounted,
      MaxIdle, PING_INTERVAL, STALENESS_LIMIT

\* Steps that leave the channel alone.
LEMMA FeedQuietStep ==
    ASSUME FeedInv, UNCHANGED <<channel, open>>,
           \/ ConnectSucceeds \/ ConnectFails \/ ConnectionLost \/ Retry
           \/ Tick \/ SendPing \/ GoStale \/ ReceiveGarbage \/ ReceiveControl
           \/ ForwardToClosed
    PROVE  FeedInv'
<1> USE FeedAssumption, CountersTyped
    DEF FeedInv, FeedTypeOK, WatchdogDue, MessageParsed, AttemptsCounted,
        MaxIdle, PING_INTERVAL, STALENESS_LIMIT
<1>1. CASE ConnectSucceeds
  BY <1>1, ConnectCounted DEF ConnectSucceeds
<1>2. CASE ConnectFails \/ ConnectionLost \/ GoStale
  <2>1. Fail
    BY <1>2 DEF ConnectFails, ConnectionLost, GoStale
  <2>2. stats' \in FeedStats /\ stats'.disconnects = stats.disconnects + 1
    BY <2>1, FailureCounted DEF Fail
  <2>3. stats \in FeedStats /\ stats.disconnects \in Nat
    OBVIOUS
  <2>4. attempt' \in 0..MaxFailures /\ AttemptsCounted'
    BY <2>1, <2>2, <2>3 DEF Fail
  <2> QED
    BY <2>1, <2>2, <2>4 DEF Fail
<1>3. CASE Retry
  BY <1>3 DEF Retry
<1>4. CASE Tick
  BY <1>4 DEF Tick, Selecting
<1>5. CASE SendPing
  BY <1>5 DEF SendPing, PingDue, Selecting, Stale
<1>6. CASE ReceiveGarbage
  <2>1. stats' \in FeedStats /\ stats'.disconnects = stats.disconnects
    BY <1>6, GarbageCounted DEF ReceiveGarbage
  <2> QED
    BY <1>6, <2>1 DEF ReceiveGarbage, Selecting
<1>8. CASE ReceiveControl
  BY <1>8 DEF ReceiveControl, Selecting
<1>7. CASE ForwardToClosed
  BY <1>7 DEF ForwardToClosed
<1> QED
  BY <1>1, <1>2, <1>3, <1>4, <1>5, <1>6, <1>7, <1>8

\* A message: events are parsed, and wait to be forwarded.
LEMMA ReceiveStep ==
    ASSUME FeedInv, NEW n \in MessageSizes, ReceiveMessage(n)
    PROVE  FeedInv'
<1>1. n \in Nat
  BY FeedAssumption
<1>2. channel \in Seq(1..(parsed + n))
  <2>1. channel \in Seq(1..parsed) /\ parsed \in Nat
    BY DEF FeedInv, FeedTypeOK
  <2>2. 1..parsed \subseteq 1..(parsed + n)
    BY <1>1, <2>1
  <2> QED
    BY <2>1, <2>2, SeqMonotonic
<1> QED
  BY <1>1, <1>2, FeedAssumption, CountersTyped, MessageCounted
  DEF FeedInv, FeedTypeOK, WatchdogDue, MessageParsed, AttemptsCounted,
      MaxIdle, PING_INTERVAL, STALENESS_LIMIT, ReceiveMessage, Selecting

\* A try_send: the event goes to the channel, or is dropped.
LEMMA ForwardStep ==
    ASSUME FeedInv, Forward
    PROVE  FeedInv'
<1> DEFINE event == parsed - to_send + 1
<1>1. event \in 1..parsed
  BY DEF FeedInv, FeedTypeOK, MessageParsed, Forward
<1>2. channel' \in Seq(1..parsed) /\ Len(channel') <= capacity
  <2> DEFINE Events == 1..parsed
  <2>1. event \in Events /\ channel \in Seq(Events) /\ Len(channel) <= capacity
    BY <1>1 DEF FeedInv, FeedTypeOK
  <2>2. channel' = channel \/ (channel' = Append(channel, event) /\ Len(channel) < capacity)
    BY DEF Forward
  <2> HIDE DEF Events, event
  <2>3. channel' \in Seq(Events) /\ Len(channel') <= capacity
    BY <2>1, <2>2, FeedAssumption
  <2> QED
    BY <2>3 DEF Events
<1>3. stats' \in FeedStats /\ stats'.disconnects = stats.disconnects
  BY EventCounted, DropCounted DEF FeedInv, FeedTypeOK, Forward
<1>4. UNCHANGED <<conn, attempt, idle, ping_in, open, parsed>> /\ to_send > 0
      /\ to_send' = to_send - 1
  BY DEF Forward
<1> QED
  BY <1>2, <1>3, <1>4, FeedAssumption
  DEF FeedInv, FeedTypeOK, WatchdogDue, MessageParsed, AttemptsCounted,
      MaxIdle, PING_INTERVAL, STALENESS_LIMIT

\* The feed task preserves its invariant.
LEMMA FeedStepInv == FeedInv /\ FeedStep => FeedInv'
<1> SUFFICES ASSUME FeedInv, FeedStep PROVE FeedInv'
  OBVIOUS
<1>1. CASE \E n \in MessageSizes : ReceiveMessage(n)
  BY <1>1, ReceiveStep
<1>2. CASE Forward
  BY <1>2, ForwardStep
<1>3. CASE \/ ConnectSucceeds \/ ConnectFails \/ ConnectionLost \/ Retry
           \/ Tick \/ SendPing \/ GoStale \/ ReceiveGarbage \/ ReceiveControl
           \/ ForwardToClosed
  <2>1. UNCHANGED <<channel, open>>
    BY <1>3 DEF ConnectSucceeds, ConnectFails, ConnectionLost, Retry, Tick, SendPing,
                GoStale, ReceiveGarbage, ReceiveControl, ForwardToClosed, Fail
  <2> QED
    BY <1>3, <2>1, FeedQuietStep
<1> QED
  BY <1>1, <1>2, <1>3 DEF FeedStep

\* The consumer takes an event.
LEMMA RecvStep ==
    ASSUME FeedInv, Recv
    PROVE  FeedInv' /\ Head(channel) \in Nat /\ Len(channel') = Len(channel) - 1
<1>1. channel \in Seq(1..parsed) /\ channel # <<>> /\ parsed \in Nat
  BY DEF FeedInv, FeedTypeOK, Recv
<1>2. /\ Head(channel) \in 1..parsed
      /\ Tail(channel) \in Seq(1..parsed)
      /\ Len(Tail(channel)) = Len(channel) - 1
  BY <1>1
<1> QED
  BY <1>1, <1>2, FeedAssumption, CountersTyped, MessageCounted
  DEF FeedInv, FeedTypeOK, WatchdogDue, MessageParsed, AttemptsCounted, Recv,
      MaxIdle, PING_INTERVAL, STALENESS_LIMIT

\* The empty channel is a channel.
LEMMA NothingWaits == ASSUME NEW n PROVE <<>> \in Seq(1..n) /\ Len(<<>>) = 0
OBVIOUS

\* The consumer drops the channel, or the feed's process ends.
LEMMA FeedLosesItsEnd == FeedInv /\ (DropReceiver \/ FeedEnds) => FeedInv'
<1> SUFFICES ASSUME FeedInv, DropReceiver \/ FeedEnds PROVE FeedInv'
  OBVIOUS
<1> USE FeedAssumption
    DEF FeedInv, FeedTypeOK, WatchdogDue, MessageParsed, AttemptsCounted, MaxIdle,
        PING_INTERVAL, STALENESS_LIMIT
<1>0. channel' \in Seq(1..parsed') /\ Len(channel') = 0
  BY NothingWaits DEF DropReceiver, FeedEnds
<1>1. CASE DropReceiver
  <2>0. open' = FALSE /\ UNCHANGED <<conn, attempt, idle, ping_in, to_send, stats, parsed>>
    BY <1>1 DEF DropReceiver
  <2>1. FeedTypeOK'
    <3>1. Len(channel') <= capacity
      BY <1>0
    <3>2. channel' \in Seq(1..parsed')
      BY <1>0
    <3>3. conn' \in {"connecting", "streaming", "backoff", "stopped"} /\ open' \in BOOLEAN
      BY <2>0
    <3>4. attempt' \in 0..MaxFailures /\ idle' \in 0..MaxIdle /\ ping_in' \in 0..PING_INTERVAL
      BY <2>0
    <3>5. to_send' \in Nat /\ parsed' \in Nat /\ stats' \in FeedStats
      BY <2>0
    <3> QED
      BY <3>1, <3>2, <3>3, <3>4, <3>5
  <2>2. WatchdogDue' /\ MessageParsed' /\ AttemptsCounted'
    BY <1>1 DEF DropReceiver
  <2> QED
    BY <2>1, <2>2
<1>2. CASE FeedEnds
  <2>0. /\ conn' = "stopped" /\ open' = FALSE /\ stats' = NoStats
        /\ to_send' = 0 /\ parsed' = 0 /\ attempt' = 0 /\ idle' = 0 /\ ping_in' = 0
    BY <1>2 DEF FeedEnds
  <2>1. FeedTypeOK'
    <3>1. Len(channel') <= capacity
      BY <1>0
    <3>2. channel' \in Seq(1..parsed')
      BY <1>0
    <3>3. conn' \in {"connecting", "streaming", "backoff", "stopped"} /\ open' \in BOOLEAN
      BY <2>0
    <3>4. attempt' \in 0..MaxFailures /\ idle' \in 0..MaxIdle /\ ping_in' \in 0..PING_INTERVAL
      BY <2>0
    <3>5. to_send' \in Nat /\ parsed' \in Nat /\ stats' \in FeedStats
      BY <2>0, NoStatsTyped
    <3> QED
      BY <3>1, <3>2, <3>3, <3>4, <3>5
  <2>2. WatchdogDue' /\ MessageParsed' /\ AttemptsCounted'
    BY <1>2, NoStatsTyped DEF FeedEnds
  <2> QED
    BY <2>1, <2>2
<1> QED
  BY <1>1, <1>2
-----------------------------------------------------------------------------
\* The number of events in the log goes by the number of frames.
LEMMA LengthWritten == FramesTyped => Len(EventsWritten) = Len(frames) - 1
BY DEF FramesTyped, EventsWritten

\* A session starts with nothing to account for.
LEMMA SessionInitInv == Init => SessionInv
<1> SUFFICES ASSUME Init PROVE SessionInv
  OBVIOUS
<1>1. FeedInv
  BY FeedInitInv DEF Init
<1>2. FramesTyped /\ Len(frames) = 1
  BY LogAssumption DEF Init, LogInit, FramesTyped, Header
<1>3. Accounted
  BY <1>2, NoStatsTyped, LengthWritten DEF Accounted, Init, FeedInit
<1> QED
  BY <1>1, <1>2, <1>3 DEF SessionInv

\* So does the session, whoever steps.
LEMMA SessionStepInv == SessionInv /\ [Next]_vars => SessionInv'
<1> SUFFICES ASSUME SessionInv, [Next]_vars PROVE SessionInv'
  OBVIOUS
<1>0. FeedInv /\ FramesTyped /\ Accounted
  BY DEF SessionInv
<1>1. CASE Feed
  <2>1. FeedInv'
    BY <1>0, <1>1, FeedStepInv DEF Feed
  <2>2. FramesTyped' /\ UNCHANGED <<EventsWritten, log_state>>
    BY <1>0, <1>1 DEF Feed, logVars, FramesTyped, EventsWritten
  <2>3. Accounted'
    <3> SUFFICES ASSUME Running'
                 PROVE  parsed' = Len(EventsWritten) + Len(channel') + to_send' + stats.dropped'
      BY <2>2 DEF Accounted
    <3>0. /\ stats \in FeedStats /\ parsed \in Nat /\ to_send \in Nat
          /\ channel \in Seq(1..parsed) /\ Len(EventsWritten) \in Nat
      BY <1>0, LengthWritten DEF FeedInv, FeedTypeOK, FramesTyped
    <3>1. CASE \E n \in MessageSizes : ReceiveMessage(n)
      <4>1. PICK n \in MessageSizes : ReceiveMessage(n)
        BY <3>1
      <4>2. stats'.dropped = stats.dropped
        BY <3>0, <4>1, MessageCounted DEF ReceiveMessage
      <4>3. UNCHANGED <<channel, open>> /\ to_send = 0 /\ to_send' = n /\ parsed' = parsed + n
        BY <4>1 DEF ReceiveMessage, Selecting
      <4>4. n \in Nat /\ stats.dropped \in Nat
        BY <3>0, FeedAssumption, CountersTyped
      <4>5. parsed = Len(EventsWritten) + Len(channel) + to_send + stats.dropped
        BY <4>3, <2>2, <1>0 DEF Accounted, Running
      <4> QED
        BY <3>0, <4>2, <4>3, <4>4, <4>5
    <3>2. CASE Forward
      <4>1. CASE Len(channel) < capacity
        <5>1. Len(channel') = Len(channel) + 1
          BY <3>0, <3>2, <4>1 DEF Forward
        <5>2. stats'.dropped = stats.dropped /\ stats.dropped \in Nat
          BY <3>0, <3>2, <4>1, EventCounted, CountersTyped DEF Forward
        <5>3. UNCHANGED <<open, parsed>> /\ to_send' = to_send - 1
          BY <3>2 DEF Forward
        <5>4. parsed = Len(EventsWritten) + Len(channel) + to_send + stats.dropped
          BY <5>3, <2>2, <1>0 DEF Accounted, Running
        <5> QED
          BY <3>0, <5>1, <5>2, <5>3, <5>4
      <4>2. CASE ~(Len(channel) < capacity)
        BY <3>0, <3>2, <4>2, <1>0, <1>1, DropCounted, CountersTyped
        DEF Feed, Forward, Accounted, Running
      <4> QED
        BY <4>1, <4>2
    <3>3. CASE ForwardToClosed
      BY <3>3 DEF ForwardToClosed, Running
    <3>4. CASE \/ ConnectSucceeds \/ ConnectFails \/ ConnectionLost \/ Retry
               \/ Tick \/ SendPing \/ GoStale \/ ReceiveGarbage \/ ReceiveControl
      <4>1. UNCHANGED <<channel, open, parsed, to_send>> /\ stats'.dropped = stats.dropped
        BY <3>0, <3>4, ConnectCounted, FailureCounted, GarbageCounted
        DEF ConnectSucceeds, ConnectFails, ConnectionLost, Retry, Tick, SendPing,
            GoStale, ReceiveGarbage, ReceiveControl, Fail, Selecting
      <4> QED
        BY <4>1, <2>2, <1>0 DEF Accounted, Running
    <3> QED
      BY <3>1, <3>2, <3>3, <3>4, <1>1 DEF Feed, FeedStep
  <2> QED
    BY <2>1, <2>2, <2>3 DEF SessionInv
<1>2. CASE RecordEvent
  <2>1. FeedInv' /\ Head(channel) \in Nat /\ Len(channel') = Len(channel) - 1
    BY <1>0, <1>2, RecvStep DEF RecordEvent
  <2>2. PICK len \in Lengths : frames' = Append(frames, [event |-> Head(channel), len |-> len])
    BY <1>2 DEF RecordEvent, write_event
  <2>3. FramesTyped' /\ Len(frames') = Len(frames) + 1
    BY <1>0, <2>1, <2>2, LogAssumption DEF FramesTyped
  <2>4. Len(EventsWritten') = Len(EventsWritten) + 1
    BY <1>0, <2>3 DEF FramesTyped, EventsWritten
  <2>5. Running /\ UNCHANGED <<parsed, to_send, stats>>
    BY <1>2 DEF RecordEvent, Recv
  <2>6. Len(EventsWritten) \in Nat
    BY <1>0 DEF FramesTyped, EventsWritten
  <2>7. Accounted'
    BY <1>0, <2>1, <2>4, <2>5, <2>6 DEF Accounted, FeedInv, FeedTypeOK
  <2> QED
    BY <2>1, <2>3, <2>7 DEF SessionInv
<1>3. CASE StopReceiving \/ FinishSession \/ KillProcess
  <2>1. FeedInv'
    BY <1>0, <1>3, FeedLosesItsEnd DEF StopReceiving, FinishSession, KillProcess
  <2>2. FramesTyped' /\ ~Running'
    BY <1>0, <1>3 DEF StopReceiving, FinishSession, KillProcess, DropReceiver, FeedEnds,
                      finish, Kill, logVars, FramesTyped, Running
  <2> QED
    BY <2>1, <2>2 DEF SessionInv, Accounted
<1>4. CASE Read
  <2>1. UNCHANGED <<feedVars, frames, log_state>>
    BY <1>4 DEF Read, Open, ReadNext
  <2> QED
    BY <1>0, <2>1 DEF SessionInv, FeedInv, FeedTypeOK, WatchdogDue, MessageParsed,
                      AttemptsCounted, feedVars, FramesTyped, Accounted, Running, EventsWritten
<1>5. CASE UNCHANGED vars
  BY <1>0, <1>5 DEF SessionInv, FeedInv, FeedTypeOK, WatchdogDue, MessageParsed,
                    AttemptsCounted, vars, feedVars, logVars, FramesTyped, Accounted,
                    Running, EventsWritten
<1> QED
  BY <1>1, <1>2, <1>3, <1>4, <1>5 DEF Next
-----------------------------------------------------------------------------
\* A silent connection is given up after the staleness limit and one ping
\* interval at the latest, whatever the venue sends, fails or refuses: the
\* watchdog that is looked at only when a ping is due (ws.rs:146-151) is enough.
THEOREM SilenceIsBounded == Spec => []SilenceBounded
<1>1. SessionInv => SilenceBounded
  BY DEF SessionInv, FeedInv, FeedTypeOK, WatchdogDue, SilenceBounded,
         PING_INTERVAL, STALENESS_LIMIT, MaxIdle
<1> QED
  BY <1>1, SessionInitInv, SessionStepInv, PTL DEF Spec

\* The feed task and the recording loop lose no event between them without
\* counting it, for any channel and any messages (ws.rs:7-9).
THEOREM RecorderLosesNothing == Spec => []EventsAccountedFor
<1>1. SessionInv => EventsAccountedFor
  BY DEF SessionInv, FeedInv, Accounted, EventsAccountedFor
<1> QED
  BY <1>1, SessionInitInv, SessionStepInv, PTL DEF Spec
-----------------------------------------------------------------------------
(* Where the frames of a log end.                                          *)

Frames == [event : Nat, len : Nat \ {0}]

\* off[k] is where frame k ends.
Ends(fs, off) ==
    off = [k \in Nat |-> IF k = 0 THEN MagicBytes ELSE off[k - 1] + PrefixBytes + fs[k].len]

(* Induction over the natural numbers, for a set of them.                  *)
LEMMA NumberInduction ==
    ASSUME NEW P, 0 \in P, \A n \in Nat : n \in P => n + 1 \in P
    PROVE  \A n \in Nat : n \in P
  <1> DEFINE T == Nat \ P
             R == OpToRel(<, Nat)
  <1> SUFFICES ASSUME T # {} PROVE FALSE
    OBVIOUS
  <1>1. IsWellFoundedOn(R, Nat)
    BY NatLessThanWellFounded
  <1>2. PICK n \in T : \A m \in T : ~(<<m, n>> \in R)
    <2>1. T \subseteq Nat
      OBVIOUS
    <2> HIDE DEF T, R
    <2>2. QED
      BY <1>1, <2>1, WFMin
  <1>3. n \in Nat /\ n # 0 /\ n - 1 \in Nat /\ (n - 1) + 1 = n
    <2>1. n \in Nat /\ n \notin P
      OBVIOUS
    <2>2. n # 0
      BY <2>1
    <2>3. QED
      BY <2>1, <2>2
  <1>4. n - 1 \in T
    BY <1>2, <1>3
  <1>5. <<n - 1, n>> \in R
    <2>1. n - 1 \in Nat /\ n \in Nat /\ n - 1 < n
      BY <1>3
    <2>2. QED
      BY <2>1 DEF OpToRel
  <1>6. QED
    BY <1>2, <1>4, <1>5

(* The recursion that defines the offsets has a solution.                  *)
LEMMA EndsExist ==
    ASSUME NEW fs
    PROVE  \E off : Ends(fs, off)
  <1> DEFINE next(g, k) == IF k = 0 THEN MagicBytes ELSE g[k - 1] + PrefixBytes + fs[k].len
             Upto(n, g) == \A i \in 0..n : g[i] = next(g, i)
             P == {n \in Nat : \E g : Upto(n, g)}
             Q == {n \in Nat : \A g, h, m : m \in Nat /\ n <= m /\ Upto(n, g) /\ Upto(m, h)
                                              => g[n] = h[n]}
  <1>1. 0 \in P
    <2> DEFINE g == [i \in {0} |-> MagicBytes]
    <2>1. Upto(0, g)
      OBVIOUS
    <2> HIDE DEF g
    <2>2. QED
      BY <2>1
  <1>2. ASSUME NEW n \in Nat, n \in P
        PROVE  n + 1 \in P
    <2>1. PICK g : Upto(n, g)
      BY <1>2
    <2> DEFINE h == [i \in 0..(n + 1) |-> IF i <= n THEN g[i] ELSE next(g, n + 1)]
    <2>2. ASSUME NEW i \in 0..(n + 1)
          PROVE  h[i] = next(h, i)
      <3>1. CASE i <= n
        <4>1. h[i] = g[i] /\ g[i] = next(g, i)
          BY <2>1, <3>1
        <4>2. i # 0 => h[i - 1] = g[i - 1]
          BY <3>1
        <4> HIDE DEF h
        <4>3. QED
          BY <4>1, <4>2
      <3>2. CASE i = n + 1
        <4>1. h[i] = next(g, i) /\ h[i - 1] = g[i - 1]
          BY <3>2
        <4> HIDE DEF h
        <4>2. QED
          BY <4>1
      <3>3. QED
        BY <3>1, <3>2
    <2> HIDE DEF h
    <2>3. QED
      BY <2>2
  <1>3. 0 \in Q
    OBVIOUS
  <1>4. ASSUME NEW n \in Nat, n \in Q
        PROVE  n + 1 \in Q
    <2> SUFFICES ASSUME NEW g, NEW h, NEW m, m \in Nat, n + 1 <= m, Upto(n + 1, g), Upto(m, h)
                 PROVE  g[n + 1] = h[n + 1]
      OBVIOUS
    <2>1. Upto(n, g) /\ n <= m
      OBVIOUS
    <2>2. g[n] = h[n]
      BY <1>4, <2>1
    <2>3. g[n + 1] = next(g, n + 1) /\ h[n + 1] = next(h, n + 1)
      OBVIOUS
    <2>4. (n + 1) - 1 = n
      OBVIOUS
    <2>5. QED
      BY <2>2, <2>3, <2>4
  <1> HIDE DEF P, Q
  <1>5. \A n \in Nat : n \in P /\ n \in Q
    BY <1>1, <1>2, <1>3, <1>4, NumberInduction
  <1> DEFINE c(n) == CHOOSE g : Upto(n, g)
             off == [n \in Nat |-> c(n)[n]]
  <1>6. \A n \in Nat : Upto(n, c(n))
    BY <1>5 DEF P
  <1>7. ASSUME NEW n \in Nat
        PROVE  c(n)[n] = IF n = 0 THEN MagicBytes
                         ELSE c(n - 1)[n - 1] + PrefixBytes + fs[n].len
    <2>1. c(n)[n] = next(c(n), n)
      BY <1>6
    <2>2. n # 0 => c(n - 1)[n - 1] = c(n)[n - 1]
      <3> SUFFICES ASSUME n # 0
                   PROVE  c(n - 1)[n - 1] = c(n)[n - 1]
        OBVIOUS
      <3>1. n - 1 \in Nat /\ n - 1 <= n /\ n - 1 \in Q
        BY <1>5
      <3>2. Upto(n - 1, c(n - 1)) /\ Upto(n, c(n))
        BY <1>6, <3>1
      <3> HIDE DEF Upto, c
      <3>3. QED
        BY <3>1, <3>2 DEF Q
    <2> HIDE DEF c
    <2>3. QED
      BY <2>1, <2>2
  <1> HIDE DEF c
  <1>8. Ends(fs, off)
    <2>1. \A n \in Nat : off[n] = c(n)[n]
      OBVIOUS
    <2>2. \A n \in Nat : n # 0 => off[n - 1] = c(n - 1)[n - 1]
      BY <2>1
    <2>3. \A n \in Nat : off[n] = IF n = 0 THEN MagicBytes
                                 ELSE off[n - 1] + PrefixBytes + fs[n].len
      BY <1>7, <2>1, <2>2
    <2>4. off = [n \in Nat |-> off[n]]
      OBVIOUS
    <2> HIDE DEF off
    <2>5. QED
      BY <2>3, <2>4 DEF Ends
  <1>9. QED
    BY <1>8

LEMMA OffsetEnds == Ends(frames, Offset)
  BY EndsExist DEF Ends, Offset

LEMMA OffsetEndsNext == Ends(frames', Offset')
  BY EndsExist DEF Ends, Offset

(* Each frame takes its prefix and at least one byte.                      *)
LEMMA EndsGrow ==
    ASSUME NEW fs \in Seq(Frames), NEW off, Ends(fs, off)
    PROVE  /\ off[0] = 4
           /\ \A k \in 1..Len(fs) : off[k] = off[k - 1] + 4 + fs[k].len /\ fs[k].len \in Nat \ {0}
           /\ \A k \in 0..Len(fs) : off[k] \in Nat /\ off[k] >= 4
           /\ \A j, k \in 0..Len(fs) : j < k => off[j] + 4 < off[k]
  <1> DEFINE n == Len(fs)
             P == {k \in Nat : k <= n => /\ \A j \in 0..k : off[j] \in Nat
                                         /\ off[k] >= 4
                                         /\ \A j \in 0..k : j < k => off[j] + 4 < off[k]}
  <1>1. n \in Nat
    BY LenProperties
  <1>2. \A k \in 1..n : fs[k].len \in Nat \ {0}
    <2>1. \A k \in 1..n : fs[k] \in Frames
      BY ElementOfSeq
    <2>2. QED
      BY <2>1 DEF Frames
  <1>3. off[0] = 4 /\ \A k \in 1..n : off[k] = off[k - 1] + 4 + fs[k].len
    <2>1. \A k \in Nat : off[k] = IF k = 0 THEN 4 ELSE off[k - 1] + 4 + fs[k].len
      BY Zenon DEF Ends, MagicBytes, PrefixBytes
    <2>2. QED
      BY <1>1, <2>1
  <1> HIDE DEF n
  <1>4. 0 \in P
    BY <1>3
  <1>5. ASSUME NEW k \in Nat, k \in P
        PROVE  k + 1 \in P
    <2> SUFFICES ASSUME k + 1 <= n
                 PROVE  /\ \A j \in 0..(k + 1) : off[j] \in Nat
                        /\ off[k + 1] >= 4
                        /\ \A j \in 0..(k + 1) : j < k + 1 => off[j] + 4 < off[k + 1]
      OBVIOUS
    <2>0. \A j \in 0..k : off[j] \in Nat
      BY <1>1, <1>5
    <2>1. off[k] \in Nat /\ off[k] >= 4 /\ \A j \in 0..k : j < k => off[j] + 4 < off[k]
      BY <1>1, <1>5
    <2>2. k + 1 \in 1..n /\ (k + 1) - 1 = k
      BY <1>1
    <2>3. off[k + 1] = off[k] + 4 + fs[k + 1].len /\ fs[k + 1].len \in Nat \ {0}
      BY <1>2, <1>3, <2>2
    <2>4. off[k + 1] \in Nat /\ off[k + 1] >= 4 /\ off[k] + 4 < off[k + 1]
      BY <2>1, <2>3
    <2>5. ASSUME NEW j \in 0..(k + 1), j < k + 1
          PROVE  off[j] + 4 < off[k + 1]
      <3>1. CASE j = k
        BY <2>4, <3>1
      <3>2. CASE j < k
        <4>1. off[j] + 4 < off[k] /\ off[k] < off[k + 1]
          BY <2>1, <2>4, <3>2
        <4>2. off[j] \in Nat
          BY <2>0, <3>2
        <4>3. QED
          BY <2>1, <2>4, <4>1, <4>2
      <3>3. QED
        BY <2>5, <3>1, <3>2
    <2>6. \A j \in 0..(k + 1) : off[j] \in Nat
      <3>1. \A j \in 0..(k + 1) : j \in 0..k \/ j = k + 1
        OBVIOUS
      <3>2. QED
        BY <2>0, <2>4, <3>1
    <2>7. QED
      BY <2>4, <2>5, <2>6
  <1> HIDE DEF P
  <1>6. \A k \in Nat : k \in P
    BY <1>4, <1>5, NumberInduction
  <1>7. \A k \in 0..n : /\ off[k] \in Nat /\ off[k] >= 4
                        /\ \A j \in 0..k : j < k => off[j] + 4 < off[k]
    BY <1>1, <1>6 DEF P
  <1>8. \A j, k \in 0..n : j < k => off[j] + 4 < off[k]
    BY <1>1, <1>7
  <1>9. QED
    BY <1>2, <1>3, <1>7, <1>8 DEF n
-----------------------------------------------------------------------------
(* Reading a log.                                                          *)

Readers == [status : {"closed", "reading", "eof", "truncated", "error"},
            pos : Nat, events : Seq(Nat)]
GotSoFar == Len(reader.events)

\* A log is read only once it is no longer written.  What has been read is
\* the beginning of it; a reader between two frames is behind the last it
\* got; one that has ended has got what is whole on disk, and all of a
\* finished log.
LogInv ==
    /\ frames \in Seq(Frames) /\ Len(frames) \in Nat \ {0}
    /\ disk \in Nat /\ disk <= Written
    /\ log_state \in {"open", "finished", "killed"}
    /\ reader \in Readers /\ reader.pos <= Written
    /\ log_state = "open" => disk = 0 /\ reader.status = "closed"
    /\ log_state = "finished" => disk = Written
    /\ GotSoFar \in 0..(Len(frames) - 1)
    /\ \A i \in 1..GotSoFar : reader.events[i] = frames[i + 1].event
    /\ reader.status \in {"closed", "error"} => GotSoFar = 0
    /\ reader.status = "closed" => reader.pos = 0
    /\ reader.status = "reading" => reader.pos = Offset[GotSoFar + 1] /\ reader.pos <= disk
    /\ ReadEnded => GotSoFar = EventsOnDisk
    /\ ReadEnded /\ log_state = "finished" => reader.status = "eof" /\ GotSoFar = Len(frames) - 1

(* What the offsets of a log are.                                          *)
LEMMA Offsets ==
    ASSUME frames \in Seq(Frames)
    PROVE  /\ Offset[0] = 4
           /\ \A k \in 1..Len(frames) : Offset[k] = Offset[k - 1] + 4 + frames[k].len
                                        /\ frames[k].len \in Nat \ {0}
           /\ \A k \in 0..Len(frames) : Offset[k] \in Nat /\ Offset[k] >= 4
           /\ \A j, k \in 0..Len(frames) : j < k => Offset[j] + 4 < Offset[k]
  <1> DEFINE off == Offset
  <1>1. Ends(frames, off)
    BY OffsetEnds
  <1> HIDE DEF off
  <1>2. QED
    BY <1>1, EndsGrow DEF off

(* Counting the events that are whole on disk.                             *)
LEMMA WholeEvents ==
    ASSUME frames \in Seq(Frames), Len(frames) \in Nat \ {0}, disk \in Nat,
           NEW n \in 0..(Len(frames) - 1), n > 0 => Offset[n + 1] <= disk,
           n < Len(frames) - 1 => Offset[n + 2] > disk
    PROVE  EventsOnDisk = n
  <1> DEFINE m == Len(frames) - 1
  <1>1. m \in Nat /\ Len(frames) = m + 1
    OBVIOUS
  <1>2. /\ \A k \in 0..(m + 1) : Offset[k] \in Nat
        /\ \A j, k \in 0..(m + 1) : j < k => Offset[j] < Offset[k]
    <2>1. \A x, y \in Nat : x + 4 < y => x < y
      OBVIOUS
    <2>2. QED
      BY <1>1, <2>1, Offsets
  <1> HIDE DEF m
  <1>3. n \in 0..m /\ n \in Nat
    BY DEF m
  <1>4. \A k \in 1..m : Offset[k + 1] <= disk <=> k <= n
    <2> SUFFICES ASSUME NEW k \in 1..m
                 PROVE  Offset[k + 1] <= disk <=> k <= n
      OBVIOUS
    <2>1. k \in Nat /\ k + 1 \in 0..(m + 1) /\ Offset[k + 1] \in Nat
      BY <1>1, <1>2
    <2>2. CASE k <= n
      <3>1. n > 0 /\ n + 1 \in 0..(m + 1) /\ Offset[n + 1] \in Nat /\ Offset[n + 1] <= disk
        BY <1>1, <1>2, <1>3, <2>1, <2>2
      <3>2. k + 1 = n + 1 \/ k + 1 < n + 1
        BY <1>3, <2>1, <2>2
      <3>3. Offset[k + 1] <= Offset[n + 1]
        BY <1>2, <2>1, <3>1, <3>2
      <3>4. QED
        BY <2>1, <2>2, <3>1, <3>3
    <2>3. CASE ~(k <= n)
      <3>1. n < m /\ n + 2 \in 0..(m + 1)
        BY <1>1, <1>3, <2>1, <2>3
      <3>2. Offset[n + 2] \in Nat /\ Offset[n + 2] > disk
        BY <1>2, <3>1 DEF m
      <3>3. k + 1 = n + 2 \/ n + 2 < k + 1
        BY <1>3, <2>1, <2>3
      <3>4. Offset[n + 2] <= Offset[k + 1]
        BY <1>2, <2>1, <3>1, <3>2, <3>3
      <3>5. QED
        BY <2>1, <2>3, <3>2, <3>4
    <2>4. QED
      BY <2>2, <2>3
  <1>5. {k \in 1..m : Offset[k + 1] <= disk} = 1..n
    BY <1>1, <1>3, <1>4
  <1>6. Cardinality(1..n) = n
    BY <1>3, FS_Interval
  <1>7. QED
    BY <1>5, <1>6 DEF EventsOnDisk, m

(* What read_frame answers where a frame begins, and at the end of a log.  *)
LEMMA FrameRead ==
    ASSUME frames \in Seq(Frames), disk \in Nat, NEW k \in 1..Len(frames)
    PROVE  /\ FrameAt(Offset[k - 1]) = k
           /\ AfterFrame(Offset[k - 1]) = Offset[k]
           /\ read_frame(Offset[k - 1]) \in {"eof", "truncated", "frame"}
           /\ read_frame(Offset[k - 1]) = "frame" <=> Offset[k] <= disk
  <1> DEFINE n == Len(frames)
             pos == Offset[k - 1]
             len == frames[k].len
  <1>1. n \in Nat
    BY LenProperties
  <1>2. /\ pos \in Nat /\ Offset[k] = pos + 4 + len /\ len \in Nat \ {0}
    BY <1>1, Offsets
  <1>3. FrameAt(pos) = k
    <2>1. ASSUME NEW j \in 1..n, Offset[j - 1] = pos
          PROVE  j = k
      <3>1. j - 1 \in 0..n /\ k - 1 \in 0..n
        BY <1>1
      <3>2. \A x, y \in Nat : x + 4 < y => x # y
        OBVIOUS
      <3>3. ~(j - 1 < k - 1) /\ ~(k - 1 < j - 1)
        BY <2>1, <3>1, <3>2, Offsets
      <3>4. QED
        BY <3>1, <3>3
    <2>2. \E j \in 1..n : Offset[j - 1] = pos
      OBVIOUS
    <2> HIDE DEF pos
    <2>3. QED
      BY <2>1, <2>2 DEF FrameAt
  <1>4. AfterFrame(pos) = Offset[k]
    BY <1>2, <1>3 DEF AfterFrame, PrefixBytes
  <1>5. read_frame(pos) = IF disk - pos < 4 THEN "eof"
                          ELSE IF disk - pos - 4 < len THEN "truncated"
                          ELSE "frame"
    BY <1>3, Zenon DEF read_frame, PrefixBytes
  <1> HIDE DEF pos, len
  <1>6. read_frame(pos) = "frame" <=> Offset[k] <= disk
    BY <1>2, <1>5
  <1>7. read_frame(pos) \in {"eof", "truncated", "frame"}
    BY <1>5
  <1>8. QED
    BY <1>3, <1>4, <1>6, <1>7 DEF pos

LEMMA LogInitInv == LogInit => LogInv
  <1> SUFFICES ASSUME LogInit PROVE LogInv
    OBVIOUS
  <1>1. /\ frames = <<Header>> /\ disk = 0 /\ log_state = "open"
        /\ reader = [status |-> "closed", pos |-> 0, events |-> <<>>]
    BY DEF LogInit
  <1>2. Header \in Frames
    BY LogAssumption DEF Header, Frames
  <1>3. frames \in Seq(Frames) /\ Len(frames) = 1
    <2> HIDE DEF Header
    <2>1. QED
      BY <1>1, <1>2
  <1>4. Offset[1] \in Nat /\ Written = Offset[1]
    BY <1>3, Offsets DEF Written
  <1>5. reader \in Readers /\ GotSoFar = 0
    BY <1>1 DEF Readers, GotSoFar
  <1>6. QED
    BY <1>1, <1>3, <1>4, <1>5 DEF LogInv, ReadEnded

LEMMA WriteKeeps ==
    ASSUME LogInv, NEW e \in Nat, write_event(e)
    PROVE  LogInv'
  <1>1. PICK len \in Lengths : frames' = Append(frames, [event |-> e, len |-> len])
    BY DEF write_event
  <1>2. disk' = disk /\ log_state' = log_state /\ reader' = reader /\ log_state = "open"
    BY DEF write_event
  <1>3. [event |-> e, len |-> len] \in Frames
    BY LogAssumption DEF Frames
  <1>4. frames' \in Seq(Frames) /\ Len(frames') = Len(frames) + 1 /\ Len(frames) \in Nat \ {0}
    BY <1>1, <1>3 DEF LogInv
  <1>5. Written' \in Nat
    <2> DEFINE off == Offset'
               fs == frames'
    <2>1. Ends(fs, off)
      BY OffsetEndsNext
    <2>2. fs \in Seq(Frames) /\ Len(fs) \in 0..Len(fs) /\ Written' = off[Len(fs)]
      BY <1>4 DEF Written
    <2> HIDE DEF off, fs
    <2>3. QED
      BY <2>1, <2>2, EndsGrow
  <1>6. /\ disk = 0 /\ reader.status = "closed" /\ GotSoFar = 0 /\ reader \in Readers
        /\ reader.pos = 0
    BY <1>2 DEF LogInv
  <1>7. GotSoFar' = 0
    BY <1>2, <1>6 DEF GotSoFar
  <1>8. QED
    BY <1>2, <1>4, <1>5, <1>6, <1>7 DEF LogInv, ReadEnded

(* The process ends: what is on disk is some of what was written.          *)
LEMMA EndKeeps ==
    ASSUME LogInv, finish \/ Kill
    PROVE  LogInv'
  <1>1. /\ frames' = frames /\ reader' = reader /\ log_state = "open"
        /\ log_state' \in {"finished", "killed"}
        /\ disk' \in 0..Written /\ (log_state' = "finished" => disk' = Written)
    <2>1. Written \in Nat
      BY Offsets DEF LogInv, Written
    <2>2. QED
      BY <2>1 DEF finish, Kill
  <1>2. Offset' = Offset
    BY <1>1 DEF Offset
  <1>3. Written' = Written /\ GotSoFar' = GotSoFar /\ Written \in Nat
    BY <1>1, <1>2, Offsets DEF LogInv, Written, GotSoFar
  <1>4. reader.status = "closed"
    BY <1>1 DEF LogInv
  <1>5. QED
    BY <1>1, <1>3, <1>4 DEF LogInv, ReadEnded

(* A reader that has not ended has got n events: n + 1 frames with the     *)
(* header.                                                                 *)
LEMMA OpenKeeps ==
    ASSUME LogInv, Open
    PROVE  LogInv'
  <1>1. /\ frames' = frames /\ disk' = disk /\ log_state' = log_state
        /\ log_state # "open" /\ reader.status = "closed"
    BY DEF Open
  <1>2. Offset' = Offset
    BY <1>1 DEF Offset
  <1>3. /\ frames \in Seq(Frames) /\ Len(frames) \in Nat \ {0} /\ disk \in Nat
        /\ disk <= Written /\ reader \in Readers /\ reader.events = <<>> /\ reader.pos = 0
    BY <1>1, EmptySeq DEF LogInv, GotSoFar, Readers
  <1>4. /\ Offset[0] = 4 /\ Offset[1] \in Nat /\ Written \in Nat /\ Offset[1] <= Written
    <2>1. Offset[0] = 4 /\ Offset[1] \in Nat /\ Written \in Nat
      BY <1>3, Offsets DEF Written
    <2> DEFINE n == Len(frames)
    <2>2. n \in Nat \ {0} /\ 1 \in 0..n /\ n \in 0..n
      BY <1>3
    <2>3. 1 < n => Offset[1] + 4 < Offset[n]
      <3>1. \A j, k \in 0..n : j < k => Offset[j] + 4 < Offset[k]
        BY <1>3, Offsets
      <3> HIDE DEF n
      <3>2. QED
        BY <2>2, <3>1
    <2>4. Written = Offset[n]
      BY DEF Written
    <2> DEFINE a == Offset[1]
               b == Offset[n]
    <2> HIDE DEF n
    <2>5. a \in Nat /\ b \in Nat /\ (1 < n => a + 4 < b) /\ (n = 1 => a = b)
      BY <2>1, <2>3, <2>4
    <2> HIDE DEF a, b
    <2>6. a <= b
      BY <2>2, <2>5
    <2>7. QED
      BY <2>1, <2>4, <2>6 DEF a, b
  <1>5. /\ AfterFrame(4) = Offset[1]
        /\ read_frame(4) = "frame" <=> Offset[1] <= disk
    <2>1. 1 \in 1..Len(frames) /\ 1 - 1 = 0
      BY <1>3
    <2>2. AfterFrame(Offset[1 - 1]) = Offset[1]
          /\ (read_frame(Offset[1 - 1]) = "frame" <=> Offset[1] <= disk)
      BY <1>3, <2>1, FrameRead
    <2>3. QED
      BY <1>4, <2>1, <2>2
  <1>6. reader' = IF disk < 4 THEN [reader EXCEPT !.status = "error"]
                  ELSE IF read_frame(4) = "frame"
                       THEN [reader EXCEPT !.status = "reading", !.pos = AfterFrame(4)]
                  ELSE [reader EXCEPT !.status = "truncated"]
    BY Zenon DEF Open, MagicBytes
  <1> DEFINE R(status, pos) == [status |-> status, pos |-> pos, events |-> <<>>]
  <1>7. reader = R("closed", 0)
    BY <1>1, <1>3 DEF Readers
  <1>8. \/ reader' = R("error", 0)
        \/ reader' = R("reading", Offset[1]) /\ Offset[1] <= disk
        \/ reader' = R("truncated", 0) /\ Offset[1] > disk
    <2>1. /\ [reader EXCEPT !.status = "error"] = R("error", 0)
          /\ [reader EXCEPT !.status = "truncated"] = R("truncated", 0)
      BY <1>7
    <2>2. [reader EXCEPT !.status = "reading", !.pos = AfterFrame(4)] = R("reading", Offset[1])
      <3>1. [reader EXCEPT !.status = "reading"] = R("reading", 0)
        BY <1>7
      <3> DEFINE end == AfterFrame(4)
      <3>2. end = Offset[1]
        BY <1>5
      <3> HIDE DEF end
      <3>3. [R("reading", 0) EXCEPT !.pos = end] = R("reading", end)
        OBVIOUS
      <3> HIDE DEF R
      <3>4. QED
        BY <3>1, <3>2, <3>3, Zenon DEF end
    <2> HIDE DEF R
    <2>3. reader' = IF disk < 4 THEN R("error", 0)
                    ELSE IF read_frame(4) = "frame" THEN R("reading", Offset[1])
                    ELSE R("truncated", 0)
      BY <1>6, <2>1, <2>2, Zenon
    <2>4. Offset[1] <= disk \/ Offset[1] > disk
      BY <1>3, <1>4
    <2>5. QED
      BY <1>5, <2>3, <2>4
  <1>9. reader' \in Readers /\ GotSoFar' = 0 /\ reader'.pos <= Written
    <2>1. \A status \in {"error", "reading", "truncated"}, pos \in Nat :
             R(status, pos) \in Readers /\ R(status, pos).events = <<>>
             /\ R(status, pos).pos = pos
      BY DEF Readers
    <2> HIDE DEF R
    <2>2. reader' \in Readers /\ reader'.events = <<>> /\ (reader'.pos = 0 \/ reader'.pos = Offset[1])
      BY <1>4, <1>8, <2>1
    <2>3. Len(<<>>) = 0
      OBVIOUS
    <2>4. QED
      BY <1>4, <2>2, <2>3 DEF GotSoFar
  <1>10. Written' = Written /\ EventsOnDisk' = EventsOnDisk
    BY <1>1, <1>2 DEF Written, EventsOnDisk
  <1>11. reader'.status = "reading" => reader'.pos = Offset[1] /\ reader'.pos <= disk
    BY <1>8
  <1>12. reader'.status \in {"reading", "error", "truncated"}
    BY <1>8
  <1>13. reader'.status = "truncated" => EventsOnDisk = 0 /\ log_state # "finished"
    <2> SUFFICES ASSUME reader'.status = "truncated"
                 PROVE  EventsOnDisk = 0 /\ log_state # "finished"
      OBVIOUS
    <2>1. Offset[1] > disk
      BY <1>8
    <2>2. 0 < Len(frames) - 1 => Offset[0 + 2] > disk
      <3> SUFFICES ASSUME 0 < Len(frames) - 1
                   PROVE  Offset[2] > disk
        OBVIOUS
      <3>1. 1 \in 0..Len(frames) /\ 2 \in 0..Len(frames)
        BY <1>3
      <3>2. Offset[2] \in Nat /\ Offset[1] + 4 < Offset[2]
        BY <1>3, <3>1, Offsets
      <3>3. QED
        BY <1>3, <1>4, <2>1, <3>2
    <2>3. 0 \in 0..(Len(frames) - 1)
      BY <1>3
    <2>4. EventsOnDisk = 0
      BY <1>3, <2>2, <2>3, WholeEvents
    <2>5. disk # Written
      BY <1>3, <1>4, <2>1
    <2>6. QED
      BY <2>4, <2>5 DEF LogInv
  <1>14. QED
    BY <1>1, <1>2, <1>3, <1>9, <1>10, <1>11, <1>12, <1>13 DEF LogInv, ReadEnded

(* The next frame, or the end: at the end of what was written nothing more *)
(* is on disk, and before it a whole frame is read.                        *)
LEMMA NextKeeps ==
    ASSUME LogInv, ReadNext
    PROVE  LogInv'
  <1> DEFINE n == GotSoFar
             all == Len(frames)
             answer == read_frame(reader.pos)
             got == frames[n + 2].event
  <1>1. /\ frames' = frames /\ disk' = disk /\ log_state' = log_state
        /\ reader.status = "reading"
    BY DEF ReadNext
  <1>2. Offset' = Offset
    BY <1>1 DEF Offset
  <1>3. /\ frames \in Seq(Frames) /\ all \in Nat \ {0} /\ disk \in Nat
        /\ disk <= Offset[all] /\ reader \in Readers /\ n \in 0..(all - 1)
        /\ reader.pos = Offset[n + 1] /\ Offset[n + 1] <= disk /\ reader.pos <= Offset[all]
        /\ \A i \in 1..n : reader.events[i] = frames[i + 1].event
        /\ log_state # "open" /\ (log_state = "finished" => disk = Offset[all])
    BY <1>1 DEF LogInv, Written
  <1>4. Written' = Written /\ EventsOnDisk' = EventsOnDisk /\ Written = Offset[all]
    BY <1>1, <1>2 DEF Written, EventsOnDisk
  <1>5. /\ reader.events \in Seq(Nat) /\ Len(reader.events) = n
        /\ reader = [status |-> "reading", pos |-> reader.pos, events |-> reader.events]
    BY <1>1, <1>3 DEF Readers, GotSoFar
  <1>6. CASE answer = "frame" /\ n + 1 < all
    <2>1. n + 2 \in 1..all /\ n + 1 = (n + 2) - 1 /\ n + 2 \in 0..all
      BY <1>3, <1>6
    <2>2. /\ FrameAt(reader.pos) = n + 2
          /\ AfterFrame(reader.pos) = Offset[n + 2] /\ Offset[n + 2] <= disk
      BY <1>3, <1>6, <2>1, FrameRead
    <2>3. got \in Nat
      <3>1. frames[n + 2] \in Frames
        BY <1>3, <2>1, ElementOfSeq
      <3>2. QED
        BY <3>1 DEF Frames
    <2> DEFINE pos == Offset[n + 2]
               events == Append(reader.events, got)
    <2>4. reader' = [status |-> "reading", pos |-> pos, events |-> events]
      <3>1. reader' = [reader EXCEPT !.pos = AfterFrame(@),
                                     !.events = Append(@, frames[FrameAt(reader.pos)].event)]
        BY <1>6, Zenon DEF ReadNext
      <3>2. reader' = [reader EXCEPT !.pos = AfterFrame(reader.pos),
                                     !.events = Append(reader.events, frames[n + 2].event)]
        BY <2>2, <3>1
      <3> HIDE DEF pos, events
      <3>3. reader' = [reader EXCEPT !.pos = pos, !.events = events]
        BY <2>2, <3>2, Zenon DEF pos, events
      <3>4. [reader EXCEPT !.pos = pos]
               = [status |-> "reading", pos |-> pos, events |-> reader.events]
        BY <1>5
      <3> DEFINE R == [status |-> "reading", pos |-> pos, events |-> reader.events]
      <3>5. [R EXCEPT !.events = events]
               = [status |-> "reading", pos |-> pos, events |-> events]
        OBVIOUS
      <3>6. [reader EXCEPT !.pos = pos, !.events = events] = [R EXCEPT !.events = events]
        BY <3>4, Zenon
      <3>7. QED
        BY <3>3, <3>5, <3>6, Zenon
    <2>5. pos \in Nat /\ pos <= Offset[all]
      <3>1. Offset[all] \in Nat /\ Offset[n + 2] \in Nat
        BY <1>3, <2>1, Offsets
      <3>2. QED
        BY <1>3, <2>2, <3>1
    <2>6. events \in Seq(Nat) /\ Len(events) = n + 1
      BY <1>5, <2>3
    <2>7. \A i \in 1..(n + 1) : events[i] = frames[i + 1].event
      <3>1. \A i \in 1..(n + 1) : events[i] = IF i <= n THEN reader.events[i] ELSE got
        BY <1>5, <1>3, <2>3
      <3>2. \A i \in 1..(n + 1) : i <= n => i \in 1..n
        BY <1>3
      <3>3. \A i \in 1..(n + 1) : ~(i <= n) => i + 1 = n + 2
        BY <1>3
      <3>4. QED
        BY <1>3, <3>1, <3>2, <3>3
    <2> HIDE DEF pos, events
    <2>8. /\ reader'.status = "reading" /\ reader'.pos = pos /\ reader'.events = events
          /\ reader' \in Readers
      BY <2>4, <2>5, <2>6 DEF Readers
    <2>9. GotSoFar' = n + 1
      BY <2>6, <2>8 DEF GotSoFar
    <2>10. n + 1 \in 0..(all - 1) /\ (n + 1) + 1 = n + 2
      BY <1>3, <1>6
    <2> HIDE DEF n
    <2>11. reader'.pos = Offset'[GotSoFar' + 1] /\ reader'.pos <= disk'
      BY <1>1, <1>2, <2>2, <2>8, <2>9, <2>10 DEF pos
    <2>12. /\ GotSoFar' \in 0..(Len(frames') - 1) /\ reader'.pos <= Written'
           /\ \A i \in 1..GotSoFar' : reader'.events[i] = frames'[i + 1].event
      BY <1>1, <1>4, <2>5, <2>7, <2>8, <2>9, <2>10
    <2>13. QED
      BY <1>1, <1>3, <1>4, <2>8, <2>11, <2>12 DEF LogInv, ReadEnded
  <1>7. CASE ~(answer = "frame" /\ n + 1 < all)
    <2>1. /\ answer \in {"eof", "truncated"}
          /\ n + 1 < all => Offset[n + 2] > disk
          /\ n + 1 = all => answer = "eof"
      <3>1. CASE n + 1 < all
        <4>1. n + 2 \in 1..all /\ n + 1 = (n + 2) - 1
          BY <1>3, <3>1
        <4>2. /\ read_frame(Offset[n + 1]) \in {"eof", "truncated", "frame"}
              /\ read_frame(Offset[n + 1]) = "frame" <=> Offset[n + 2] <= disk
          BY <1>3, <4>1, FrameRead
        <4>3. Offset[n + 2] \in Nat
          BY <1>3, <4>1, Offsets
        <4>4. answer \in {"eof", "truncated"} /\ Offset[n + 2] > disk
          BY <1>3, <1>7, <3>1, <4>2, <4>3
        <4>5. QED
          BY <1>3, <3>1, <4>4
      <3>2. CASE n + 1 = all
        <4>1. Offset[all] \in Nat
          BY <1>3, Offsets
        <4>2. disk - reader.pos < 4
          BY <1>3, <3>2, <4>1
        <4>3. answer = "eof"
          BY <4>2 DEF read_frame, PrefixBytes
        <4>4. QED
          BY <1>3, <3>2, <4>3
      <3>3. QED
        BY <1>3, <3>1, <3>2
    <2>2. reader' = [reader EXCEPT !.status = answer]
      BY <2>1 DEF ReadNext
    <2> HIDE DEF answer
    <2>3. reader' = [status |-> answer, pos |-> reader.pos, events |-> reader.events]
      BY <1>5, <2>2
    <2>4. /\ reader'.status = answer /\ reader'.pos = reader.pos
          /\ reader'.events = reader.events /\ reader' \in Readers
      BY <1>3, <2>1, <2>3 DEF Readers
    <2>5. GotSoFar' = n
      BY <2>4 DEF GotSoFar
    <2>6. EventsOnDisk = n
      <3>1. n < Len(frames) - 1 => Offset[n + 2] > disk
        BY <1>3, <2>1
      <3> HIDE DEF n
      <3>2. QED
        BY <1>3, <3>1, WholeEvents
    <2>7. log_state = "finished" => answer = "eof" /\ n = all - 1
      <3> SUFFICES ASSUME log_state = "finished"
                   PROVE  answer = "eof" /\ n = all - 1
        OBVIOUS
      <3>1. CASE n + 1 < all
        <4>1. n + 2 \in 0..all /\ all \in 0..all /\ (n + 2 = all \/ n + 2 < all)
          BY <1>3, <3>1
        <4>2. Offset[n + 2] \in Nat /\ Offset[all] \in Nat
              /\ (n + 2 = all \/ Offset[n + 2] + 4 < Offset[all])
          BY <1>3, <4>1, Offsets
        <4>3. Offset[n + 2] <= Offset[all]
          BY <4>2
        <4>4. QED
          BY <1>3, <2>1, <3>1, <4>2, <4>3
      <3>2. CASE n + 1 = all
        BY <1>3, <2>1, <3>2
      <3>3. QED
        BY <1>3, <3>1, <3>2
    <2>8. \A i \in 1..GotSoFar' : reader'.events[i] = frames'[i + 1].event
      BY <1>1, <1>3, <2>4, <2>5
    <2>9. GotSoFar' \in 0..(Len(frames') - 1)
      BY <1>1, <1>3, <2>5
    <2> HIDE DEF n
    <2>10. reader'.pos <= Written'
      BY <1>3, <1>4, <2>4
    <2>11. QED
      BY <1>1, <1>3, <1>4, <2>1, <2>4, <2>5, <2>6, <2>7, <2>8, <2>9, <2>10 DEF LogInv, ReadEnded
  <1>8. QED
    BY <1>6, <1>7

(* The log is untouched.                                                   *)
LEMMA LogUntouched ==
    ASSUME LogInv, UNCHANGED logVars
    PROVE  LogInv'
  <1>1. frames' = frames /\ disk' = disk /\ log_state' = log_state /\ reader' = reader
    BY DEF logVars
  <1>2. Offset' = Offset
    BY <1>1 DEF Offset
  <1>3. Written' = Written /\ GotSoFar' = GotSoFar /\ EventsOnDisk' = EventsOnDisk
    BY <1>1, <1>2 DEF Written, GotSoFar, EventsOnDisk
  <1>4. QED
    BY <1>1, <1>2, <1>3 DEF LogInv, ReadEnded

LEMMA LogStepInv == SessionInv /\ LogInv /\ [Next]_vars => LogInv'
  <1> SUFFICES ASSUME SessionInv, LogInv, [Next]_vars PROVE LogInv'
    OBVIOUS
  <1>1. CASE RecordEvent
    <2>1. Head(channel) \in Nat
      BY <1>1, RecvStep DEF RecordEvent, SessionInv
    <2>2. QED
      BY <1>1, <2>1, WriteKeeps DEF RecordEvent
  <1>2. CASE FinishSession \/ KillProcess
    BY <1>2, EndKeeps DEF FinishSession, KillProcess
  <1>3. CASE Read
    BY <1>3, OpenKeeps, NextKeeps DEF Read
  <1>4. CASE Feed \/ StopReceiving \/ UNCHANGED vars
    BY <1>4, LogUntouched DEF Feed, StopReceiving, vars
  <1>5. QED
    BY <1>1, <1>2, <1>3, <1>4 DEF Next

(* The invariant of the log under the session.                             *)
THEOREM LogInvariant == Spec => [](SessionInv /\ LogInv)
  <1>1. Init => SessionInv /\ LogInv
    BY SessionInitInv, LogInitInv DEF Init
  <1>2. SessionInv /\ LogInv /\ [Next]_vars => (SessionInv /\ LogInv)'
    BY SessionStepInv, LogStepInv
  <1>3. QED
    BY <1>1, <1>2, PTL DEF Spec

(* A reader gets exactly the events that are whole on disk, wherever the   *)
(* process was killed, and of a finished log all of them with a clean end  *)
(* (recorder.rs:79-83, 127-143), for frames of any lengths.                *)
THEOREM LogReadsBack == Spec => []ReadsWholeEvents
  <1>1. LogInv => ReadsWholeEvents
    <2> SUFFICES ASSUME LogInv PROVE ReadsWholeEvents
      OBVIOUS
    <2>1. LogTypeOK
      <3>1. Written \in Nat
        BY Offsets DEF LogInv, Written
      <3>2. reader = [status |-> reader.status, pos |-> reader.pos, events |-> reader.events]
            /\ reader.pos \in Nat /\ reader.pos <= Written /\ reader.events \in Seq(Nat)
            /\ reader.status \in {"closed", "reading", "eof", "truncated", "error"}
        BY DEF LogInv, Readers
      <3>3. reader.pos \in 0..Written /\ disk \in 0..Written
        BY <3>1, <3>2 DEF LogInv
      <3> DEFINE r == reader
      <3>4. r \in [status : {"closed", "reading", "eof", "truncated", "error"},
                   pos : 0..Written, events : Seq(Nat)]
        BY <3>2, <3>3
      <3>5. QED
        BY <3>3, <3>4 DEF LogInv, LogTypeOK, Frames
    <2> DEFINE n == Len(frames) - 1
               m == GotSoFar
    <2>2. /\ n \in Nat /\ m \in 0..n /\ reader.events \in Seq(Nat)
          /\ \A i \in 1..m : reader.events[i] = frames[i + 1].event
      BY DEF LogInv, Readers
    <2>3. reader.events = [i \in 1..m |-> frames[i + 1].event]
      <3>1. reader.events = [i \in 1..m |-> reader.events[i]]
        BY <2>2, LenProperties DEF GotSoFar
      <3>2. QED
        BY <2>2, <3>1
    <2>4. EventsWritten = [k \in 1..n |-> frames[k + 1].event]
      BY DEF EventsWritten
    <2> HIDE DEF n, m
    <2>5. \A i \in 1..m : EventsWritten[i] = frames[i + 1].event
      BY <2>2, <2>4
    <2>6. \A i \in 1..m : EventsWritten[i] = reader.events[i] /\ reader.events[i] \in Nat
      <3>1. \A i \in 1..m : reader.events[i] \in Nat
        BY <2>2, ElementOfSeq DEF m, GotSoFar
      <3>2. QED
        BY <2>2, <2>5, <3>1
    <2>7. reader.events = SubSeq(EventsWritten, 1, m)
      <3> DEFINE w == EventsWritten
                 t == SubSeq(w, 1, m)
      <3>1. \A i \in 1..m : w[i] \in Nat
        BY <2>6
      <3> HIDE DEF w
      <3>2. t \in Seq(Nat) /\ Len(t) = (IF 1 <= m THEN m - 1 + 1 ELSE 0)
            /\ \A i \in 1..(m - 1 + 1) : t[i] = w[1 + i - 1]
        BY <2>2, <3>1, SubSeqProperties
      <3> HIDE DEF t
      <3>3. Len(t) = m /\ \A i \in 1..m : t[i] = w[i]
        BY <2>2, <3>2
      <3>4. Len(reader.events) = m
        BY DEF m, GotSoFar
      <3> DEFINE got == reader.events
      <3>5. got \in Seq(Nat) /\ Len(got) = Len(t) /\ \A i \in 1..Len(got) : got[i] = t[i]
        BY <2>2, <2>6, <3>3, <3>4 DEF w
      <3> HIDE DEF got
      <3>6. t \in Seq(Nat)
        BY <3>2
      <3>7. got = t
        BY <3>5, <3>6, SeqEqual
      <3>8. QED
        BY <3>7 DEF got, t, w
    <2>8. m = n => reader.events = EventsWritten
      BY <2>3, <2>4
    <2>9. ReadEnded => reader.events = SubSeq(EventsWritten, 1, EventsOnDisk)
      BY <2>7 DEF LogInv, m
    <2>10. ReadEnded /\ log_state = "finished"
              => reader.status = "eof" /\ reader.events = EventsWritten
      BY <2>8 DEF LogInv, m, n
    <2>11. QED
      BY <2>1, <2>9, <2>10 DEF ReadsWholeEvents
  <1>2. QED
    BY <1>1, LogInvariant, PTL
-----------------------------------------------------------------------------
(* The order of what is read.                                              *)

\* The events are written, and wait in the channel, in the order in which
\* they were parsed, and what is still to be forwarded is later than either.
OrderInv ==
    /\ \A i, j \in 2..Len(frames) : i < j => frames[i].event < frames[j].event
    /\ Running =>
          /\ \A i, j \in 1..Len(channel) : i < j => channel[i] < channel[j]
          /\ \A i \in 1..Len(channel) : channel[i] + to_send <= parsed
          /\ \A k \in 2..Len(frames) : frames[k].event + to_send <= parsed
          /\ \A k \in 2..Len(frames), i \in 1..Len(channel) : frames[k].event < channel[i]

\* What the order needs of the types.
LEMMA SessionParts ==
    ASSUME SessionInv
    PROVE  /\ channel \in Seq(Nat) /\ Len(channel) \in Nat
           /\ \A i \in 1..Len(channel) : channel[i] \in Nat
           /\ frames \in Seq([event : Nat, len : Nat]) /\ Len(frames) \in Nat \ {0}
           /\ \A k \in 1..Len(frames) : frames[k].event \in Nat
           /\ to_send \in Nat /\ parsed \in Nat /\ to_send <= parsed
  <1>1. /\ channel \in Seq(1..parsed) /\ to_send \in Nat /\ parsed \in Nat /\ to_send <= parsed
        /\ frames \in Seq([event : Nat, len : Nat]) /\ Len(frames) >= 1
    BY DEF SessionInv, FeedInv, FeedTypeOK, MessageParsed, FramesTyped
  <1>2. /\ Len(channel) \in Nat /\ channel = [i \in 1..Len(channel) |-> channel[i]]
        /\ \A i \in 1..Len(channel) : channel[i] \in 1..parsed
    BY <1>1, LenProperties, ElementOfSeq
  <1>3. \A i \in 1..Len(channel) : channel[i] \in Nat
    BY <1>1, <1>2
  <1>4. channel \in Seq(Nat)
    <2>1. channel \in [1..Len(channel) -> Nat]
      BY <1>2, <1>3
    <2>2. QED
      BY <1>2, <2>1, SeqDef
  <1>5. Len(frames) \in Nat /\ \A k \in 1..Len(frames) : frames[k] \in [event : Nat, len : Nat]
    BY <1>1, LenProperties, ElementOfSeq
  <1>6. QED
    BY <1>1, <1>2, <1>3, <1>4, <1>5

(* The feed appends only later events.                                     *)
LEMMA FeedInOrder ==
    ASSUME SessionInv, OrderInv, Feed
    PROVE  OrderInv'
  <1>1. frames' = frames /\ log_state' = log_state
    BY DEF Feed, logVars
  <1> SUFFICES ASSUME Running'
               PROVE  /\ \A i, j \in 1..Len(channel') : i < j => channel'[i] < channel'[j]
                      /\ \A i \in 1..Len(channel') : channel'[i] + to_send' <= parsed'
                      /\ \A k \in 2..Len(frames) : frames[k].event + to_send' <= parsed'
                      /\ \A k \in 2..Len(frames), i \in 1..Len(channel') :
                            frames[k].event < channel'[i]
    BY <1>1 DEF OrderInv
  <1>2. open' = open
    BY DEF Feed, FeedStep, ConnectSucceeds, ConnectFails, ConnectionLost, Retry, Tick, SendPing,
           GoStale, ReceiveMessage, ReceiveGarbage, ReceiveControl, Forward, ForwardToClosed, Fail
  <1>3. Running
    BY <1>1, <1>2 DEF Running
  <1>4. /\ \A i, j \in 1..Len(channel) : i < j => channel[i] < channel[j]
        /\ \A i \in 1..Len(channel) : channel[i] + to_send <= parsed
        /\ \A k \in 2..Len(frames) : frames[k].event + to_send <= parsed
        /\ \A k \in 2..Len(frames), i \in 1..Len(channel) : frames[k].event < channel[i]
    BY <1>3 DEF OrderInv
  <1>5. CASE Forward
    <2> DEFINE e == parsed - to_send + 1
               c == channel'
               n == Len(channel)
               s == to_send'
    <2>1. /\ to_send > 0 /\ s = to_send - 1 /\ parsed' = parsed
          /\ c = channel \/ c = Append(channel, e)
      BY <1>5 DEF Forward
    <2>2. e \in Nat /\ to_send \in Nat /\ parsed \in Nat /\ n \in Nat
          /\ e + s <= parsed /\ s \in Nat
      BY <2>1, SessionParts
    <2>3. \A i \in 1..n : channel[i] \in Nat /\ channel[i] < e /\ channel[i] + s <= parsed
      <3>1. \A i \in 1..n : channel[i] \in Nat /\ channel[i] + to_send <= parsed
        BY <1>4, SessionParts
      <3>2. e = parsed - to_send + 1 /\ s = to_send - 1
        BY <2>1
      <3> HIDE DEF e, s, n
      <3>3. QED
        BY <2>2, <3>1, <3>2
    <2>4. \A k \in 2..Len(frames) : /\ frames[k].event < e
                                    /\ frames[k].event + s <= parsed
      <3>1. \A k \in 2..Len(frames) : frames[k].event \in Nat
        BY SessionParts
      <3>2. \A k \in 2..Len(frames) : frames[k].event + to_send <= parsed
        BY <1>4
      <3>3. e = parsed - to_send + 1 /\ s = to_send - 1
        BY <2>1
      <3> HIDE DEF e, s
      <3>4. ASSUME NEW k \in 2..Len(frames)
            PROVE  frames[k].event < e /\ frames[k].event + s <= parsed
        <4> DEFINE x == frames[k].event
        <4>1. x \in Nat /\ x + to_send <= parsed
          BY <3>1, <3>2
        <4> HIDE DEF x
        <4>2. x < e /\ x + s <= parsed
          BY <2>2, <3>3, <4>1
        <4>3. QED
          BY <4>2 DEF x
      <3>5. QED
        BY <3>4
    <2>5. CASE c = channel
      <3> HIDE DEF s
      <3>1. QED
        BY <1>4, <2>1, <2>3, <2>4, <2>5 DEF s, c
    <2>6. CASE c = Append(channel, e)
      <3>1. channel \in Seq(Nat)
        BY SessionParts
      <3> HIDE DEF e, c, s
      <3>2. Len(c) = n + 1 /\ \A i \in 1..(n + 1) : c[i] = IF i <= n THEN channel[i] ELSE e
        BY <2>2, <2>6, <3>1
      <3>3. \A i \in 1..(n + 1) : i <= n => i \in 1..n
        BY <2>2
      <3>4. \A i, j \in 1..(n + 1) : i < j => c[i] < c[j]
        <4> SUFFICES ASSUME NEW i \in 1..(n + 1), NEW j \in 1..(n + 1), i < j
                     PROVE  c[i] < c[j]
          OBVIOUS
        <4>1. i \in 1..n /\ c[i] = channel[i]
          BY <2>2, <3>2
        <4>2. CASE j <= n
          BY <1>4, <3>2, <3>3, <4>1, <4>2
        <4>3. CASE ~(j <= n)
          BY <2>3, <3>2, <4>1, <4>3
        <4>4. QED
          BY <4>2, <4>3
      <3>5. \A i \in 1..(n + 1) : c[i] + s <= parsed
        BY <2>2, <2>3, <3>2, <3>3
      <3>6. \A k \in 2..Len(frames), i \in 1..(n + 1) : frames[k].event < c[i]
        BY <1>4, <2>4, <3>2, <3>3
      <3>7. QED
        BY <2>1, <2>4, <3>2, <3>4, <3>5, <3>6 DEF c, s
    <2>7. QED
      BY <2>1, <2>5, <2>6
  <1>6. CASE \E m \in MessageSizes : ReceiveMessage(m)
    <2>1. PICK m \in MessageSizes : ReceiveMessage(m)
      BY <1>6
    <2> DEFINE s == to_send'
               p == parsed'
    <2>2. to_send = 0 /\ s = m /\ p = parsed + m /\ channel' = channel /\ m \in Nat
      BY <2>1, FeedAssumption DEF ReceiveMessage, Selecting
    <2> HIDE DEF s, p
    <2>3. \A x \in Nat : x + to_send <= parsed => x + s <= p
      BY <2>2, SessionParts
    <2>4. \A i \in 1..Len(channel) : channel[i] + s <= p
      BY <1>4, <2>3, SessionParts
    <2>5. \A k \in 2..Len(frames) : frames[k].event + s <= p
      <3>1. \A k \in 2..Len(frames) : frames[k].event \in Nat
        BY SessionParts
      <3>2. QED
        BY <1>4, <2>3, <3>1
    <2>6. QED
      BY <1>4, <2>2, <2>4, <2>5, Zenon DEF s, p
  <1>7. CASE \/ ConnectSucceeds \/ ConnectFails \/ ConnectionLost \/ Retry
             \/ Tick \/ SendPing \/ GoStale \/ ReceiveGarbage \/ ReceiveControl
    <2>1. channel' = channel /\ to_send' = to_send /\ parsed' = parsed
      BY <1>7 DEF ConnectSucceeds, ConnectFails, ConnectionLost, Retry, Tick, SendPing,
                  GoStale, ReceiveGarbage, ReceiveControl, Fail
    <2>2. QED
      BY <1>4, <2>1
  <1>8. CASE ForwardToClosed
    BY <1>3, <1>8 DEF ForwardToClosed, Running
  <1>9. QED
    BY <1>5, <1>6, <1>7, <1>8 DEF Feed, FeedStep

(* What is taken from the channel and written is later than all written    *)
(* before it and earlier than all that waits.                              *)
LEMMA RecordInOrder ==
    ASSUME SessionInv, OrderInv, RecordEvent
    PROVE  OrderInv'
  <1> DEFINE e == Head(channel)
             n == Len(channel)
             k1 == Len(frames)
             c == channel'
             f == frames'
  <1>1. PICK len \in Lengths : f = Append(frames, [event |-> e, len |-> len])
    BY DEF RecordEvent, write_event
  <1>2. /\ Running /\ channel # <<>> /\ c = Tail(channel)
        /\ to_send' = to_send /\ parsed' = parsed
    BY DEF RecordEvent, Recv
  <1>3. /\ \A i, j \in 1..n : i < j => channel[i] < channel[j]
        /\ \A i \in 1..n : channel[i] + to_send <= parsed
        /\ \A k \in 2..k1 : frames[k].event + to_send <= parsed
        /\ \A k \in 2..k1, i \in 1..n : frames[k].event < channel[i]
        /\ \A i, j \in 2..k1 : i < j => frames[i].event < frames[j].event
    BY <1>2 DEF OrderInv
  <1>4. /\ channel \in Seq(Nat) /\ n \in Nat /\ \A i \in 1..n : channel[i] \in Nat
        /\ frames \in Seq([event : Nat, len : Nat]) /\ k1 \in Nat \ {0}
        /\ \A k \in 1..k1 : frames[k].event \in Nat
        /\ to_send \in Nat /\ parsed \in Nat
    BY SessionParts
  <1>5. /\ n >= 1 /\ e = channel[1] /\ 1 \in 1..n /\ e \in Nat
        /\ Len(c) = n - 1 /\ \A i \in 1..(n - 1) : c[i] = channel[i + 1]
    <2>1. n # 0
      BY <1>2, <1>4, EmptySeq
    <2>2. n >= 1 /\ 1 \in 1..n
      BY <1>4, <2>1
    <2>3. e = channel[1]
      BY <1>4, <1>2, HeadTailProperties
    <2>4. Len(c) = n - 1 /\ \A i \in 1..(n - 1) : c[i] = channel[i + 1]
      BY <1>2, <1>4, HeadTailProperties
    <2>5. QED
      BY <1>4, <2>2, <2>3, <2>4
  <1>6. /\ Len(f) = k1 + 1
        /\ \A k \in 1..k1 : f[k] = frames[k]
        /\ f[k1 + 1] = [event |-> e, len |-> len]
    <2>1. len \in Nat
      BY LogAssumption
    <2> DEFINE x == [event |-> e, len |-> len]
    <2>2. x \in [event : Nat, len : Nat]
      BY <1>5, <2>1
    <2> HIDE DEF x
    <2>3. f = Append(frames, x)
      BY <1>1 DEF x
    <2> HIDE DEF f
    <2>4. QED
      BY <1>4, <2>2, <2>3, AppendProperties DEF x
  <1> DEFINE ev(k) == f[k].event
  <1>7. /\ \A k \in 1..k1 : ev(k) = frames[k].event
        /\ ev(k1 + 1) = e
    BY <1>6
  <1>8. /\ \A i \in 1..(n - 1) : i + 1 \in 1..n /\ 1 < i + 1
        /\ \A k \in 2..(k1 + 1) : k \in 2..k1 \/ k = k1 + 1
        /\ \A k \in 2..k1 : k \in 1..k1
    <2> HIDE DEF n, k1
    <2>1. n \in Nat /\ k1 \in Nat
      BY <1>4
    <2>2. \A i \in 1..(n - 1) : i + 1 \in 1..n /\ 1 < i + 1
      BY <2>1
    <2>3. \A k \in 2..(k1 + 1) : k \in 2..k1 \/ k = k1 + 1
      BY <2>1
    <2>4. \A k \in 2..k1 : k \in 1..k1
      BY <2>1
    <2>5. QED
      BY <2>2, <2>3, <2>4
  <1> HIDE DEF e, n, k1, c, f, ev
  <1>9. \A i, j \in 2..(k1 + 1) : i < j => ev(i) < ev(j)
    <2> SUFFICES ASSUME NEW i \in 2..(k1 + 1), NEW j \in 2..(k1 + 1), i < j
                 PROVE  ev(i) < ev(j)
      OBVIOUS
    <2>1. i \in 2..k1 /\ i \in 1..k1
      BY <1>4
    <2>2. CASE j \in 2..k1
      BY <1>3, <1>7, <1>8, <2>1, <2>2
    <2>3. CASE j = k1 + 1
      BY <1>3, <1>5, <1>7, <2>1, <2>3
    <2>4. QED
      BY <1>8, <2>2, <2>3
  <1>10. \A i, j \in 1..(n - 1) : i < j => c[i] < c[j]
    <2> SUFFICES ASSUME NEW i \in 1..(n - 1), NEW j \in 1..(n - 1), i < j
                 PROVE  c[i] < c[j]
      OBVIOUS
    <2>1. i + 1 \in 1..n /\ j + 1 \in 1..n /\ i + 1 < j + 1
      BY <1>8
    <2>2. channel[i + 1] < channel[j + 1]
      BY <1>3, <2>1
    <2>3. QED
      BY <1>5, <2>2
  <1>11. \A i \in 1..(n - 1) : c[i] + to_send <= parsed
    BY <1>3, <1>5, <1>8
  <1>12. \A k \in 2..(k1 + 1) : ev(k) + to_send <= parsed
    BY <1>3, <1>5, <1>7, <1>8
  <1>13. \A k \in 2..(k1 + 1), i \in 1..(n - 1) : ev(k) < c[i]
    <2> SUFFICES ASSUME NEW k \in 2..(k1 + 1), NEW i \in 1..(n - 1)
                 PROVE  ev(k) < c[i]
      OBVIOUS
    <2>1. i + 1 \in 1..n /\ 1 < i + 1 /\ c[i] = channel[i + 1]
      BY <1>5, <1>8
    <2>2. CASE k \in 2..k1
      BY <1>3, <1>7, <1>8, <2>1, <2>2
    <2>3. CASE k = k1 + 1
      BY <1>3, <1>5, <1>7, <2>1, <2>3
    <2>4. QED
      BY <1>8, <2>2, <2>3
  <1>14. /\ \A i, j \in 2..Len(f) : i < j => f[i].event < f[j].event
         /\ \A i, j \in 1..Len(c) : i < j => c[i] < c[j]
         /\ \A i \in 1..Len(c) : c[i] + to_send' <= parsed'
         /\ \A k \in 2..Len(f) : f[k].event + to_send' <= parsed'
         /\ \A k \in 2..Len(f), i \in 1..Len(c) : f[k].event < c[i]
    BY <1>2, <1>5, <1>6, <1>9, <1>10, <1>11, <1>12, <1>13, Zenon DEF ev
  <1>15. QED
    BY <1>14, Zenon DEF OrderInv, f, c

(* Every step keeps the order.                                             *)
LEMMA OrderStepInv ==
    SessionInv /\ OrderInv /\ [Next]_vars => OrderInv'
  <1> SUFFICES ASSUME SessionInv, OrderInv, [Next]_vars PROVE OrderInv'
    OBVIOUS
  <1>1. CASE StopReceiving
    <2>1. frames' = frames /\ ~Running'
      BY <1>1 DEF StopReceiving, DropReceiver, Running, logVars
    <2>2. QED
      BY <2>1 DEF OrderInv
  <1>2. CASE FinishSession
    <2>1. frames' = frames /\ ~Running'
      BY <1>2 DEF FinishSession, FeedEnds, finish, Running
    <2>2. QED
      BY <2>1 DEF OrderInv
  <1>3. CASE KillProcess
    <2>1. frames' = frames /\ ~Running'
      BY <1>3 DEF KillProcess, FeedEnds, Kill, Running
    <2>2. QED
      BY <2>1 DEF OrderInv
  <1>4. CASE Read \/ UNCHANGED vars
    <2>1. /\ frames' = frames /\ channel' = channel /\ to_send' = to_send
          /\ parsed' = parsed /\ log_state' = log_state /\ open' = open
      BY <1>4 DEF Read, Open, ReadNext, feedVars, vars, logVars
    <2>2. QED
      BY <2>1 DEF OrderInv, Running
  <1>5. QED
    BY <1>1, <1>2, <1>3, <1>4, FeedInOrder, RecordInOrder DEF Next

(* Whatever was dropped on the way and wherever the file was cut, what is  *)
(* read back is in the order in which it was received, nothing twice       *)
(* (ws.rs:187-199, recorder.rs:79-83): what the queues of the session keep *)
(* in order the file keeps too.                                            *)
THEOREM EventsReadInOrder == Spec => []ReadInOrder
  <1>1. Init => OrderInv
    <2> SUFFICES ASSUME Init PROVE OrderInv
      OBVIOUS
    <2>1. Len(frames) = 1 /\ Len(channel) = 0 /\ channel = <<>>
      BY DEF Init, LogInit, FeedInit
    <2>2. 2..Len(frames) = {} /\ 1..Len(channel) = {}
      BY <2>1
    <2>3. QED
      BY <2>2, Zenon DEF OrderInv
  <1>2. LogInv /\ OrderInv => ReadInOrder
    <2> SUFFICES ASSUME LogInv, OrderInv,
                        NEW i \in DOMAIN reader.events, NEW j \in DOMAIN reader.events, i < j
                 PROVE  reader.events[i] < reader.events[j]
      BY DEF ReadInOrder
    <2> DEFINE m == GotSoFar
               n == Len(frames)
    <2>1. /\ reader.events \in Seq(Nat) /\ n \in Nat \ {0} /\ m \in 0..(n - 1)
          /\ \A x \in 1..m : reader.events[x] = frames[x + 1].event
      BY DEF LogInv, Readers
    <2>2. i \in 1..m /\ j \in 1..m
      BY <2>1, LenProperties DEF GotSoFar
    <2> HIDE DEF m, n
    <2>3. i + 1 \in 2..n /\ j + 1 \in 2..n /\ i + 1 < j + 1
      <3>1. n \in Nat /\ m \in Nat /\ m <= n - 1
        BY <2>1
      <3>2. i \in Nat /\ j \in Nat /\ 1 <= i /\ 1 <= j /\ i <= m /\ j <= m
        BY <2>2, <3>1
      <3>3. QED
        BY <3>1, <3>2
    <2>4. frames[i + 1].event < frames[j + 1].event
      BY <2>3 DEF OrderInv, n
    <2>5. QED
      BY <2>1, <2>2, <2>4
  <1>3. SessionInv /\ LogInv /\ OrderInv /\ [Next]_vars => (SessionInv /\ LogInv /\ OrderInv)'
    BY SessionStepInv, LogStepInv, OrderStepInv
  <1>4. Init => SessionInv /\ LogInv
    BY SessionInitInv, LogInitInv DEF Init
  <1>5. QED
    BY <1>1, <1>2, <1>3, <1>4, PTL DEF Spec
=============================================================================
