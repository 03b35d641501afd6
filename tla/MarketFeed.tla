----------------------------- MODULE MarketFeed -----------------------------
(***************************************************************************)
(* crates/market-data/src/ws.rs: the feed task.  It connects, subscribes,  *)
(* pings, forwards the events of each message to a bounded channel, and    *)
(* reconnects with a growing delay when a connection fails or goes silent. *)
(* The venue and the network are outside the repository: they may refuse   *)
(* or drop a connection, send any message, or nothing at all.              *)
(*                                                                         *)
(* Time advances in ticks of 15 seconds; it never passes a ping that is    *)
(* due.  Events are numbered in the order the feed parses them.            *)
(***************************************************************************)
EXTENDS Integers, Sequences

CONSTANTS capacity,      \* of the channel
          MessageSizes,  \* how many events a message may carry
          MaxMessages,   \* messages the venue sends (bound)
          MaxFailures    \* connections that fail (bound)

ASSUME FeedAssumption ==
    /\ capacity \in Nat \ {0}
    /\ MessageSizes \subseteq Nat
    /\ MaxMessages \in Nat /\ MaxFailures \in Nat

PING_INTERVAL == 2       \* 30 s
STALENESS_LIMIT == 5     \* 75 s
MaxIdle == STALENESS_LIMIT + PING_INTERVAL + 1   \* where idle saturates (bound)

VARIABLES conn,      \* "connecting", "streaming", "backoff" or "stopped"
          attempt,   \* failures, as the backoff counts them
          idle,      \* ticks since the last message
          ping_in,   \* ticks until the next ping is due
          to_send,   \* events of the current message not yet forwarded
          channel,   \* the bounded channel to the consumer
          open,      \* the consumer still holds the receiving end
          stats,     \* FeedStats
          parsed     \* history: events parsed so far

feedVars == <<conn, attempt, idle, ping_in, to_send, channel, open, stats, parsed>>

FeedStats == [connects : Nat, disconnects : Nat, messages : Nat, events : Nat,
              parse_errors : Nat, dropped : Nat]
NoStats == [connects |-> 0, disconnects |-> 0, messages |-> 0, events |-> 0,
            parse_errors |-> 0, dropped |-> 0]

FeedInit ==
    /\ conn = "connecting"
    /\ attempt = 0
    /\ idle = 0
    /\ ping_in = 0
    /\ to_send = 0
    /\ channel = <<>>
    /\ open = TRUE
    /\ stats = NoStats
    /\ parsed = 0

ConnectSucceeds ==
    /\ conn = "connecting"
    /\ conn' = "streaming"
    /\ idle' = 0
    /\ ping_in' = 0        \* an interval's first tick is due at once
    /\ stats' = [stats EXCEPT !.connects = @ + 1]
    /\ UNCHANGED <<attempt, to_send, channel, open, parsed>>

\* connect_and_stream returns an error: the failure is counted, then slept on.
Fail ==
    /\ stats.disconnects < MaxFailures    \* bound
    /\ conn' = "backoff"
    /\ attempt' = attempt + 1
    /\ stats' = [stats EXCEPT !.disconnects = @ + 1]
    /\ UNCHANGED <<idle, ping_in, to_send, channel, open, parsed>>

\* Waiting in select! for a ping or a message.
Selecting == conn = "streaming" /\ to_send = 0

ConnectFails == conn = "connecting" /\ Fail
ConnectionLost == Selecting /\ Fail

(* MUTANT of Retry: without a message so far the feed gives up. *)
Retry_needs_delivery ==
    /\ conn = "backoff"
    /\ conn' = IF open /\ stats.messages > 0 THEN "connecting" ELSE "stopped"
    /\ UNCHANGED <<attempt, idle, ping_in, to_send, channel, open, stats, parsed>>

\* The delay is over.
Retry ==
    /\ conn = "backoff"
    /\ conn' = IF open THEN "connecting" ELSE "stopped"
    /\ attempt' = IF open /\ stats.messages > 0 /\ attempt > 5 THEN 5 ELSE attempt
    /\ UNCHANGED <<idle, ping_in, to_send, channel, open, stats, parsed>>

Tick ==
    /\ Selecting
    /\ ping_in > 0
    /\ ping_in' = ping_in - 1
    /\ idle' = IF idle < MaxIdle THEN idle + 1 ELSE idle
    /\ UNCHANGED <<conn, attempt, to_send, channel, open, stats, parsed>>

(* MUTANT of Stale: the limit is compared with the time of the last ping. *)
Stale_since_ping == PING_INTERVAL - ping_in > STALENESS_LIMIT

Stale == idle > STALENESS_LIMIT

PingDue == Selecting /\ ping_in = 0

SendPing ==
    /\ PingDue
    /\ ~Stale
    /\ ping_in' = PING_INTERVAL
    /\ UNCHANGED <<conn, attempt, idle, to_send, channel, open, stats, parsed>>

GoStale == PingDue /\ Stale /\ Fail

\* A text message with n events; acknowledgements and pongs carry none.
ReceiveMessage(n) ==
    /\ Selecting
    /\ stats.messages < MaxMessages      \* bound
    /\ idle' = 0
    /\ to_send' = n
    /\ parsed' = parsed + n
    /\ stats' = [stats EXCEPT !.messages = @ + 1]
    /\ UNCHANGED <<conn, attempt, ping_in, channel, open>>

\* A text message that does not parse.
ReceiveGarbage ==
    /\ Selecting
    /\ stats.messages < MaxMessages      \* bound
    /\ idle' = 0
    /\ stats' = [stats EXCEPT !.messages = @ + 1, !.parse_errors = @ + 1]
    /\ UNCHANGED <<conn, attempt, ping_in, to_send, channel, open, parsed>>

\* A protocol-level frame: answered elsewhere, but it counts as life.
ReceiveControl ==
    /\ Selecting
    /\ idle' = 0
    /\ UNCHANGED <<conn, attempt, ping_in, to_send, channel, open, stats, parsed>>

(* MUTANT of Forward: an event for which there is no room is not counted. *)
Forward_drops_silently ==
    /\ to_send > 0 /\ open
    /\ to_send' = to_send - 1
    /\ IF Len(channel) < capacity
       THEN /\ channel' = Append(channel, parsed - to_send + 1)
            /\ stats' = [stats EXCEPT !.events = @ + 1]
       ELSE UNCHANGED <<channel, stats>>
    /\ UNCHANGED <<conn, attempt, idle, ping_in, open, parsed>>

\* try_send of the next event of the message: dropped when there is no room.
Forward ==
    /\ to_send > 0 /\ open
    /\ to_send' = to_send - 1
    /\ IF Len(channel) < capacity
       THEN /\ channel' = Append(channel, parsed - to_send + 1)
            /\ stats' = [stats EXCEPT !.events = @ + 1]
       ELSE /\ UNCHANGED channel
            /\ stats' = [stats EXCEPT !.dropped = @ + 1]
    /\ UNCHANGED <<conn, attempt, idle, ping_in, open, parsed>>

\* try_send to a closed channel: the rest of the message is given up.
ForwardToClosed ==
    /\ to_send > 0 /\ ~open
    /\ to_send' = 0
    /\ conn' = "stopped"
    /\ UNCHANGED <<attempt, idle, ping_in, channel, open, stats, parsed>>

FeedStep ==
    \/ ConnectSucceeds \/ ConnectFails \/ ConnectionLost \/ Retry
    \/ Tick \/ SendPing \/ GoStale
    \/ \E n \in MessageSizes : ReceiveMessage(n)
    \/ ReceiveGarbage \/ ReceiveControl
    \/ Forward \/ ForwardToClosed

\* The consumer takes the next event, or drops its end of the channel.
Recv ==
    /\ open /\ channel # <<>>
    /\ channel' = Tail(channel)
    /\ UNCHANGED <<conn, attempt, idle, ping_in, to_send, open, stats, parsed>>

DropReceiver ==
    /\ open' = FALSE
    /\ channel' = <<>>
    /\ UNCHANGED <<conn, attempt, idle, ping_in, to_send, stats, parsed>>

\* The task is aborted or dies with its process: its memory is gone.
FeedEnds ==
    /\ conn' = "stopped" /\ open' = FALSE
    /\ channel' = <<>> /\ to_send' = 0 /\ parsed' = 0
    /\ attempt' = 0 /\ idle' = 0 /\ ping_in' = 0
    /\ stats' = NoStats
-----------------------------------------------------------------------------
FeedTypeOK ==
    /\ conn \in {"connecting", "streaming", "backoff", "stopped"}
    /\ attempt \in 0..MaxFailures
    /\ idle \in 0..MaxIdle
    /\ ping_in \in 0..PING_INTERVAL
    /\ to_send \in Nat
    /\ channel \in Seq(1..parsed) /\ Len(channel) <= capacity
    /\ open \in BOOLEAN
    /\ stats \in FeedStats
    /\ parsed \in Nat

(* A connection on which nothing arrives is given up after the staleness   *)
(* limit and one ping interval at most: the watchdog runs only when a ping *)
(* is due (ws.rs:5-8, 78-81, 146-151).                                     *)
SilenceBounded == conn = "streaming" => idle <= STALENESS_LIMIT + PING_INTERVAL
=============================================================================
