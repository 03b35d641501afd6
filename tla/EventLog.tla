------------------------------ MODULE EventLog ------------------------------
(***************************************************************************)
(* crates/market-data/src/recorder.rs: the event log, a magic number       *)
(* followed by length-prefixed frames, the first of which is the header.   *)
(* Only lengths are counted in bytes; what a frame holds is a value.       *)
(*                                                                         *)
(* The writer buffers (BufWriter): until finish flushes, what has reached  *)
(* the file is some prefix of what was written, so a killed process leaves *)
(* any prefix behind.                                                      *)
(***************************************************************************)
EXTENDS Integers, Sequences, FiniteSets

CONSTANTS HeaderBytes,   \* length of the encoded header
          Lengths        \* lengths of encoded events

ASSUME LogAssumption == HeaderBytes \in Nat \ {0} /\ Lengths \subseteq Nat \ {0}

MagicBytes == 4
PrefixBytes == 4

VARIABLES frames,     \* the frames written, header first
          disk,       \* bytes of them in the file once the process has ended
          log_state,  \* "open", "finished" or "killed"
          reader      \* an EventReader on the file

logVars == <<frames, disk, log_state, reader>>

Header == [event |-> 0, len |-> HeaderBytes]

\* EventWriter::create writes the magic and the header.
LogInit ==
    /\ frames = <<Header>>
    /\ disk = 0
    /\ log_state = "open"
    /\ reader = [status |-> "closed", pos |-> 0, events |-> <<>>]

\* The file offset at which frame k ends, and the whole length.
Offset[k \in Nat] ==
    IF k = 0 THEN MagicBytes ELSE Offset[k - 1] + PrefixBytes + frames[k].len
Written == Offset[Len(frames)]

write_event(e) ==
    /\ log_state = "open"
    /\ \E len \in Lengths : frames' = Append(frames, [event |-> e, len |-> len])
    /\ UNCHANGED <<disk, log_state, reader>>

finish ==
    /\ log_state = "open"
    /\ log_state' = "finished"
    /\ disk' = Written
    /\ UNCHANGED <<frames, reader>>

Kill ==
    /\ log_state = "open"
    /\ log_state' = "killed"
    /\ disk' \in 0..Written
    /\ UNCHANGED <<frames, reader>>
-----------------------------------------------------------------------------
\* The frame that starts at an offset.
FrameAt(pos) == CHOOSE k \in 1..Len(frames) : Offset[k - 1] = pos

(* MUTANT of read_frame: the prefix is counted as part of the frame. *)
read_frame_counts_prefix(pos) ==
    LET available == disk - pos
    IN  IF available < PrefixBytes THEN "eof"
        ELSE IF available < frames[FrameAt(pos)].len THEN "truncated"
        ELSE "frame"

\* What read_frame answers at an offset.  A prefix that is cut short reads as
\* the end of the file.
read_frame(pos) ==
    LET available == disk - pos
    IN  IF available < PrefixBytes THEN "eof"
        ELSE IF available - PrefixBytes < frames[FrameAt(pos)].len THEN "truncated"
        ELSE "frame"

AfterFrame(pos) == pos + PrefixBytes + frames[FrameAt(pos)].len

\* EventReader::open: no frame where the header should be is an error too.
Open ==
    /\ log_state # "open"
    /\ reader.status = "closed"
    /\ reader' =
          IF disk < MagicBytes THEN [reader EXCEPT !.status = "error"]
          ELSE IF read_frame(MagicBytes) = "frame"
               THEN [reader EXCEPT !.status = "reading", !.pos = AfterFrame(MagicBytes)]
          ELSE [reader EXCEPT !.status = "truncated"]
    /\ UNCHANGED <<frames, disk, log_state>>

(* MUTANT of ReadNext: the reader does not move past the frame. *)
ReadNext_rereads ==
    /\ reader.status = "reading"
    /\ reader' =
          IF read_frame(reader.pos) = "frame"
          THEN [reader EXCEPT !.events = Append(@, frames[FrameAt(reader.pos)].event)]
          ELSE [reader EXCEPT !.status = read_frame(reader.pos)]
    /\ UNCHANGED <<frames, disk, log_state>>

\* Iterator::next, until the first end or error.
ReadNext ==
    /\ reader.status = "reading"
    /\ reader' =
          IF read_frame(reader.pos) = "frame"
          THEN [reader EXCEPT !.pos    = AfterFrame(@),
                              !.events = Append(@, frames[FrameAt(reader.pos)].event)]
          ELSE [reader EXCEPT !.status = read_frame(reader.pos)]
    /\ UNCHANGED <<frames, disk, log_state>>
-----------------------------------------------------------------------------
LogTypeOK ==
    /\ frames \in Seq([event : Nat, len : Nat \ {0}])
    /\ disk \in 0..Written
    /\ log_state \in {"open", "finished", "killed"}
    /\ reader \in [status : {"closed", "reading", "eof", "truncated", "error"},
                   pos : 0..Written, events : Seq(Nat)]

EventsWritten == [k \in 1..(Len(frames) - 1) |-> frames[k + 1].event]
EventsOnDisk == Cardinality({k \in 1..(Len(frames) - 1) : Offset[k + 1] <= disk})
ReadEnded == reader.status \in {"eof", "truncated"}

(* A reader gets exactly the events that are whole on disk, in order, and  *)
(* of a finished log all of them with a clean end (recorder.rs:79-83,      *)
(* 127-143).  With it, the type of the log's state.                        *)
ReadsWholeEvents ==
    /\ LogTypeOK
    /\ ReadEnded =>
          /\ reader.events = SubSeq(EventsWritten, 1, EventsOnDisk)
          /\ log_state = "finished" => reader.status = "eof" /\ reader.events = EventsWritten

(* What the format promises (recorder.rs:6-8: "a clean EOF is only valid   *)
(* at a frame boundary, anything else surfaces as TruncatedFrame instead   *)
(* of silently shortening history").  A file that ends inside a length     *)
(* prefix reads as a clean end, so the code does not satisfy it.           *)
CutsAreReported ==
    reader.status = "eof" => \E k \in 1..Len(frames) : disk = Offset[k]
=============================================================================
