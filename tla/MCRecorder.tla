----------------------------- MODULE MCRecorder -----------------------------
(* A recording session on a small channel, with short frames. *)
EXTENDS Recorder
=============================================================================
