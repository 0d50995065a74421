---------------------------- MODULE MCRecording -----------------------------
(* Recording with a wind-back and a hold-off of two frames. *)
EXTENDS Recording
=============================================================================
