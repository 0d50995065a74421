----------------------------- MODULE MCAudioIn ------------------------------
(* AudioIn with a FIFO of three samples and fragments of two. *)
EXTENDS AudioIn
=============================================================================
