--------------------------- MODULE MCFrameBuffer ---------------------------
(* FrameBuffer on a small stack. *)
EXTENDS FrameBuffer

MCHoldOffs == {0, 2}
=============================================================================
