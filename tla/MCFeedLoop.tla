----------------------------- MODULE MCFeedLoop -----------------------------
(* FeedLoop with buffers of up to a frame and a half. *)
EXTENDS FeedLoop

MCPutSizes == {0, 1, 2, 3}
MCGatedOnly == {TRUE}
MCUngatedOnly == {FALSE}
MCNoFaults == {}
=============================================================================
