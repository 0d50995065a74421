---------------------------- MODULE MCRecognizer ----------------------------
(* Recognizer with a small window and a small ring. *)
EXTENDS Recognizer

(* A PutAudio may bring nothing, a frame, or a frame and a half. *)
MCPutSizes == {0, 2, 3}

MCBothModes == {TRUE, FALSE}
MCGatedOnly == {TRUE}
MCUngatedOnly == {FALSE}

MCStartFaults == {"setup", "log"}
MCNoFaults == {}
=============================================================================
