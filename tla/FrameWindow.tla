---------------------------- MODULE FrameWindow ----------------------------
(***************************************************************************)
(* What the frame buffer promises the recognizer: a window of frames       *)
(* around the reader that moves as the operators of FrameOps say, through  *)
(* the calls one utterance makes.                                          *)
(***************************************************************************)
EXTENDS FrameOps

CONSTANTS HoldOffs       \* values of end_of_utterance_hold_off_in_frames

VARIABLES window,        \* the window, a member of Window
          phase          \* what its only caller, the recognizer, is doing with it

vars == <<window, phase>>

Phases == {"idle",       \* between utterances
           "bos",        \* waiting for speech
           "eos",        \* recognizing
           "locked"}     \* input locked, frames not flushed yet

Init == window = ClearedWindow /\ phase = "idle"

Begin == /\ phase = "idle"
         /\ \E hold \in HoldOffs : window' = Begun(window, hold)
         /\ phase' = "bos"

Push == phase \in {"bos", "eos"} /\ window' \in Pushed(window) /\ UNCHANGED phase

Advance == phase \in {"bos", "eos"} /\ window' = Advanced(window) /\ UNCHANGED phase

Seek == phase = "bos" /\ window' \in Sought(window) /\ phase' = "eos"

Keep == phase = "bos" /\ phase' = "eos" /\ UNCHANGED window

Lock == phase \in {"bos", "eos"} /\ window' = Locked(window) /\ phase' = "locked"

Flush == phase = "locked" /\ window' = Flushed(window) /\ phase' = "idle"

Next == Begin \/ Push \/ Advance \/ Seek \/ Keep \/ Lock \/ Flush

Spec == Init /\ [][Next]_vars
=============================================================================
