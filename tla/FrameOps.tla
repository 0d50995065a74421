------------------------------ MODULE FrameOps ------------------------------
(***************************************************************************)
(* The utterance's frame window as its callers see it: which frames are    *)
(* kept, counted instead of pointed at.                                    *)
(*                                                                         *)
(*        oldest kept                next to read            next to write *)
(*           |<------- behind -------->|<-------- ahead ------->|          *)
(*        pushBlkp                   pullp                     pushp       *)
(*                                                                         *)
(* A window is a record; every operator returns the window after one call  *)
(* of srec/clib/fpi_tgt.c, or the set of windows it may leave where the    *)
(* outcome depends on the audio.  FrameBuffer implements these operators   *)
(* with pointers, Recognizer calls them.                                   *)
(***************************************************************************)
EXTENDS Integers

CONSTANTS StackSize,     \* slots of the frame stack (DEFAULT_BUFFER_SIZE)
          BlockLen,      \* frames kept behind the reader (KEEP_FRAMES)
          Windback       \* frames a seek goes back before the first voiced one

ASSUME StackAssumption == StackSize \in Nat \ {0}
(* init_utterance refuses a stack smaller than the frames to keep. *)
ASSUME BlockAssumption == BlockLen \in Nat /\ BlockLen <= StackSize
ASSUME WindbackAssumption == Windback \in Nat

Lesser(a, b) == IF a < b THEN a ELSE b
Greater(a, b) == IF a > b THEN a ELSE b

Window == [active  : BOOLEAN,             \* isCollecting = FB_ACTIVE
           ahead   : 0 .. StackSize - 1,  \* getFrameGap
           behind  : 0 .. StackSize - 1,  \* getBlockGap
           voicing : BOOLEAN,             \* voicingDetected
           ended   : BOOLEAN,             \* utt_ended
           holdOff : Nat,                 \* frames before voicing may be detected
           period  : Nat]                 \* holdOffPeriod

ClearedWindow == [active |-> FALSE, ahead |-> 0, behind |-> 0, voicing |-> FALSE,
                  ended |-> FALSE, holdOff |-> 0, period |-> 0]

(* clearEndOfUtterance and startFrameCollection *)
EndpointCleared(w) ==
  [w EXCEPT !.voicing = FALSE, !.ended = FALSE, !.holdOff = w.period]

Collecting(w) == IF w.active THEN w ELSE [EndpointCleared(w) EXCEPT !.active = TRUE]

(* What SR_RecognizerStart does to the window: CA_UnlockUtteranceForInput, *)
(* CA_SetEndOfUtteranceByLevelTimeout, CA_ResetVoicing.                    *)
Unlocked(w) == Collecting(w)

Configured(w, hold) == [w EXCEPT !.period = hold, !.holdOff = 0]

VoicingReset(w) == Collecting(EndpointCleared(w))

Begun(w, hold) == VoicingReset(Configured(Unlocked(w), hold))

(* A window of other counts. *)
Sized(w, ahead, behind) == [w EXCEPT !.ahead = ahead, !.behind = behind]

(* stopFrameCollection; setRECframePtr(0, 0) and the release of the blocker *)
Locked(w) == [w EXCEPT !.active = FALSE]

Flushed(w) == Sized(w, 0, 0)

(* A push is blocked when the slot after pushp is the reader's, or the last *)
(* kept frame's and frames are kept.                                        *)
Full(w) == w.ahead + w.behind = StackSize - 1

Blocked(w) == w.ahead = StackSize - 1 \/ (Full(w) /\ BlockLen > 0)

(* Endpoint detection: silent during the hold-off; an utterance can only    *)
(* end after voicing.                                                       *)
Endpointed(w) ==
  IF w.holdOff > 0 THEN {[w EXCEPT !.holdOff = w.holdOff - 1]}
  ELSE IF w.ended THEN {w}
  ELSE {w, [w EXCEPT !.voicing = TRUE], [w EXCEPT !.ended = w.voicing]}

Stored(w) ==
  IF Blocked(w) THEN w
  ELSE Sized(w, w.ahead + 1, IF Full(w) THEN w.behind - 1 ELSE w.behind)

Pushed(w) == IF w.active THEN Endpointed(Stored(w)) ELSE {w}

(* incRECframePtr: the blocker follows the reader one frame at a time. *)
Drags(w) == BlockLen > 0 /\ w.active /\ w.behind + 1 >= BlockLen

Advanced(w) ==
  IF w.ahead = 0 THEN w
  ELSE Sized(w, w.ahead - 1, IF Drags(w) THEN w.behind ELSE w.behind + 1)

(* k calls of incRECframePtr, k at most w.ahead: the frames behind grow up  *)
(* to BlockLen - 1 and no further.                                          *)
BehindAfter(w, k) ==
  IF BlockLen > 0 /\ w.active
  THEN Greater(w.behind, Lesser(w.behind + k, BlockLen - 1))
  ELSE w.behind + k

AdvancedBy(w, k) == Sized(w, w.ahead - k, BehindAfter(w, k))

(* setRECframePtr relative to the reader: back is positive, and the move is *)
(* cut at either end of the window.                                         *)
MoveCut(w, fCnt) == Greater(Lesser(fCnt, w.behind), -w.ahead)

Moved(w, fCnt) == LET n == MoveCut(w, fCnt)
                  IN  Sized(w, w.ahead + n, w.behind - n)

(* CA_SeekStartOfUtterance: back to the oldest kept frame, over the         *)
(* hold-off, on to the first voiced frame or the newest one, back by the    *)
(* windback.  found is the number of frames passed over.                    *)
SeekFrom(w) == LET oldest == Moved(w, w.behind)
               IN  IF w.period > 0 THEN Moved(oldest, -Lesser(w.period, oldest.ahead))
                   ELSE oldest

(* Faulty, used by no action: a seek that stops at the voiced frame. *)
SeekToVoice(w, found) == AdvancedBy(SeekFrom(w), found)

SeekTo(w, found) == LET passed == AdvancedBy(SeekFrom(w), found)
                    IN  Moved(passed, Lesser(Windback, passed.behind))

Sought(w) == IF w.voicing THEN {SeekTo(w, found) : found \in 0 .. SeekFrom(w).ahead}
             ELSE {w}

(* The value the seek returns is the windback it was configured with, not   *)
(* the distance it moved.                                                   *)
SeekReturn(w) == IF w.voicing THEN Windback ELSE 0
=============================================================================
