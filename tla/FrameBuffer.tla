---------------------------- MODULE FrameBuffer ----------------------------
(***************************************************************************)
(* The circular frame buffer of srec/clib/fpi_tgt.c, driven through the    *)
(* calls of srec/ca/utt_basi.c and utt_data.c in the order the recognizer  *)
(* makes them.  Frames are slots 0 .. StackSize - 1; of a frame's features *)
(* only the voicing code is kept.  One thread uses the buffer, so a call   *)
(* is one step.                                                            *)
(***************************************************************************)
EXTENDS FrameOps

CONSTANTS HoldOffs,      \* values of end_of_utterance_hold_off_in_frames
          UttTimeout,    \* quiet frames that end an utterance
          MaxQuiet,      \* bound: quietFrames counted before voicing
          None           \* last_push when it is NULL

ASSUME HoldOffsAssumption == HoldOffs \subseteq Nat
ASSUME TimeoutAssumption == UttTimeout \in Nat /\ MaxQuiet \in Nat /\ UttTimeout < MaxQuiet
ASSUME NoneAssumption == None \notin 0 .. StackSize - 1

VARIABLES isCollecting,  \* FB_ACTIVE or not
          pushp,         \* slot being written
          pullp,         \* slot to be read next
          pushBlkp,      \* oldest kept slot
          voice,         \* voicing code stored in each slot
          voicingDetected, quietFrames, utt_ended, holdOff, holdOffPeriod,
          last_push,     \* where utterance_detection_fixup stopped last time
          phase          \* what the recognizer is doing with the buffer

pointers == <<pushp, pullp, pushBlkp>>
endpoint == <<voicingDetected, quietFrames, utt_ended, holdOff>>
vars == <<isCollecting, pointers, voice, endpoint, holdOffPeriod, last_push, phase>>

Slot == 0 .. StackSize - 1
Code == {"voice", "quiet", "unsure"}

(* Faulty, used by no action: a wrap one slot late. *)
NextFramePast(p) == IF p >= StackSize THEN 0 ELSE p + 1

(* The pointer macros of fpi_tgt.h, in frames instead of features. *)
NextFrame(p) == IF p >= StackSize - 1 THEN 0 ELSE p + 1

PrevFrame(p) == IF p <= 0 THEN StackSize - 1 ELSE p - 1

FixFrame(p) == IF p < 0 THEN p + StackSize
               ELSE IF p > StackSize - 1 THEN p - StackSize ELSE p

(* Faulty, used by no action: a distance that ignores the wrap. *)
GapNoWrap(lead, lag) == IF lead >= lag THEN lead - lag ELSE lag - lead

Gap(lead, lag) == IF lead >= lag THEN lead - lag ELSE StackSize + lead - lag

FrameGap == Gap(pushp, pullp)
BlockGap == Gap(pullp, pushBlkp)
-----------------------------------------------------------------------------
(* createFrameBuffer: zeroed memory, then clearFrameBuffer *)
Init == /\ isCollecting = FALSE
        /\ pushp = 0 /\ pullp = 0 /\ pushBlkp = 0
        /\ voice = [s \in Slot |-> "unsure"]
        /\ voicingDetected = FALSE /\ quietFrames = 0 /\ utt_ended = FALSE
        /\ holdOff = 0 /\ holdOffPeriod = 0
        /\ last_push = None
        /\ phase = "idle"

(* CA_UnlockUtteranceForInput asserts the buffer idle and starts it;       *)
(* CA_SetEndOfUtteranceByLevelTimeout sets the period; CA_ResetVoicing     *)
(* clears the endpointer again, which arms the hold-off.                   *)
Begin(hold) ==
  /\ phase = "idle" /\ ~isCollecting
  /\ isCollecting' = TRUE
  /\ holdOffPeriod' = hold /\ holdOff' = hold
  /\ voicingDetected' = FALSE /\ quietFrames' = 0 /\ utt_ended' = FALSE
  /\ phase' = "bos"
  /\ UNCHANGED <<pointers, voice, last_push>>

(* The endpointer's share of pushSingleFEPframe. *)
Listen(code) ==
  IF holdOff > 0
  THEN holdOff' = holdOff - 1 /\ UNCHANGED <<voicingDetected, quietFrames, utt_ended>>
  ELSE /\ UNCHANGED holdOff
       /\ IF utt_ended
          THEN UNCHANGED <<voicingDetected, quietFrames, utt_ended>>
          ELSE /\ voicingDetected' = (voicingDetected \/ code = "voice")
               /\ quietFrames' = IF code = "quiet" THEN quietFrames + 1 ELSE 0
               /\ utt_ended' = (voicingDetected /\ quietFrames' > UttTimeout)

(* Faulty, used by no action: a push that does not look at the kept frames. *)
StoreOverKept ==
  LET next == NextFrame(pushp)
  IN  IF next = pullp THEN UNCHANGED pointers
      ELSE pushp' = next /\ UNCHANGED <<pullp, pushBlkp>>

(* The pointers' share: the reader's slot always blocks, the oldest kept   *)
(* slot blocks when frames are kept and is given up otherwise.             *)
Store ==
  LET next == NextFrame(pushp)
  IN  IF next = pullp \/ (next = pushBlkp /\ BlockLen > 0) THEN UNCHANGED pointers
      ELSE /\ pushp' = next
           /\ pushBlkp' = IF next = pushBlkp THEN NextFrame(pushBlkp) ELSE pushBlkp
           /\ UNCHANGED pullp

(* pushSingleFEPframe: the slot is written and the endpointer moves on even *)
(* when the frame is then refused for want of room.                         *)
Push(code) ==
  /\ phase \in {"bos", "eos"}
  /\ code = "quiet" => quietFrames < MaxQuiet
  /\ IF isCollecting
     THEN voice' = [voice EXCEPT ![pushp] = code] /\ Listen(code) /\ Store
     ELSE UNCHANGED <<voice, endpoint, pointers>>
  /\ UNCHANGED <<isCollecting, holdOffPeriod, last_push, phase>>

(* Faulty, used by no action: the blocker dragged one frame late. *)
AdvanceLate ==
  IF pullp = pushp THEN UNCHANGED pointers
  ELSE /\ pullp' = NextFrame(pullp)
       /\ pushBlkp' = IF BlockLen > 0 /\ isCollecting
                          /\ Gap(NextFrame(pullp), pushBlkp) > BlockLen
                       THEN NextFrame(pushBlkp) ELSE pushBlkp
       /\ UNCHANGED pushp

(* incRECframePtr *)
Advance ==
  IF pullp = pushp THEN UNCHANGED pointers
  ELSE /\ pullp' = NextFrame(pullp)
       /\ pushBlkp' = IF BlockLen > 0 /\ isCollecting
                          /\ Gap(NextFrame(pullp), pushBlkp) >= BlockLen
                       THEN NextFrame(pushBlkp) ELSE pushBlkp
       /\ UNCHANGED pushp

(* CA_AdvanceUtteranceFrame while waiting for speech *)
AdvanceUtteranceFrame ==
  /\ phase = "bos"
  /\ Advance
  /\ UNCHANGED <<isCollecting, voice, endpoint, holdOffPeriod, last_push, phase>>

(* CA_MakePatternFrame, then CA_AdvanceUtteranceFrame: get_utterance_frame  *)
(* runs utterance_detection_fixup from last_push to the newest frame and    *)
(* leaves last_push there.  The codes it rewrites are the recognizer's own. *)
MakePatternFrame ==
  /\ phase = "eos" /\ FrameGap > 0
  /\ last_push' = PrevFrame(pushp)
  /\ Advance
  /\ UNCHANGED <<isCollecting, voice, endpoint, holdOffPeriod, phase>>

(* setRECframePtr relative to the reader, as the slot the reader moves to *)
RelativeCut(p, fCnt) == Greater(Lesser(fCnt, Gap(p, pushBlkp)), -Gap(pushp, p))

Relative(p, fCnt) == FixFrame(p - RelativeCut(p, fCnt))

(* CA_SeekStartOfUtterance.  The loop over incRECframePtr stops at the      *)
(* first voiced frame or the newest; it may drag the blocker along.         *)
SeekStart == LET oldest == Relative(pullp, BlockGap)
             IN  IF holdOffPeriod > 0
                 THEN Relative(oldest, -Lesser(holdOffPeriod, Gap(pushp, oldest)))
                 ELSE oldest

FramesToVoice ==
  CHOOSE k \in 0 .. Gap(pushp, SeekStart) :
    /\ voice[FixFrame(SeekStart + k)] = "voice" \/ k = Gap(pushp, SeekStart)
    /\ \A j \in 0 .. k - 1 : voice[FixFrame(SeekStart + j)] # "voice"

BlockGapAfter(k) ==
  LET gap == Gap(SeekStart, pushBlkp)
  IN  IF BlockLen > 0 /\ isCollecting
      THEN Greater(gap, Lesser(gap + k, BlockLen - 1)) ELSE gap + k

SeekStartOfUtterance ==
  /\ phase = "bos"
  /\ IF voicingDetected
     THEN LET k     == FramesToVoice
              found == FixFrame(SeekStart + k)
          IN  /\ pushBlkp' = FixFrame(found - BlockGapAfter(k))
              /\ pullp' = FixFrame(found - Lesser(Windback, BlockGapAfter(k)))
              /\ last_push' = None
     ELSE UNCHANGED <<pullp, pushBlkp, last_push>>
  /\ phase' = "eos"
  /\ UNCHANGED <<isCollecting, pushp, voice, endpoint, holdOffPeriod>>

(* Outside gated mode recognition starts where the reader is. *)
KeepStart == /\ phase = "bos" /\ phase' = "eos"
             /\ UNCHANGED <<isCollecting, pointers, voice, endpoint, holdOffPeriod, last_push>>

(* get_background_statistics walks the reader over the frames it measures   *)
(* and puts it back; start and end are its arguments after                  *)
(* CA_CalculateUtteranceStatistics has negated them.                        *)
StatisticsEnd(start, end) ==
  LET got  == RelativeCut(pullp, end)
      from == Relative(pullp, end)
      to   == FixFrame(from - Lesser(start - end, Gap(from, pushBlkp)))
  IN  IF got # end THEN Relative(from, -got)
      ELSE IF start # 0 THEN Relative(to, -start) ELSE to

CalculateStatistics(start, end) ==
  /\ phase \in {"bos", "eos"}
  /\ start # end /\ BlockGap >= start
  /\ pullp' = StatisticsEnd(start, end)
  /\ UNCHANGED <<isCollecting, pushp, pushBlkp, voice, endpoint, holdOffPeriod,
                 last_push, phase>>

(* CA_LockUtteranceFromInput asserts the buffer active and stops it. *)
Lock == /\ phase \in {"bos", "eos"} /\ isCollecting
        /\ isCollecting' = FALSE
        /\ phase' = "locked"
        /\ UNCHANGED <<pointers, voice, endpoint, holdOffPeriod, last_push>>

(* Faulty, used by no action: a flush that keeps the fixup's pointer. *)
FlushKeepsPush == /\ phase = "locked"
                  /\ pullp' = pushp /\ pushBlkp' = pushp
                  /\ phase' = "idle"
                  /\ UNCHANGED <<isCollecting, pushp, voice, endpoint, holdOffPeriod, last_push>>

(* CA_FlushUtteranceFrames: setRECframePtr(0, 0), the blocker released *)
Flush == /\ phase = "locked"
         /\ pullp' = pushp /\ pushBlkp' = pushp
         /\ last_push' = None
         /\ phase' = "idle"
         /\ UNCHANGED <<isCollecting, pushp, voice, endpoint, holdOffPeriod>>

Next == \/ \E hold \in HoldOffs : Begin(hold)
        \/ \E code \in Code : Push(code)
        \/ AdvanceUtteranceFrame
        \/ MakePatternFrame
        \/ SeekStartOfUtterance
        \/ KeepStart
        \/ \E n \in 1 .. StackSize : CalculateStatistics(n, 0) \/ CalculateStatistics(0, -n)
        \/ Lock
        \/ Flush

Spec == Init /\ [][Next]_vars
-----------------------------------------------------------------------------
(* The pointers seen as the window they stand for. *)
WindowSeen == [active  |-> isCollecting,    ahead   |-> FrameGap,
               behind  |-> BlockGap,        voicing |-> voicingDetected,
               ended   |-> utt_ended,       holdOff |-> holdOff,
               period  |-> holdOffPeriod]

Counted == INSTANCE FrameWindow WITH window <- WindowSeen

TypeOK == /\ isCollecting \in BOOLEAN
          /\ pushp \in Slot /\ pullp \in Slot /\ pushBlkp \in Slot
          /\ voice \in [Slot -> Code]
          /\ voicingDetected \in BOOLEAN /\ utt_ended \in BOOLEAN
          /\ quietFrames \in 0 .. MaxQuiet
          /\ holdOff \in Nat /\ holdOffPeriod \in Nat
          /\ last_push \in Slot \cup {None}
          /\ phase \in Counted!Phases

(* pushBlkp, pullp and pushp stay in this order around the ring: no push    *)
(* runs over an unread or kept frame and no move of the reader leaves the   *)
(* frames that are there, although each of the three pointers is moved by   *)
(* code that looks at only one other (lines 380-414, 466-477, 576-588).     *)
PointersInOrder == BlockGap + FrameGap = Gap(pushp, pushBlkp)

(* While frames arrive the reader never trails the blocker by BlockLen:     *)
(* incRECframePtr moves the blocker one frame only, so one missed move      *)
(* would never be made up (line 585).                                       *)
KeepsAtMostBlockLen == (isCollecting /\ BlockLen > 0) => BlockGap < BlockLen

(* utterance_detection_fixup resumes at a frame that is still in the window,*)
(* or at the end of it: the pointer it saved in an earlier call is not      *)
(* stale (last_push is kept across pushes, reads and blocker moves).        *)
FixupResumesInWindow ==
  (phase = "eos" /\ last_push # None) => Gap(last_push, pushBlkp) <= Gap(pushp, pushBlkp)

(* The pointers implement the counted window, for every call and whatever   *)
(* the wrap positions; measuring statistics leaves the reader where it was, *)
(* which the assertions of get_background_statistics claim (lines 748, 779).*)
ImplementsWindow == Counted!Spec
=============================================================================
