----------------------------- MODULE Recognizer -----------------------------
(***************************************************************************)
(* The recognizer of srec/Recognizer/src/RecognizerImpl.c, used by two     *)
(* threads.  The application starts it, advances it and stops it; an audio *)
(* thread calls PutAudio whenever it has samples.  They share the audio    *)
(* ring, isStarted and gotLastFrame under the lock the application may     *)
(* install.                                                                *)
(*                                                                         *)
(* A call is one step up to each place where it takes the lock, because    *)
(* only there can the other thread's work come in between: pc names the    *)
(* section the application's call has reached, put the audio thread's.     *)
(* Samples are counted in units of which FrameSize make one frame.         *)
(***************************************************************************)
EXTENDS FrameOps

CONSTANTS Capacity,          \* units the audio ring holds
          FrameSize,         \* units in a frame (FRAME_SIZE)
          BgSniff,           \* frames the background estimate needs (bgsniff)
          UtteranceTimeout,  \* frames to wait for speech
          HoldOff,           \* end_of_utterance_hold_off_in_frames
          GatedModes,        \* values of cmdline.gatedmode to consider
          StartFaults,       \* what may go wrong in SR_RecognizerStart
          PutSizes,          \* units a PutAudio call may bring
          MaxFrames          \* bound: no audio is offered past this many frames

ASSUME RingAssumption == Capacity \in Nat /\ FrameSize \in Nat \ {0} /\ FrameSize <= Capacity
ASSUME FramesAssumption == BgSniff \in Nat /\ UtteranceTimeout \in Nat /\ HoldOff \in Nat
ASSUME AudioAssumption == PutSizes \subseteq Nat /\ MaxFrames \in Nat
ASSUME ModesAssumption == GatedModes \subseteq BOOLEAN /\ StartFaults \subseteq {"setup", "log"}

VARIABLES gatedMode,         \* cmdline.gatedmode
          lock,              \* "free", or "leaked" by a PutAudio that kept it
          size,              \* units in impl->buffer
          isStarted, gotLastFrame, isRecognizing, internalState,
          frames, processed, \* frames made, frames searched
          utt,               \* impl->utterance, a Window
          is_running,        \* impl->recognizer is between Begin and EndRecognition
          result,            \* impl->result is allocated
          session,           \* what the application was last told: "closed", "open", "failed"
          pc, status, rc,    \* the application's call and what it returned
          put, putRc,        \* the audio thread's call and what it returned
          lastTaken          \* history: a last frame was accepted since Start

ring == <<lock, size>>
shared == <<isStarted, gotLastFrame>>
search == <<isRecognizing, is_running>>
progress == <<frames, processed>>
returned == <<pc, status, rc>>
audio == <<put, putRc, lastTaken>>
vars == <<gatedMode, ring, shared, search, internalState, progress, utt, result,
          session, returned, audio>>

States == {"BEGIN", "BOS_DETECTION", "EOS_DETECTION", "EOI", "EOS", "END"}
Searching == {"EOS_DETECTION", "EOI", "EOS"}

Status == {"INVALID", "STARTED", "NEED_MORE_AUDIO", "INCOMPLETE", "START_OF_VOICING",
           "END_OF_VOICING", "RECOGNITION_RESULT", "NO_MATCH", "START_OF_UTTERANCE_TIMEOUT"}

(* The statuses returned with SR_RECOGNIZER_RESULT_TYPE_COMPLETE. *)
Complete == {"RECOGNITION_RESULT", "NO_MATCH", "START_OF_UTTERANCE_TIMEOUT"}

Sections == {"idle", "canPush", "push", "listen", "process", "inputCheck", "eoi",
             "eoiCheck", "resetRing", "createResult", "stopReset", "stopFinish"}

Init == /\ gatedMode \in GatedModes
        /\ lock = "free" /\ size = 0
        /\ isStarted = FALSE /\ gotLastFrame = FALSE
        /\ isRecognizing = FALSE /\ is_running = FALSE
        /\ internalState = "BEGIN"
        /\ frames = 0 /\ processed = 0
        /\ utt = ClearedWindow
        /\ result = FALSE
        /\ session = "closed"
        /\ pc = "idle" /\ status = "INVALID" /\ rc = "SUCCESS"
        /\ put = "idle" /\ putRc = "SUCCESS" /\ lastTaken = FALSE

Return(s) == pc' = "idle" /\ status' = s /\ rc' = "SUCCESS"
Fail(s) == pc' = "idle" /\ status' = s /\ rc' = "INVALID_STATE"
Goto(section) == pc' = section /\ UNCHANGED <<status, rc>>
-----------------------------------------------------------------------------
(* The audio thread: SR_RecognizerPutAudio. *)

PutRefused == putRc' = "INVALID_STATE" /\ UNCHANGED <<ring, put, lastTaken>>

(* CircularBufferWrite returned -1: the call leaves without unlocking. *)
PutOverflow == /\ putRc' = "INVALID_STATE"
               /\ lock' = "leaked"
               /\ UNCHANGED <<size, put, lastTaken>>

PutAccepted(n, isLast) == /\ size' = size + n
                          /\ putRc' = "SUCCESS"
                          /\ put' = IF isLast THEN "last" ELSE "idle"
                          /\ lastTaken' = (lastTaken \/ isLast)
                          /\ UNCHANGED lock

(* Faulty, used by no action: a write that does not look at the room left. *)
PutUnchecked(n, isLast) ==
  /\ put = "idle" /\ lock = "free"
  /\ n > 0 => frames < MaxFrames
  /\ IF ~isStarted \/ gotLastFrame THEN PutRefused ELSE PutAccepted(n, isLast)
  /\ UNCHANGED <<gatedMode, shared, search, internalState, progress, utt, result,
                 session, returned>>

PutAudio(n, isLast) ==
  /\ put = "idle" /\ lock = "free"
  /\ n > 0 => frames < MaxFrames
  /\ IF ~isStarted \/ gotLastFrame THEN PutRefused
     ELSE IF size + n > Capacity THEN PutOverflow
     ELSE PutAccepted(n, isLast)
  /\ UNCHANGED <<gatedMode, shared, search, internalState, progress, utt, result,
                 session, returned>>

(* gotLastFrame is set after the lock is released. *)
PutLast ==
  /\ put = "last"
  /\ gotLastFrame' = TRUE
  /\ put' = "idle"
  /\ UNCHANGED <<gatedMode, ring, isStarted, search, internalState, progress, utt, result,
                 session, returned, putRc, lastTaken>>
-----------------------------------------------------------------------------
(* The application: SR_RecognizerStart. *)

StartFails == /\ session' = "failed"
              /\ pc' = "idle" /\ rc' = "INVALID_STATE"
              /\ UNCHANGED status

(* No models or no active rule: nothing has been touched. *)
StartWithoutSetup ==
  /\ pc = "idle" /\ session = "closed"
  /\ "setup" \in StartFaults
  /\ StartFails
  /\ UNCHANGED <<gatedMode, ring, shared, search, internalState, progress, utt, result, audio>>

(* Faulty, used by no action: a start that keeps the mark of the last frame. *)
ListeningStale == /\ isStarted' = TRUE /\ isRecognizing' = FALSE
                  /\ internalState' = "BEGIN"
                  /\ utt' = Begun(utt, HoldOff)
                  /\ lastTaken' = FALSE /\ UNCHANGED gotLastFrame

Listening == /\ isStarted' = TRUE /\ gotLastFrame' = FALSE /\ isRecognizing' = FALSE
             /\ internalState' = "BEGIN"
             /\ utt' = Begun(utt, HoldOff)
             /\ lastTaken' = FALSE

(* The audio log cannot be opened: the recognizer is started, the           *)
(* application is told it is not.                                           *)
StartWithoutLog ==
  /\ pc = "idle" /\ session = "closed"
  /\ "log" \in StartFaults
  /\ StartFails
  /\ Listening
  /\ UNCHANGED <<gatedMode, ring, is_running, progress, result, put, putRc>>

Start ==
  /\ pc = "idle" /\ session = "closed"
  /\ Listening
  /\ frames' = 0 /\ processed' = 0
  /\ session' = "open"
  /\ pc' = "idle" /\ rc' = "SUCCESS"
  /\ UNCHANGED <<gatedMode, ring, is_running, result, status, put, putRc>>
-----------------------------------------------------------------------------
(* The application: SR_RecognizerAdvance, by the internal state it finds.   *)
(* The result holder is created on the first call.                          *)

Advancing(state) == pc = "idle" /\ session = "open" /\ internalState = state /\ result' = TRUE

AdvanceBegin ==
  /\ Advancing("BEGIN")
  /\ internalState' = "BOS_DETECTION"
  /\ Return("STARTED")
  /\ UNCHANGED <<gatedMode, ring, shared, search, progress, utt, session, audio>>

(* detectBeginningOfSpeech, or the EOS_DETECTION case *)
AdvanceListening ==
  /\ \/ Advancing("BOS_DETECTION") /\ (gatedMode \/ frames < BgSniff)
     \/ Advancing("EOS_DETECTION")
  /\ pc' = "canPush" /\ status' = "INVALID"
  /\ UNCHANGED <<gatedMode, ring, shared, search, internalState, progress, utt, session,
                 rc, audio>>

(* beginRecognizing *)
BeginRecognizing == /\ internalState' = "EOS_DETECTION"
                    /\ is_running' = TRUE /\ isRecognizing' = TRUE
                    /\ processed' = 0

(* Outside gated mode, and with the background estimated, the search starts *)
(* without waiting for speech.                                              *)
AdvanceUngated ==
  /\ Advancing("BOS_DETECTION") /\ ~gatedMode /\ frames >= BgSniff
  /\ BeginRecognizing
  /\ frames' = 0
  /\ Return("INCOMPLETE")
  /\ UNCHANGED <<gatedMode, ring, shared, utt, session, audio>>

AdvanceTo(state, section) ==
  /\ Advancing(state)
  /\ pc' = section /\ status' = "INVALID"
  /\ UNCHANGED <<gatedMode, ring, shared, search, internalState, progress, utt, session,
                 rc, audio>>

AdvanceEOI == AdvanceTo("EOI", "eoi")

AdvanceEOS == AdvanceTo("EOS", "resetRing")

(* Nothing is left to do, and nothing but the INVALID markers is returned. *)
AdvanceEnd ==
  /\ Advancing("END")
  /\ Return("INVALID")
  /\ UNCHANGED <<gatedMode, ring, shared, search, internalState, progress, utt, session, audio>>
-----------------------------------------------------------------------------
(* Faulty, used by no action: a frame's worth counted one unit short. *)
ShortByOne == size + 1 < FrameSize

(* canPushAudioIntoRecognizer: is there a frame's worth of audio?           *)
ShortOfAudio == size < FrameSize

(* Where the call goes on once it has, or does not need, a new frame. *)
Onward == IF internalState = "BOS_DETECTION" THEN "listen" ELSE "process"

Checking == pc = "canPush" /\ lock = "free"

(* Faulty, used by no action: more audio asked for after the last frame. *)
NeedMoreAlways ==
  /\ Checking /\ ShortOfAudio
  /\ IF utt.ahead = 0 THEN Return("NEED_MORE_AUDIO") ELSE Goto(Onward)
  /\ UNCHANGED <<gatedMode, ring, shared, search, internalState, progress, utt, result,
                 session, audio>>

NeedMoreAudio ==
  /\ Checking /\ ShortOfAudio /\ ~gotLastFrame
  /\ IF utt.ahead = 0 THEN Return("NEED_MORE_AUDIO") ELSE Goto(Onward)
  /\ UNCHANGED <<gatedMode, ring, shared, search, internalState, progress, utt, result,
                 session, audio>>

EndOfInput ==
  /\ Checking /\ ShortOfAudio /\ gotLastFrame
  /\ internalState = "EOS_DETECTION"
  /\ internalState' = "EOI" /\ isRecognizing' = FALSE
  /\ Goto("eoi")
  /\ UNCHANGED <<gatedMode, ring, shared, is_running, progress, utt, result, session, audio>>

(* stop() called from inside: the first section of SR_RecognizerStop for a  *)
(* recognizer whose search has not begun.                                   *)
StopInside(w, s) == /\ internalState' = "END"
                    /\ utt' = Locked(w)
                    /\ pc' = "stopReset" /\ status' = s
                    /\ UNCHANGED rc

EndOfInputBeforeSpeech ==
  /\ Checking /\ ShortOfAudio /\ gotLastFrame
  /\ internalState = "BOS_DETECTION"
  /\ isRecognizing' = FALSE
  /\ StopInside(utt, "NO_MATCH")
  /\ UNCHANGED <<gatedMode, ring, shared, is_running, progress, result, session, audio>>

Pushable ==
  /\ Checking /\ ~ShortOfAudio
  /\ Goto("push")
  /\ UNCHANGED <<gatedMode, ring, shared, search, internalState, progress, utt, result,
                 session, audio>>
-----------------------------------------------------------------------------
(* pushAudioIntoRecognizer and generateFrameFromAudio *)

(* Frames wait to be processed and the background is estimated. *)
Sated == utt.ahead > 0 /\ frames >= BgSniff

LeaveAudio ==
  /\ pc = "push" /\ Sated
  /\ Goto(Onward)
  /\ UNCHANGED <<gatedMode, ring, shared, search, internalState, progress, utt, result,
                 session, audio>>

(* The front end drops the first frames and every even one. *)
FrameDropped == Return("INCOMPLETE") /\ UNCHANGED <<utt, frames>>

(* CA_MakeFrame pushes the frame; a push the window refuses is a dropped    *)
(* frame to the recognizer.                                                 *)
FrameMade ==
  /\ utt' \in Pushed(utt)
  /\ IF utt.active /\ ~Blocked(utt) THEN frames' = frames + 1 /\ Goto(Onward)
     ELSE Return("INCOMPLETE") /\ UNCHANGED frames

(* The size was checked under the lock, and the lock released since. *)
ReadAudio ==
  /\ pc = "push" /\ ~Sated /\ lock = "free"
  /\ size' = size - Lesser(size, FrameSize)
  /\ IF size < FrameSize THEN Fail(status) /\ UNCHANGED <<utt, frames>>
     ELSE FrameDropped \/ FrameMade
  /\ UNCHANGED <<gatedMode, lock, shared, search, internalState, processed, result,
                 session, audio>>
-----------------------------------------------------------------------------
(* detectBeginningOfSpeech with a new frame *)

Silent == ~utt.voicing /\ UNCHANGED <<search, processed, frames>>

(* Faulty, used by no action: the frames gained by the seek not counted. *)
SpeechBeginsUncounted ==
  /\ utt.voicing
  /\ IF gatedMode THEN utt' \in Sought(Advanced(utt)) /\ UNCHANGED frames
     ELSE utt' = Advanced(utt) /\ frames' = 0
  /\ BeginRecognizing
  /\ Return("START_OF_VOICING")

SpeechBegins ==
  /\ utt.voicing
  /\ IF gatedMode THEN utt' \in Sought(Advanced(utt)) /\ frames' = utt'.ahead
     ELSE utt' = Advanced(utt) /\ frames' = 0
  /\ BeginRecognizing
  /\ Return("START_OF_VOICING")

(* Faulty, used by no action: the silent frame not consumed. *)
NoSpeechKept == /\ Silent /\ frames <= UtteranceTimeout
                /\ UNCHANGED <<utt, internalState>>
                /\ Return("INCOMPLETE")

NoSpeechYet == /\ Silent /\ frames <= UtteranceTimeout
               /\ utt' = Advanced(utt)
               /\ UNCHANGED internalState
               /\ Return("INCOMPLETE")

SpeechTimeout == /\ Silent /\ frames > UtteranceTimeout
                 /\ StopInside(Advanced(utt), "START_OF_UTTERANCE_TIMEOUT")

(* CA_AdvanceUtteranceFrame refuses when there is no frame. *)
Listen ==
  /\ pc = "listen"
  /\ IF utt.ahead = 0 THEN Fail(status) /\ UNCHANGED <<search, internalState, progress, utt>>
     ELSE SpeechBegins \/ NoSpeechYet \/ SpeechTimeout
  /\ UNCHANGED <<gatedMode, ring, shared, result, session, audio>>
-----------------------------------------------------------------------------
(* generateFrameStats, generatePatternFromFrame and detectEndOfSpeech       *)

BackgroundUnknown ==
  /\ pc = "process" /\ frames < BgSniff
  /\ Return("INCOMPLETE")
  /\ UNCHANGED <<gatedMode, ring, shared, search, internalState, progress, utt, result,
                 session, audio>>

Search == utt' = Advanced(utt) /\ processed' = processed + 1

(* CA_MakePatternFrame refuses when there is no frame. *)
Process ==
  /\ pc = "process" /\ frames >= BgSniff
  /\ IF utt.ahead = 0
     THEN internalState' = "END" /\ Fail("NO_MATCH") /\ UNCHANGED <<utt, processed>>
     ELSE Search /\ Goto("inputCheck") /\ UNCHANGED internalState
  /\ UNCHANGED <<gatedMode, ring, shared, search, frames, result, session, audio>>

(* The end of speech has been recognized. *)
SpeechEnds == /\ internalState' = "EOS" /\ isRecognizing' = FALSE
              /\ Return("END_OF_VOICING")

(* detectEndOfSpeech: by level, or by what the search says. *)
EndOfSpeechOr(state, recognizing) ==
  \/ SpeechEnds
  \/ /\ ~utt.ended
     /\ internalState' = state /\ isRecognizing' = recognizing
     /\ Return("INCOMPLETE")

InputCheck ==
  /\ pc = "inputCheck" /\ lock = "free"
  /\ IF ~(gotLastFrame /\ ShortOfAudio) THEN EndOfSpeechOr(internalState, isRecognizing)
     ELSE IF utt.ahead > 0 THEN EndOfSpeechOr("EOI", FALSE)
     ELSE SpeechEnds
  /\ UNCHANGED <<gatedMode, ring, shared, is_running, progress, utt, result, session, audio>>

(* generatePatternFromFrameEOI: the input has ended, frames may be left. *)
NothingLeft ==
  /\ pc = "eoi" /\ utt.ahead = 0
  /\ internalState' = "EOS"
  /\ Return("END_OF_VOICING")
  /\ UNCHANGED <<gatedMode, ring, shared, search, progress, utt, result, session, audio>>

ProcessLeft ==
  /\ pc = "eoi" /\ utt.ahead > 0
  /\ Search
  /\ Goto("eoiCheck")
  /\ UNCHANGED <<gatedMode, ring, shared, search, internalState, frames, result, session, audio>>

LeftCheck ==
  /\ pc = "eoiCheck" /\ lock = "free"
  /\ IF utt.ahead > 0 THEN EndOfSpeechOr("EOI", isRecognizing)
     ELSE internalState' = "EOS" /\ UNCHANGED isRecognizing /\ Return("END_OF_VOICING")
  /\ UNCHANGED <<gatedMode, ring, shared, is_running, progress, utt, result, session, audio>>
-----------------------------------------------------------------------------
(* The EOS case: CircularBufferReset, SR_RecognizerCreateResultImpl         *)

ResetRing ==
  /\ pc = "resetRing" /\ lock = "free"
  /\ size' = 0
  /\ Goto("createResult")
  /\ UNCHANGED <<gatedMode, lock, shared, search, internalState, progress, utt, result,
                 session, audio>>

(* Faulty, used by no action: the input left unlocked at the end of the utterance. *)
CreateUnlocked ==
  /\ pc = "createResult"
  /\ IF is_running
     THEN /\ is_running' = FALSE /\ internalState' = "END"
          /\ \E s \in {"RECOGNITION_RESULT", "NO_MATCH"} : Return(s)
     ELSE Fail(status) /\ UNCHANGED <<is_running, internalState>>
  /\ UNCHANGED <<gatedMode, ring, shared, isRecognizing, progress, utt, result, session,
                 audio>>

(* CA_EndRecognition refuses a search that is not running. *)
CreateResult ==
  /\ pc = "createResult"
  /\ utt' = Locked(utt)
  /\ IF is_running
     THEN /\ is_running' = FALSE /\ internalState' = "END"
          /\ \E s \in {"RECOGNITION_RESULT", "NO_MATCH"} : Return(s)
     ELSE Fail(status) /\ UNCHANGED <<is_running, internalState>>
  /\ UNCHANGED <<gatedMode, ring, shared, isRecognizing, progress, result, session, audio>>
-----------------------------------------------------------------------------
(* The application: SR_RecognizerStop *)

StopUnstarted ==
  /\ pc = "idle" /\ session # "closed" /\ ~isStarted
  /\ session' = "closed"
  /\ pc' = "idle" /\ rc' = "SUCCESS" /\ UNCHANGED status
  /\ UNCHANGED <<gatedMode, ring, shared, search, internalState, progress, utt, result, audio>>

(* Faulty, used by no action: a stop that does not end the search. *)
StopLeavesSearch ==
  /\ utt' = IF internalState = "END" THEN utt ELSE Locked(utt)
  /\ internalState' = "END"
  /\ UNCHANGED is_running

StopSearch ==
  /\ utt' = IF internalState = "END" THEN utt ELSE Locked(utt)
  /\ is_running' = IF internalState \in Searching THEN FALSE ELSE is_running
  /\ internalState' = "END"

Stop ==
  /\ pc = "idle" /\ session # "closed" /\ isStarted
  /\ StopSearch
  /\ session' = "closed"
  /\ Goto("stopReset")
  /\ UNCHANGED <<gatedMode, ring, shared, isRecognizing, progress, result, audio>>

(* Faulty, used by no action: a stop that leaves the audio in the ring. *)
StopKeepsAudio ==
  /\ pc = "stopReset" /\ lock = "free"
  /\ utt' = Flushed(utt)
  /\ result' = FALSE
  /\ Goto("stopFinish")
  /\ UNCHANGED <<gatedMode, ring, shared, search, internalState, progress, session, audio>>

(* The ring is emptied in one locked section, the frames are flushed, the   *)
(* result destroyed, and only then is the recognizer closed to PutAudio.    *)
StopReset ==
  /\ pc = "stopReset" /\ lock = "free"
  /\ size' = 0
  /\ utt' = Flushed(utt)
  /\ result' = FALSE
  /\ Goto("stopFinish")
  /\ UNCHANGED <<gatedMode, lock, shared, search, internalState, progress, session, audio>>

StopFinish ==
  /\ pc = "stopFinish" /\ lock = "free"
  /\ gotLastFrame' = TRUE /\ isStarted' = FALSE /\ isRecognizing' = FALSE
  /\ pc' = "idle" /\ rc' = "SUCCESS" /\ UNCHANGED status
  /\ UNCHANGED <<gatedMode, ring, is_running, internalState, progress, utt, result,
                 session, audio>>
-----------------------------------------------------------------------------
StartCall == StartWithoutSetup \/ StartWithoutLog \/ Start

AdvanceCall == \/ AdvanceBegin \/ AdvanceListening \/ AdvanceUngated
               \/ AdvanceEOI \/ AdvanceEOS \/ AdvanceEnd

StopCall == StopUnstarted \/ Stop

(* A call the application has made goes on. *)
Proceed == \/ NeedMoreAudio \/ EndOfInput \/ EndOfInputBeforeSpeech \/ Pushable
           \/ LeaveAudio \/ ReadAudio \/ Listen
           \/ BackgroundUnknown \/ Process \/ InputCheck
           \/ NothingLeft \/ ProcessLeft \/ LeftCheck
           \/ ResetRing \/ CreateResult \/ StopReset \/ StopFinish

AudioCall == \E n \in PutSizes, isLast \in BOOLEAN : PutAudio(n, isLast)

Next == StartCall \/ AdvanceCall \/ StopCall \/ Proceed \/ AudioCall \/ PutLast

(* The application goes on with what it has called, and keeps advancing an  *)
(* open recognizer; both threads finish their calls.  Nobody has to bring   *)
(* audio, start or stop.                                                    *)
Fairness == WF_vars(AdvanceCall \/ Proceed) /\ WF_vars(PutLast)

Spec == Init /\ [][Next]_vars /\ Fairness
-----------------------------------------------------------------------------
TypeOK == /\ gatedMode \in BOOLEAN
          /\ lock \in {"free", "leaked"} /\ size \in 0 .. Capacity
          /\ isStarted \in BOOLEAN /\ gotLastFrame \in BOOLEAN
          /\ isRecognizing \in BOOLEAN /\ is_running \in BOOLEAN
          /\ internalState \in States
          /\ frames \in Nat /\ processed \in Nat
          /\ utt \in Window
          /\ result \in BOOLEAN
          /\ session \in {"closed", "open", "failed"}
          /\ pc \in Sections /\ status \in Status
          /\ rc \in {"SUCCESS", "INVALID_STATE"}
          /\ put \in {"idle", "last"} /\ putRc \in {"SUCCESS", "INVALID_STATE"}
          /\ lastTaken \in BOOLEAN

(* The search runs exactly while the internal state says that it does, so   *)
(* that SR_RecognizerStop and CreateResult never end a search that is not   *)
(* running, and none is left running (CA_EndRecognition at lines 1138, 1157,*)
(* 1176 and 1993 fails otherwise, CA_BeginRecognition asserts).             *)
RunningMatchesState == is_running <=> internalState \in Searching

(* Input is unlocked exactly from Start to the end of the utterance: the    *)
(* assertions of CA_UnlockUtteranceForInput and CA_LockUtteranceFromInput   *)
(* (utt_basi.c:159 and 174) hold on every path, the stop made inside        *)
(* Advance, and a Stop and another Start after one that failed, included.   *)
CollectingMatchesState == utt.active <=> (isStarted /\ internalState # "END")

(* Every frame made since the search began is either searched or still in   *)
(* the window: none is lost at a wind-back, a refused push or the end of    *)
(* input.  passert(processed == frames) at lines 2870, 2904 and 2949 is the *)
(* case of an empty window.                                                 *)
FramesAccounted == internalState \in Searching => frames = processed + utt.ahead

(* No Advance of a started recognizer fails: the audio found under one lock *)
(* (line 2612) is still there under the next (line 2674), a frame is there  *)
(* whenever one is taken (2792, 2807, 3139), and the search that is ended   *)
(* is running (1993).                                                       *)
AdvanceNeverFails == session = "open" => rc = "SUCCESS"

(* The recognizer that is listening has no frame waiting when a call        *)
(* begins, so that starting the search without speech (line 3241) forgets   *)
(* no frame when it sets frames to zero.                                    *)
ListeningKeepsUp ==
  (session = "open" /\ internalState = "BOS_DETECTION" /\ pc = "idle") => utt.ahead = 0

(* While the application keeps advancing, an accepted last frame ends the   *)
(* utterance: whatever waits in the ring and in the window is consumed,     *)
(* unless the application stops.                                            *)
LastFrameEndsUtterance ==
  (lastTaken /\ session = "open") ~> (internalState = "END" \/ session # "open")
-----------------------------------------------------------------------------
(* Statements of the interface's documentation that the code does not keep. *)

(* SR_Recognizer.h:801: "The recognizer may be advanced independently of    *)
(* the Recognizer_PutAudio call": a call of Advance or Stop returns.        *)
CallsReturn == pc # "idle" ~> pc = "idle"

(* SR_Recognizer.h:788: "isLast Indicates if the audio frame is the last    *)
(* one in this recognition": a recognition that was given no last frame     *)
(* has not got one.                                                         *)
LastFrameBelongs == (isStarted /\ gotLastFrame) => lastTaken
=============================================================================
