--------------------------- MODULE FeedLoopProofs ---------------------------
(***************************************************************************)
(* The session of RecognizerImpl.c keeps its flags, its search and its     *)
(* frames together, whatever the ring, the window, the parameters, the     *)
(* audio and the interleaving of the two threads.                          *)
(*                                                                         *)
(* Under its client of one thread no call of one meets a call of the       *)
(* other, so that what the recognizer leaves to two careful threads holds  *)
(* too; and the ring is large enough for buffers in proportion to it.      *)
(***************************************************************************)
EXTENDS FeedLoop, FrameOpsProofs

-----------------------------------------------------------------------------
(* The recognizer and its audio thread. *)

Types == /\ size \in Nat /\ size <= Capacity
         /\ isStarted \in BOOLEAN /\ gotLastFrame \in BOOLEAN
         /\ isRecognizing \in BOOLEAN /\ is_running \in BOOLEAN
         /\ internalState \in States
         /\ frames \in Nat /\ processed \in Nat
         /\ utt \in GoodWindow
         /\ session \in {"closed", "open", "failed"}
         /\ pc \in Sections

(* What the internal state is in each section of a call. *)
SectionState ==
  /\ pc \in {"canPush", "push"} => internalState \in {"BOS_DETECTION", "EOS_DETECTION"}
  /\ pc = "listen" => internalState = "BOS_DETECTION"
  /\ pc \in {"process", "inputCheck"} => internalState = "EOS_DETECTION"
  /\ pc \in {"eoi", "eoiCheck"} => internalState = "EOI"
  /\ pc \in {"resetRing", "createResult"} => internalState = "EOS"
  /\ pc \in {"stopReset", "stopFinish"} => internalState = "END"

(* A recognizer that is not started rests at one end of its life, with      *)
(* nothing in the window; Advance of one that was stopped from inside finds *)
(* END.                                                                     *)
Resting ==
  /\ ~isStarted => internalState \in {"BEGIN", "END"}
  /\ (~isStarted /\ session = "open") => internalState = "END"
  /\ (pc = "idle" /\ session = "closed") => ~isStarted
  /\ (pc = "idle" /\ session = "failed" /\ isStarted) => internalState = "BEGIN"
  /\ pc \notin {"idle", "stopReset", "stopFinish"} => (session = "open" /\ isStarted)
  /\ (~isStarted \/ internalState = "BEGIN" \/ pc = "stopFinish") => utt.ahead = 0

(* What a section found is still there in the next one. *)
StillThere ==
  /\ pc = "push" => size >= FrameSize
  /\ pc = "listen" => utt.ahead = 1
  /\ pc = "process" => utt.ahead > 0
  /\ (internalState = "BOS_DETECTION" /\ pc \in {"idle", "canPush", "push"}) => utt.ahead = 0

Inv == /\ Types
       /\ SectionState
       /\ Resting
       /\ StillThere
       /\ RunningMatchesState
       /\ CollectingMatchesState
       /\ FramesAccounted
       /\ AdvanceNeverFails

(* Every call keeps Inv.  Inv and the groups of variables are expanded, the  *)
(* operators on the window stay folded: their lemmas say what they do.      *)
LEMMA StartStep == ASSUME Inv, StartCall PROVE Inv'
<1> USE DEF Inv, Types, SectionState, Resting, StillThere, RunningMatchesState,
            CollectingMatchesState, FramesAccounted, AdvanceNeverFails,
            States, Searching, Sections,
            ring, shared, search, progress, returned, audio
<1>1. CASE StartWithoutSetup
  BY <1>1 DEF StartWithoutSetup, StartFails
<1>2. CASE StartWithoutLog
  BY <1>2, FramesAssumption, BegunFacts DEF StartWithoutLog, StartFails, Listening
<1>3. CASE Start
  BY <1>3, FramesAssumption, BegunFacts DEF Start, Listening
<1>4. QED
  BY <1>1, <1>2, <1>3 DEF StartCall

(* Advance up to its first section *)
LEMMA AdvanceStep == ASSUME Inv, AdvanceCall PROVE Inv'
<1> USE DEF Inv, Types, SectionState, Resting, StillThere, RunningMatchesState,
            CollectingMatchesState, FramesAccounted, AdvanceNeverFails,
            States, Searching, Sections,
            ring, shared, search, progress, returned, audio
<1>1. CASE AdvanceBegin
  BY <1>1 DEF AdvanceBegin, Advancing, Return
<1>2. CASE AdvanceListening
  BY <1>2 DEF AdvanceListening, Advancing
<1>3. CASE AdvanceUngated
  BY <1>3 DEF AdvanceUngated, Advancing, BeginRecognizing, Return
<1>4. CASE AdvanceEOI
  BY <1>4 DEF AdvanceEOI, AdvanceTo, Advancing
<1>5. CASE AdvanceEOS
  BY <1>5 DEF AdvanceEOS, AdvanceTo, Advancing
<1>6. CASE AdvanceEnd
  BY <1>6 DEF AdvanceEnd, Advancing, Return
<1>7. QED
  BY <1>1, <1>2, <1>3, <1>4, <1>5, <1>6 DEF AdvanceCall

LEMMA StopStep == ASSUME Inv, StopCall PROVE Inv'
<1> USE DEF Inv, Types, SectionState, Resting, StillThere, RunningMatchesState,
            CollectingMatchesState, FramesAccounted, AdvanceNeverFails,
            States, Searching, Sections,
            ring, shared, search, progress, returned, audio
<1>1. CASE StopUnstarted
  BY <1>1 DEF StopUnstarted
<1>2. CASE Stop
  BY <1>2, LockedFacts DEF Stop, StopSearch, Goto
<1>3. QED
  BY <1>1, <1>2 DEF StopCall

(* The sections of Advance and Stop after the first *)
LEMMA ProceedStep == ASSUME Inv, Proceed PROVE Inv'
<1> USE DEF Inv, Types, SectionState, Resting, StillThere, RunningMatchesState,
            CollectingMatchesState, FramesAccounted, AdvanceNeverFails,
            States, Searching, Sections,
            ring, shared, search, progress, returned, audio
<1>1. CASE NeedMoreAudio
  BY <1>1, Counts DEF NeedMoreAudio, Checking, Return, Goto, Onward
<1>2. CASE EndOfInput
  BY <1>2 DEF EndOfInput, Checking, Goto
<1>3. CASE EndOfInputBeforeSpeech
  BY <1>3, LockedFacts DEF EndOfInputBeforeSpeech, Checking, StopInside
<1>4. CASE Pushable
  BY <1>4, RingAssumption DEF Pushable, Checking, ShortOfAudio, Goto
<1>5. CASE LeaveAudio
  BY <1>5, Counts DEF LeaveAudio, Sated, Goto, Onward
<1>6. CASE ReadAudio
  BY <1>6, RingAssumption, PushedFacts, Counts
     DEF ReadAudio, FrameDropped, FrameMade, Lesser, Fail, Return, Goto, Onward
<1>7. CASE Listen
  <2>1. utt.ahead = 1 /\ utt \in GoodWindow /\ pc = "listen"
    BY <1>7 DEF Listen
  <2> DEFINE w == Advanced(utt)
  <2>2. w \in GoodWindow /\ w.active = utt.active /\ w.ahead = 0
    BY <2>1, AdvancedFacts
  <2>3. CASE SpeechBegins /\ gatedMode
    <3>1. utt' \in GoodWindow /\ utt'.active = utt.active /\ frames' = utt'.ahead
      <4> HIDE DEF w
      <4>1. utt' \in Sought(w) /\ frames' = utt'.ahead
        BY <2>3 DEF SpeechBegins, w
      <4>2. QED
        BY <4>1, <2>2, SoughtFacts
    <3>2. utt'.ahead \in Nat
      BY <3>1, Counts
    <3>3. QED
      BY <1>7, <2>1, <2>3, <3>1, <3>2 DEF Listen, SpeechBegins, BeginRecognizing, Return
  <2>4. CASE SpeechBegins /\ ~gatedMode
    BY <1>7, <2>1, <2>2, <2>4 DEF Listen, SpeechBegins, BeginRecognizing, Return
  <2>5. CASE NoSpeechYet
    BY <1>7, <2>1, <2>2, <2>5 DEF Listen, NoSpeechYet, Silent, Return
  <2>6. CASE SpeechTimeout
    BY <1>7, <2>1, <2>2, <2>6, LockedFacts DEF Listen, SpeechTimeout, Silent, StopInside
  <2>7. QED
    BY <1>7, <2>1, <2>3, <2>4, <2>5, <2>6 DEF Listen
<1>8. CASE BackgroundUnknown
  BY <1>8 DEF BackgroundUnknown, Return
<1>9. CASE Process
  BY <1>9, AdvancedFacts, Counts DEF Process, Search, Fail, Goto
<1>10. CASE InputCheck
  BY <1>10 DEF InputCheck, EndOfSpeechOr, SpeechEnds, Return
<1>11. CASE NothingLeft
  BY <1>11 DEF NothingLeft, Return
<1>12. CASE ProcessLeft
  BY <1>12, AdvancedFacts, Counts DEF ProcessLeft, Search, Goto
<1>13. CASE LeftCheck
  BY <1>13 DEF LeftCheck, EndOfSpeechOr, SpeechEnds, Return
<1>14. CASE ResetRing
  BY <1>14, RingAssumption DEF ResetRing, Goto
<1>15. CASE CreateResult
  BY <1>15, LockedFacts DEF CreateResult, Fail, Return
<1>16. CASE StopReset
  BY <1>16, RingAssumption, FlushedFacts DEF StopReset, Goto
<1>17. CASE StopFinish
  BY <1>17 DEF StopFinish
<1>18. QED
  BY <1>1, <1>2, <1>3, <1>4, <1>5, <1>6, <1>7, <1>8, <1>9,
     <1>10, <1>11, <1>12, <1>13, <1>14, <1>15, <1>16, <1>17 DEF Proceed

(* The audio thread, at any point of a call of the other one *)
LEMMA AudioStep == ASSUME Inv, AudioCall \/ PutLast PROVE Inv'
<1> USE DEF Inv, Types, SectionState, Resting, StillThere, RunningMatchesState,
            CollectingMatchesState, FramesAccounted, AdvanceNeverFails,
            States, Searching, Sections,
            ring, shared, search, progress, returned, audio
<1>1. ASSUME NEW n \in PutSizes, NEW isLast \in BOOLEAN, PutAudio(n, isLast) PROVE Inv'
  BY <1>1, AudioAssumption, RingAssumption DEF PutAudio, PutRefused, PutOverflow, PutAccepted
<1>2. CASE PutLast
  BY <1>2 DEF PutLast
<1>3. QED
  BY <1>1, <1>2 DEF AudioCall

LEMMA SessionInit == ASSUME Init PROVE Inv
<1>1. utt \in GoodWindow /\ utt.ahead = 0 /\ ~utt.active
  BY ClearedFacts DEF Init
<1>2. Types
  <2>1. size \in Nat /\ size <= Capacity /\ frames \in Nat /\ processed \in Nat
    BY RingAssumption DEF Init
  <2>2. /\ isStarted \in BOOLEAN /\ gotLastFrame \in BOOLEAN
        /\ isRecognizing \in BOOLEAN /\ is_running \in BOOLEAN
    BY DEF Init
  <2>3. internalState \in States /\ session \in {"closed", "open", "failed"} /\ pc \in Sections
    BY DEF Init, States, Sections
  <2>4. QED
    BY <1>1, <2>1, <2>2, <2>3 DEF Types
<1>3. QED
  BY <1>1, <1>2
     DEF Init, Inv, SectionState, Resting, StillThere, RunningMatchesState,
         CollectingMatchesState, FramesAccounted, AdvanceNeverFails, Searching

(* The inductive invariant.  RunningMatchesState and the others are not      *)
(* inductive alone: what a step may do depends on the section its call has  *)
(* reached, and on what the section before it found.                        *)
THEOREM SessionInvariant == Spec => []Inv
<1>1. Init => Inv
  BY SessionInit
<1>2. Inv /\ [Next]_vars => Inv'
  <2> SUFFICES ASSUME Inv, [Next]_vars PROVE Inv'
    OBVIOUS
  <2>1. CASE UNCHANGED vars
    BY <2>1 DEF vars, ring, shared, search, progress, returned, audio, Inv, Types,
                SectionState, Resting, StillThere, RunningMatchesState,
                CollectingMatchesState, FramesAccounted, AdvanceNeverFails
  <2>2. QED
    BY <2>1, StartStep, AdvanceStep, StopStep, ProceedStep, AudioStep DEF Next
<1>3. QED
  BY <1>1, <1>2, PTL DEF Spec

(* What the calls answer, and what the invariant above does not need. *)
Answers == /\ lock \in {"free", "leaked"}
           /\ result \in BOOLEAN /\ lastTaken \in BOOLEAN
           /\ status \in Status
           /\ rc \in {"SUCCESS", "INVALID_STATE"}
           /\ put \in {"idle", "last"} /\ putRc \in {"SUCCESS", "INVALID_STATE"}

LEMMA AnswersStep == ASSUME Answers, Next PROVE Answers'
<1> USE DEF Answers, Status, ring, shared, search, progress, returned, audio, Return, Fail, Goto
<1>1. CASE StartCall
  BY <1>1 DEF StartCall, StartWithoutSetup, StartWithoutLog, Start, StartFails, Listening
<1>2. CASE AdvanceCall
  BY <1>2 DEF AdvanceCall, AdvanceBegin, AdvanceListening, AdvanceUngated, AdvanceEOI,
              AdvanceEOS, AdvanceEnd, AdvanceTo, Advancing
<1>3. CASE StopCall
  BY <1>3 DEF StopCall, StopUnstarted, Stop
<1>4. CASE Proceed
  <2>1. CASE NeedMoreAudio \/ EndOfInput \/ EndOfInputBeforeSpeech \/ Pushable \/ LeaveAudio
    BY <2>1 DEF NeedMoreAudio, EndOfInput, EndOfInputBeforeSpeech, StopInside, Pushable,
                LeaveAudio
  <2>2. CASE ReadAudio \/ Listen \/ BackgroundUnknown \/ Process
    BY <2>2 DEF ReadAudio, FrameDropped, FrameMade, Listen, SpeechBegins, NoSpeechYet,
                SpeechTimeout, StopInside, BackgroundUnknown, Process
  <2>3. CASE InputCheck \/ NothingLeft \/ ProcessLeft \/ LeftCheck
    BY <2>3 DEF InputCheck, EndOfSpeechOr, SpeechEnds, NothingLeft, ProcessLeft, LeftCheck
  <2>4. CASE ResetRing \/ CreateResult \/ StopReset \/ StopFinish
    BY <2>4 DEF ResetRing, CreateResult, StopReset, StopFinish
  <2>5. QED
    BY <1>4, <2>1, <2>2, <2>3, <2>4 DEF Proceed
<1>5. CASE AudioCall
  BY <1>5 DEF AudioCall, PutAudio, PutRefused, PutOverflow, PutAccepted
<1>6. CASE PutLast
  BY <1>6 DEF PutLast
<1>7. QED
  BY <1>1, <1>2, <1>3, <1>4, <1>5, <1>6 DEF Next

(* The mode is read once and never changes. *)
LEMMA ModeStep == ASSUME Next PROVE gatedMode' = gatedMode
<1>1. CASE StartCall \/ AdvanceCall \/ StopCall
  BY <1>1 DEF StartCall, StartWithoutSetup, StartWithoutLog, Start, AdvanceCall, AdvanceBegin,
              AdvanceListening, AdvanceUngated, AdvanceEOI, AdvanceEOS, AdvanceEnd, AdvanceTo,
              StopCall, StopUnstarted, Stop
<1>2. CASE Proceed
  BY <1>2 DEF Proceed, NeedMoreAudio, EndOfInput, EndOfInputBeforeSpeech, Pushable, LeaveAudio,
              ReadAudio, Listen, BackgroundUnknown, Process, InputCheck, NothingLeft,
              ProcessLeft, LeftCheck, ResetRing, CreateResult, StopReset, StopFinish
<1>3. CASE AudioCall \/ PutLast
  BY <1>3 DEF AudioCall, PutAudio, PutLast
<1>4. QED
  BY <1>1, <1>2, <1>3 DEF Next

Typed == Answers /\ gatedMode \in BOOLEAN

(* Every variable keeps its type: the window's counts stay within the stack *)
(* and the ring's within its capacity under every interleaving.             *)
THEOREM TypeCorrect == Spec => []TypeOK
<1>1. Init => Typed
  <2>1. Init => gatedMode \in BOOLEAN
    BY ModesAssumption DEF Init
  <2>2. Init => Answers
    BY DEF Init, Answers, Status
  <2>3. QED
    BY <2>1, <2>2 DEF Typed
<1>2. Typed /\ [Next]_vars => Typed'
  <2>1. CASE UNCHANGED vars
    BY <2>1 DEF vars, ring, returned, audio, Typed, Answers
  <2>2. CASE Next
    BY <2>2, AnswersStep, ModeStep DEF Typed
  <2>3. QED
    BY <2>1, <2>2
<1>3. Inv /\ Typed => TypeOK
  <2> SUFFICES ASSUME Inv, Typed PROVE TypeOK
    OBVIOUS
  <2>1. utt \in Window
    BY DEF Inv, Types, GoodWindow
  <2>2. size \in 0 .. Capacity
    BY RingAssumption DEF Inv, Types
  <2>3. QED
    BY <2>1, <2>2 DEF Inv, Types, Typed, Answers, TypeOK
<1>4. QED
  BY <1>1, <1>2, <1>3, SessionInvariant, PTL DEF Spec

(* No stop and no result ends a search that is not running, and none is     *)
(* left running.                                                            *)
THEOREM SearchRunsAsStated == Spec => []RunningMatchesState
BY SessionInvariant, PTL DEF Inv

(* The assertions on the utterance's input lock hold on every path.         *)
THEOREM InputLockedAsStated == Spec => []CollectingMatchesState
BY SessionInvariant, PTL DEF Inv

(* No frame of an utterance is lost between making and searching it.        *)
THEOREM NoFrameLost == Spec => []FramesAccounted
BY SessionInvariant, PTL DEF Inv

(* What Advance finds under one lock is still there under the next, for     *)
(* every ring and every interleaving of PutAudio.                           *)
THEOREM AdvanceKeepsGoing == Spec => []AdvanceNeverFails
BY SessionInvariant, PTL DEF Inv

(* Outside gated mode no waiting frame is forgotten when the search starts. *)
THEOREM ListeningAlwaysKeepsUp == Spec => []ListeningKeepsUp
<1>1. Inv => ListeningKeepsUp
  BY DEF Inv, StillThere, ListeningKeepsUp
<1>2. QED
  BY <1>1, SessionInvariant, PTL

-----------------------------------------------------------------------------
(* The client of one thread. *)

(* Every step of the client is a step of the recognizer. *)
LEMMA ClientStep == ASSUME FeedNext PROVE Next
<1>1. CASE FeedStart
  BY <1>1 DEF FeedStart, Next
<1>2. CASE \E n \in PutSizes, eof \in BOOLEAN : FeedPut(n, eof)
  BY <1>2 DEF FeedPut, AudioCall, Next
<1>3. CASE FeedPutLast
  BY <1>3 DEF FeedPutLast, Next
<1>4. CASE FeedAdvance \/ FlushAdvance
  BY <1>4 DEF FeedAdvance, FlushAdvance, Advances, Next
<1>5. CASE FeedStop
  BY <1>5 DEF FeedStop, Next
<1>6. QED
  BY <1>1, <1>2, <1>3, <1>4, <1>5 DEF FeedNext

(* The recognizer's invariant holds under the client, with a weaker proof   *)
(* obligation on fairness than its own specification has.                   *)
LEMMA SessionStep == ASSUME Inv, [FeedNext]_feedVars PROVE Inv'
<1>1. CASE FeedNext
  <2>1. Next
    BY <1>1, ClientStep
  <2>2. QED
    BY <2>1, StartStep, AdvanceStep, StopStep, ProceedStep, AudioStep DEF Next
<1>2. CASE UNCHANGED feedVars
  BY <1>2 DEF feedVars, vars, ring, shared, search, progress, returned, audio, Inv, Types,
              SectionState, Resting, StillThere, RunningMatchesState,
              CollectingMatchesState, FramesAccounted, AdvanceNeverFails
<1>3. QED
  BY <1>1, <1>2

(* The client makes one call at a time: it puts audio between two calls of   *)
(* the application, and the mark of the last frame is set before the next.   *)
OneCall == /\ put \in {"idle", "last"}
           /\ put = "last" => (client = "advance" /\ pc = "idle" /\ lastTaken)
           /\ client \in {"start", "feed"} => pc = "idle"
           /\ pc # "idle" => isStarted

Cleared == size = 0 /\ utt.ahead + utt.behind = 0

(* From the reset of a stop to the next start nothing comes in. *)
Fresh == /\ pc = "stopFinish" => Cleared
         /\ FreshRing
         /\ LastFrameBelongs

Alone == OneCall /\ Fresh

(* What the sections of a call leave alone. *)
LEMMA AdvanceCallKeeps ==
  ASSUME AdvanceCall
  PROVE  /\ UNCHANGED <<lock, size, isStarted, gotLastFrame, utt, put, putRc, lastTaken, session>>
         /\ pc = "idle" /\ pc' \in {"idle", "canPush", "eoi", "resetRing"}
         /\ pc' # "idle" => internalState # "END"
<1> USE DEF ring, shared, search, progress, audio, Return
<1>1. CASE AdvanceBegin \/ AdvanceListening \/ AdvanceUngated \/ AdvanceEnd
  BY <1>1 DEF AdvanceBegin, AdvanceListening, AdvanceUngated, AdvanceEnd, Advancing
<1>2. CASE AdvanceEOI \/ AdvanceEOS
  BY <1>2 DEF AdvanceEOI, AdvanceEOS, AdvanceTo, Advancing
<1>3. QED
  BY <1>1, <1>2 DEF AdvanceCall

LEMMA ProceedKeeps ==
  ASSUME Proceed
  PROVE  UNCHANGED <<lock, put, putRc, lastTaken, session>> /\ pc # "idle"
<1> USE DEF ring, shared, search, progress, audio
<1>1. CASE NeedMoreAudio \/ EndOfInput \/ EndOfInputBeforeSpeech \/ Pushable \/ LeaveAudio
  BY <1>1 DEF NeedMoreAudio, EndOfInput, EndOfInputBeforeSpeech, Pushable, LeaveAudio, Checking
<1>2. CASE ReadAudio \/ Listen \/ BackgroundUnknown \/ Process
  BY <1>2 DEF ReadAudio, Listen, BackgroundUnknown, Process
<1>3. CASE InputCheck \/ NothingLeft \/ ProcessLeft \/ LeftCheck
  BY <1>3 DEF InputCheck, NothingLeft, ProcessLeft, LeftCheck
<1>4. CASE ResetRing \/ CreateResult \/ StopReset \/ StopFinish
  BY <1>4 DEF ResetRing, CreateResult, StopReset, StopFinish
<1>5. QED
  BY <1>1, <1>2, <1>3, <1>4 DEF Proceed

(* Only the last two sections of a stop touch what the next start finds. *)
LEMMA ProceedStarted ==
  ASSUME Inv, isStarted, Proceed, ~StopReset, ~StopFinish
  PROVE  /\ UNCHANGED <<isStarted, gotLastFrame>>
         /\ pc' # "stopFinish"
<1> USE DEF ring, shared, search, progress, audio, Return, Fail, Goto
<1>1. CASE NeedMoreAudio \/ EndOfInput \/ EndOfInputBeforeSpeech \/ Pushable \/ LeaveAudio
  BY <1>1 DEF NeedMoreAudio, EndOfInput, EndOfInputBeforeSpeech, Pushable, LeaveAudio,
              StopInside, Onward
<1>2. CASE ReadAudio \/ Listen \/ BackgroundUnknown \/ Process
  BY <1>2 DEF ReadAudio, FrameDropped, FrameMade, Listen, SpeechBegins, NoSpeechYet,
              SpeechTimeout, StopInside, BackgroundUnknown, Process, Onward
<1>3. CASE InputCheck \/ NothingLeft \/ ProcessLeft \/ LeftCheck
  BY <1>3 DEF InputCheck, NothingLeft, ProcessLeft, LeftCheck, EndOfSpeechOr, SpeechEnds
<1>4. CASE ResetRing \/ CreateResult
  BY <1>4 DEF ResetRing, CreateResult
<1>5. QED
  BY <1>1, <1>2, <1>3, <1>4 DEF Proceed

LEMMA FlushedEmpty ==
  ASSUME NEW w \in GoodWindow PROVE Flushed(w).ahead = 0 /\ Flushed(w).behind = 0
<1>1. 0 \in Nat /\ 0 + 0 <= StackSize - 1
  BY StackAssumption
<1>2. QED
  BY <1>1, SizedFacts DEF Flushed

LEMMA StartKeeps ==
  ASSUME Inv, Alone, FeedStart
  PROVE  Alone'
<1> USE DEF Inv, Types, Resting, Alone, OneCall, Fresh, Cleared, FreshRing, LastFrameBelongs,
            FeedStart, ring, shared, search, progress, audio
<1>1. CASE StartWithoutSetup
  BY <1>1 DEF StartWithoutSetup, StartFails
<1>2. CASE StartWithoutLog
  BY <1>2 DEF StartWithoutLog, StartFails, Listening
<1>3. CASE Start
  BY <1>3 DEF Start, Listening
<1>4. QED
  BY <1>1, <1>2, <1>3 DEF StartCall

LEMMA PutKeeps ==
  ASSUME Alone, NEW n \in PutSizes, NEW eof \in BOOLEAN, FeedPut(n, eof)
  PROVE  Alone'
BY DEF Alone, OneCall, Fresh, Cleared, FreshRing, LastFrameBelongs, FeedPut, PutAudio,
       PutRefused, PutOverflow, PutAccepted, ring, shared, search, progress, returned

LEMMA PutLastKeeps == ASSUME Alone, FeedPutLast PROVE Alone'
BY DEF Alone, OneCall, Fresh, Cleared, FreshRing, LastFrameBelongs, FeedPutLast, PutLast,
       clientVars, ring, shared, search, progress, returned

(* A call in progress keeps what the client alone sees; client' is anything *)
(* the client's loop makes of the answer.                                   *)
LEMMA CallKeeps ==
  ASSUME Inv, Alone, put = "idle", AdvanceCall \/ Proceed,
         client' \in {"start", "feed"} => pc' = "idle",
         client \in {"advance", "flush", "stop"}
  PROVE  Alone'
<1> USE DEF Alone, OneCall, Fresh, Cleared, FreshRing, LastFrameBelongs
<1>1. CASE AdvanceCall
  <2>1. pc' # "idle" => isStarted
    BY <1>1, AdvanceCallKeeps DEF Inv, Types, Resting, AdvanceCall, AdvanceBegin,
       AdvanceListening, AdvanceUngated, AdvanceEOI, AdvanceEOS, AdvanceEnd, AdvanceTo, Advancing, States
  <2>2. QED
    BY <1>1, <2>1, AdvanceCallKeeps
<1>2. CASE StopReset
  <2>1. utt' = Flushed(utt) /\ utt \in GoodWindow
    BY <1>2 DEF StopReset, Inv, Types
  <2>2. utt'.ahead + utt'.behind = 0
    BY <2>1, FlushedEmpty
  <2>3. QED
    BY <1>2, <2>2 DEF StopReset, Goto, ring, shared, audio
<1>3. CASE StopFinish
  BY <1>3 DEF StopFinish, ring, audio
<1>4. CASE Proceed /\ ~StopReset /\ ~StopFinish
  <2>1. isStarted
    BY <1>4, ProceedKeeps
  <2>2. QED
    BY <1>4, <2>1, ProceedStarted, ProceedKeeps
<1>5. QED
  BY <1>1, <1>2, <1>3, <1>4

LEMMA StopCallKeeps == ASSUME Inv, Alone, StopCall, FeedStop PROVE Alone'
<1> USE DEF Alone, OneCall, Fresh, Cleared, FreshRing, LastFrameBelongs, FeedStop, Returned,
            ring, shared, search, progress, audio
<1>1. CASE StopUnstarted
  BY <1>1 DEF StopUnstarted
<1>2. CASE Stop
  BY <1>2 DEF Stop, Goto
<1>3. QED
  BY <1>1, <1>2 DEF StopCall

(* What holds of the recognizer whose audio comes from the thread that      *)
(* advances it.  FreshRing alone is not inductive: the ring is emptied a    *)
(* section before the recognizer is closed, and LastFrameBelongs needs that *)
(* the mark is set between two calls.                                       *)
LEMMA AloneStep == ASSUME Inv, Alone, [FeedNext]_feedVars PROVE Alone'
<1>1. CASE FeedStart
  BY <1>1, StartKeeps
<1>2. CASE \E n \in PutSizes, eof \in BOOLEAN : FeedPut(n, eof)
  BY <1>2, PutKeeps
<1>3. CASE FeedPutLast
  BY <1>3, PutLastKeeps
<1>4. CASE FeedAdvance
  <2>1. client' \in {"start", "feed"} => pc' = "idle"
    BY <1>4 DEF FeedAdvance, AfterFeeding, Returned
  <2>2. QED
    BY <1>4, <2>1, CallKeeps DEF FeedAdvance, Advances
<1>5. CASE FlushAdvance
  <2>1. client' \in {"stop", "flush"}
    BY <1>5 DEF FlushAdvance, AfterFlushing
  <2>2. QED
    BY <1>5, <2>1, CallKeeps DEF FlushAdvance, Advances
<1>6. CASE FeedStop
  <2>1. CASE StopCall
    BY <1>6, <2>1, StopCallKeeps
  <2>2. CASE Proceed
    <3>1. put = "idle"
      BY <1>6 DEF FeedStop, Alone, OneCall
    <3>2. QED
      BY <1>6, <2>2, <3>1, CallKeeps DEF FeedStop, Returned
  <2>3. QED
    BY <1>6, <2>1, <2>2 DEF FeedStop
<1>7. CASE UNCHANGED feedVars
  BY <1>7 DEF Alone, OneCall, Fresh, Cleared, FreshRing, LastFrameBelongs, feedVars, clientVars,
              vars, ring, shared, returned, audio
<1>8. QED
  BY <1>1, <1>2, <1>3, <1>4, <1>5, <1>6, <1>7 DEF FeedNext

THEOREM ClientInvariant == FeedSpec => [](Inv /\ Alone)
<1>1. FeedInit => Inv /\ Alone
  <2> SUFFICES ASSUME FeedInit PROVE Inv /\ Alone
    OBVIOUS
  <2>1. Inv
    BY SessionInit DEF FeedInit
  <2>2. Alone
    BY DEF FeedInit, Init, ClearedWindow, Alone, OneCall, Fresh, Cleared, FreshRing, LastFrameBelongs
  <2>3. QED
    BY <2>1, <2>2
<1>2. Inv /\ Alone /\ [FeedNext]_feedVars => Inv' /\ Alone'
  BY SessionStep, AloneStep
<1>3. QED
  BY <1>1, <1>2, PTL DEF FeedSpec

(* The client is one of the recognizer's environments: what is proved of   *)
(* every environment's safety holds of it.                                  *)
THEOREM ClientIsAnEnvironment == FeedSpec => Init /\ [][Next]_vars
<1>1. FeedInit => Init
  BY DEF FeedInit
<1>2. [FeedNext]_feedVars => [Next]_vars
  BY ClientStep DEF feedVars
<1>3. QED
  BY <1>1, <1>2, PTL DEF FeedSpec

(* The client of one thread never starts an utterance on audio or frames of *)
(* the one before.                                                          *)
THEOREM StartsOnAFreshRing == FeedSpec => []FreshRing
<1>1. Alone => FreshRing
  BY DEF Alone, Fresh
<1>2. QED
  BY <1>1, ClientInvariant, PTL

(* Under it, the end of the input found by a recognition was put into that  *)
(* recognition: what a second thread may break (SR_Recognizer.h:788) holds. *)
THEOREM LastFrameIsItsOwn == FeedSpec => []LastFrameBelongs
<1>1. Alone => LastFrameBelongs
  BY DEF Alone, Fresh
<1>2. QED
  BY <1>1, ClientInvariant, PTL
-----------------------------------------------------------------------------
(* The size of the ring.  b bounds the buffers the client brings.  A buffer *)
(* is brought after each of the answers STARTED, START_OF_VOICING and       *)
(* END_OF_VOICING, which may leave audio in the ring, and after             *)
(* NEED_MORE_AUDIO, which leaves less than a frame; voicing is found after  *)
(* the hold-off, so that the audio of HoldOff + 1 frames has left the ring. *)

(* The units of k frames. *)
Units(k) == k * FrameSize

(* The ring holds a buffer on top of two, with the rest of a frame or with  *)
(* the unvoiced audio gone: the audio before speech, the audio the search   *)
(* has not taken, and the audio after the end of speech.                    *)
BuffersFit(b) == /\ \A n \in PutSizes : n <= b
                 /\ 3 * b - 1 <= Capacity
                 /\ FrameSize - 1 + 2 * b <= Capacity
                 /\ 4 * b <= Capacity + Units(HoldOff + 1)

(* gone frames of the hold-off have passed. *)
Gone == HoldOff - utt.holdOff

(* What s units are, before speech: the rest of a frame and what was put    *)
(* since, or what was put since the start less what was made into frames.   *)
BeforeSpeech(s, gone, b) == s <= FrameSize - 1 \/ s + Units(gone) <= b

OfferedBeforeSpeech(s, gone, b) == s <= FrameSize - 1 + b \/ s + Units(gone) <= 2 * b

(* The same, once the search runs. *)
InSpeech(s, b) == s <= FrameSize - 1 \/ s <= b - 1 \/ s + Units(HoldOff + 1) <= 2 * b

OfferedInSpeech(s, b) ==
  s <= FrameSize - 1 + b \/ s <= 2 * b - 1 \/ s + Units(HoldOff + 1) <= 3 * b

LEMMA UnitsFacts ==
  /\ Units(0) = 0
  /\ \A k \in Nat : Units(k) \in Nat /\ Units(k + 1) = Units(k) + FrameSize
<1>1. FrameSize \in Nat
  BY RingAssumption
<1>2. Units(0) = 0
  BY <1>1 DEF Units
<1>3. ASSUME NEW k \in Nat PROVE Units(k) \in Nat /\ Units(k + 1) = Units(k) + FrameSize
  <2>1. k * FrameSize \in Nat
    BY <1>1
  <2>2. (k + 1) * FrameSize = k * FrameSize + FrameSize
    BY <1>1
  <2>3. QED
    BY <2>1, <2>2 DEF Units
<1>4. QED
  BY <1>2, <1>3

(* A buffer put before speech fits, and is what the calls then find. *)
LEMMA PutBeforeSpeech ==
  ASSUME NEW s \in Nat, NEW g \in Nat, NEW n \in Nat, NEW b \in Nat, BuffersFit(b),
         n <= b, BeforeSpeech(s, g, b)
  PROVE  s + n <= Capacity /\ OfferedBeforeSpeech(s + n, g, b)
<1> DEFINE u == Units(g)
           h == Units(HoldOff + 1)
<1>1. u \in Nat /\ h \in Nat
  BY UnitsFacts, FramesAssumption
<1>2. FrameSize \in Nat /\ FrameSize > 0 /\ Capacity \in Nat
  BY RingAssumption
<1>3. 3 * b - 1 <= Capacity /\ FrameSize - 1 + 2 * b <= Capacity
  BY DEF BuffersFit
<1>4. s <= FrameSize - 1 \/ s + u <= b
  BY DEF BeforeSpeech
<1> HIDE DEF u, h
<1>5. s + n <= Capacity
  BY <1>1, <1>2, <1>3, <1>4
<1>6. s + n <= FrameSize - 1 + b \/ s + n + u <= 2 * b
  BY <1>1, <1>2, <1>4
<1>7. QED
  BY <1>5, <1>6 DEF OfferedBeforeSpeech, u

(* The same, while the search runs. *)
LEMMA PutInSpeech ==
  ASSUME NEW s \in Nat, NEW n \in Nat, NEW b \in Nat, BuffersFit(b), n <= b, InSpeech(s, b)
  PROVE  s + n <= Capacity /\ OfferedInSpeech(s + n, b)
<1> DEFINE h == Units(HoldOff + 1)
<1>1. h \in Nat
  BY UnitsFacts, FramesAssumption
<1>2. FrameSize \in Nat /\ FrameSize > 0 /\ Capacity \in Nat
  BY RingAssumption
<1>3. 3 * b - 1 <= Capacity /\ FrameSize - 1 + 2 * b <= Capacity /\ 4 * b <= Capacity + h
  BY DEF BuffersFit
<1>4. s <= FrameSize - 1 \/ s <= b - 1 \/ s + h <= 2 * b
  BY DEF InSpeech
<1> HIDE DEF h
<1>5. s + n <= Capacity
  BY <1>1, <1>2, <1>3, <1>4
<1>6. s + n <= FrameSize - 1 + b \/ s + n <= 2 * b - 1 \/ s + n + h <= 3 * b
  BY <1>1, <1>2, <1>4
<1>7. QED
  BY <1>5, <1>6 DEF OfferedInSpeech, h

(* A buffer put after the end of speech fits: the audio is dropped next. *)
LEMMA PutAfterSpeech ==
  ASSUME NEW s \in Nat, NEW n \in Nat, NEW b \in Nat, BuffersFit(b), n <= b, OfferedInSpeech(s, b)
  PROVE  s + n <= Capacity
<1> DEFINE h == Units(HoldOff + 1)
<1>1. h \in Nat
  BY UnitsFacts, FramesAssumption
<1>2. FrameSize \in Nat /\ FrameSize > 0 /\ Capacity \in Nat
  BY RingAssumption
<1>3. 3 * b - 1 <= Capacity /\ FrameSize - 1 + 2 * b <= Capacity /\ 4 * b <= Capacity + h
  BY DEF BuffersFit
<1>4. s <= FrameSize - 1 + b \/ s <= 2 * b - 1 \/ s + h <= 3 * b
  BY DEF OfferedInSpeech
<1> HIDE DEF h
<1>5. QED
  BY <1>1, <1>2, <1>3, <1>4

(* A frame's audio taken before speech: one frame of the hold-off passes at *)
(* most, and when it had passed the audio is what a search may find.        *)
LEMMA TakenBeforeSpeech ==
  ASSUME NEW s \in Nat, NEW g \in Nat, NEW b \in Nat, FrameSize <= s,
         OfferedBeforeSpeech(s, g, b)
  PROVE  /\ OfferedBeforeSpeech(s - FrameSize, g, b)
         /\ OfferedBeforeSpeech(s - FrameSize, g + 1, b)
         /\ g = HoldOff => InSpeech(s - FrameSize, b)
<1> DEFINE u == Units(g)
           v == Units(g + 1)
<1>1. u \in Nat /\ v = u + FrameSize
  BY UnitsFacts
<1>2. FrameSize \in Nat /\ FrameSize > 0
  BY RingAssumption
<1>3. s <= FrameSize - 1 + b \/ s + u <= 2 * b
  BY DEF OfferedBeforeSpeech
<1> HIDE DEF u, v
<1>4. s - FrameSize <= FrameSize - 1 + b \/ (s - FrameSize) + u <= 2 * b
  BY <1>1, <1>2, <1>3
<1>5. s - FrameSize <= FrameSize - 1 + b \/ (s - FrameSize) + v <= 2 * b
  BY <1>1, <1>2, <1>3
<1>6. s - FrameSize <= b - 1 \/ (s - FrameSize) + v <= 2 * b
  BY <1>1, <1>2, <1>3
<1>7. QED
  BY <1>4, <1>5, <1>6 DEF OfferedBeforeSpeech, InSpeech, u, v

(* A search that starts without speech finds at most two buffers, and less  *)
(* once it has taken a frame.                                               *)
LEMMA SearchUnspoken ==
  ASSUME NEW s \in Nat, NEW g \in Nat, NEW b \in Nat, OfferedBeforeSpeech(s, g, b)
  PROVE  OfferedInSpeech(s, b) \/ s <= 2 * b
<1>1. Units(g) \in Nat
  BY UnitsFacts
<1> DEFINE u == Units(g)
<1>2. s <= FrameSize - 1 + b \/ s + u <= 2 * b
  BY DEF OfferedBeforeSpeech
<1>3. u \in Nat
  BY <1>1
<1> HIDE DEF u
<1>4. s <= FrameSize - 1 + b \/ s <= 2 * b
  BY <1>2, <1>3
<1>5. QED
  BY <1>4 DEF OfferedInSpeech

LEMMA TakenInSpeech ==
  ASSUME NEW s \in Nat, NEW b \in Nat, FrameSize <= s, OfferedInSpeech(s, b) \/ s <= 2 * b
  PROVE  OfferedInSpeech(s - FrameSize, b)
<1> DEFINE h == Units(HoldOff + 1)
<1>1. h \in Nat
  BY UnitsFacts, FramesAssumption
<1>2. FrameSize \in Nat /\ FrameSize > 0
  BY RingAssumption
<1>3. s <= FrameSize - 1 + b \/ s <= 2 * b - 1 \/ s + h <= 3 * b \/ s <= 2 * b
  BY DEF OfferedInSpeech
<1> HIDE DEF h
<1>4. s - FrameSize <= FrameSize - 1 + b \/ s - FrameSize <= 2 * b - 1 \/ (s - FrameSize) + h <= 3 * b
  BY <1>1, <1>2, <1>3
<1>5. QED
  BY <1>4 DEF OfferedInSpeech, h

(* Less than a frame is little at any time. *)
LEMMA ShortIsLittle ==
  ASSUME NEW s \in Nat, NEW g \in Nat, NEW b \in Nat, s < FrameSize
  PROVE  /\ BeforeSpeech(s, g, b) /\ OfferedBeforeSpeech(s, g, b)
         /\ InSpeech(s, b) /\ OfferedInSpeech(s, b)
<1>1. FrameSize \in Nat
  BY RingAssumption
<1>2. s <= FrameSize - 1 /\ s <= FrameSize - 1 + b
  BY <1>1
<1>3. QED
  BY <1>2 DEF BeforeSpeech, OfferedBeforeSpeech, InSpeech, OfferedInSpeech
-----------------------------------------------------------------------------
(* The client in its loop of Advance meets an open recognizer, and leaves   *)
(* the loop with the answer that ends the utterance.                        *)
Goes == /\ client \in {"feed", "advance"} => session = "open"
        /\ (client \in {"feed", "advance"} /\ pc = "idle") => internalState # "END"
        /\ (client = "advance" /\ internalState = "END") => status \in Complete

(* Before speech voicing is found only once the hold-off has passed. *)
Listens ==
  client \in {"feed", "advance"} =>
    /\ internalState = "BEGIN" => utt.holdOff = HoldOff
    /\ internalState = "BOS_DETECTION" => utt.holdOff <= HoldOff
    /\ internalState \in {"BEGIN", "BOS_DETECTION"} => (utt.voicing => utt.holdOff = 0)

(* What the ring may hold when the client goes for the next buffer, *)
RoomToFeed(b) ==
  client = "feed" =>
    /\ internalState = "BEGIN" => size = 0
    /\ internalState = "BOS_DETECTION" => BeforeSpeech(size, Gone, b)
    /\ internalState = "EOS_DETECTION" => InSpeech(size, b)
    /\ internalState = "EOS" => OfferedInSpeech(size, b)
    /\ internalState # "EOI"

(* and while it advances the recognizer. *)
RoomToAdvance(b) ==
  client = "advance" =>
    /\ internalState = "BEGIN" => size <= b
    /\ internalState = "BOS_DETECTION" => OfferedBeforeSpeech(size, Gone, b)
    /\ (pc = "listen" /\ utt.voicing) => InSpeech(size, b)
    /\ internalState = "EOS_DETECTION" =>
         \/ OfferedInSpeech(size, b)
         \/ size <= 2 * b /\ utt.ahead = 0 /\ pc \in {"idle", "canPush", "push"}
    /\ internalState = "EOI" => size < FrameSize

Roomy(b) == /\ lock = "free"
            /\ Goes /\ Listens /\ RoomToFeed(b) /\ RoomToAdvance(b)

(* Away from the loop of Advance only the lock matters. *)
LEMMA AwayRoomy ==
  ASSUME NEW b, Roomy(b), lock' = lock, client' \notin {"feed", "advance"}
  PROVE  Roomy(b)'
BY DEF Roomy, Goes, Listens, RoomToFeed, RoomToAdvance

LEMMA StartRoomy ==
  ASSUME NEW b \in Nat, Inv, Alone, Roomy(b), FeedStart
  PROVE  Roomy(b)'
<1> USE DEF FeedStart, ring, shared, search, progress, audio
<1>1. CASE StartWithoutSetup \/ StartWithoutLog
  <2>1. client' \notin {"feed", "advance"} /\ lock' = lock
    BY <1>1 DEF StartWithoutSetup, StartWithoutLog, StartFails
  <2>2. QED
    BY <2>1, AwayRoomy
<1>2. CASE Start
  <2>1. /\ client' = "feed" /\ session' = "open" /\ internalState' = "BEGIN" /\ pc' = "idle"
        /\ utt' = Begun(utt, HoldOff) /\ UNCHANGED <<lock, size>> /\ utt \in GoodWindow
    BY <1>2 DEF Start, Listening, Inv, Types
  <2>2. utt'.holdOff = HoldOff /\ ~utt'.voicing
    BY <2>1, BegunHold, FramesAssumption
  <2>3. size = 0
    BY <1>2 DEF Start, Inv, Resting, Alone, Fresh, FreshRing
  <2>4. QED
    BY <2>1, <2>2, <2>3 DEF Roomy, Goes, Listens, RoomToFeed, RoomToAdvance
<1>3. QED
  BY <1>1, <1>2 DEF StartCall

(* A buffer the client puts fits the ring wherever the utterance stands. *)
LEMMA PutRoomy ==
  ASSUME NEW b \in Nat, BuffersFit(b), Inv, Roomy(b),
         NEW n \in PutSizes, NEW eof \in BOOLEAN, FeedPut(n, eof)
  PROVE  Roomy(b)'
<1>1. n \in Nat /\ n <= b /\ size \in Nat
  BY AudioAssumption DEF BuffersFit, Inv, Types
<1>2. /\ client = "feed" /\ pc = "idle" /\ session = "open" /\ internalState # "END"
      /\ internalState # "EOI" /\ internalState \in States /\ utt \in GoodWindow
  BY DEF FeedPut, Roomy, Goes, RoomToFeed, Inv, Types
<1>3. utt.holdOff \in Nat
  BY <1>2 DEF GoodWindow, Window
<1>4. internalState = "BOS_DETECTION" => Gone \in Nat
  BY <1>2, <1>3, FramesAssumption DEF Roomy, Listens, Gone
<1>5. internalState = "BEGIN" => size + n <= Capacity /\ size + n <= b
  <2> SUFFICES ASSUME internalState = "BEGIN" PROVE size + n <= Capacity /\ size + n <= b
    OBVIOUS
  <2>1. size = 0
    BY <1>2 DEF Roomy, RoomToFeed
  <2>2. FrameSize - 1 + 2 * b <= Capacity
    BY DEF BuffersFit
  <2>3. QED
    BY <1>1, <2>1, <2>2, RingAssumption
<1>6. internalState = "BOS_DETECTION" =>
        size + n <= Capacity /\ OfferedBeforeSpeech(size + n, Gone, b)
  BY <1>1, <1>2, <1>4, PutBeforeSpeech DEF Roomy, RoomToFeed
<1>7. internalState = "EOS_DETECTION" => size + n <= Capacity /\ OfferedInSpeech(size + n, b)
  BY <1>1, <1>2, PutInSpeech DEF Roomy, RoomToFeed
<1>8. internalState = "EOS" => size + n <= Capacity
  BY <1>1, <1>2, PutAfterSpeech DEF Roomy, RoomToFeed
<1>9. size + n <= Capacity
  BY <1>2, <1>5, <1>6, <1>7, <1>8 DEF States
<1>10. ~(size + n > Capacity)
  BY <1>1, <1>9, RingAssumption
<1>11. UNCHANGED <<utt, internalState, session, pc, status>> /\ Gone' = Gone
  BY DEF FeedPut, PutAudio, returned, Gone
<1>12. CASE PutRefused
  <2>1. UNCHANGED lock /\ client' = "stop"
    BY <1>12 DEF PutRefused, FeedPut, ring
  <2>2. QED
    BY <2>1, AwayRoomy
<1>13. CASE PutAccepted(n, eof)
  <2>1. size' = size + n /\ UNCHANGED lock /\ client' = "advance"
    BY <1>13 DEF PutAccepted, FeedPut
  <2>2. QED
    BY <1>2, <1>5, <1>6, <1>7, <1>11, <2>1
       DEF Roomy, Goes, Listens, RoomToFeed, RoomToAdvance
<1>14. QED
  BY <1>10, <1>12, <1>13 DEF FeedPut, PutAudio

LEMMA PutLastRoomy == ASSUME NEW b, Roomy(b), FeedPutLast PROVE Roomy(b)'
BY DEF FeedPutLast, PutLast, clientVars, ring, returned, Roomy, Goes, Listens, RoomToFeed,
       RoomToAdvance, Gone

(* Advance up to its first section *)
LEMMA AdvanceCallRoomy ==
  ASSUME NEW b \in Nat, Inv, Alone, Roomy(b), FeedAdvance, AdvanceCall
  PROVE  Roomy(b)'
<1>1. /\ client = "advance" /\ pc = "idle" /\ session = "open" /\ internalState # "END"
      /\ size \in Nat /\ utt \in GoodWindow /\ utt.holdOff \in Nat
      /\ UNCHANGED <<lock, size, utt, session>> /\ Gone' = Gone
  BY AdvanceCallKeeps DEF FeedAdvance, Roomy, Goes, Inv, Types, GoodWindow, Window, Gone
<1>2. client' \in {"advance", "stop", "flush", "feed"}
  BY DEF FeedAdvance, AfterFeeding
<1> USE DEF Roomy, Goes, Listens, RoomToFeed, RoomToAdvance, FeedAdvance, AfterFeeding, Returned
<1>3. CASE AdvanceBegin
  <2>1. internalState = "BEGIN" /\ internalState' = "BOS_DETECTION" /\ pc' = "idle"
        /\ status' = "STARTED" /\ client' # "advance"
    BY <1>3 DEF AdvanceBegin, Advancing, Return
  <2>2. Gone = 0 /\ size <= b
    BY <1>1, <2>1, FramesAssumption DEF Gone
  <2>3. BeforeSpeech(size, Gone, b)
    BY <1>1, <2>2, UnitsFacts DEF BeforeSpeech
  <2>4. utt.holdOff <= HoldOff
    BY <1>1, <2>1, FramesAssumption
  <2>5. QED
    BY <1>1, <1>2, <2>1, <2>3, <2>4
<1>4. CASE AdvanceListening
  BY <1>1, <1>4 DEF AdvanceListening, Advancing, search
<1>5. CASE AdvanceUngated
  <2>1. internalState = "BOS_DETECTION" /\ internalState' = "EOS_DETECTION" /\ pc' = "idle"
        /\ status' = "INCOMPLETE" /\ rc' = "SUCCESS"
    BY <1>5 DEF AdvanceUngated, Advancing, Return, BeginRecognizing
  <2>2. client' = "advance"
    BY <2>1
  <2>3. Gone \in Nat
    BY <1>1, <2>1, FramesAssumption DEF Gone
  <2>4. OfferedInSpeech(size, b) \/ size <= 2 * b
    BY <1>1, <2>1, <2>3, SearchUnspoken
  <2>5. utt.ahead = 0
    BY <1>1, <2>1 DEF Inv, StillThere
  <2>6. QED
    BY <1>1, <2>1, <2>2, <2>4, <2>5
<1>6. CASE AdvanceEOI
  BY <1>1, <1>6 DEF AdvanceEOI, AdvanceTo, Advancing, search
<1>7. CASE AdvanceEOS
  BY <1>1, <1>7 DEF AdvanceEOS, AdvanceTo, Advancing, search
<1>8. CASE AdvanceEnd
  BY <1>1, <1>8 DEF AdvanceEnd, Advancing
<1>9. QED
  BY <1>3, <1>4, <1>5, <1>6, <1>7, <1>8 DEF AdvanceCall

(* canPushAudioIntoRecognizer: when it asks for more, less than a frame is left. *)
LEMMA CheckRoomy ==
  ASSUME NEW b \in Nat, Inv, Alone, Roomy(b), FeedAdvance,
         NeedMoreAudio \/ EndOfInput \/ EndOfInputBeforeSpeech \/ Pushable
  PROVE  Roomy(b)'
<1>1. /\ client = "advance" /\ pc = "canPush" /\ session = "open" /\ session' = session
      /\ internalState \in {"BOS_DETECTION", "EOS_DETECTION"}
      /\ size \in Nat /\ UNCHANGED <<lock, size>> /\ FrameSize \in Nat
      /\ utt \in GoodWindow /\ utt.holdOff \in Nat
  BY RingAssumption DEF FeedAdvance, Roomy, Goes, Inv, Types, SectionState, Resting, GoodWindow, Window,
     NeedMoreAudio, EndOfInput, EndOfInputBeforeSpeech, Pushable, Checking, ring
<1> USE DEF Roomy, Goes, Listens, RoomToFeed, RoomToAdvance, FeedAdvance, AfterFeeding, Returned
<1>2. internalState = "BOS_DETECTION" => Gone \in Nat
  BY <1>1, FramesAssumption DEF Gone
<1>3. CASE NeedMoreAudio
  <2>1. size < FrameSize /\ UNCHANGED <<utt, internalState>> /\ Gone' = Gone
    BY <1>3 DEF NeedMoreAudio, ShortOfAudio, Gone
  <2>2. InSpeech(size, b) /\ OfferedInSpeech(size, b)
    BY <1>1, <2>1, ShortIsLittle
  <2>3. internalState = "BOS_DETECTION" =>
          BeforeSpeech(size, Gone, b) /\ OfferedBeforeSpeech(size, Gone, b)
    BY <1>1, <1>2, <2>1, ShortIsLittle
  <2>4. pc' \in {"idle", "listen", "process"}
    BY <1>3 DEF NeedMoreAudio, Return, Goto, Onward
  <2>5. client' \in {"advance", "stop", "flush", "feed"}
    OBVIOUS
  <2>6. client' = "feed" => pc' = "idle"
    OBVIOUS
  <2>7. QED
    BY <1>1, <2>1, <2>2, <2>3, <2>4, <2>5, <2>6
<1>4. CASE EndOfInput
  <2>1. size < FrameSize /\ internalState' = "EOI" /\ pc' = "eoi" /\ client' = "advance"
    BY <1>4 DEF EndOfInput, ShortOfAudio, Goto
  <2>2. QED
    BY <1>1, <2>1
<1>5. CASE EndOfInputBeforeSpeech
  <2>1. internalState' = "END" /\ pc' = "stopReset" /\ status' = "NO_MATCH" /\ client' = "advance"
    BY <1>5 DEF EndOfInputBeforeSpeech, StopInside
  <2>2. QED
    BY <1>1, <2>1 DEF Complete
<1>6. CASE Pushable
  <2>1. pc' = "push" /\ client' = "advance" /\ UNCHANGED <<utt, internalState>> /\ Gone' = Gone
    BY <1>6 DEF Pushable, Goto, Gone
  <2>2. QED
    BY <1>1, <2>1
<1>7. QED
  BY <1>3, <1>4, <1>5, <1>6

(* A frame's audio leaves the ring, and the frame may pass the hold-off. *)
LEMMA ReadRoomy ==
  ASSUME NEW b \in Nat, Inv, Alone, Roomy(b), FeedAdvance, LeaveAudio \/ ReadAudio
  PROVE  Roomy(b)'
<1>1. /\ client = "advance" /\ pc = "push" /\ session = "open" /\ session' = session
      /\ internalState \in {"BOS_DETECTION", "EOS_DETECTION"} /\ internalState' = internalState
      /\ size \in Nat /\ size >= FrameSize /\ UNCHANGED lock /\ FrameSize \in Nat
      /\ utt \in GoodWindow /\ utt.holdOff \in Nat /\ utt.ahead \in Nat
  BY RingAssumption, Counts DEF FeedAdvance, Roomy, Goes, Inv, Types, SectionState, Resting,
     StillThere, GoodWindow, Window, LeaveAudio, ReadAudio, ring
<1> USE DEF Roomy, Goes, Listens, RoomToFeed, RoomToAdvance, FeedAdvance, AfterFeeding, Returned
<1>2. internalState = "BOS_DETECTION" => Gone \in Nat
  BY <1>1, FramesAssumption DEF Gone
<1>3. CASE LeaveAudio
  <2>1. utt.ahead > 0 /\ internalState = "EOS_DETECTION"
    BY <1>1, <1>3 DEF LeaveAudio, Sated, Inv, StillThere
  <2>2. pc' = "process" /\ client' = "advance" /\ UNCHANGED <<utt, size>> /\ Gone' = Gone
    BY <1>1, <1>3, <2>1 DEF LeaveAudio, Goto, Onward, Gone, ring
  <2>3. QED
    BY <1>1, <2>1, <2>2
<1>4. CASE ReadAudio
  <2>1. size' = size - FrameSize
    BY <1>1, <1>4 DEF ReadAudio, Lesser
  <2>2. \/ utt' = utt /\ pc' = "idle" /\ status' = "INCOMPLETE" /\ rc' = "SUCCESS"
        \/ utt' \in Pushed(utt) /\ (\/ pc' = Onward
                                    \/ pc' = "idle" /\ status' = "INCOMPLETE" /\ rc' = "SUCCESS")
    BY <1>1, <1>4 DEF ReadAudio, FrameDropped, FrameMade, Return, Goto
  <2>3. client' = "advance"
    BY <2>2 DEF Onward
  <2>4. /\ utt'.holdOff = utt.holdOff \/ (utt.holdOff > 0 /\ utt'.holdOff = utt.holdOff - 1)
        /\ utt'.voicing => utt.voicing \/ utt.holdOff = 0
    BY <1>1, <2>2, PushedHold
  <2>5. CASE internalState = "EOS_DETECTION"
    <3>1. OfferedInSpeech(size, b) \/ size <= 2 * b
      BY <1>1, <2>5
    <3>2. OfferedInSpeech(size', b)
      BY <1>1, <2>1, <3>1, TakenInSpeech
    <3>3. pc' # "listen"
      BY <2>2, <2>5 DEF Onward
    <3>4. QED
      BY <1>1, <2>3, <2>5, <3>2, <3>3
  <2>6. CASE internalState = "BOS_DETECTION"
    <3>1. Gone \in Nat /\ OfferedBeforeSpeech(size, Gone, b)
      BY <1>1, <1>2, <2>6
    <3>2. Gone' = Gone \/ Gone' = Gone + 1
      BY <1>1, <2>4, FramesAssumption DEF Gone
    <3>3. OfferedBeforeSpeech(size', Gone', b)
      BY <1>1, <2>1, <3>1, <3>2, TakenBeforeSpeech
    <3>4. utt'.voicing => utt.holdOff = 0 /\ utt'.holdOff = 0
      BY <1>1, <2>4, <2>6
    <3>5. utt'.voicing => InSpeech(size', b)
      <4> SUFFICES ASSUME utt'.voicing PROVE InSpeech(size', b)
        OBVIOUS
      <4>1. Gone = HoldOff
        BY <3>4, FramesAssumption DEF Gone
      <4>2. QED
        BY <1>1, <2>1, <3>1, <4>1, TakenBeforeSpeech
    <3>6. utt'.holdOff <= HoldOff
      BY <1>1, <2>4, <2>6, FramesAssumption
    <3>7. QED
      BY <1>1, <2>3, <2>6, <3>3, <3>4, <3>5, <3>6
  <2>7. QED
    BY <1>1, <2>5, <2>6
<1>5. QED
  BY <1>3, <1>4

(* detectBeginningOfSpeech *)
LEMMA ListenRoomy ==
  ASSUME NEW b \in Nat, Inv, Alone, Roomy(b), FeedAdvance, Listen
  PROVE  Roomy(b)'
<1>1. /\ client = "advance" /\ pc = "listen" /\ session = "open" /\ session' = session
      /\ internalState = "BOS_DETECTION" /\ UNCHANGED <<lock, size>>
      /\ utt \in GoodWindow /\ utt.ahead = 1
  BY DEF FeedAdvance, Roomy, Goes, Inv, Types, SectionState, Resting, StillThere, Listen, ring
<1>2. Advanced(utt).voicing = utt.voicing /\ Advanced(utt).holdOff = utt.holdOff
  BY <1>1, AdvancedKeeps
<1> USE DEF Roomy, Goes, Listens, RoomToFeed, RoomToAdvance, FeedAdvance, AfterFeeding, Returned
<1>3. CASE SpeechBegins
  <2>1. utt.voicing /\ internalState' = "EOS_DETECTION" /\ pc' = "idle"
        /\ status' = "START_OF_VOICING" /\ rc' = "SUCCESS"
    BY <1>3 DEF SpeechBegins, BeginRecognizing, Return
  <2>2. InSpeech(size, b)
    BY <1>1, <2>1
  <2>3. client' \in {"feed", "flush"}
    BY <2>1 DEF Complete
  <2>4. QED
    BY <1>1, <2>1, <2>2, <2>3
<1>4. CASE NoSpeechYet
  <2>1. utt' = Advanced(utt) /\ internalState' = internalState /\ pc' = "idle"
        /\ status' = "INCOMPLETE" /\ rc' = "SUCCESS"
    BY <1>4 DEF NoSpeechYet, Return
  <2>2. client' = "advance" /\ Gone' = Gone
    BY <1>2, <2>1 DEF Gone
  <2>3. QED
    BY <1>1, <1>2, <2>1, <2>2
<1>5. CASE SpeechTimeout
  <2>1. internalState' = "END" /\ pc' = "stopReset" /\ status' = "START_OF_UTTERANCE_TIMEOUT"
    BY <1>5 DEF SpeechTimeout, StopInside
  <2>2. client' = "advance"
    BY <2>1
  <2>3. QED
    BY <1>1, <2>1, <2>2 DEF Complete
<1>6. QED
  BY <1>1, <1>3, <1>4, <1>5 DEF Listen

(* generateFrameStats, generatePatternFromFrame and detectEndOfSpeech *)
LEMMA SearchRoomy ==
  ASSUME NEW b \in Nat, Inv, Alone, Roomy(b), FeedAdvance,
         BackgroundUnknown \/ Process \/ InputCheck
  PROVE  Roomy(b)'
<1>1. /\ client = "advance" /\ pc \in {"process", "inputCheck"}
      /\ session = "open" /\ session' = session
      /\ internalState = "EOS_DETECTION" /\ UNCHANGED <<lock, size>> /\ size \in Nat
      /\ FrameSize \in Nat
  BY RingAssumption
     DEF FeedAdvance, Roomy, Goes, Inv, Types, SectionState, Resting, BackgroundUnknown, Process,
         InputCheck, ring
<1>2. OfferedInSpeech(size, b)
  BY <1>1 DEF Roomy, RoomToAdvance
<1> USE DEF Roomy, Goes, Listens, RoomToFeed, RoomToAdvance, FeedAdvance, AfterFeeding, Returned
<1>3. CASE BackgroundUnknown
  <2>1. pc' = "idle" /\ internalState' = internalState /\ client' = "advance"
    BY <1>3 DEF BackgroundUnknown, Return
  <2>2. QED
    BY <1>1, <1>2, <2>1
<1>4. CASE Process
  <2>1. pc = "process" /\ utt.ahead # 0
    <3>1. pc = "process" /\ utt.ahead > 0 /\ utt.ahead \in Nat
      BY <1>4, Counts DEF Process, Inv, Types, StillThere
    <3>2. QED
      BY <3>1
  <2>2. pc' = "inputCheck" /\ internalState' = internalState /\ client' = "advance"
    BY <1>4, <2>1 DEF Process, Goto
  <2>3. QED
    BY <1>1, <1>2, <2>2
<1>5. CASE InputCheck
  <2>1. /\ pc' = "idle" /\ rc' = "SUCCESS"
        /\ \/ internalState' = "EOS" /\ status' = "END_OF_VOICING"
           \/ internalState' = "EOS_DETECTION" /\ status' = "INCOMPLETE"
           \/ internalState' = "EOI" /\ status' = "INCOMPLETE" /\ size < FrameSize
    BY <1>1, <1>5 DEF InputCheck, EndOfSpeechOr, SpeechEnds, Return, ShortOfAudio
  <2>2. CASE internalState' = "EOS" /\ status' = "END_OF_VOICING"
    <3>1. client' \in {"feed", "flush"}
      BY <2>1, <2>2 DEF Complete
    <3>2. QED
      BY <1>1, <1>2, <2>1, <2>2, <3>1
  <2>3. CASE status' = "INCOMPLETE"
    <3>1. client' = "advance"
      BY <2>1, <2>3
    <3>2. QED
      BY <1>1, <1>2, <2>1, <2>3, <3>1
  <2>4. QED
    BY <2>1, <2>2, <2>3
<1>6. QED
  BY <1>3, <1>4, <1>5

(* generatePatternFromFrameEOI: there is less than a frame in the ring. *)
LEMMA LeftRoomy ==
  ASSUME NEW b \in Nat, Inv, Alone, Roomy(b), FeedAdvance, NothingLeft \/ ProcessLeft \/ LeftCheck
  PROVE  Roomy(b)'
<1>1. /\ client = "advance" /\ session = "open" /\ session' = session
      /\ internalState = "EOI" /\ UNCHANGED <<lock, size>> /\ size \in Nat
  BY DEF FeedAdvance, Roomy, Goes, Inv, Types, SectionState, Resting, NothingLeft, ProcessLeft,
         LeftCheck, ring
<1>2. size < FrameSize
  BY <1>1 DEF Roomy, RoomToAdvance
<1>3. OfferedInSpeech(size, b)
  BY <1>1, <1>2, ShortIsLittle
<1> USE DEF Roomy, Goes, Listens, RoomToFeed, RoomToAdvance, FeedAdvance, AfterFeeding, Returned
<1>4. CASE ProcessLeft
  <2>1. pc' = "eoiCheck" /\ internalState' = internalState /\ client' = "advance"
    BY <1>4 DEF ProcessLeft, Goto
  <2>2. QED
    BY <1>1, <1>2, <2>1
<1>5. CASE NothingLeft \/ LeftCheck
  <2>1. /\ pc' = "idle" /\ rc' = "SUCCESS"
        /\ \/ internalState' = "EOS" /\ status' = "END_OF_VOICING"
           \/ internalState' = "EOI" /\ status' = "INCOMPLETE"
    BY <1>5 DEF NothingLeft, LeftCheck, EndOfSpeechOr, SpeechEnds, Return
  <2>2. CASE internalState' = "EOS" /\ status' = "END_OF_VOICING"
    <3>1. client' \in {"feed", "flush"}
      BY <2>1, <2>2 DEF Complete
    <3>2. QED
      BY <1>1, <1>3, <2>1, <2>2, <3>1
  <2>3. CASE internalState' = "EOI" /\ status' = "INCOMPLETE"
    <3>1. client' = "advance"
      BY <2>1, <2>3
    <3>2. QED
      BY <1>1, <1>2, <2>1, <2>3, <3>1
  <2>4. QED
    BY <2>1, <2>2, <2>3
<1>6. QED
  BY <1>4, <1>5

(* The end of the utterance: its answer is complete, and the client stops. *)
LEMMA EndRoomy ==
  ASSUME NEW b \in Nat, Inv, Alone, Roomy(b), FeedAdvance,
         ResetRing \/ CreateResult \/ StopReset \/ StopFinish
  PROVE  Roomy(b)'
<1>1. client = "advance" /\ session = "open" /\ session' = session /\ UNCHANGED lock
  BY DEF FeedAdvance, Roomy, Goes, ResetRing, CreateResult, StopReset, StopFinish, ring
<1> USE DEF Roomy, Goes, Listens, RoomToFeed, RoomToAdvance, FeedAdvance, AfterFeeding, Returned
<1>2. CASE ResetRing
  <2>1. internalState = "EOS" /\ internalState' = internalState /\ pc' = "createResult"
        /\ client' = "advance"
    BY <1>2 DEF ResetRing, Goto, Inv, SectionState
  <2>2. QED
    BY <1>1, <2>1
<1>3. CASE CreateResult
  <2>1. is_running
    BY <1>3 DEF CreateResult, Inv, SectionState, RunningMatchesState, Searching
  <2>2. pc' = "idle" /\ status' \in Complete /\ rc' = "SUCCESS"
    BY <1>3, <2>1 DEF CreateResult, Return, Complete
  <2>3. client' = "stop"
    BY <2>2 DEF Complete
  <2>4. QED
    BY <1>1, <2>3, AwayRoomy
<1>4. CASE StopReset
  <2>1. internalState = "END" /\ internalState' = internalState /\ pc' = "stopFinish"
        /\ status' = status /\ client' = "advance"
    BY <1>4 DEF StopReset, Goto, Inv, SectionState
  <2>2. QED
    BY <1>1, <2>1
<1>5. CASE StopFinish
  <2>1. internalState = "END" /\ pc' = "idle" /\ rc' = "SUCCESS" /\ status' = status
    BY <1>5 DEF StopFinish, Inv, SectionState
  <2>2. client' = "stop"
    BY <1>1, <2>1 DEF Complete
  <2>3. QED
    BY <1>1, <2>2, AwayRoomy
<1>6. QED
  BY <1>2, <1>3, <1>4, <1>5

LEMMA RoomyStep ==
  ASSUME NEW b \in Nat, BuffersFit(b), Inv, Alone, Roomy(b), [FeedNext]_feedVars
  PROVE  Roomy(b)'
<1>1. CASE FeedStart
  BY <1>1, StartRoomy
<1>2. CASE \E n \in PutSizes, eof \in BOOLEAN : FeedPut(n, eof)
  BY <1>2, PutRoomy
<1>3. CASE FeedPutLast
  BY <1>3, PutLastRoomy
<1>4. CASE FeedAdvance
  <2>1. AdvanceCall \/ Proceed
    BY <1>4 DEF FeedAdvance, Advances
  <2>2. QED
    BY <1>4, <2>1, AdvanceCallRoomy, CheckRoomy, ReadRoomy, ListenRoomy, SearchRoomy, LeftRoomy,
       EndRoomy DEF Proceed
<1>5. CASE FlushAdvance
  <2>1. client' \in {"stop", "flush"} /\ lock' = lock
    BY <1>5, AdvanceCallKeeps, ProceedKeeps DEF FlushAdvance, AfterFlushing, Advances
  <2>2. QED
    BY <2>1, AwayRoomy
<1>6. CASE FeedStop
  <2>1. lock' = lock
    BY <1>6, ProceedKeeps DEF FeedStop, StopCall, StopUnstarted, Stop, ring
  <2>2. client' \in {"start", "stop"}
    BY <1>6 DEF FeedStop
  <2>3. QED
    BY <2>1, <2>2, AwayRoomy
<1>7. CASE UNCHANGED feedVars
  BY <1>7 DEF Roomy, Goes, Listens, RoomToFeed, RoomToAdvance, Gone, feedVars, clientVars, vars,
              ring, returned
<1>8. QED
  BY <1>1, <1>2, <1>3, <1>4, <1>5, <1>6, <1>7 DEF FeedNext

(* The ring never overflows, in either mode and for every window, as long   *)
(* as the buffers fit it.  NeverOverflows alone is not inductive: how much  *)
(* is left in the ring when the client brings more depends on the answer it *)
(* brings it after, and on the audio the hold-off has made it consume.      *)
THEOREM FourBuffersAreEnough ==
  ASSUME NEW b \in Nat, BuffersFit(b) PROVE FeedSpec => []NeverOverflows
<1>1. FeedInit => Roomy(b)
  BY DEF FeedInit, Init, Roomy, Goes, Listens, RoomToFeed, RoomToAdvance
<1>2. Inv /\ Alone /\ Roomy(b) /\ [FeedNext]_feedVars => Roomy(b)'
  BY RoomyStep
<1>3. Roomy(b) => NeverOverflows
  BY DEF Roomy, NeverOverflows
<1>4. QED
  BY <1>1, <1>2, <1>3, ClientInvariant, PTL DEF FeedSpec
=============================================================================
