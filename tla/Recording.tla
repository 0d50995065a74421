----------------------------- MODULE Recording ------------------------------
(***************************************************************************)
(* The recording of an utterance for nametags: the waveform buffer of      *)
(* RecognizerImpl.c (lines 3652-3970) with the parts of SR_RecognizerStart *)
(* and SR_RecognizerAdvance that write it, wind it back at the beginning   *)
(* of speech and trim it to the recognized words.                          *)
(*                                                                         *)
(* The buffer is a ring that records the last audio while the recognizer   *)
(* listens, and all of it once speech has begun.  Samples are numbered     *)
(* from the start of the recognition; the n-th stands for itself.  Each    *)
(* call of Advance is one step: the application's thread alone is here.    *)
(***************************************************************************)
EXTENDS FrameOps, Sequences

CONSTANTS Capacity,      \* samples the ring holds (bufsz_kB)
          FrameSize,     \* samples of one pushed buffer (FRAME_SIZE)
          PerFrame,      \* buffers to a frame: 2, "because of skip even frames"
          WindbackRoom,  \* samples the wind-back buffer holds (start_windback)
          BosComfort, EosComfort,   \* frames kept before and after the words
          BgSniff, UtteranceTimeout, HoldOff,   \* as in Recognizer
          MaxHeard       \* bound: buffers of one recognition

ASSUME RecordingAssumption == /\ {Capacity, FrameSize, PerFrame} \subseteq Nat \ {0}
                              /\ FrameSize <= Capacity /\ WindbackRoom \in Nat
                              /\ {BosComfort, EosComfort, BgSniff, UtteranceTimeout,
                                  HoldOff, MaxHeard} \subseteq Nat

VARIABLES gatedMode,     \* cmdline.gatedmode
          enabled,       \* enableGetWaveform
          phase,         \* "stopped", "listening", "searching", "voicingEnded", "done"
          utt,           \* impl->utterance, a Window
          frames, processed,
          skipped,       \* buffers since the last one that made a frame
          heard,         \* history: buffers pushed since Start
          wb,            \* impl->waveformBuffer
          rc,            \* what the last call returned
          label,         \* the frames of the words in the result, <<>> without one
          onset          \* history: first sample of the recording after the wind-back

session == <<gatedMode, enabled>>
progress == <<frames, processed>>
vars == <<session, phase, utt, progress, skipped, heard, wb, rc, label, onset>>

WaveformBuffer == [state : {"OFF", "CIRCULAR", "LINEAR"},
                   held : Seq(Nat),      \* samples in the ring, oldest first
                   readIdx : 0 .. Capacity - 1,
                   overflow_count : Nat, read_size : Nat]
-----------------------------------------------------------------------------
(* The calls on the buffer: each takes a buffer and returns one. *)

(* WaveformBuffer_Reset *)
Emptied(buffer) ==
  [buffer EXCEPT !.held = <<>>, !.readIdx = 0, !.overflow_count = 0, !.read_size = 0]

(* WaveformBuffer_Skip: as many samples as there are, if fewer. *)
Passed(buffer, n) ==
  LET k == Lesser(n, Len(buffer.held))
  IN  [buffer EXCEPT !.held = SubSeq(@, k + 1, Len(@)), !.readIdx = (@ + k) % Capacity]

Appended(buffer, samples) == [buffer EXCEPT !.held = @ \o samples]

Lacking(buffer, samples) ==
  Greater(0, Len(samples) - (Capacity - Len(buffer.held)))

(* Faulty, used by no action: no room is made for what is written. *)
WrittenAnyway(buffer, samples) ==
  IF buffer.state = "OFF" THEN buffer ELSE Appended(buffer, samples)

(* WaveformBuffer_Write *)
Written(buffer, samples) ==
  CASE buffer.state = "OFF" -> buffer
    [] buffer.state = "CIRCULAR" ->
         Appended(Passed(buffer, Lacking(buffer, samples)), samples)
    [] buffer.state = "LINEAR" /\ Lacking(buffer, samples) = 0 -> Appended(buffer, samples)
    [] buffer.state = "LINEAR" /\ Lacking(buffer, samples) > 0 ->
         [buffer EXCEPT !.overflow_count = @ + Len(samples)]

(* Faulty, used by no action: the oldest samples kept. *)
LastKept(buffer, n) ==
  Written(Emptied(buffer), SubSeq(buffer.held, 1, Lesser(n, Len(buffer.held))))

(* WaveformBuffer_WindBack, when it succeeds: the last n samples alone. *)
WoundBack(buffer, n) ==
  Written(Emptied(buffer), SubSeq(buffer.held, Len(buffer.held) - n + 1, Len(buffer.held)))

(* It fails when it would keep more than fits or than was recorded, and in  *)
(* the latter case has read all there was.                                  *)
WindBackOutcome(buffer, n) ==
  CASE n > WindbackRoom -> [rc |-> "OUT_OF_MEMORY", buffer |-> buffer]
    [] n <= WindbackRoom /\ n > Len(buffer.held) ->
         [rc |-> "INVALID_STATE", buffer |-> Passed(buffer, n)]
    [] OTHER -> [rc |-> "SUCCESS", buffer |-> WoundBack(buffer, n)]

SamplesIn(f) == f * FrameSize * PerFrame

FirstFrame(words) == IF words[1] > BosComfort THEN words[1] - BosComfort ELSE words[1]

(* Faulty, used by no action: the comfort before the words not counted in   *)
(* the size.                                                                *)
TrimmedShort(buffer, words) ==
  LET offset == SamplesIn(FirstFrame(words))
      sized  == [buffer EXCEPT !.read_size = SamplesIn(words[2] - words[1])]
  IN  IF offset + sized.read_size > Len(buffer.held)
      THEN [sized EXCEPT !.overflow_count = @ + offset + sized.read_size - Len(buffer.held)]
      ELSE Passed(sized, offset)

(* WaveformBuffer_ParseEndPointedResultAndTrim *)
Trimmed(buffer, words) ==
  LET first  == FirstFrame(words)
      offset == SamplesIn(first)
      sized  == [buffer EXCEPT !.read_size = SamplesIn(words[2] + EosComfort - first)]
  IN  IF offset + sized.read_size > Len(buffer.held)
      THEN [sized EXCEPT !.overflow_count = @ + offset + sized.read_size - Len(buffer.held)]
      ELSE Passed(sized, offset)
-----------------------------------------------------------------------------
Init == /\ gatedMode \in BOOLEAN /\ enabled \in BOOLEAN
        /\ phase = "stopped" /\ utt = ClearedWindow
        /\ frames = 0 /\ processed = 0 /\ skipped = 0 /\ heard = 0
        /\ wb = [state |-> "OFF", held |-> <<>>, readIdx |-> 0,
                 overflow_count |-> 0, read_size |-> 0]
        /\ rc = "SUCCESS" /\ label = <<>> /\ onset = 0

(* Faulty, used by no action: voicing looked for from the first frame on. *)
StartAtOnce ==
  /\ phase = "stopped" /\ phase' = "listening"
  /\ utt' = Begun(utt, 0)
  /\ frames' = 0 /\ processed' = 0 /\ heard' = 0
  /\ skipped' \in 0 .. PerFrame - 1
  /\ wb' = [Emptied(wb) EXCEPT !.state = IF enabled THEN "CIRCULAR" ELSE "OFF"]
  /\ rc' = "SUCCESS" /\ label' = <<>> /\ onset' = 0
  /\ UNCHANGED session

(* SR_RecognizerStart.  Where the front end is in its pairs is not known. *)
Start ==
  /\ phase = "stopped" /\ phase' = "listening"
  /\ utt' = Begun(utt, HoldOff)
  /\ frames' = 0 /\ processed' = 0 /\ heard' = 0
  /\ skipped' \in 0 .. PerFrame - 1
  /\ wb' = [Emptied(wb) EXCEPT !.state = IF enabled THEN "CIRCULAR" ELSE "OFF"]
  /\ rc' = "SUCCESS" /\ label' = <<>> /\ onset' = 0
  /\ UNCHANGED session

(* pushAudioIntoRecognizer: one buffer, written to the recording first. *)
Push == /\ heard < MaxHeard
        /\ heard' = heard + 1
        /\ skipped' = (skipped + 1) % PerFrame

Heard == Written(wb, [i \in 1 .. FrameSize |-> heard * FrameSize + i])

(* generateFrameFromAudio, of which the window must take the frame *)
MakesFrame == skipped = PerFrame - 1 /\ utt.active /\ ~Blocked(utt)

(* The first frames after a start, and every second one, make no frame. *)
PushOnly ==
  /\ phase \in {"listening", "searching"}
  /\ phase = "searching" => ~(utt.ahead > 0 /\ frames >= BgSniff)
  /\ Push /\ ~MakesFrame
  /\ wb' = Heard
  /\ utt' \in IF skipped = PerFrame - 1 THEN Pushed(utt) ELSE {utt}
  /\ UNCHANGED <<session, phase, progress, rc, label, onset>>

(* CA_SeekStartOfUtterance where the newest frame is the first voiced one   *)
(* after the hold-off: what makes speech begin is that frame.               *)
SoughtNewest(w) == SeekTo(w, Greater(0, SeekFrom(w).ahead - 1))

(* Faulty, used by no action: the skipped buffers forgotten. *)
WindbackUnskipped(w) == SeekReturn(w) * FrameSize

WindbackSamples(w) == SamplesIn(SeekReturn(w))

BeginRecognizing == phase' = "searching" /\ processed' = 0

(* detectBeginningOfSpeech with voicing, in gated mode: a wind-back of the  *)
(* recording that fails leaves the recognizer listening.                    *)
SpeechBeginsGated(w) ==
  LET outcome == IF wb.state = "OFF" THEN [rc |-> "SUCCESS", buffer |-> wb]
                 ELSE WindBackOutcome(Heard, WindbackSamples(w))
  IN  /\ utt' = SoughtNewest(w)
      /\ rc' = outcome.rc
      /\ wb' = IF rc' = "SUCCESS" /\ wb.state = "CIRCULAR"
               THEN [outcome.buffer EXCEPT !.state = "LINEAR"] ELSE outcome.buffer
      /\ IF rc' = "SUCCESS"
         THEN /\ frames' = utt'.ahead
              /\ BeginRecognizing
              /\ onset' = IF wb'.held = <<>> THEN heard' * FrameSize + 1 ELSE wb'.held[1]
         ELSE frames' = frames + 1 /\ UNCHANGED <<phase, processed, onset>>

(* Outside gated mode nothing is wound back and the ring stays circular. *)
SpeechBeginsUngated(w) == /\ utt' = w /\ wb' = Heard
                          /\ frames' = 0
                          /\ BeginRecognizing
                          /\ UNCHANGED <<rc, onset>>

SpeechBegins == \E w \in Pushed(utt) :
                   /\ w.voicing
                   /\ IF gatedMode THEN SpeechBeginsGated(Advanced(w))
                      ELSE SpeechBeginsUngated(Advanced(w))

(* A timeout stops the recognizer. *)
NoSpeech == /\ \E w \in Pushed(utt) :
                 /\ ~w.voicing
                 /\ IF frames + 1 > UtteranceTimeout
                    THEN utt' = Flushed(Locked(Advanced(w))) /\ phase' = "stopped"
                    ELSE utt' = Advanced(w) /\ UNCHANGED phase
            /\ frames' = frames + 1 /\ wb' = Heard
            /\ UNCHANGED <<processed, rc, onset>>

Listen ==
  /\ phase = "listening" /\ (gatedMode \/ frames < BgSniff)
  /\ Push /\ MakesFrame
  /\ SpeechBegins \/ NoSpeech
  /\ UNCHANGED <<session, label>>

SearchUngated ==
  /\ phase = "listening" /\ ~gatedMode /\ frames >= BgSniff
  /\ frames' = 0
  /\ BeginRecognizing
  /\ UNCHANGED <<session, utt, skipped, heard, wb, rc, label, onset>>

(* Faulty, used by no action: a full recording does not end the search. *)
EndForcedByVoice(w, buffer) == w.ended

(* detectEndOfSpeech: by level, or by a recording that is full. *)
EndForced(w, buffer) == w.ended \/ buffer.overflow_count > 0

(* generatePatternFromFrame; the search may say by itself that speech has   *)
(* ended.                                                                   *)
SearchFrame(w, buffer) ==
  /\ utt' = Advanced(w)
  /\ processed' = processed + 1
  /\ phase' \in IF EndForced(w, buffer) THEN {"voicingEnded"} ELSE {"searching", "voicingEnded"}

(* A frame is pushed, and searched once the background is known. *)
Search ==
  /\ phase = "searching" /\ ~(utt.ahead > 0 /\ frames >= BgSniff)
  /\ Push /\ MakesFrame
  /\ wb' = Heard
  /\ frames' = frames + 1
  /\ \E w \in Pushed(utt) : IF frames' < BgSniff THEN utt' = w /\ UNCHANGED <<processed, phase>>
                            ELSE SearchFrame(w, wb')
  /\ UNCHANGED <<session, rc, label, onset>>

(* A frame that waits is searched; for the audio is short, or not needed.   *)
SearchWaiting ==
  /\ phase = "searching" /\ utt.ahead > 0 /\ frames >= BgSniff
  /\ SearchFrame(utt, wb)
  /\ UNCHANGED <<session, frames, skipped, heard, wb, rc, label, onset>>

(* The input has ended and nothing waits. *)
InputEnds ==
  /\ phase = "searching" /\ utt.ahead = 0
  /\ phase' = "voicingEnded"
  /\ UNCHANGED <<session, utt, progress, skipped, heard, wb, rc, label, onset>>

(* SR_RecognizerCreateResultImpl: the words lie within what was searched. *)
CreateResult ==
  /\ phase = "voicingEnded" /\ phase' = "done"
  /\ utt' = Locked(utt)
  /\ \/ UNCHANGED <<wb, label>>
     \/ \E bos, eos \in 0 .. processed :
           /\ bos < eos
           /\ label' = <<bos, eos>>
           /\ wb' = IF wb.state = "OFF" \/ wb.held = <<>> THEN wb ELSE Trimmed(wb, label')
  /\ UNCHANGED <<session, progress, skipped, heard, rc, onset>>

Stop ==
  /\ phase # "stopped" /\ phase' = "stopped"
  /\ utt' = Flushed(Locked(utt))
  /\ UNCHANGED <<session, progress, skipped, heard, wb, rc, label, onset>>

Next == \/ Start \/ Stop \/ PushOnly \/ Listen \/ SearchUngated
        \/ Search \/ SearchWaiting \/ InputEnds \/ CreateResult

Spec == Init /\ [][Next]_vars
-----------------------------------------------------------------------------
TypeOK == /\ gatedMode \in BOOLEAN /\ enabled \in BOOLEAN
          /\ phase \in {"stopped", "listening", "searching", "voicingEnded", "done"}
          /\ utt \in Window
          /\ frames \in Nat /\ processed \in Nat
          /\ skipped \in 0 .. PerFrame - 1 /\ heard \in 0 .. MaxHeard
          /\ wb \in WaveformBuffer /\ Len(wb.held) <= Capacity
          /\ rc \in {"SUCCESS", "INVALID_STATE", "OUT_OF_MEMORY"}
          /\ label \in Seq(Nat) /\ onset \in Nat

Recorded == wb.state # "OFF" /\ phase # "stopped"

Run(from, n) == [i \in 1 .. n |-> from + i - 1]

(* What is recorded is one piece of what was heard, and until something is  *)
(* refused or cut off, the last piece: at every switch from circular to     *)
(* linear, with a wind-back that copies the recording out of the ring and   *)
(* in again (RecognizerImpl.c:3713-3764, 3805-3852).                        *)
RecordsWhatWasHeard ==
  Recorded /\ phase # "done" =>
    LET n == Len(wb.held)
        last == IF wb.overflow_count > 0 THEN onset + n - 1 ELSE heard * FrameSize
    IN  wb.held = Run(last - n + 1, n)

(* No wind-back of the recording fails: speech is never found before as     *)
(* much was recorded as the seek may ask for (lines 3187-3197, 3818-3834).  *)
WindBackSucceeds == rc = "SUCCESS"

(* The recording is wound back as far as the frames are: it begins with the *)
(* audio of the first frame searched, or of the one after it, however often *)
(* each is rounded, doubled and cut (lines 3183-3206, utt_data.c:39-65).    *)
WoundBackTogether ==
  [][(phase = "listening" /\ phase' = "searching" /\ wb'.state = "LINEAR")
       => SamplesIn(utt'.ahead) - Len(wb'.held) \in 0 .. SamplesIn(1)]_vars

(* A full recording ends the search with the next frame: no more than the   *)
(* audio of one frame is refused (lines 2678, 3004-3010).                   *)
OverflowEndsSearch == phase \in {"searching", "voicingEnded"} => wb.overflow_count <= SamplesIn(1)

(* In gated mode the waveform handed out after the trim is in one piece of  *)
(* memory, was recorded, and has all the audio of the words, first frame    *)
(* to last, in the frames' own count (lines 3929-3947,                      *)
(* RecognizerResultImpl.c:73-80).                                           *)
WaveformHasTheWords ==
  (phase = "done" /\ label # <<>> /\ wb.state = "LINEAR" /\ wb.overflow_count = 0) =>
    /\ wb.readIdx + wb.read_size <= Capacity
    /\ wb.read_size <= Len(wb.held)
    /\ wb.held # <<>>
    /\ wb.held[1] <= onset + SamplesIn(label[1])
    /\ wb.held[1] + wb.read_size >= onset + SamplesIn(label[2])

(* SR_RecognizerResult.h:114: "Returns the endpointed waveform that was     *)
(* used for recognition": what is handed out was recorded.                  *)
WaveformWasRecorded ==
  (phase = "done" /\ label # <<>> /\ wb.held # <<>>) => wb.read_size <= Len(wb.held)
=============================================================================
