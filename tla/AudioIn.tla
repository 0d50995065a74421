------------------------------ MODULE AudioIn -------------------------------
(***************************************************************************)
(* The audio input of audio/AudioIn/UNIX/src/audioin.c.  An acquisition    *)
(* thread, created by the first open, reads the codec and stores what it   *)
(* read in a circular FIFO; the application's thread opens, starts, reads, *)
(* stops and closes.  gAudioMutex guards the FIFO and the three condition  *)
(* variables; bRecord, bClose and the status are also touched without it.  *)
(*                                                                         *)
(* A section under the mutex is one step; so is each access outside it. A  *)
(* thread in pthread_cond_wait is at a place that ends in Wait, and at the *)
(* one that ends in Woken once it was signalled, or woke up by itself.     *)
(*                                                                         *)
(* The FIFO holds, instead of samples, their place in the recording: the   *)
(* n-th sample the codec delivered since lhs_audioinStart is n, one from   *)
(* before it is Stale.                                                     *)
(***************************************************************************)
EXTENDS Integers, Sequences

CONSTANTS Size,         \* SAMPLES_BUFFER_SIZE
          HighWater,    \* SAMPLES_BUFFER_HIGH_WATERMARK
          Fragment,     \* gCodecFragmentSizeInFrames
          MaxRecorded   \* bound: samples of one recording the codec delivers

ASSUME FifoAssumption == Size \in Nat \ {0} /\ HighWater \in 0 .. Size
ASSUME CodecAssumption == Fragment \in 1 .. Size /\ MaxRecorded \in Nat

VARIABLES android,      \* which of the two AcquisitionThread the build has
          app, thread,  \* the places of the two threads
          runSignaled, openSignaled, closeSignaled,  \* g...Signaled
          initialized,  \* gInitialized
          bRecord, bClose,
          pcmOpen,      \* ghPCM, or the Android driver, is open
          callback,     \* gpCallback # NULL
          eStatusInfo, available,            \* gAudioInInfo
          fifo, writeIndex, readIndex,
          chunk,        \* what the thread holds of its last read of the codec
          want,         \* *u32NbrOfSamples of the call under way
          recorded,     \* history: samples stored that are not Stale
          got,          \* history: samples handed to the application since Start
          overrun       \* history: the FIFO was overrun since Start

flags == <<runSignaled, openSignaled, closeSignaled, initialized>>
device == <<pcmOpen, callback>>
indices == <<available, fifo, writeIndex, readIndex>>
history == <<recorded, got, overrun>>
data == <<eStatusInfo, indices, chunk, want, history>>
vars == <<android, app, thread, flags, bRecord, bClose, device, data>>

Stale == 0
NoChunk == <<>>
ReadError == <<-1>>    \* snd_pcm_readi returned less than zero

AppPlaces == {"closed", "initWait", "initWoken", "prepare", "openSignal", "openFinish",
              "open", "getSamples", "copy", "closeOn", "closeLock", "closeWait", "closeWoken"}
ThreadPlaces == {"none", "born", "openWait", "openWoken", "loop", "read", "check", "store",
                 "closeDevice", "closeSignal"}

StatusInfo == {"NORMAL", "HIGHWATERMARK", "FIFOOVERRUN", "HWOVERRUN"}

Init == /\ android \in BOOLEAN
        /\ app = "closed" /\ thread = "none"
        /\ runSignaled = FALSE /\ openSignaled = FALSE /\ closeSignaled = FALSE
        /\ initialized = FALSE
        /\ bRecord = FALSE /\ bClose = TRUE
        /\ pcmOpen = FALSE /\ callback = FALSE
        /\ eStatusInfo = "NORMAL" /\ available = 0
        /\ fifo = [i \in 0 .. Size - 1 |-> Stale] /\ writeIndex = 0 /\ readIndex = 0
        /\ chunk = NoChunk /\ want = 0
        /\ recorded = 0 /\ got = <<>> /\ overrun = FALSE

AppAt(from, to) == app = from /\ app' = to
ThreadAt(from, to) == thread = from /\ thread' = to
-----------------------------------------------------------------------------
(* The application: lhs_audioinOpenEx, lhs_audioinOpenCallback. *)

(* What was captured up to now is not part of the recording that begins. *)
NewRecording ==
  /\ fifo' = [i \in 0 .. Size - 1 |-> Stale]
  /\ chunk' = IF chunk = ReadError THEN chunk ELSE [i \in DOMAIN chunk |-> Stale]
  /\ recorded' = 0 /\ got' = <<>> /\ overrun' = FALSE

(* Initialize creates the thread once, with the mutex held until it waits. *)
Open == /\ app = "closed"
        /\ app' = IF initialized THEN "prepare" ELSE "initWait"
        /\ thread' = IF initialized THEN thread ELSE "born"
        /\ UNCHANGED <<android, flags, bRecord, bClose, device, data>>

InitWoken == /\ app = "initWoken"
             /\ app' = IF runSignaled THEN "prepare" ELSE "initWait"
             /\ initialized' = runSignaled /\ runSignaled' = FALSE
             /\ UNCHANGED <<android, thread, openSignaled, closeSignaled, bRecord, bClose,
                            device, data>>

(* OpenAndPrepareSound refused by a check it makes before it sets anything; *)
(* ALSA's, but for the first, leave the device open.                        *)
PrepareFails == /\ AppAt("prepare", "closed")
                /\ pcmOpen' \in {pcmOpen, pcmOpen \/ ~android}
                /\ UNCHANGED <<android, thread, flags, bRecord, bClose, callback, data>>

(* On Android the driver may refuse after what the FIFO holds is given up. *)
AudioOpenFails == /\ android /\ AppAt("prepare", "closed")
                  /\ available' = 0
                  /\ NewRecording
                  /\ UNCHANGED <<android, thread, flags, bRecord, bClose, device, eStatusInfo,
                                 writeIndex, readIndex, want>>

Prepare == /\ AppAt("prepare", "openSignal")
           /\ pcmOpen' = TRUE
           /\ available' = 0
           /\ bClose' = FALSE
           /\ NewRecording
           /\ UNCHANGED <<android, thread, flags, bRecord, callback, eStatusInfo, writeIndex,
                          readIndex, want>>

(* Faulty, used by no action: a signal the woken thread takes for spurious. *)
SignalOpenUnflagged == /\ AppAt("openSignal", "openFinish")
                       /\ thread' = IF thread = "openWait" THEN "openWoken" ELSE thread
                       /\ UNCHANGED <<android, flags, bRecord, bClose, device, data>>

(* A condition is signalled before its flag is set; nobody waits, nobody wakes. *)
SignalOpen == /\ AppAt("openSignal", "openFinish")
              /\ thread' = IF thread = "openWait" THEN "openWoken" ELSE thread
              /\ openSignaled' = TRUE
              /\ UNCHANGED <<android, runSignaled, closeSignaled, initialized, bRecord, bClose,
                             device, data>>

OpenFinish == /\ AppAt("openFinish", "open")
              /\ eStatusInfo' = "NORMAL"
              /\ callback' \in BOOLEAN
              /\ UNCHANGED <<android, thread, flags, bRecord, bClose, pcmOpen, indices, chunk,
                             want, history>>
-----------------------------------------------------------------------------
(* The application: lhs_audioinStart, Stop, GetSamples, Close. *)

(* Faulty, used by no action: a restart that goes on reading where it was. *)
StartWithoutRewind ==
  /\ app = "open"
  /\ writeIndex' = 0 /\ available' = 0 /\ bRecord' = TRUE
  /\ NewRecording
  /\ UNCHANGED <<android, app, thread, flags, bClose, device, eStatusInfo, readIndex, want>>

Start == /\ app = "open"
         /\ writeIndex' = 0 /\ readIndex' = 0 /\ available' = 0
         /\ bRecord' = TRUE
         /\ NewRecording
         /\ UNCHANGED <<android, app, thread, flags, bClose, device, eStatusInfo, want>>

Stop == /\ app = "open"
        /\ bRecord' = FALSE
        /\ UNCHANGED <<android, app, thread, flags, bClose, device, data>>

(* Samples are fetched by call or delivered by callback, not both; a call  *)
(* for none is left out.                                                    *)
GetSamples(n) == /\ AppAt("open", "getSamples")
                 /\ ~callback
                 /\ want' = n
                 /\ UNCHANGED <<android, thread, flags, bRecord, bClose, device, eStatusInfo,
                                indices, chunk, history>>

(* Faulty, used by no action: samples taken whether they are there or not. *)
CopyUnchecked == /\ AppAt("getSamples", "copy")
                 /\ UNCHANGED <<android, thread, flags, bRecord, bClose, device, data>>

(* The check is made without the mutex; while it fails the call sleeps. *)
EnoughSamples == /\ AppAt("getSamples", "copy")
                 /\ want <= available
                 /\ UNCHANGED <<android, thread, flags, bRecord, bClose, device, data>>

Held(n) == [i \in 1 .. n |-> fifo[(readIndex + i - 1) % Size]]

(* n samples leave the FIFO for the application. *)
Taken(n) == /\ got' = got \o Held(n)
            /\ readIndex' = (readIndex + n) % Size
            /\ available' = available - n

Copy == /\ AppAt("copy", "open")
        /\ Taken(want)
        /\ want' = 0
        /\ UNCHANGED <<android, thread, flags, bRecord, bClose, device, eStatusInfo, fifo,
                       writeIndex, chunk, recorded, overrun>>

CloseCall == /\ AppAt("open", "closeOn")
             /\ bRecord' = FALSE
             /\ UNCHANGED <<android, thread, flags, bClose, device, data>>

SetCloseOn == /\ AppAt("closeOn", "closeLock")
              /\ bClose' = TRUE
              /\ UNCHANGED <<android, thread, flags, bRecord, device, data>>

(* Faulty, used by no action: a close that leaves the thread to itself. *)
CloseWithoutWait == /\ AppAt("closeLock", "closed")
                    /\ UNCHANGED <<android, thread, flags, bRecord, bClose, device, data>>

CloseWait == /\ AppAt("closeLock", "closeWait")
             /\ UNCHANGED <<android, thread, flags, bRecord, bClose, device, data>>

CloseWoken == /\ app = "closeWoken"
              /\ app' = IF closeSignaled THEN "closed" ELSE "closeWait"
              /\ closeSignaled' = FALSE
              /\ UNCHANGED <<android, thread, runSignaled, openSignaled, initialized, bRecord,
                             bClose, device, data>>
-----------------------------------------------------------------------------
(* The acquisition thread. *)

ThreadRunning == /\ ThreadAt("born", "openWait")
                 /\ app' = IF app = "initWait" THEN "initWoken" ELSE app
                 /\ runSignaled' = TRUE
                 /\ UNCHANGED <<android, openSignaled, closeSignaled, initialized, bRecord,
                                bClose, device, data>>

(* Faulty, used by no action: every end of the wait taken for an open. *)
OpenWokenUnchecked == /\ ThreadAt("openWoken", "loop")
                      /\ openSignaled' = FALSE
                      /\ UNCHANGED <<android, app, runSignaled, closeSignaled, initialized,
                                     bRecord, bClose, device, data>>

OpenWoken == /\ thread = "openWoken"
             /\ thread' = IF openSignaled THEN "loop" ELSE "openWait"
             /\ openSignaled' = FALSE
             /\ UNCHANGED <<android, app, runSignaled, closeSignaled, initialized, bRecord,
                            bClose, device, data>>

GetClose == /\ thread = "loop"
            /\ thread' = IF bClose THEN "closeDevice" ELSE "read"
            /\ UNCHANGED <<android, app, flags, bRecord, bClose, device, data>>

(* snd_pcm_readi, or AudioRead until the fragment is full or nothing comes. *)
ReadCodec(n) == /\ ThreadAt("read", "check")
                /\ recorded + n <= MaxRecorded
                /\ chunk' = [i \in 1 .. n |-> recorded + i]
                /\ UNCHANGED <<android, app, flags, bRecord, bClose, device, eStatusInfo, indices,
                               want, history>>

ReadFails == /\ ThreadAt("read", "check")
             /\ ~android
             /\ chunk' = ReadError
             /\ UNCHANGED <<android, app, flags, bRecord, bClose, device, eStatusInfo, indices,
                            want, history>>

(* getRecord, without the mutex *)
GetRecord == /\ thread = "check"
             /\ thread' = IF bRecord /\ chunk # ReadError THEN "store" ELSE "loop"
             /\ chunk' = IF thread' = "store" THEN chunk ELSE NoChunk
             /\ eStatusInfo' = IF bRecord /\ chunk = ReadError THEN "HWOVERRUN" ELSE eStatusInfo
             /\ UNCHANGED <<android, app, flags, bRecord, bClose, device, indices, want, history>>

Overfull == available + Len(chunk) > Size

StatusAfterStore == IF Overfull THEN "FIFOOVERRUN"
                    ELSE IF available + Len(chunk) > HighWater THEN "HIGHWATERMARK"
                    ELSE IF eStatusInfo # "FIFOOVERRUN" THEN "NORMAL"
                    ELSE eStatusInfo

AvailableAfterStore == IF Overfull THEN Size ELSE available + Len(chunk)

(* Two copies when the chunk runs past the end of the buffer. *)
FifoAfterStore ==
  [i \in 0 .. Size - 1 |->
     IF i >= writeIndex /\ i - writeIndex < Len(chunk) THEN chunk[i - writeIndex + 1]
     ELSE IF i + Size - writeIndex < Len(chunk) THEN chunk[i + Size - writeIndex + 1]
     ELSE fifo[i]]

(* A chunk is stale as a whole, or not at all. *)
FreshIn(held) == IF held = NoChunk \/ held[1] = Stale THEN 0 ELSE Len(held)

Stored == /\ ThreadAt("store", "loop")
          /\ eStatusInfo' = StatusAfterStore
          /\ fifo' = FifoAfterStore
          /\ writeIndex' = (writeIndex + Len(chunk)) % Size
          /\ overrun' = (overrun \/ Overfull)
          /\ recorded' = recorded + FreshIn(chunk)
          /\ chunk' = NoChunk
          /\ UNCHANGED <<android, app, flags, bRecord, bClose, device, want>>

StoreQuietly == /\ ~callback
                /\ Stored
                /\ available' = AvailableAfterStore
                /\ UNCHANGED <<readIndex, got>>

(* Faulty, used by no action: the callback given what the FIFO holds. *)
NotifyFromFifo == /\ callback /\ android
                  /\ Stored
                  /\ available' = AvailableAfterStore
                  /\ got' = got \o [i \in 1 .. available' |-> fifo'[(readIndex + i - 1) % Size]]
                  /\ UNCHANGED readIndex

(* The Android thread hands its own chunk over; nothing empties the FIFO. *)
StoreAndNotify == /\ callback /\ android
                  /\ Stored
                  /\ available' = AvailableAfterStore
                  /\ got' = got \o chunk
                  /\ UNCHANGED readIndex

(* The other thread takes fragments out of the FIFO while it holds one.     *)
DeliverBlocks == /\ callback /\ ~android
                 /\ Stored
                 /\ LET n == (AvailableAfterStore \div Fragment) * Fragment
                    IN  /\ available' = AvailableAfterStore - n
                        /\ readIndex' = (readIndex + n) % Size
                        /\ got' = got \o [i \in 1 .. n |-> fifo'[(readIndex + i - 1) % Size]]

CloseDevice == /\ ThreadAt("closeDevice", "closeSignal")
               /\ pcmOpen' = FALSE
               /\ UNCHANGED <<android, app, flags, bRecord, bClose, callback, data>>

(* Faulty, used by no action: the flag forgotten. *)
SignalCloseUnflagged == /\ ThreadAt("closeSignal", "openWait")
                        /\ app' = IF app = "closeWait" THEN "closeWoken" ELSE app
                        /\ UNCHANGED <<android, flags, bRecord, bClose, device, data>>

(* Signals with the mutex held and waits for the next open in the same section. *)
SignalClose == /\ ThreadAt("closeSignal", "openWait")
               /\ app' = IF app = "closeWait" THEN "closeWoken" ELSE app
               /\ closeSignaled' = TRUE
               /\ UNCHANGED <<android, runSignaled, openSignaled, initialized, bRecord, bClose,
                              device, data>>
-----------------------------------------------------------------------------
(* POSIX lets a wait end without a signal; the code expects it. *)
SpuriousWakeup == /\ \/ AppAt("initWait", "initWoken") /\ UNCHANGED thread
                     \/ AppAt("closeWait", "closeWoken") /\ UNCHANGED thread
                     \/ ThreadAt("openWait", "openWoken") /\ UNCHANGED app
                  /\ UNCHANGED <<android, flags, bRecord, bClose, device, data>>

UserCalls == Open \/ Start \/ Stop \/ CloseCall \/ \E n \in 1 .. Size : GetSamples(n)

AppWorks == \/ InitWoken \/ PrepareFails \/ AudioOpenFails \/ Prepare \/ SignalOpen
            \/ OpenFinish \/ EnoughSamples \/ Copy
            \/ SetCloseOn \/ CloseWait \/ CloseWoken

Acquire == \/ GetClose \/ GetRecord \/ ReadFails
           \/ \E n \in 0 .. Fragment : ReadCodec(n)
           \/ StoreQuietly \/ StoreAndNotify \/ DeliverBlocks

ThreadWorks == ThreadRunning \/ OpenWoken \/ Acquire \/ CloseDevice \/ SignalClose

Next == UserCalls \/ AppWorks \/ ThreadWorks \/ SpuriousWakeup

(* Both threads run; nobody has to call, and no wait ends by itself. *)
Fairness == WF_vars(AppWorks) /\ WF_vars(ThreadWorks)

Spec == Init /\ [][Next]_vars /\ Fairness
-----------------------------------------------------------------------------
Samples == Stale .. MaxRecorded

TypeOK == /\ android \in BOOLEAN
          /\ app \in AppPlaces /\ thread \in ThreadPlaces
          /\ runSignaled \in BOOLEAN /\ openSignaled \in BOOLEAN /\ closeSignaled \in BOOLEAN
          /\ initialized \in BOOLEAN /\ bRecord \in BOOLEAN /\ bClose \in BOOLEAN
          /\ pcmOpen \in BOOLEAN /\ callback \in BOOLEAN
          /\ eStatusInfo \in StatusInfo /\ available \in 0 .. Size
          /\ fifo \in [0 .. Size - 1 -> Samples]
          /\ writeIndex \in 0 .. Size - 1 /\ readIndex \in 0 .. Size - 1
          /\ chunk = ReadError \/ chunk \in Seq(Samples)
          /\ want \in 0 .. Size
          /\ recorded \in 0 .. MaxRecorded /\ got \in Seq(Samples) /\ overrun \in BOOLEAN

ThreadIdle == thread \in {"none", "born", "openWait", "openWoken"}

(* Between two openings the thread touches neither the device nor the FIFO: *)
(* Close does not return before the thread has left its loop, and a new     *)
(* open finds it waiting, so its one signal is not lost                     *)
(* (audioin.c:994-1003, 1129-1156).                                         *)
IdleWhileClosed == app \in {"closed", "initWait", "initWoken", "prepare", "openSignal"} => ThreadIdle

(* The thread reads the codec, and closes it, only while it is open; it     *)
(* works on one handle with the application's OpenAndPrepareSound           *)
(* (audioin.c:620, 775, 857).                                               *)
ReadsOpenDevice == thread \in {"loop", "read", "closeDevice"} => pcmOpen

(* The recording so far, after s samples from before its start. *)
Recording(s) == [i \in 1 .. s + recorded |-> IF i <= s THEN Stale ELSE i - s]

FifoIsRead == ~(android /\ callback)

(* What the application got and what waits for it are the recording from   *)
(* its start, nothing lost, doubled or out of order, until the FIFO is     *)
(* overrun; before it at most the one fragment the thread held when the    *)
(* recording was started (audioin.c:643, 1200, 1282).                      *)
RecordingInOrder ==
  ~overrun /\ FifoIsRead => \E s \in 0 .. Fragment : got \o Held(available) = Recording(s)

(* A callback on Android gets the recording in order whatever becomes of   *)
(* the FIFO, which nobody reads (audioin.c:513-521).                       *)
CallbackInOrder == ~FifoIsRead => \E s \in 0 .. Fragment : got = Recording(s)

(* A close that waits before the thread answers is answered, and then the  *)
(* device is closed and the thread waits for the next open                 *)
(* (audioin.c:1130-1156).                                                  *)
WaitingCloseReturns == (app = "closeWait" /\ ~ThreadIdle) ~> (app = "closed" /\ ThreadIdle)

(* An opened device is read: the thread always comes to its loop           *)
(* (audioin.c:581-606, 994-1003).                                          *)
OpenStartsReading == app = "openFinish" ~> thread \in {"loop", "read"}

(* lhs_audioinClose returns (audioin.c:1129: "wait for the thread to stop  *)
(* reading samples").                                                      *)
CloseReturns == app = "closeOn" ~> app = "closed"
=============================================================================
