# SREC in TLA+

Specifications, model checks and proofs for the SREC speech recognizer of this
repository. The modules follow the C code under `src/`; `PROJECT.json` says which
lines each definition stands for.

## 1. The system

An application creates a recognizer, gives it a grammar, starts it, brings audio
with `PutAudio`, and calls `Advance` until the answer is complete; then it stops
it. Inside one `Advance`:

    PutAudio -> audio ring -> front end -> frame buffer -> search -> result
               CircularBuffer  ca_wave      fpi_tgt.c      crec     RecognizerImpl
                               ca_front     (window, endpointer)

| Component | State | Operations | Hard part |
|---|---|---|---|
| Recognizer session (`srec/Recognizer`) | internal state, `isStarted`, `gotLastFrame`, counts of frames made and searched | Start, PutAudio, Advance, Stop, CreateResult | two threads; the lock is taken and released several times in one call; stops from inside; partly failed starts |
| CircularBuffer (`shared/src`) | count, two indices, data | read, write, skip, reset | wrap of two indices in two chunks |
| Frame buffer (`srec/clib/fpi_tgt.c`) | three slot pointers, endpointer counters | push, advance, seek, statistics, start, stop, flush | pointer order at wraps; frames kept for the wind-back; blocked pushes |
| CA layer (`srec/ca`) | handles over the above, `is_running` | unlock, lock, flush, seek, begin and end recognition | assertions on call order |
| Client (`srec/test/SRecTest`) | `hit_eof` | feed loop, flush loop | the loops must end, the ring must not overflow |
| Voicing detector, front end (`srec/clib`, `srec/cfront`) | channel levels, filters | one sample buffer in, one frame out | arithmetic |
| Audio input (`audio/AudioIn/UNIX`) | FIFO of samples with its indices and count, three condition variables with a flag each, `bRecord`, `bClose` | open, start, get samples, stop, close; the acquisition thread's loop | two threads, half of the shared flags outside the mutex; spurious wakeups; overruns |
| End-of-speech detector (`srec/crec/srec_eosd.c`) | timeouts by kind of end node | one call per frame | timeouts against each other |
| Search (`srec/crec`) | paths on arcs and at nodes, a queue of word ends, the word lattice, pools of tokens | begin, one frame, epsilon updates, no more frames | tokens named by index, kept alive by nobody's count; a pool that runs out in the middle of a frame |
| WaveformBuffer (in `RecognizerImpl.c`) | a second ring, mode, overflow count | write, wind back, trim, read | circular to linear at the start of speech; sizes computed from frame counts |
| Containers (`shared/src`, `portable/src/phashtable.c`) | buckets of linked entries, free list, blocks | put, remove, remove all, size, key and value by index | growth in place; removal during iteration; memory that runs out half way |
| Grammar, vocabulary, semantics, nametags | compiled tables | load, compile, evaluate | strings, rollback of added words |
| Sessions, portability, event log, JNI | property maps, files | get, set, write | input and output |

Interactions. `Advance` calls everything below it in the caller's thread.
`PutAudio` may run in another thread; it shares the ring, `isStarted` and
`gotLastFrame` with the application through the lock installed by
`SR_RecognizerSetLockFunction`. The frame buffer, the search and the result
belong to the application's thread. The audio input has a thread of its own, which
meets the application's only in its FIFO, its flags and its three conditions; what
it captures reaches the recognizer by `PutAudio`. There are no messages, and
nothing survives a restart.

What makes it correct: the ring loses and reorders nothing; the reader of the
frame buffer can go back as far as promised and is never overrun; the search runs
exactly when the internal state says so; every frame made is searched; the last
frame ends the utterance; calls return; what was recorded is handed on in order and
is wound back with the frames; a word token is not taken back while a path still
traces through it; a map is a map whatever its table does. `PROJECT.json` lists the hazards behind
these at the lines where they bite.

## 2. The modules

| Module | Models | Reads |
|---|---|---|
| `ByteFifo` | what the ring promises: a bounded queue of bytes | `CircularBuffer.h` |
| `CircularBuffer` | the ring: indices, two-chunk copies | `CircularBuffer.c` |
| `FrameOps` | the frame window as counts: operators from a window to a window | `fpi_tgt.c`, `utt_*.c` |
| `FrameWindow` | what the frame buffer promises: a window moved by `FrameOps` | `RecognizerImpl.c` for the order of calls |
| `FrameBuffer` | the pointers, voicing codes, endpointer, fixup pointer | `fpi_tgt.c`, `fpi_tgt.h`, `get_fram.c`, `utt_*.c` |
| `Recognizer` | the session over two threads, with `FrameOps` as its window | `RecognizerImpl.c` |
| `FeedLoop` | `Recognizer` driven by the loop of the test program | `SRecTest.c` |
| `Recording` | the recording for nametags beside the frame window it is wound back with | `RecognizerImpl.c`, `RecognizerResultImpl.c`, `get_fram.c` |
| `AudioIn` | the acquisition thread and the application around one FIFO | `audioin.c` |
| `Search` | the frame-synchronous search and its word tokens | `srec.c`, `word_lattice.c`, `priority_q.c`, `srec_tokens.c`, `astar.c` |
| `KeyMap` | what the users of a hash map rely on: a mapping and the order its indices list it in | `HashMap.h`, `HashMapImpl.c` |
| `HashMap` | the map over the chained hash table | `HashMapImpl.c`, `phashtable.c` |
| `*Proofs` | theorems of the module they are named after; those of `Recognizer` are in `FeedLoopProofs` | |
| `MC*`, `*.cfg` | small instances for TLC | |

How they fit: `CircularBuffer` implements `ByteFifo` with `queue` the bytes between
the two indices, oldest first. `FrameBuffer` implements `FrameWindow` with the
record `WindowSeen`: the pointer gaps, the activity flag and the endpointer.
`Recognizer` uses the same operators of `FrameOps`, so what it assumes of the frame
buffer is what `FrameBuffer` is shown to do. Of the ring it keeps the number of
units, the length of `ByteFifo`'s queue. `Recording` uses `FrameOps` once more: the
frames it winds back are those of the window the recognizer keeps. `HashMap`
implements `KeyMap`: its mapping is what the linked entries of all buckets hold, its
order the walk over them.

### From code to actions

*CircularBuffer.* One action per call. The data area, both indices and the count are
kept as in the code. `ret` is the value returned and `buf` the caller's buffer.
`Unwrite` is left out: its one caller reaches it only after a write of an odd number
of bytes, and it writes whole samples.

*FrameBuffer.* One action per call the recognizer makes, each with all the calls it
makes below it: `Begin` is the unlock, the level timeout and the voicing reset that
`SR_RecognizerStart` makes; `MakePatternFrame` is `get_utterance_frame` with the
fixup and the advance after it; `SeekStartOfUtterance` goes to the oldest frame, over
the hold-off, forward to the first voiced frame and back by the wind-back. A push
that finds no room has already written its slot and moved the endpointer: so it does
here. `phase` says which of its calls the recognizer makes next.

*Recognizer.* A call is cut where it takes the lock and nowhere else within the
shared state, since only there can the other thread come in between. `pc` names the
section reached. `PutAudio` is one step up to its unlock; the assignment of
`gotLastFrame` after the unlock is the step `PutLast`. `Start` assigns the shared
flags without the lock; it is one step, and so are the parts of `Advance` between
two locked sections, which touch nothing the other thread reads. An overflowing
`PutAudio` leaves the lock `"leaked"`: every later section that takes the lock
waits. `Stop` called from inside (`StopInside`) goes on with the same `stopReset` and
`stopFinish` sections as a call of the application. What depends on samples or
scores is a free choice: whether samples give a frame, whether it is voiced, whether
the utterance has ended, whether the result is a match.

*FeedLoop.* Each action is a step of `Recognizer` with the client's place in its loop.
One thread: it puts, waits for the put to end, advances.

*Recording.* One action per step of `Advance` that touches the recording: a frame made
while listening, the start of the search with its wind-back of frames and of
audio, a frame searched, the end and the trim. Audio is counted in units, and a
unit is its place in what was heard. In gated mode the frame that shows speech is
the newest one (`SoughtNewest`); the wind-back the seek returns is the configured one
(utt_data.c:65), and what it moved is bounded by the frames kept, so the audio and the
frames may part by the tolerance `WoundBackTogether` states, one frame.

*AudioIn.* The places of the two threads are `app` and `thread`. A section under
`gAudioMutex` is one step; so is every access outside it (`bRecord` and `bClose` are read
without the mutex, and the sample count is compared before it is taken). A wait is two
places, asleep and woken; `SpuriousWakeup` moves a thread from one to the other
at any time, as POSIX allows and as the flags are there for. The FIFO holds the place of
each sample in the recording, or `Stale` for one from before its start. `android`
chooses between the two builds of the thread, which differ in the device, in what a read may
return and in how the callback is served. An open may fail: at a check before anything is set
(`PrepareFails`, which on Linux may leave the device open), or, on Android, in the driver, when
the count has been set to zero (`AudioOpenFails`, audioin.c:839): with what the FIFO held its
recording ends.

*Search.* `Begin` is `srec_begin`. A frame is `Observe` (the paths step along their arcs,
are pruned, may reprune the word tokens, and reach the nodes), one `EpsilonStep` for
each turn of the loop of `do_epsilon_updates`, and `EndFrame`; `NoMoreFrames` ends the
utterance. A turn of the loop is one step although nothing can come in between: it
is where a token freed too early is handed out again. Costs are small numbers; the
scores of a frame come from a few vectors. Within repruning the A* pass runs
back through the lattice from the words the paths come from. Which frames it visits depends on
costs kept elsewhere: here any set `frames` that `Searched` allows, which has the frame before one
of those words and otherwise frames before the words of frames it has. It sorts the lists of
those frames, the best first, and flags them in `sorted` (`sort_word_lattice_at_frame`), so that
none is sorted twice; and it keeps any of their words (`chosen`) with what they trace back to, by
`Trace`: the least set closed under `backtrace`. `TopChoice` is the one call on the result that
sorts a list, that of the last frame (the others only read; asked before a frame has been searched
it returns at once, and asked again it changes nothing). The queue and that list share their
links, so what the queue's head leads to afterwards is the end of the sorted list. Arcs are
models of one state, and only word tokens run out. `GrammarAssumption` gives the arcs their
types. `WordsWithin` is a condition on grammars that the runs' grammar meets and the theorems assume: no
boundary is reached from the start by epsilons alone, and none leaves the end node.

*HashMap.* One action per call. `table.entries` is the heap: an entry has its key and value, the
bucket it lies in (`idx`) and `prev` and `next`; buckets and the free list are heads of
lists. The loops of the code are recursive functions over their turns: `Rehashed` spreads one old
bucket after the other in the array that has grown, `Spread` goes along a list and
reads what follows an entry before the entry may move, `Emptied` lets the iterator leave
an entry before it is removed. An allocation may fail wherever the code makes one. Of a
freed entry `Blank` keeps `next`, which the free list goes by; what else the code
leaves in it, nobody reads. `result` is what the last call returned and what it left in the
caller's variable for the answer: `Untouched` when it wrote nothing, as on every miss.
`KeyMap` leaves the variable open there, since `HashMap.h` says null; that the implementation
is not the header's in this, and in removing an absent key, are two runs of their own.

## 3. The runs

| Run | Instance | Shows |
|---|---|---|
| `CircularBuffer` | 3 bytes, two byte values, transfers up to 4 | type, `IndicesAgree`, refinement `IsFifo` |
| `FrameBuffer` | 5 slots, 3 kept, wind-back 1, hold-off 0 or 2 | pointer order, kept frames, fixup pointer, refinement `ImplementsWindow` |
| `Recognizer` | the same window, ring of 2.5 frames, both modes, faulty starts | six invariants, `LastFrameEndsUtterance` |
| `RecognizerCallsReturn` | gated | `CallsReturn` fails: an overflow keeps the lock |
| `RecognizerLastFrame` | gated | `LastFrameBelongs` fails with two threads |
| `FeedLoop` | 5 slots, 3 kept, wind-back 2, ring of 4 frames, gated | no overflow, no audio carried over, both loops end |
| `AudioIn` | FIFO of 3, fragments of 2, recordings of 5 samples, both builds | the thread is idle between openings and reads only an open device; the recording in order; two calls that must be answered |
| `AudioInClose` | FIFO of 2, one sample | `CloseReturns` fails: the signal comes before the wait |
| `Recording` | window of 4 in 6 slots, wind-back, background and hold-off of 2, ring of 19 units | one piece of what was heard; wound back with the frames; full ends the search; the waveform has the words |
| `RecordingTrim` | the same | `WaveformWasRecorded` fails: a size past the end |
| `Search` | 6 word tokens, queue of 2, 4 frames, 13 arcs, four score vectors, beam 3 | no token in use is free; backtraces go down to the start; the queue keeps the cheapest; the lattice lists the frame's words in the order its flags say |
| `HashMap` | 3 keys, table growing 1, 3, 7, blocks of 2; all keys share the one bucket, two share one of three, none of seven | the lists hold together; refinement `ImplementsMapping` |

Bounds and why they suffice. The ring of three bytes has every position of both
indices, transfers longer than the ring, and chunks of every length on both sides of
the end. Five slots give room for three kept and one unread frame with every
alignment of the three pointers at the wrap; a hold-off of two covers seeks that stop
in it and beyond it. `MaxQuiet` caps the count of quiet frames before speech, which
nothing reads until speech begins. In `Recognizer` `MaxFrames` stops audio after five
frames, which exceeds the window, the background's two and the timeout's three, so
each is passed; samples come in units of half a frame, so odd amounts are left over.
In `FeedLoop` the frames and the ring keep the shipped proportions
(`config/en.us/baseline.par`: background 25 frames, wind-back 50 of which every second is
kept, hold-off 30): wind-back equal to the background, hold-off not shorter than the
wind-back. This is the edge of what works: with a shorter wind-back the run's
`FeedReturns` is violated, which its mutant `SeekToVoice` shows.
In `AudioIn` a fragment does not divide the FIFO, so chunks wrap and overrun it at every
alignment, and a recording is longer than the FIFO and one fragment. `Recording`
keeps the proportions of `FeedLoop`, with a ring whose size is no multiple of a
buffer. In `Search` the pool runs out in the middle of a frame, the queue evicts, twins are
replaced, nodes are blocked, and alternatives and second utterances occur. With 6 tokens
repruning sorts lists of unequal words before the utterance ends, and takes words out of them
afterwards; with 5 it would only come to words that cost the same. In
`HashMap` the table grows twice, entries are reused, and each allocation can fail.

Fairness. `Recognizer` assumes weak fairness of the application's calls of `Advance`
together with the continuation of any call (`AdvanceCall \/ Proceed`), and of
`PutLast`: an application that does not stop advancing, and threads that finish what
they have called. Nobody has to bring audio or to stop. `FeedLoop` assumes that its
one thread runs (`WF(FeedNext)`): its client is a loop with no waiting in it. `AudioIn`
assumes that both threads run (`WF(AppWorks)`, `WF(ThreadWorks)`); nobody has to call, and
no wait is assumed to end by itself. None assumes that a given answer of the search,
the endpointer or the device ever comes.

Deadlock is checked in every run that passes except `Recognizer`, where a leaked lock
stops both threads, which is the finding of `RecognizerCallsReturn`. A client blocked in
`GetSamples` is no deadlock: the acquisition thread goes on.

What the violations say. `CallsReturn`: RecognizerImpl.c:1755-1760 skips the unlock.
`LastFrameBelongs`: RecognizerImpl.c:1788 after the unlock. `CloseReturns`:
audioin.c:1134 waits before it looks at the flag, and the thread, which may see `bClose`
before the mutex is taken, signals once; a close that waits first is answered
(`WaitingCloseReturns`). `WaveformWasRecorded`: RecognizerImpl.c:3933 skips
only when the range lies within the recording, but the size has been set above, and
RecognizerResultImpl.c:87 hands it out.

Where comments say otherwise than the models, which follow the code. Comments at
word_lattice.c:436 say that "the head of the list on the last frame is always best", of a list
that `srec_no_more_frames` has taken over from the queue, the worst first: `LatticeInOrder`
says so of every list that is not flagged as sorted. `srec_get_top_choice_wordIDs` and
`srec_get_top_choice_score` read that head as it is. What saves them is the order of the
calls: RecognizerImpl.c asks for the label at 2000, which sorts (word_lattice.c:465), before
the score at 2002 and the word IDs at 2197; `srec_get_result`, which says that it puts "the
best choice at the top", is commented out at c47mulsp.c:88. HashMap.h:118 and 122 promise null
for a key that is absent, and HashMapImpl.c:194 leaves before anything is written, which is
`Untouched` in `HashMap`; `KeyMap` leaves the answer of a miss open, so that nobody relies on
either. HashMap.h:55-59 removes "if present" and knows no error but that of a null map, and
HashMapImpl.c:116 returns `ESR_NO_MATCH_ERROR`, on which SR_Recognizer.h:296 relies; `KeyMap`
has the code's answer here.

Two things the code does that no run shows. Outside gated mode, which is not how
it is shipped, speech that begins before the background is known sets `frames` to zero
(RecognizerImpl.c:3207); with frames waiting and the ring short, the call gives up at
2764-2769 without consuming anything, and so does the next one. In the search, a word
end whose twin is already queued replaces it when cheaper, and the twin is then neither freed
nor blocked (priority_q.c:291, 303): repruning takes its token back later. The comment
at astar.c:309 that "there may leak some bad backtraces" has no counterpart in the
model: there `NoFreedWordInUse` holds.

And one a grammar may bring about: `srec_begin` returns every word token to the pool but
does not clear the queue, as each frame does (srec.c:2314), and goes through the same
epsilon updates. With a boundary that epsilons reach from the start, the word of that
boundary meets the queue of the utterance before: in the second utterance TLC finds a token
queued twice and then freed twice (`NoFreedWordInUse`). And a boundary that leaves the end
node makes words which `remove_non_end_word_from_q` keeps beside those of the last
frame, and `QueueKeepsCheapest` fails. `WordsWithin` excludes both; nothing in `srec.c`
checks it when a grammar is loaded.

And one it may be told to do: the test program takes any size of buffer up to 10240 samples
(SRecTest.c:1561), two of which, put before and after the answer STARTED, are more than the
20000 the ring holds. `FourBuffersAreEnough` says which sizes are safe: with the shipped
hold-off, up to 5000 samples.

## 4. The proofs

TLAPS proves, for every value of the constants that satisfies the named assumptions:

* `CircularBufferProofs`. `IndexInvariant`: `size <= Capacity`, both indices in the
  data area, and `IndicesAgree`. The three are inductive together: that the second chunk
  never runs past the end follows from the write index being `size` ahead of the read
  index, once around at most, and nothing weaker. From it `IndicesAlwaysAgree`,
  `TypeCorrect` and the refinement `ImplementsFifo`. The bytes held are the ring read
  from `readIdx` on; `ChunksAreRing` says that the two chunks of a read are one run of it,
  `ChunksAreStored` and `RingGrows` that the two chunks of a write follow what was held,
  `RingFront` and `RingRest` what a read takes and leaves. Every `%` is behind `Slot`, and
  opened once, in `Modulo`.
  Assumptions: a positive capacity, natural transfers.
* `FrameOpsProofs`. Each operator on a window gives a window, and what it does to
  `ahead`, `behind` and `active`, and for the recording's proof also to `voicing` and the
  hold-off. The other proofs cite these and never open `FrameOps`.
* `FrameBufferProofs`. `BufferInvariant`: the pointers are slots, in order, and frames
  arrive in the phases that take them. Wraps are argued about once, in `GapSum`: the
  distance from one slot to a third by way of a second is the direct one or a whole turn
  more. From the invariant come `TypeCorrect` and `PointersStayInOrder`. Two properties
  need a hypothesis, stated in the theorem: `KeepsBlockBounded` that every hold-off is
  shorter than the block (30 against `KEEP_FRAMES` 40 as shipped), `FixupNeverStale` that
  the block is longer than one frame. `PointersImplementWindow` is the refinement of
  `FrameWindow`, one lemma per call; `Recognizer` takes frames through the same operators
  (`FrameOps`). The seek stops at the first voiced frame, a least
  number: the library's theorem on minimal elements gives it without recursion.
* `FeedLoopProofs`, its first half, on `Recognizer`. `SessionInvariant` is inductive; the six
  invariants of the run follow (`TypeCorrect`, `SearchRunsAsStated`, `InputLockedAsStated`,
  `NoFrameLost`, `AdvanceKeepsGoing`, `ListeningAlwaysKeepsUp`). The strengthening says, for
  each section `pc`, what the call established on its way there and the audio thread cannot take
  back: audio only grows while the application is between its check and its read, a frame waits
  when one is about to be taken, the search is running where it is about to be ended. Without
  these the invariants are not inductive: a state in section `push` with an empty ring satisfies
  all six and fails in one step. The bounds `MaxFrames` and `PutSizes` are arbitrary in the
  theorems.
* `AudioInProofs`. Two invariants, the second resting on the first. `Handshake` says what
  each flag, lock and event tells of the places of both threads. It holds through spurious
  wakeups, and without the flags' part a thread woken by chance could not be told from one
  that was signalled. From it `ThreadIdleWhileClosed` and `ReadsOnlyOpenDevice`. `DataInv`
  says that the chunk in the thread's hands is a run of the recording, or stale as a whole;
  that what the application got, followed by what the FIFO holds, is the recording until
  it is overrun; and that a recording or a store under way has the two indices meet at the
  count. It needs `Handshake` where `Prepare` and `Start` begin a recording anew, or a
  failed `AudioOpen` gives one up, which would be wrong with a store under way. `RingSplits`
  (a read), `RingGrows` (a store) and
  `ContinuesInOrder` (a chunk behind a recording) are the lemmas on data. From it
  `TypeCorrect`, `RecordingStaysInOrder` and `CallbackStaysInOrder`, for both builds, any
  FIFO and high-water mark, and any fragment no larger than the FIFO; `MaxRecorded` is
  arbitrary.

* `FeedLoopProofs`, its second half. `ClientIsAnEnvironment`: a step of the client is a step of
  `Recognizer`, so that `Inv` holds under it too. `Alone` adds what one thread makes true: a
  buffer comes between two calls, and the mark of the last frame is set before the next one.
  From it `StartsOnAFreshRing` and `LastFrameIsItsOwn`, which two threads may break
  (`RecognizerLastFrame`). `FourBuffersAreEnough` bounds the ring. Its invariant `Roomy` says,
  for each state of the utterance, what the ring may hold when the client goes for the next
  buffer and while it advances: less than a frame and a buffer, or what was put since the start
  less what has been made into frames, where speech cannot be found before the audio of `HoldOff
  + 1` frames has gone. The hypothesis `BuffersFit(b)`, for buffers of up to `b`, is `3b - 1`,
  `2b + FrameSize - 1` and `4b - (HoldOff + 1) * FrameSize` within the capacity; the run has the
  first with equality, and one unit less of ring overflows.
* `RecordingProofs`. `TypeCorrect` and `OnePiece` need no hypothesis. The invariant `Whole`
  says that a circular recording is the end of what was heard, and a linear one the run from
  the onset, from which no buffer fits once one was refused; the ring's wrap is behind the
  same lemmas as in `CircularBufferProofs`. `WordsRecorded` adds (`Worded`) that before the
  result the linear recording is read from its start. `NoWindBackFails` counts
  (`Timed`): no voicing during the hold-off, and so many buffers heard while it runs that the
  ring can be wound back. `BeginsTogether` needs the same of the frames (`Reached`): while
  it listens the reader is at the newest frame, and as many are kept behind it as the
  hold-off has let by. `SearchEnds` (`Ending`) relates the samples that overflowed to the
  frames since: the search that goes on has overflowed by none.
  Hypotheses: `RoomToWindBack` (the wind-back is covered by the hold-off, and the ring
  and the recording have room for it), `WindowToWindBack` (it lies within the frames kept,
  and those within the stack), `BackgroundFirst` (it covers the frames of the background),
  and for `WordsRecorded` a positive wind-back.

* `SearchProofs`. `SearchInvariant`, and from it the five invariants of the two runs:
  `SearchTypeCorrect`, `NoWordFreedTooSoon`, `BacktracesLeadBack`, `QueueKeepsTheCheapest` and
  `LatticeKeepsOrder`, for any grammar, pool, queue, lattice and beam. The hypothesis is
  `WordsWithin`, with the assumptions on constants of `Search`. The inductive invariant
  `SearchOK(R)` speaks of the tokens out of the pool (`Live`), where the properties speak of
  those reached by tracing. Its parts:
  - `PoolOK(s, n)`: the pool has each token once, a live word ended before frame `n`, and what
    it traces back to is live and ended before it. So `Live` is closed under
    backtraces, and whatever is reached from it lies in it.
  - `NodesOK`: one token on each node, and alternatives that are live words of frames
    before. A node's own backtrace may have been freed (`Sound`), but then the node is blocked,
    at the most a path may cost, and the word reads as one that was killed, which
    `srec_process_word_boundary_nbest` refuses.
  - `QueueOK`, `Keeps`: the queue is in order, its words ended in this frame, and of what was
    offered it has each history once at its least cost, or is full of cheaper ones.
  - `LatticeOK`: each frame's list is live, of its own frame, and in the order its flag says,
    the best first when sorted and else the worst (`Listed`); frames not reached yet are not
    flagged (`Flags`), so that a list is new when it is unsorted; with it, that what
    `srec_no_more_frames` frees is on no list that stays.
  - `InBegin(R)`: before the first frame the nodes are in `R`, the set that `WordsWithin`
    gives, where no boundary is crossed.

  The hard step is the middle of a frame. A word the queue pushes out is freed at once, and its
  token handed out again to the next. That no path goes on from it is an argument about
  costs: the queue pushes out only a word that costs more than the new one
  (`AnsweredMeans`), so that of the word just made and its alternatives, all at least as
  costly, none pushes out the first (`AlternativesOK`), and `Block` has marked every other
  node that leads to it. `AddIs` says what the queue may answer: refuse, take, or take and push out.
  Lists are folded with `FoldLeft`, of which `FoldExists` and `FoldStays` say what the proofs
  need: the fold is a function on sets of indices, and what one element keeps all of them
  keep, by an induction over a set of numbers (`SetInduction`) in place of one over
  predicates. `OnlyPicks` and `OnlyKeeps` say what a filter keeps, `RankIsPlace` that sorting
  by rank has an alternative for every place. TLC checked the invariant's parts on the run's
  instance, and on three grammars with pools of 3 to 6 tokens and queues of 1 to 3, before it was
  proved. The hypothesis is needed: see the end of section 3 for what fails without.

* `HashMapProofs`. `HashInvariant`, and from it `TableHoldsTogether` and the refinement
  `TableImplementsMapping`, for every hash function, load factor, block size and initial
  capacity that `HashAssumption` admits. The inductive invariant is `HashOK(table)`, with as
  many copies of keys as entries held. It names two sequences of entries, `V`, the lists of all
  buckets one after the other, and `F`, the free list:
  - `Threaded`: neighbours in `V` in one bucket are linked both ways, the first of a
    bucket is its head and the last has no `next`, and the buckets come in order;
  - `Spare`: `next` leads along `F` and ends with it;
  - `Shape`: both of these, and every entry is in one of the two, once; the keys in `V` are
    distinct and `size` is its length (`Holds`);
  - `Settled`: each entry lies in the bucket of its hash code.

  `Settled` is apart because a rehash breaks it: when the array has grown nearly every
  entry is in the wrong bucket, and while the lists are spread `Shape` alone holds. A search
  along links is an argument about `V`: `WalkIs` says that a walk visits the sequence whose
  successors the links give, so that a bucket is a stretch of `V` (`ChainIs`), a search finds
  the one entry with its key (`GetEntryIs`), and an iteration comes to exactly `V`
  (`VisitedIs`). `PullOut` and `PutIn` are the two changes of a list: one entry leaves `V`, or
  comes in at the head of its bucket. Everything else is made of them: `RemovedIs`,
  `InsertedIs`, `MovedIs`.

  The rehash is the hard step. An entry may move to an old bucket that is still to be spread; it
  is met there again, and stays. `SpreadTo` says where the loop is: the entries before it
  are where they belong, those after it are as they were, and the `next` read ahead is
  still the next of the list, as no move touches it but for its `prev`. `SpreadIs` and
  `RehashedIs` conclude that the entries are the same and all are settled, `EmptiedIs` that
  an emptied table has all its entries on the free list. An induction over the turns of a
  loop is one over a set of numbers (`SetInduction`, `Climb`), as in `SearchProofs`.

  The refinement has a lemma for each call. `PresentsIs` and `OrderLists` give the mapping and
  the order as those of `V`: removing an entry leaves the order of the others, so that a loop by
  index may remove as it goes; only a put, which may grow the table even where it fails, may
  rearrange them, as `KeyMap` allows. TLC checked the parts of the invariant on the run's
  instance before they were proved.

The shipped values satisfy every hypothesis: `start_windback` 50, which utt_basi.c:79-83
halves to 25 frames; a recording of `50 * frame_size`, exactly the samples of 25 frames
(RecognizerImpl.c:3674-3680); a hold-off of 30; 40 frames kept in a stack of 100
(utteranc.h:42-43); `bgsniff` 25; buffers of 256 samples for a ring of 20000. So do the
runs' configurations. Those on the wind-back are needed: with a longer one, a shorter hold-off or
a unit less of room TLC finds `WindBackSucceeds` violated, and with fewer frames kept
`WoundBackTogether`.

Every safety invariant and every refinement that a passing run checks is a theorem. Left to
TLC: liveness (`LastFrameEndsUtterance`, `FeedReturns`, `FlushEnds`,
`WaitingCloseReturns`, `OpenStartsReading`), since `ENABLED` is out of the prover's reach.
In `Search` two values are left to TLC, since no property rests on them: which
alternatives `sizewise_altwords` keeps (the proof shows that it invents none), and that the
path on an arc is the cheapest.

## 5. Not modelled, and why

Signal processing and scores: numbers, with no control the rest depends on beyond the
free choices above. Grammar compilation, letter-to-sound, semantics: string processing
and generated tables. Files, event log, sessions, JNI: input and output. In
`Recognizer` a failing write of the audio log inside `Advance` (which unlocks a lock already
released, RecognizerImpl.c:2689) and the calls that set up a
grammar are left out; signal quality and parameters have no effect on the modelled
state, and the recording has a module of its own, for one thread. In `Search`: models of
more than one state with their durations, two sets of models, repruning of the pools of
arcs, nodes and alternatives, the forced end of voice enrollment, and the A* pass over
the finished lattice. In `AudioIn`: the volume and version calls, a `GetSamples` of no
samples (its loop locks a mutex it already holds, audioin.c:1271-1280), and failures of
`malloc` and of the pthread calls. In `HashMap`: destroying the map, and the users that
reach the table without it. The array lists are not modelled.

The share of the source that is modelled stays small for two reasons: most of the tree is
arithmetic, tables, text and vendored code, and the modules abstract data, so that a
function of several hundred lines whose control is a few branches counts as those.

## 6. What could follow

1. `EndOfSpeech` (`srec_eosd.c`): the timeouts by kind of end node; no verdict before
   speech, a verdict by the longest. With it, models of several states in `Search`, for the
   node index the detector keeps across a forced update (srec.c:2296).
2. `Voicing` (`voicing.c`): run lengths before voice and quiet are told.
3. The A* pass (`astar.c`) as a module over a finished lattice.
4. `ArrayListImpl.c`: growth and shrinking against a sequence.
