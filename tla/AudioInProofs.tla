--------------------------- MODULE AudioInProofs ----------------------------
(***************************************************************************)
(* The two threads of audioin.c keep to each other's places, and nothing   *)
(* that was recorded is lost, doubled or out of order, whatever the sizes  *)
(* of the FIFO and of the codec's fragments.                               *)
(***************************************************************************)
EXTENDS AudioIn, SequenceTheorems, TLAPS

-----------------------------------------------------------------------------
(* The handshake of the two threads: open, close and their flags. *)

Initializing == app \in {"initWait", "initWoken"}
Opened == app \in {"openFinish", "open", "getSamples", "copy", "closeOn"}
Closing == app \in {"closeLock", "closeWait", "closeWoken"}

Waiting == thread \in {"openWait", "openWoken"}
Working == thread \in {"loop", "read", "check", "store"}
Leaving == thread \in {"closeDevice", "closeSignal"}

(* Each flag tells something of both places; without it a thread woken by   *)
(* chance could not be told from one that was signalled.                    *)
Handshake ==
  /\ app \in AppPlaces /\ thread \in ThreadPlaces
  /\ runSignaled \in BOOLEAN /\ openSignaled \in BOOLEAN /\ closeSignaled \in BOOLEAN
  /\ initialized \in BOOLEAN /\ bRecord \in BOOLEAN /\ bClose \in BOOLEAN
  /\ pcmOpen \in BOOLEAN
  /\ ~initialized => \/ app = "closed" /\ thread = "none"
                     \/ Initializing /\ (thread = "born" \/ Waiting)
  /\ thread = "none" => ~initialized
  /\ Initializing => ~initialized
  /\ thread = "born" => Initializing /\ ~runSignaled
  /\ runSignaled => Initializing /\ Waiting
  /\ ~Opened /\ ~Closing => ThreadIdle /\ ~openSignaled /\ ~closeSignaled
  /\ Opened => ~bClose /\ ~closeSignaled /\ (openSignaled \/ Working)
  /\ Closing => openSignaled \/ closeSignaled \/ Working \/ Leaving
  /\ openSignaled => thread = "openWoken" /\ pcmOpen /\ ~closeSignaled
  /\ closeSignaled => Waiting
  /\ app = "openSignal" => pcmOpen /\ ~bClose
  /\ Working \/ thread = "closeDevice" => pcmOpen
  /\ Leaving => bClose
  /\ bRecord => app \in {"open", "getSamples", "copy"}

USE DEF AppAt, ThreadAt, flags, device, indices, history, data

LEMMA HandshakeInit == Init => Handshake
BY DEF Init, Handshake, AppPlaces, ThreadPlaces, Initializing, Opened, Closing,
       Waiting, Working, Leaving, ThreadIdle

(* The application opens: the thread is idle until the signal. *)
LEMMA OpeningKeepsHandshake ==
  ASSUME Handshake,
         \/ Open \/ InitWoken \/ PrepareFails \/ AudioOpenFails \/ Prepare \/ SignalOpen
         \/ OpenFinish
  PROVE  Handshake'
<1> USE DEF Handshake, AppPlaces, ThreadPlaces, Initializing, Opened, Closing,
            Waiting, Working, Leaving, ThreadIdle
<1>1. CASE Open
  BY <1>1 DEF Open
<1>2. CASE InitWoken
  BY <1>2 DEF InitWoken
<1>3. CASE PrepareFails
  BY <1>3 DEF PrepareFails
<1>4. CASE Prepare
  BY <1>4 DEF Prepare
<1>5. CASE SignalOpen
  BY <1>5 DEF SignalOpen
<1>6. CASE OpenFinish
  BY <1>6 DEF OpenFinish
<1>7. CASE AudioOpenFails
  BY <1>7 DEF AudioOpenFails
<1>8. QED
  BY <1>1, <1>2, <1>3, <1>4, <1>5, <1>6, <1>7

(* While the device is open the application meets the thread only in close. *)
LEMMA UsingKeepsHandshake ==
  ASSUME Handshake,
         \/ Start \/ Stop \/ CloseCall \/ (\E n \in 1 .. Size : GetSamples(n))
         \/ EnoughSamples \/ Copy \/ SetCloseOn \/ CloseWait \/ CloseWoken
  PROVE  Handshake'
<1> USE DEF Handshake, AppPlaces, ThreadPlaces, Initializing, Opened, Closing,
            Waiting, Working, Leaving, ThreadIdle
<1>1. CASE Start
  BY <1>1 DEF Start
<1>2. CASE Stop
  BY <1>2 DEF Stop
<1>3. CASE CloseCall
  BY <1>3 DEF CloseCall
<1>4. CASE \E n \in 1 .. Size : GetSamples(n)
  BY <1>4 DEF GetSamples
<1>5. CASE EnoughSamples
  BY <1>5 DEF EnoughSamples
<1>6. CASE Copy
  BY <1>6 DEF Copy
<1>7. CASE SetCloseOn
  BY <1>7 DEF SetCloseOn
<1>8. CASE CloseWait
  BY <1>8 DEF CloseWait
<1>9. CASE CloseWoken
  BY <1>9 DEF CloseWoken
<1>10. QED
  BY <1>1, <1>2, <1>3, <1>4, <1>5, <1>6, <1>7, <1>8, <1>9

LEMMA ThreadKeepsHandshake == ASSUME Handshake, ThreadWorks PROVE Handshake'
<1> USE DEF Handshake, AppPlaces, ThreadPlaces, Initializing, Opened, Closing,
            Waiting, Working, Leaving, ThreadIdle
<1>1. CASE ThreadRunning
  BY <1>1 DEF ThreadRunning
<1>2. CASE OpenWoken
  BY <1>2 DEF OpenWoken
<1>3. CASE GetClose
  BY <1>3 DEF GetClose
<1>4. CASE GetRecord
  BY <1>4 DEF GetRecord
<1>5. CASE ReadFails \/ (\E n \in 0 .. Fragment : ReadCodec(n))
  BY <1>5 DEF ReadFails, ReadCodec
<1>6. CASE StoreQuietly \/ StoreAndNotify \/ DeliverBlocks
  BY <1>6 DEF StoreQuietly, StoreAndNotify, DeliverBlocks, Stored
<1>7. CASE CloseDevice
  BY <1>7 DEF CloseDevice
<1>8. CASE SignalClose
  BY <1>8 DEF SignalClose
<1>9. QED
  BY <1>1, <1>2, <1>3, <1>4, <1>5, <1>6, <1>7, <1>8 DEF ThreadWorks, Acquire

LEMMA WakeupKeepsHandshake == ASSUME Handshake, SpuriousWakeup PROVE Handshake'
BY DEF SpuriousWakeup, Handshake, AppPlaces, ThreadPlaces, Initializing, Opened, Closing,
       Waiting, Working, Leaving, ThreadIdle

LEMMA HandshakeStep == ASSUME Handshake, [Next]_vars PROVE Handshake'
<1>1. CASE Next
  BY <1>1, OpeningKeepsHandshake, UsingKeepsHandshake, ThreadKeepsHandshake,
     WakeupKeepsHandshake DEF Next, UserCalls, AppWorks
<1>2. CASE UNCHANGED vars
  BY <1>2 DEF vars, Handshake, Initializing, Opened, Closing, Waiting, Working, Leaving,
              ThreadIdle
<1>3. QED
  BY <1>1, <1>2

(* The flags of the three conditions never tell one thread what the other   *)
(* has not done, spurious wakeups included.                                 *)
THEOREM HandshakeInvariant == Spec => []Handshake
<1>1. Init => Handshake
  BY HandshakeInit
<1>2. Handshake /\ [Next]_vars => Handshake'
  BY HandshakeStep
<1>3. QED
  BY <1>1, <1>2, PTL DEF Spec

(* Between two openings the thread is idle, for every interleaving. *)
THEOREM ThreadIdleWhileClosed == Spec => []IdleWhileClosed
<1>1. Handshake => IdleWhileClosed
  BY DEF Handshake, IdleWhileClosed, Opened, Closing
<1>2. QED
  BY <1>1, HandshakeInvariant, PTL

(* The thread reads and closes only a device that is open. *)
THEOREM ReadsOnlyOpenDevice == Spec => []ReadsOpenDevice
<1>1. Handshake => ReadsOpenDevice
  BY DEF Handshake, ReadsOpenDevice, Working
<1>2. QED
  BY <1>1, HandshakeInvariant, PTL

-----------------------------------------------------------------------------
(* Rings and recordings as sequences. *)

Slot(i) == i % Size

(* The n samples of the ring f from the slot r on. *)
Ring(f, r, n) == [i \in 1 .. n |-> f[Slot(r + i - 1)]]

(* The n samples after r, n samples from before, s of those and r of the     *)
(* recording.                                                               *)
Fresh(r, n) == [i \in 1 .. n |-> r + i]
OldSamples(n) == [i \in 1 .. n |-> Stale]
RecordingOf(s, r) == [i \in 1 .. s + r |-> IF i <= s THEN Stale ELSE i - s]

(* Going round once at most. *)
LEMMA Modulo ==
  ASSUME NEW a \in 0 .. 2 * Size - 1
  PROVE  /\ Slot(a) = IF a < Size THEN a ELSE a - Size
         /\ Slot(a) \in 0 .. Size - 1
<1>1. Size \in Nat \ {0}
  BY FifoAssumption
<1>2. \A b \in 0 .. Size - 1 : b % Size = b
  BY <1>1, SMT
<1>3. \A b \in Size .. 2 * Size - 1 : b % Size = b - Size
  BY <1>1, SMT
<1>4. QED
  BY <1>1, <1>2, <1>3, SMT DEF Slot

LEMMA IsSequence ==
  ASSUME NEW S, NEW n \in Nat, NEW s \in [1 .. n -> S]
  PROVE  s \in Seq(S) /\ Len(s) = n
<1>1. s \in Seq(S)
  BY SeqDef
<1>2. Len(s) \in Nat /\ 1 .. Len(s) = 1 .. n
  BY <1>1, LenProperties
<1>3. QED
  BY <1>1, <1>2, SMT

LEMMA EqualSequences ==
  ASSUME NEW S, NEW n \in Nat, NEW s \in Seq(S), NEW t \in [1 .. n -> S], Len(s) = n,
         \A i \in 1 .. n : s[i] = t[i]
  PROVE  s = t
BY IsSequence, SeqEqual

LEMMA RingIsSequence ==
  ASSUME NEW f \in [0 .. Size - 1 -> Samples], NEW r \in 0 .. Size - 1, NEW n \in 0 .. Size
  PROVE  /\ Ring(f, r, n) \in Seq(Samples) /\ Len(Ring(f, r, n)) = n
         /\ \A i \in 1 .. n : Ring(f, r, n)[i] = f[Slot(r + i - 1)]
<1>1. Size \in Nat
  BY FifoAssumption
<1>2. ASSUME NEW i \in 1 .. n PROVE Slot(r + i - 1) \in 0 .. Size - 1
  BY <1>1, Modulo
<1>3. Ring(f, r, n) \in [1 .. n -> Samples]
  BY <1>2 DEF Ring
<1>4. n \in Nat
  BY <1>1
<1>5. QED
  BY <1>3, <1>4, IsSequence DEF Ring

(* The samples of the front leave, the others are what the FIFO still holds. *)
LEMMA RingSplits ==
  ASSUME NEW f \in [0 .. Size - 1 -> Samples], NEW r \in 0 .. Size - 1,
         NEW a \in 0 .. Size, NEW n \in 0 .. a
  PROVE  Ring(f, r, n) \o Ring(f, Slot(r + n), a - n) = Ring(f, r, a)
<1> DEFINE q == Slot(r + n)
<1>1. Size \in Nat \ {0}
  BY FifoAssumption
<1>2. q = (IF r + n < Size THEN r + n ELSE r + n - Size) /\ q \in 0 .. Size - 1
  <2> DEFINE x == r + n
  <2>1. x \in 0 .. 2 * Size - 1
    BY <1>1
  <2> HIDE DEF x
  <2>2. Slot(x) = (IF x < Size THEN x ELSE x - Size) /\ Slot(x) \in 0 .. Size - 1
    BY <2>1, Modulo
  <2>3. x = r + n /\ q = Slot(x)
    BY DEF x
  <2> HIDE DEF q
  <2>4. QED
    BY <2>2, <2>3, <1>1
<1>3. n \in 0 .. Size /\ a - n \in 0 .. Size /\ a \in Nat
  BY <1>1
<1> HIDE DEF q
<1>4. /\ Ring(f, r, n) \in Seq(Samples) /\ Len(Ring(f, r, n)) = n
      /\ \A i \in 1 .. n : Ring(f, r, n)[i] = f[Slot(r + i - 1)]
  BY <1>3, RingIsSequence
<1>5. /\ Ring(f, q, a - n) \in Seq(Samples) /\ Len(Ring(f, q, a - n)) = a - n
      /\ \A i \in 1 .. a - n : Ring(f, q, a - n)[i] = f[Slot(q + i - 1)]
  BY <1>2, <1>3, RingIsSequence
<1>6. /\ Ring(f, r, a) \in Seq(Samples) /\ Len(Ring(f, r, a)) = a
      /\ \A i \in 1 .. a : Ring(f, r, a)[i] = f[Slot(r + i - 1)]
  BY RingIsSequence
<1>7. ASSUME NEW i \in n + 1 .. a PROVE Slot(q + (i - n) - 1) = Slot(r + i - 1)
  <2> DEFINE x == q + (i - n) - 1
             y == r + i - 1
  <2>1. x \in 0 .. 2 * Size - 1 /\ y \in 0 .. 2 * Size - 1
    BY <1>1, <1>2, <1>3
  <2>2. x = y \/ (x = y - Size /\ y >= Size /\ x < Size)
    BY <1>1, <1>2, <1>3
  <2> HIDE DEF x, y
  <2>3. Slot(x) = Slot(y)
    <3>1. Slot(x) = IF x < Size THEN x ELSE x - Size
      BY <2>1, Modulo
    <3>2. Slot(y) = IF y < Size THEN y ELSE y - Size
      BY <2>1, Modulo
    <3>3. QED
      BY <2>1, <2>2, <3>1, <3>2, <1>1
  <2>4. QED
    BY <2>3 DEF x, y
<1> DEFINE c == Ring(f, r, n) \o Ring(f, q, a - n)
<1>8. /\ c \in Seq(Samples) /\ Len(c) = a
      /\ \A i \in 1 .. a : c[i] = IF i <= n THEN Ring(f, r, n)[i] ELSE Ring(f, q, a - n)[i - n]
  <2> DEFINE p == Ring(f, r, n)
             s == Ring(f, q, a - n)
  <2>1. /\ p \o s \in Seq(Samples) /\ Len(p \o s) = Len(p) + Len(s)
        /\ \A i \in 1 .. Len(p) + Len(s) :
              (p \o s)[i] = IF i <= Len(p) THEN p[i] ELSE s[i - Len(p)]
    BY <1>4, <1>5, ConcatProperties
  <2>2. Len(p) = n /\ Len(p) + Len(s) = a
    BY <1>3, <1>4, <1>5
  <2> HIDE DEF p, s
  <2>3. QED
    BY <2>1, <2>2 DEF p, s
<1>9. ASSUME NEW i \in 1 .. a PROVE c[i] = Ring(f, r, a)[i]
  BY <1>3, <1>4, <1>5, <1>6, <1>7, <1>8
<1> HIDE DEF c
<1>10. c = Ring(f, r, a)
  BY <1>6, <1>8, <1>9, SeqEqual
<1>11. QED
  BY <1>10 DEF c, q

(* The ring f with the chunk c at the slot w is the ring g. *)
StoredAt(g, f, w, c) ==
  \A i \in 0 .. Size - 1 :
     g[i] = IF i >= w /\ i - w < Len(c) THEN c[i - w + 1]
            ELSE IF i + Size - w < Len(c) THEN c[i + Size - w + 1]
            ELSE f[i]

(* What is stored follows what the FIFO held, wherever the buffer wraps. *)
LEMMA RingGrows ==
  ASSUME NEW f \in [0 .. Size - 1 -> Samples], NEW g \in [0 .. Size - 1 -> Samples],
         NEW r \in 0 .. Size - 1, NEW a \in 0 .. Size, NEW c \in Seq(Samples),
         NEW w \in 0 .. Size - 1,
         a + Len(c) <= Size, w = Slot(r + a),
         StoredAt(g, f, w, c)
  PROVE  Ring(g, r, a + Len(c)) = Ring(f, r, a) \o c
<1> DEFINE n == Len(c)
<1>1. Size \in Nat \ {0} /\ n \in Nat
  BY FifoAssumption, LenProperties
<1>2. w = (IF r + a < Size THEN r + a ELSE r + a - Size)
  BY <1>1, Modulo
<1>3. a \in Nat /\ a + n \in 0 .. Size
  BY <1>1
<1>4. /\ Ring(f, r, a) \in Seq(Samples) /\ Len(Ring(f, r, a)) = a
      /\ \A i \in 1 .. a : Ring(f, r, a)[i] = f[Slot(r + i - 1)]
  BY RingIsSequence
<1> HIDE DEF n
<1>5. /\ Ring(g, r, a + n) \in Seq(Samples) /\ Len(Ring(g, r, a + n)) = a + n
      /\ \A i \in 1 .. a + n : Ring(g, r, a + n)[i] = g[Slot(r + i - 1)]
  BY <1>3, RingIsSequence
<1> DEFINE d == Ring(f, r, a) \o c
<1>6. /\ d \in Seq(Samples) /\ Len(d) = a + n
      /\ \A i \in 1 .. a + n : d[i] = IF i <= a THEN Ring(f, r, a)[i] ELSE c[i - a]
  <2>1. /\ d \in Seq(Samples) /\ Len(d) = Len(Ring(f, r, a)) + Len(c)
        /\ \A i \in 1 .. Len(Ring(f, r, a)) + Len(c) :
             d[i] = IF i <= Len(Ring(f, r, a)) THEN Ring(f, r, a)[i] ELSE c[i - Len(Ring(f, r, a))]
    BY <1>4, ConcatProperties
  <2> HIDE DEF d
  <2>2. QED
    BY <2>1, <1>4 DEF n
<1>7. ASSUME NEW j \in 0 .. Size - 1
      PROVE  g[j] = IF j >= w /\ j - w < n THEN c[j - w + 1]
                    ELSE IF j + Size - w < n THEN c[j + Size - w + 1]
                    ELSE f[j]
  BY DEF n, StoredAt
<1>8. ASSUME NEW i \in 1 .. a + n PROVE g[Slot(r + i - 1)] = d[i]
  <2> DEFINE j == Slot(r + i - 1)
  <2>1. /\ j = (IF r + i - 1 < Size THEN r + i - 1 ELSE r + i - 1 - Size)
        /\ j \in 0 .. Size - 1
    <3>1. r + i - 1 \in 0 .. 2 * Size - 1
      BY <1>1, <1>3
    <3>2. QED
      BY <3>1, <1>1, <1>3, Modulo
  <2>2. i \in Int /\ a + n <= Size /\ i >= 1 /\ i <= a + n
    BY <1>1, <1>3
  <2> HIDE DEF j
  <2>3. CASE i <= a
    <3>1. ~(j >= w /\ j - w < n) /\ ~(j + Size - w < n)
      BY <2>1, <2>2, <2>3, <1>1, <1>2, <1>3
    <3>2. g[j] = f[j]
      BY <3>1, <2>1, <1>7
    <3>3. QED
      BY <3>2, <2>3, <2>2, <1>3, <1>4, <1>6 DEF j
  <2>4. CASE i > a /\ j >= w
    <3>1. j - w + 1 = i - a
      <4>1. CASE r + a < Size
        <5>1. w = r + a
          BY <4>1, <1>2
        <5>2. r + i - 1 < Size
          <6> SUFFICES ASSUME ~(r + i - 1 < Size) PROVE FALSE
            OBVIOUS
          <6>1. j = r + i - 1 - Size
            BY <2>1
          <6>2. r + i - 1 - Size >= r + a
            BY <6>1, <5>1, <2>4
          <6>3. QED
            BY <6>2, <2>2, <1>1, <1>3
        <5>3. j = r + i - 1
          BY <5>2, <2>1
        <5>4. r \in Int /\ a \in Int /\ i \in Int
          BY <2>2, <1>1, <1>3
        <5>5. QED
          BY <5>1, <5>3, <5>4
      <4>2. CASE ~(r + a < Size)
        BY <4>2, <2>1, <2>2, <2>4, <1>1, <1>2, <1>3
      <4>3. QED
        BY <4>1, <4>2
    <3>3. j - w < n
      BY <3>1, <2>1, <2>2, <1>1, <1>3
    <3>4. g[j] = c[j - w + 1]
      BY <3>3, <2>1, <2>4, <1>7
    <3>5. d[i] = c[i - a]
      BY <2>2, <2>4, <1>3, <1>6
    <3>6. QED
      BY <3>1, <3>4, <3>5 DEF j
  <2>5. CASE i > a /\ j < w
    <3>1. ~(j >= w) /\ j + Size - w < n /\ j + Size - w + 1 = i - a
      BY <2>1, <2>2, <2>5, <1>1, <1>2, <1>3
    <3>2. g[j] = c[j + Size - w + 1]
      BY <3>1, <2>1, <1>7
    <3>3. d[i] = c[i - a]
      BY <2>2, <2>5, <1>3, <1>6
    <3>4. QED
      BY <3>1, <3>2, <3>3 DEF j
  <2>6. i <= a \/ (i > a /\ j >= w) \/ (i > a /\ j < w)
    BY <2>1, <2>2, <1>3
  <2>7. QED
    BY <2>3, <2>4, <2>5, <2>6
<1>9. \A i \in 1 .. a + n : Ring(g, r, a + n)[i] = d[i]
  BY <1>5, <1>8
<1> HIDE DEF d
<1>10. Ring(g, r, a + n) = d
  BY <1>5, <1>6, <1>9, SeqEqual
<1>11. QED
  BY <1>10 DEF d, n

LEMMA RecordingIsSequence ==
  ASSUME NEW s \in Nat, NEW r \in 0 .. MaxRecorded
  PROVE  /\ RecordingOf(s, r) \in Seq(Samples) /\ Len(RecordingOf(s, r)) = s + r
         /\ \A i \in 1 .. s + r : RecordingOf(s, r)[i] = IF i <= s THEN Stale ELSE i - s
<1>1. MaxRecorded \in Nat /\ r \in Nat /\ s + r \in Nat
  BY CodecAssumption
<1>2. RecordingOf(s, r) \in [1 .. s + r -> Samples]
  BY <1>1 DEF RecordingOf, Samples, Stale
<1>3. QED
  BY <1>1, <1>2, IsSequence DEF RecordingOf

LEMMA FreshIsSequence ==
  ASSUME NEW r \in Nat, NEW n \in Nat, r + n <= MaxRecorded
  PROVE  Fresh(r, n) \in Seq(Samples) /\ Len(Fresh(r, n)) = n
<1>1. MaxRecorded \in Nat
  BY CodecAssumption
<1>2. Fresh(r, n) \in [1 .. n -> Samples]
  BY <1>1 DEF Fresh, Samples, Stale
<1>3. QED
  BY <1>2, IsSequence

LEMMA OldIsSequence ==
  ASSUME NEW n \in Nat
  PROVE  OldSamples(n) \in Seq(Samples) /\ Len(OldSamples(n)) = n
<1>1. MaxRecorded \in Nat
  BY CodecAssumption
<1>2. OldSamples(n) \in [1 .. n -> Samples]
  BY <1>1 DEF OldSamples, Samples, Stale
<1>3. QED
  BY <1>2, IsSequence

(* Another fragment of the codec continues the recording. *)
LEMMA RecordingContinues ==
  ASSUME NEW s \in Nat, NEW r \in Nat, NEW n \in Nat, r + n <= MaxRecorded
  PROVE  RecordingOf(s, r) \o Fresh(r, n) = RecordingOf(s, r + n)
<1> DEFINE d == RecordingOf(s, r) \o Fresh(r, n)
<1>1. MaxRecorded \in Nat /\ r \in 0 .. MaxRecorded /\ r + n \in 0 .. MaxRecorded
  BY CodecAssumption
<1>2. /\ RecordingOf(s, r) \in Seq(Samples) /\ Len(RecordingOf(s, r)) = s + r
      /\ \A i \in 1 .. s + r : RecordingOf(s, r)[i] = IF i <= s THEN Stale ELSE i - s
  BY <1>1, RecordingIsSequence
<1>3. /\ RecordingOf(s, r + n) \in Seq(Samples) /\ Len(RecordingOf(s, r + n)) = s + r + n
      /\ \A i \in 1 .. s + r + n : RecordingOf(s, r + n)[i] = IF i <= s THEN Stale ELSE i - s
  <2>1. s + (r + n) = s + r + n
    OBVIOUS
  <2>2. QED
    BY <1>1, <2>1, RecordingIsSequence
<1>4. Fresh(r, n) \in Seq(Samples) /\ Len(Fresh(r, n)) = n
  BY FreshIsSequence
<1>5. \A i \in 1 .. n : Fresh(r, n)[i] = r + i
  BY DEF Fresh
<1>6. /\ d \in Seq(Samples) /\ Len(d) = s + r + n
      /\ \A i \in 1 .. s + r + n : d[i] = IF i <= s + r THEN RecordingOf(s, r)[i]
                                          ELSE Fresh(r, n)[i - (s + r)]
  <2> DEFINE p == RecordingOf(s, r)
             q == Fresh(r, n)
  <2>1. /\ p \o q \in Seq(Samples) /\ Len(p \o q) = Len(p) + Len(q)
        /\ \A i \in 1 .. Len(p) + Len(q) :
             (p \o q)[i] = IF i <= Len(p) THEN p[i] ELSE q[i - Len(p)]
    BY <1>2, <1>4, ConcatProperties
  <2>2. Len(p) = s + r /\ Len(p) + Len(q) = s + r + n
    BY <1>2, <1>4
  <2> HIDE DEF p, q
  <2>3. QED
    BY <2>1, <2>2 DEF p, q
<1>7. ASSUME NEW i \in 1 .. s + r + n PROVE d[i] = RecordingOf(s, r + n)[i]
  <2> HIDE DEF d
  <2>1. CASE i <= s + r
    <3>1. d[i] = RecordingOf(s, r)[i] /\ i \in 1 .. s + r
      BY <2>1, <1>6
    <3>2. QED
      BY <3>1, <1>2, <1>3
  <2>2. CASE ~(i <= s + r)
    <3>1. d[i] = Fresh(r, n)[i - (s + r)] /\ i - (s + r) \in 1 .. n
      BY <2>2, <1>6
    <3>2. d[i] = r + (i - (s + r))
      BY <3>1, <1>5
    <3>3. RecordingOf(s, r + n)[i] = i - s
      BY <2>2, <1>3
    <3>4. QED
      BY <3>2, <3>3
  <2>3. QED
    BY <2>1, <2>2
<1> HIDE DEF d
<1>8. d = RecordingOf(s, r + n)
  BY <1>3, <1>6, <1>7, SeqEqual
<1>9. QED
  BY <1>8 DEF d

LEMMA SlotAdds ==
  ASSUME NEW r \in 0 .. Size - 1, NEW a \in 0 .. Size, NEW n \in 0 .. Size, a + n <= Size
  PROVE  Slot(Slot(r + a) + n) = Slot(r + (a + n))
<1> DEFINE x == r + a
           p == Slot(x)
           y == p + n
           z == r + (a + n)
<1>1. Size \in Nat \ {0}
  BY FifoAssumption
<1>2. x \in 0 .. 2 * Size - 1
  BY <1>1
<1> HIDE DEF x
<1>3. p = (IF x < Size THEN x ELSE x - Size) /\ p \in 0 .. Size - 1
  BY <1>2, Modulo
<1> HIDE DEF p
<1>4. y \in 0 .. 2 * Size - 1 /\ z \in 0 .. 2 * Size - 1
  BY <1>1, <1>3
<1>5. z = y \/ (z = y + Size /\ y < Size)
  BY <1>1, <1>2, <1>3 DEF x
<1> HIDE DEF y, z
<1>6. Slot(y) = (IF y < Size THEN y ELSE y - Size)
  BY <1>4, Modulo
<1>7. Slot(z) = (IF z < Size THEN z ELSE z - Size)
  BY <1>4, Modulo
<1>8. Slot(y) = Slot(z)
  BY <1>1, <1>4, <1>5, <1>6, <1>7
<1>9. QED
  BY <1>8 DEF x, p, y, z

LEMMA SlotIsIndex ==
  ASSUME NEW r \in 0 .. Size - 1, NEW n \in 0 .. Size
  PROVE  Slot(r + n) \in 0 .. Size - 1
<1> DEFINE x == r + n
<1>1. x \in 0 .. 2 * Size - 1
  BY FifoAssumption
<1> HIDE DEF x
<1>2. Slot(x) \in 0 .. Size - 1
  BY <1>1, Modulo
<1>3. QED
  BY <1>2 DEF x

LEMMA EmptyLists ==
  ASSUME NEW f, NEW r
  PROVE  /\ Ring(f, r, 0) = <<>> /\ Fresh(r, 0) = <<>> /\ OldSamples(0) = <<>>
         /\ RecordingOf(0, 0) = <<>>
<1>1. ASSUME NEW t \in [1 .. 0 -> Samples] PROVE t = <<>>
  <2>1. t \in Seq(Samples) /\ Len(t) = 0
    BY IsSequence
  <2>2. QED
    BY <2>1, EmptySeq
<1>2. Ring(f, r, 0) \in [1 .. 0 -> Samples] /\ Fresh(r, 0) \in [1 .. 0 -> Samples]
  BY DEF Ring, Fresh
<1>3. OldSamples(0) \in [1 .. 0 -> Samples] /\ RecordingOf(0, 0) \in [1 .. 0 -> Samples]
  BY DEF OldSamples, RecordingOf
<1>4. QED
  BY <1>1, <1>2, <1>3

(* Up to a fragment from before it, then r samples from its start. *)
InOrder(q, r) == \E s \in 0 .. Fragment : q = RecordingOf(s, r)

(* A chunk of the recording that began after r samples, or from before it. *)
ChunkOf(c, n, r) == \/ c = Fresh(r, n) /\ r + n <= MaxRecorded
                    \/ c = OldSamples(n) /\ (n > 0 => r = 0)

LEMMA ChunkIsSequence ==
  ASSUME NEW r \in 0 .. MaxRecorded, NEW n \in 0 .. Fragment, NEW c, ChunkOf(c, n, r)
  PROVE  c \in Seq(Samples) /\ Len(c) = n
BY CodecAssumption, FifoAssumption, FreshIsSequence, OldIsSequence DEF ChunkOf

(* A chunk put behind the recording leaves it in order. *)
LEMMA ContinuesInOrder ==
  ASSUME NEW q \in Seq(Samples), NEW r \in 0 .. MaxRecorded, NEW n \in 0 .. Fragment, NEW c,
         ChunkOf(c, n, r), InOrder(q, r), c = OldSamples(n) /\ n > 0 => q = <<>>
  PROVE  InOrder(q \o c, r + FreshIn(c))
<1>1. n \in Nat /\ r \in Nat /\ Fragment \in Nat
  BY CodecAssumption, FifoAssumption
<1>2. c \in Seq(Samples) /\ Len(c) = n
  BY ChunkIsSequence
<1>3. CASE n = 0
  <2>1. c = <<>>
    BY <1>3, EmptyLists DEF ChunkOf
  <2>2. q \o c = q /\ FreshIn(c) = 0
    BY <2>1, ConcatEmptySeq DEF FreshIn, NoChunk
  <2>3. r + FreshIn(c) = r
    BY <2>2, <1>1
  <2>4. QED
    BY <2>2, <2>3
<1>4. CASE n > 0 /\ c = Fresh(r, n) /\ r + n <= MaxRecorded
  <2>1. PICK s \in 0 .. Fragment : q = RecordingOf(s, r)
    BY DEF InOrder
  <2>2. c # <<>>
    BY <1>2, <1>4, EmptySeq
  <2>3. c[1] = r + 1
    BY <1>4, <1>1 DEF Fresh
  <2>4. FreshIn(c) = n
    BY <2>2, <2>3, <1>2, <1>1 DEF FreshIn, NoChunk, Stale
  <2>5. q \o c = RecordingOf(s, r + n)
    <3>1. s \in Nat
      BY <1>1
    <3>2. RecordingOf(s, r) \o Fresh(r, n) = RecordingOf(s, r + n)
      BY <3>1, <1>1, <1>4, RecordingContinues
    <3>3. QED
      BY <3>2, <2>1, <1>4
  <2>6. QED
    BY <2>4, <2>5 DEF InOrder
<1>5. CASE n > 0 /\ c = OldSamples(n) /\ r = 0
  <2>1. q = <<>>
    BY <1>5
  <2>2. c # <<>> /\ c[1] = Stale
    BY <1>2, <1>5, <1>1, EmptySeq DEF OldSamples
  <2>3. FreshIn(c) = 0
    BY <2>2 DEF FreshIn
  <2>4. q \o c = c
    BY <2>1, <1>2, ConcatEmptySeq
  <2>5. n + 0 = n /\ \A i \in 1 .. n : i <= n
    BY <1>1
  <2>6. RecordingOf(n, 0) = OldSamples(n)
    BY <2>5 DEF RecordingOf, OldSamples
  <2>7. q \o c = RecordingOf(n, r + FreshIn(c))
    BY <2>3, <2>4, <2>6, <1>5
  <2>8. QED
    BY <2>7 DEF InOrder
<1>6. QED
  BY <1>3, <1>4, <1>5, <1>1 DEF ChunkOf

LEMMA FreshInBound ==
  ASSUME NEW r \in 0 .. MaxRecorded, NEW n \in 0 .. Fragment, NEW c, ChunkOf(c, n, r)
  PROVE  r + FreshIn(c) \in 0 .. MaxRecorded
<1>1. n \in Nat /\ r \in Nat /\ MaxRecorded \in Nat
  BY CodecAssumption, FifoAssumption
<1>2. Len(c) = n
  BY ChunkIsSequence
<1>3. CASE c = OldSamples(n) /\ n > 0
  <2>1. c[1] = Stale
    BY <1>1, <1>3 DEF OldSamples
  <2>2. FreshIn(c) = 0
    BY <2>1 DEF FreshIn
  <2>3. QED
    BY <2>2, <1>1
<1>4. CASE n = 0
  <2>1. FreshIn(c) = 0
    BY <1>2, <1>4 DEF FreshIn
  <2>2. QED
    BY <2>1, <1>1
<1>5. CASE r + n <= MaxRecorded
  <2>1. FreshIn(c) \in {0, n}
    BY <1>2 DEF FreshIn
  <2>2. QED
    BY <2>1, <1>1, <1>5
<1>6. QED
  BY <1>1, <1>3, <1>4, <1>5 DEF ChunkOf
-----------------------------------------------------------------------------
(* What the FIFO, the chunk and the application have is the recording. *)

ChunkKnown ==
  \/ chunk = ReadError
  \/ \E n \in 0 .. Fragment :
        /\ ChunkOf(chunk, n, recorded)
        /\ chunk = OldSamples(n) /\ n > 0 => got = <<>> /\ available = 0

WholeInOrder == ~overrun /\ FifoIsRead => InOrder(got \o Ring(fifo, readIndex, available), recorded)

GotInOrder == ~FifoIsRead => InOrder(got, recorded)

IndicesMeet == writeIndex = Slot(readIndex + available)

DataTypes ==
  /\ android \in BOOLEAN /\ callback \in BOOLEAN /\ overrun \in BOOLEAN
  /\ eStatusInfo \in StatusInfo
  /\ available \in 0 .. Size /\ fifo \in [0 .. Size - 1 -> Samples]
  /\ writeIndex \in 0 .. Size - 1 /\ readIndex \in 0 .. Size - 1
  /\ want \in 0 .. Size /\ recorded \in 0 .. MaxRecorded /\ got \in Seq(Samples)

(* Where a thread stands tells what it may rely on when it goes on. *)
Places ==
  /\ thread = "store" => chunk # ReadError
  /\ app \in {"openSignal", "openFinish"} =>
       thread # "store" /\ got = <<>> /\ recorded = 0 /\ available = 0
  /\ app = "copy" => want <= available
  /\ app \in {"getSamples", "copy"} => ~callback
  /\ thread = "store" \/ bRecord => overrun \/ IndicesMeet

DataInv == DataTypes /\ ChunkKnown /\ WholeInOrder /\ GotInOrder /\ Places

LEMMA NothingInOrder == InOrder(<<>>, 0) /\ (\A f, r : InOrder(<<>> \o Ring(f, r, 0), 0))
<1>1. 0 \in 0 .. Fragment
  BY CodecAssumption, FifoAssumption
<1>2. \A f, r : Ring(f, r, 0) = <<>>
  BY EmptyLists
<1>3. RecordingOf(0, 0) = <<>>
  BY EmptyLists
<1>4. <<>> \o <<>> = <<>>
  BY EmptySeq, ConcatEmptySeq
<1>5. QED
  BY <1>1, <1>2, <1>3, <1>4 DEF InOrder

LEMMA NothingKnown ==
  ASSUME NEW r \in 0 .. MaxRecorded
  PROVE  0 \in 0 .. Fragment /\ ChunkOf(NoChunk, 0, r)
<1>1. 0 \in 0 .. Fragment /\ MaxRecorded \in Nat
  BY CodecAssumption, FifoAssumption
<1>2. Fresh(r, 0) = <<>>
  BY EmptyLists
<1>3. QED
  BY <1>1, <1>2 DEF ChunkOf, NoChunk

LEMMA DataInit == Init => DataInv
<1> SUFFICES ASSUME Init PROVE DataInv
  OBVIOUS
<1>1. Size \in Nat \ {0} /\ MaxRecorded \in Nat
  BY FifoAssumption, CodecAssumption
<1>2. fifo \in [0 .. Size - 1 -> Samples] /\ got \in Seq(Samples)
  BY <1>1, EmptySeq DEF Init, Samples, Stale
<1>3. DataTypes
  BY <1>1, <1>2 DEF Init, DataTypes, StatusInfo
<1>4. ChunkKnown
  <2>1. 0 \in 0 .. MaxRecorded /\ chunk = NoChunk /\ recorded = 0
    BY <1>1 DEF Init
  <2>2. 0 \in 0 .. Fragment /\ ChunkOf(NoChunk, 0, 0)
    BY <2>1, NothingKnown
  <2>3. QED
    BY <2>1, <2>2 DEF ChunkKnown
<1>5. WholeInOrder /\ GotInOrder
  BY NothingInOrder DEF Init, WholeInOrder, GotInOrder
<1>6. Places
  BY DEF Init, Places
<1>7. QED
  BY <1>3, <1>4, <1>5, <1>6 DEF DataInv

(* A step that leaves the data alone, and no thread where it may not be. *)
LEMMA QuietStep ==
  ASSUME DataInv, UNCHANGED <<android, callback, data>>,
         thread' = "store" => thread = "store",
         bRecord' => bRecord,
         app' \in {"openSignal", "openFinish"} => app \in {"openSignal", "openFinish"},
         app' = "copy" => app = "copy" \/ want <= available,
         app' \in {"getSamples", "copy"} => app \in {"getSamples", "copy"}
  PROVE  DataInv'
<1>1. DataTypes' /\ ChunkKnown' /\ Places'
  BY DEF DataInv, DataTypes, ChunkKnown, Places, IndicesMeet, data, indices, history
<1>2. WholeInOrder' /\ GotInOrder'
  BY DEF DataInv, WholeInOrder, GotInOrder, FifoIsRead, data, indices, history
<1>3. QED
  BY <1>1, <1>2 DEF DataInv

(* A new recording: what the thread holds is not of it. *)
LEMMA NewRecordingStep ==
  ASSUME DataInv, NewRecording, available' = 0, UNCHANGED <<android, callback, want>>,
         eStatusInfo' \in StatusInfo,
         writeIndex' \in 0 .. Size - 1, readIndex' \in 0 .. Size - 1,
         thread' = "store" => thread = "store" /\ app' \notin {"openSignal", "openFinish"},
         app' \notin {"getSamples", "copy"},
         thread' = "store" \/ bRecord' => IndicesMeet'
  PROVE  DataInv'
<1>1. Size \in Nat \ {0} /\ MaxRecorded \in Nat /\ Fragment \in 1 .. Size
  BY FifoAssumption, CodecAssumption
<1>2. fifo' \in [0 .. Size - 1 -> Samples]
  BY <1>1 DEF NewRecording, Samples, Stale
<1>3. got' = <<>> /\ recorded' = 0 /\ overrun' = FALSE
  BY DEF NewRecording
<1>4. DataTypes'
  <2>1. got' \in Seq(Samples)
    BY <1>3, EmptySeq
  <2>2. available' \in 0 .. Size /\ recorded' \in 0 .. MaxRecorded /\ want' \in 0 .. Size
    BY <1>1, <1>3 DEF DataInv, DataTypes
  <2>3. QED
    BY <2>1, <2>2, <1>2, <1>3 DEF DataInv, DataTypes
<1>5. WholeInOrder' /\ GotInOrder'
  BY <1>3, NothingInOrder DEF WholeInOrder, GotInOrder, FifoIsRead
<1>6. CASE chunk = ReadError
  <2>1. chunk' = ReadError
    BY <1>6 DEF NewRecording
  <2>2. thread # "store"
    BY <1>6 DEF DataInv, Places
  <2>3. Places'
    BY <2>2, <1>3 DEF Places
  <2>4. QED
    BY <2>1, <2>3, <1>4, <1>5 DEF DataInv, ChunkKnown
<1>7. CASE chunk # ReadError
  <2>1. PICK n \in 0 .. Fragment : ChunkOf(chunk, n, recorded)
    BY <1>7 DEF DataInv, ChunkKnown
  <2>2. n \in Nat
    BY <1>1
  <2>3. chunk \in Seq(Samples) /\ Len(chunk) = n
    BY <2>1, ChunkIsSequence DEF DataInv, DataTypes
  <2>4. DOMAIN chunk = 1 .. n
    BY <2>3, LenProperties
  <2>5. chunk' = OldSamples(n)
    BY <2>4, <1>7 DEF NewRecording, OldSamples
  <2>6. ChunkKnown'
    BY <2>5, <1>3 DEF ChunkKnown, ChunkOf
  <2>7. OldSamples(n) # ReadError
    <3>1. OldSamples(n) \in Seq(Samples)
      BY <2>2, OldIsSequence
    <3>2. ASSUME OldSamples(n) = <<-1>> PROVE FALSE
      <4>1. <<-1>> \in Seq(Samples) /\ Len(<<-1>>) = 1
        BY <3>1, <3>2
      <4>2. <<-1>>[1] \in Samples
        BY <4>1, ElementOfSeq
      <4>3. QED
        BY <4>2, <1>1 DEF Samples, Stale
    <3>3. QED
      BY <3>2 DEF ReadError
  <2>8. Places'
    BY <2>5, <2>7, <1>3 DEF Places
  <2>9. QED
    BY <2>6, <2>8, <1>4, <1>5 DEF DataInv
<1>8. QED
  BY <1>6, <1>7

(* GetSamples hands over the front of the FIFO. *)
LEMMA CopyStep == ASSUME DataInv, Copy PROVE DataInv'
<1>1. Size \in Nat \ {0}
  BY FifoAssumption
<1>2. DataTypes /\ want <= available /\ ~callback /\ FifoIsRead
  BY DEF DataInv, Places, Copy, AppAt, FifoIsRead
<1>3. want \in 0 .. available /\ available - want \in 0 .. Size /\ available \in Nat
      /\ want \in 0 .. Size
  BY <1>1, <1>2 DEF DataTypes
<1>4. /\ got' = got \o Ring(fifo, readIndex, want)
      /\ readIndex' = Slot(readIndex + want) /\ available' = available - want
      /\ want' = 0 /\ app' = "open"
      /\ UNCHANGED <<android, thread, bRecord, callback, eStatusInfo, fifo, writeIndex, chunk,
                     recorded, overrun>>
  BY DEF Copy, Taken, Held, Ring, Slot, AppAt, device
<1>5. /\ Ring(fifo, readIndex, want) \in Seq(Samples)
      /\ Ring(fifo, readIndex', available') \in Seq(Samples)
      /\ readIndex' \in 0 .. Size - 1
      /\ got' \in Seq(Samples)
  BY <1>2, <1>3, <1>4, SlotIsIndex, RingIsSequence, ConcatProperties DEF DataTypes
<1>6. DataTypes'
  BY <1>1, <1>2, <1>3, <1>4, <1>5 DEF DataTypes
<1>7. got' \o Ring(fifo', readIndex', available') = got \o Ring(fifo, readIndex, available)
  <2> DEFINE p == Ring(fifo, readIndex, want)
             q == Ring(fifo, Slot(readIndex + want), available - want)
  <2>1. p \o q = Ring(fifo, readIndex, available)
    BY <1>2, <1>3, RingSplits DEF DataTypes
  <2>2. p \in Seq(Samples) /\ q \in Seq(Samples) /\ got \in Seq(Samples)
    BY <1>2, <1>4, <1>5 DEF DataTypes
  <2>3. got' \o Ring(fifo', readIndex', available') = (got \o p) \o q
    BY <1>4
  <2> HIDE DEF p, q
  <2>4. (got \o p) \o q = got \o (p \o q)
    BY <2>2, ConcatAssociative
  <2>5. QED
    BY <2>1, <2>3, <2>4
<1>8. WholeInOrder'
  BY <1>4, <1>7 DEF DataInv, WholeInOrder, FifoIsRead
<1>9. GotInOrder'
  BY <1>2, <1>4 DEF GotInOrder, FifoIsRead
<1>10. ChunkKnown'
  <2>1. CASE chunk = ReadError
    BY <2>1, <1>4 DEF ChunkKnown
  <2>2. CASE chunk # ReadError
    <3>1. PICK n \in 0 .. Fragment :
             /\ ChunkOf(chunk, n, recorded)
             /\ chunk = OldSamples(n) /\ n > 0 => got = <<>> /\ available = 0
      BY <2>2 DEF DataInv, ChunkKnown
    <3>2. ASSUME chunk = OldSamples(n) /\ n > 0 PROVE got' = <<>> /\ available' = 0
      <4>1. got = <<>> /\ available = 0 /\ want = 0
        BY <3>1, <3>2, <1>3
      <4>2. Ring(fifo, readIndex, want) = <<>>
        BY <4>1, EmptyLists
      <4>3. <<>> \o <<>> = <<>>
        BY EmptySeq, ConcatEmptySeq
      <4>4. QED
        BY <4>1, <4>2, <4>3, <1>4
    <3>3. QED
      BY <3>1, <3>2, <1>4 DEF ChunkKnown
  <2>3. QED
    BY <2>1, <2>2
<1>11. IndicesMeet => IndicesMeet'
  <2> DEFINE rest == available - want
  <2>1. rest \in 0 .. Size /\ want + rest <= Size /\ want + rest = available
    BY <1>1, <1>2, <1>3 DEF DataTypes
  <2>2. available' = rest
    BY <1>4
  <2> HIDE DEF rest
  <2>3. readIndex \in 0 .. Size - 1
    BY <1>2 DEF DataTypes
  <2>4. Slot(Slot(readIndex + want) + rest) = Slot(readIndex + (want + rest))
    BY <2>1, <2>3, <1>3, SlotAdds
  <2>5. QED
    BY <2>1, <2>2, <2>4, <1>4 DEF IndicesMeet
<1>12. Places'
  BY <1>4, <1>11 DEF DataInv, Places
<1>13. QED
  BY <1>6, <1>8, <1>9, <1>10, <1>12 DEF DataInv

(* The thread stores its chunk: common to the three ways of doing so. *)
LEMMA StoreKeepsFifo ==
  ASSUME DataInv, Stored
  PROVE  /\ fifo' \in [0 .. Size - 1 -> Samples] /\ writeIndex' \in 0 .. Size - 1
         /\ recorded' \in 0 .. MaxRecorded /\ eStatusInfo' \in StatusInfo
         /\ overrun' \in BOOLEAN /\ (overrun' <=> overrun \/ Overfull)
         /\ chunk \in Seq(Samples) /\ Len(chunk) \in Nat
         /\ AvailableAfterStore \in 0 .. Size /\ available <= AvailableAfterStore
         /\ recorded' = recorded + FreshIn(chunk) /\ chunk' = NoChunk
<1>1. Size \in Nat \ {0} /\ MaxRecorded \in Nat /\ Fragment \in 1 .. Size
  BY FifoAssumption, CodecAssumption
<1>2. PICK n \in 0 .. Fragment : ChunkOf(chunk, n, recorded)
  BY DEF DataInv, ChunkKnown, Places, Stored, ThreadAt
<1>3. chunk \in Seq(Samples) /\ Len(chunk) = n /\ n \in Nat
  BY <1>1, <1>2, ChunkIsSequence DEF DataInv, DataTypes
<1>4. recorded + FreshIn(chunk) \in 0 .. MaxRecorded
  BY <1>2, FreshInBound DEF DataInv, DataTypes
<1>5. writeIndex' \in 0 .. Size - 1
  <2>1. n \in 0 .. Size /\ writeIndex' = Slot(writeIndex + n)
    BY <1>1, <1>3 DEF Stored, Slot
  <2>2. QED
    BY <2>1, SlotIsIndex DEF DataInv, DataTypes
<1>6. fifo' \in [0 .. Size - 1 -> Samples]
  <2>1. ASSUME NEW i \in 0 .. Size - 1, i >= writeIndex, i - writeIndex < Len(chunk)
        PROVE  chunk[i - writeIndex + 1] \in Samples
    <3>1. i - writeIndex + 1 \in 1 .. Len(chunk)
      BY <2>1, <1>1, <1>3 DEF DataInv, DataTypes
    <3>2. QED
      BY <3>1, <1>3, ElementOfSeq
  <2>2. ASSUME NEW i \in 0 .. Size - 1, i + Size - writeIndex < Len(chunk)
        PROVE  chunk[i + Size - writeIndex + 1] \in Samples
    <3>1. i + Size - writeIndex + 1 \in 1 .. Len(chunk)
      BY <2>2, <1>1, <1>3 DEF DataInv, DataTypes
    <3>2. QED
      BY <3>1, <1>3, ElementOfSeq
  <2>3. \A i \in 0 .. Size - 1 : fifo[i] \in Samples
    BY DEF DataInv, DataTypes
  <2>4. FifoAfterStore \in [0 .. Size - 1 -> Samples]
    BY <2>1, <2>2, <2>3 DEF FifoAfterStore
  <2>5. QED
    BY <2>4 DEF Stored
<1>7. AvailableAfterStore \in 0 .. Size /\ available <= AvailableAfterStore
  BY <1>1, <1>3 DEF DataInv, DataTypes, AvailableAfterStore, Overfull
<1>8. eStatusInfo' \in StatusInfo
  BY DEF DataInv, DataTypes, Stored, StatusAfterStore, StatusInfo
<1>9. QED
  BY <1>3, <1>4, <1>5, <1>6, <1>7, <1>8 DEF Stored, DataInv, DataTypes

(* Unless it is overrun, the FIFO then has the chunk behind what it had,    *)
(* and with what the application got that is the recording in order.        *)
LEMMA StoreContinues ==
  ASSUME DataInv, Stored, ~overrun, ~Overfull
  PROVE  /\ AvailableAfterStore = available + Len(chunk)
         /\ Ring(fifo', readIndex, AvailableAfterStore) = Ring(fifo, readIndex, available) \o chunk
         /\ writeIndex' = Slot(readIndex + AvailableAfterStore)
         /\ FifoIsRead => InOrder(got \o Ring(fifo', readIndex, AvailableAfterStore), recorded')
<1>1. Size \in Nat \ {0} /\ Fragment \in 1 .. Size
  BY FifoAssumption, CodecAssumption
<1>2. PICK n \in 0 .. Fragment :
         /\ ChunkOf(chunk, n, recorded)
         /\ chunk = OldSamples(n) /\ n > 0 => got = <<>> /\ available = 0
  BY DEF DataInv, ChunkKnown, Places, Stored, ThreadAt
<1>3. chunk \in Seq(Samples) /\ Len(chunk) = n /\ n \in Nat /\ n \in 0 .. Size
  BY <1>1, <1>2, ChunkIsSequence DEF DataInv, DataTypes
<1>4. IndicesMeet
  BY DEF DataInv, Places, Stored, ThreadAt
<1>5. /\ available \in 0 .. Size /\ readIndex \in 0 .. Size - 1 /\ writeIndex \in 0 .. Size - 1
      /\ fifo \in [0 .. Size - 1 -> Samples] /\ got \in Seq(Samples)
      /\ recorded \in 0 .. MaxRecorded
  BY DEF DataInv, DataTypes
<1>6. AvailableAfterStore = available + Len(chunk) /\ available + n <= Size
  BY <1>1, <1>3, <1>5 DEF AvailableAfterStore, Overfull
<1>7. Ring(fifo', readIndex, available + Len(chunk)) = Ring(fifo, readIndex, available) \o chunk
  <2>1. fifo' \in [0 .. Size - 1 -> Samples] /\ StoredAt(fifo', fifo, writeIndex, chunk)
    BY StoreKeepsFifo DEF Stored, FifoAfterStore, StoredAt
  <2>2. writeIndex = Slot(readIndex + available) /\ available + Len(chunk) <= Size
    BY <1>3, <1>4, <1>6 DEF IndicesMeet
  <2>3. available + Len(chunk) \in Int
    BY <1>3, <1>5
  <2> DEFINE g == fifo'
  <2>4. g \in [0 .. Size - 1 -> Samples] /\ StoredAt(g, fifo, writeIndex, chunk)
    BY <2>1
  <2> HIDE DEF g
  <2>5. Ring(g, readIndex, available + Len(chunk)) = Ring(fifo, readIndex, available) \o chunk
    <3>1. fifo \in [0 .. Size - 1 -> Samples] /\ g \in [0 .. Size - 1 -> Samples]
      BY <2>4, <1>5
    <3>2. readIndex \in 0 .. Size - 1 /\ available \in 0 .. Size /\ chunk \in Seq(Samples)
          /\ writeIndex \in 0 .. Size - 1
      BY <1>3, <1>5
    <3>3. StoredAt(g, fifo, writeIndex, chunk)
      BY <2>4
    <3>4. QED
      BY <3>1, <3>2, <3>3, <2>2, RingGrows, ZenonT(60)
  <2>6. QED
    BY <2>5 DEF g
<1>8. writeIndex' = Slot(readIndex + AvailableAfterStore)
  <2>1. writeIndex' = Slot(Slot(readIndex + available) + n)
    BY <1>3, <1>4 DEF Stored, IndicesMeet, Slot
  <2>2. Slot(Slot(readIndex + available) + n) = Slot(readIndex + (available + n))
    BY <1>3, <1>5, <1>6, SlotAdds
  <2>3. QED
    BY <2>1, <2>2, <1>3, <1>6
<1>9. FifoIsRead => InOrder(got \o (Ring(fifo, readIndex, available) \o chunk), recorded')
  <2> SUFFICES ASSUME FifoIsRead
               PROVE  InOrder(got \o (Ring(fifo, readIndex, available) \o chunk), recorded')
    OBVIOUS
  <2> DEFINE held == Ring(fifo, readIndex, available)
  <2>1. held \in Seq(Samples)
    BY <1>5, RingIsSequence
  <2>2. InOrder(got \o held, recorded)
    BY DEF DataInv, WholeInOrder
  <2>3. chunk = OldSamples(n) /\ n > 0 => got \o held = <<>>
    <3>1. Ring(fifo, readIndex, 0) = <<>> /\ <<>> \o <<>> = <<>>
      BY EmptyLists, EmptySeq, ConcatEmptySeq
    <3>2. QED
      BY <3>1, <1>2
  <2> HIDE DEF held
  <2>4. got \o held \in Seq(Samples)
    BY <2>1, <1>5, ConcatProperties
  <2>5. InOrder((got \o held) \o chunk, recorded + FreshIn(chunk))
    BY <2>2, <2>3, <2>4, <1>2, <1>5, ContinuesInOrder
  <2>6. got \in Seq(Samples) /\ chunk \in Seq(Samples)
    BY <1>3, <1>5
  <2>7. (got \o held) \o chunk = got \o (held \o chunk)
    BY <2>1, <2>6, ConcatAssociative
  <2>8. QED
    BY <2>5, <2>7 DEF Stored, held
<1>10. QED
  BY <1>6, <1>7, <1>8, <1>9

(* What a store leaves for the places to rely on. *)
LEMMA StoreKeepsPlaces ==
  ASSUME DataInv, Handshake, Stored, app' = app, bRecord' = bRecord, callback' = callback,
         want' = want, available' \in Int, available' >= available \/ callback,
         ~overrun' => IndicesMeet'
  PROVE  Places'
<1>1. thread = "store" /\ thread' = "loop"
  BY DEF Stored, ThreadAt
<1>2. app \notin {"openSignal", "openFinish"}
  BY <1>1 DEF DataInv, Places
<1>3. app' = "copy" => want' <= available'
  <2>1. ASSUME app = "copy" PROVE want <= available /\ ~callback
    BY <2>1 DEF DataInv, Places
  <2>2. want \in Int /\ available \in Int
    BY FifoAssumption DEF DataInv, DataTypes
  <2>3. QED
    BY <2>1, <2>2
<1>4. QED
  BY <1>1, <1>2, <1>3 DEF DataInv, Places

LEMMA StoreForgetsChunk ==
  ASSUME chunk' = NoChunk, recorded' \in 0 .. MaxRecorded PROVE ChunkKnown'
<1>1. 0 \in 0 .. Fragment /\ ChunkOf(NoChunk, 0, recorded')
  BY NothingKnown
<1>2. QED
  BY <1>1 DEF ChunkKnown

LEMMA QuietStore == ASSUME DataInv, Handshake, StoreQuietly PROVE DataInv'
<1>1. /\ Stored /\ ~callback /\ available' = AvailableAfterStore
      /\ UNCHANGED <<readIndex, got, android, app, bRecord, callback, want>>
  BY DEF StoreQuietly, Stored
<1>2. DataTypes'
  BY <1>1, StoreKeepsFifo DEF DataInv, DataTypes
<1>3. ChunkKnown'
  BY <1>1, StoreKeepsFifo, StoreForgetsChunk
<1>4. overrun' <=> overrun \/ Overfull
  BY <1>1, StoreKeepsFifo
<1>5. WholeInOrder'
  BY <1>1, <1>4, StoreContinues DEF WholeInOrder, FifoIsRead
<1>6. GotInOrder'
  BY <1>1 DEF GotInOrder, FifoIsRead
<1>7. ~overrun' => IndicesMeet'
  BY <1>1, <1>4, StoreContinues DEF IndicesMeet
<1>8. available' \in Int /\ available' >= available
  BY <1>1, StoreKeepsFifo
<1>9. Places'
  BY <1>1, <1>7, <1>8, StoreKeepsPlaces
<1>10. QED
  BY <1>2, <1>3, <1>5, <1>6, <1>9 DEF DataInv

(* The Android thread hands its chunk over itself. *)
LEMMA NotifyingStore == ASSUME DataInv, Handshake, StoreAndNotify PROVE DataInv'
<1>1. /\ Stored /\ callback /\ android /\ available' = AvailableAfterStore
      /\ got' = got \o chunk
      /\ UNCHANGED <<readIndex, android, app, bRecord, callback, want>>
  BY DEF StoreAndNotify, Stored
<1>2. chunk \in Seq(Samples) /\ got \in Seq(Samples) /\ recorded \in 0 .. MaxRecorded
  BY <1>1, StoreKeepsFifo DEF DataInv, DataTypes
<1>3. got' \in Seq(Samples)
  BY <1>1, <1>2, ConcatProperties
<1>4. DataTypes'
  BY <1>1, <1>3, StoreKeepsFifo DEF DataInv, DataTypes
<1>5. ChunkKnown'
  BY <1>1, StoreKeepsFifo, StoreForgetsChunk
<1>6. WholeInOrder'
  BY <1>1 DEF WholeInOrder, FifoIsRead
<1>7. GotInOrder'
  <2>1. PICK n \in 0 .. Fragment :
           /\ ChunkOf(chunk, n, recorded)
           /\ chunk = OldSamples(n) /\ n > 0 => got = <<>> /\ available = 0
    BY <1>1 DEF DataInv, ChunkKnown, Places, Stored, ThreadAt
  <2>2. InOrder(got, recorded)
    BY <1>1 DEF DataInv, GotInOrder, FifoIsRead
  <2>3. InOrder(got \o chunk, recorded + FreshIn(chunk))
    BY <1>2, <2>1, <2>2, ContinuesInOrder
  <2>4. QED
    BY <1>1, <2>3 DEF GotInOrder, Stored
<1>8. ~overrun' => IndicesMeet'
  <2>1. overrun' <=> overrun \/ Overfull
    BY <1>1, StoreKeepsFifo
  <2>2. QED
    BY <1>1, <2>1, StoreContinues DEF IndicesMeet
<1>9. available' \in Int
  BY <1>1, StoreKeepsFifo
<1>10. Places'
  BY <1>1, <1>8, <1>9, StoreKeepsPlaces
<1>11. QED
  BY <1>4, <1>5, <1>6, <1>7, <1>10 DEF DataInv

LEMMA WholeFragments ==
  ASSUME NEW a \in 0 .. Size PROVE (a \div Fragment) * Fragment \in 0 .. a
<1>1. a \in Nat /\ Fragment \in Nat \ {0}
  BY FifoAssumption, CodecAssumption
<1>2. QED
  BY <1>1, SMT

(* The other thread takes whole fragments out of the FIFO. *)
LEMMA DeliveringStore == ASSUME DataInv, Handshake, DeliverBlocks PROVE DataInv'
<1> DEFINE A == AvailableAfterStore
           n == (A \div Fragment) * Fragment
<1>1. /\ Stored /\ callback /\ ~android
      /\ available' = A - n /\ readIndex' = Slot(readIndex + n)
      /\ got' = got \o Ring(fifo', readIndex, n)
      /\ UNCHANGED <<android, app, bRecord, callback, want>>
  BY DEF DeliverBlocks, Stored, Ring, Slot
<1>2. Size \in Nat \ {0}
  BY FifoAssumption
<1>3. A \in 0 .. Size /\ fifo' \in [0 .. Size - 1 -> Samples]
  BY <1>1, StoreKeepsFifo
<1>4. n \in 0 .. A
  BY <1>3, WholeFragments
<1> HIDE DEF n, A
<1>5. n \in 0 .. Size /\ A - n \in 0 .. Size /\ A \in Nat
  BY <1>2, <1>3, <1>4
<1>6. readIndex \in 0 .. Size - 1 /\ got \in Seq(Samples)
  BY DEF DataInv, DataTypes
<1>7. Slot(readIndex + n) \in 0 .. Size - 1
  BY <1>5, <1>6, SlotIsIndex
<1>8. Ring(fifo', readIndex, n) \in Seq(Samples)
  BY <1>3, <1>5, <1>6, RingIsSequence
<1>9. got' \in Seq(Samples)
  BY <1>1, <1>6, <1>8, ConcatProperties
<1>10. DataTypes'
  BY <1>1, <1>5, <1>7, <1>9, StoreKeepsFifo DEF DataInv, DataTypes
<1>11. ChunkKnown'
  BY <1>1, StoreKeepsFifo, StoreForgetsChunk
<1>12. overrun' <=> overrun \/ Overfull
  BY <1>1, StoreKeepsFifo
<1>13. WholeInOrder'
  <2> SUFFICES ASSUME ~overrun'
               PROVE  InOrder(got' \o Ring(fifo', readIndex', available'), recorded')
    BY DEF WholeInOrder
  <2>1. InOrder(got \o Ring(fifo', readIndex, A), recorded')
    BY <1>1, <1>12, StoreContinues DEF FifoIsRead, A
  <2> DEFINE p == Ring(fifo', readIndex, n)
             q == Ring(fifo', Slot(readIndex + n), A - n)
  <2>2. p \o q = Ring(fifo', readIndex, A)
    BY <1>3, <1>4, <1>6, RingSplits
  <2>3. p \in Seq(Samples) /\ q \in Seq(Samples)
    BY <1>3, <1>5, <1>7, <1>8, RingIsSequence
  <2>4. got' \o Ring(fifo', readIndex', available') = (got \o p) \o q
    BY <1>1
  <2> HIDE DEF p, q
  <2>5. (got \o p) \o q = got \o (p \o q)
    BY <1>6, <2>3, ConcatAssociative
  <2>6. QED
    BY <2>1, <2>2, <2>4, <2>5
<1>14. GotInOrder'
  BY <1>1 DEF GotInOrder, FifoIsRead
<1>15. ~overrun' => IndicesMeet'
  <2> SUFFICES ASSUME ~overrun' PROVE IndicesMeet'
    OBVIOUS
  <2>1. writeIndex' = Slot(readIndex + A)
    BY <1>1, <1>12, StoreContinues DEF A
  <2> DEFINE rest == A - n
  <2>2. rest \in 0 .. Size /\ n + rest <= Size /\ n + rest = A
    BY <1>2, <1>3, <1>4
  <2>3. available' = rest
    BY <1>1
  <2> HIDE DEF rest
  <2>4. Slot(Slot(readIndex + n) + rest) = Slot(readIndex + (n + rest))
    BY <2>2, <1>5, <1>6, SlotAdds
  <2>5. QED
    BY <2>1, <2>2, <2>3, <2>4, <1>1 DEF IndicesMeet
<1>16. available' \in Int
  BY <1>1, <1>5
<1>17. Places'
  BY <1>1, <1>15, <1>16, StoreKeepsPlaces
<1>18. QED
  BY <1>10, <1>11, <1>13, <1>14, <1>17 DEF DataInv

LEMMA ReadingKeepsData ==
  ASSUME DataInv, NEW n \in 0 .. Fragment, ReadCodec(n) PROVE DataInv'
<1>1. /\ thread' = "check" /\ chunk' = Fresh(recorded, n) /\ recorded + n <= MaxRecorded
      /\ UNCHANGED <<android, app, bRecord, callback, eStatusInfo, indices, want, history>>
  BY DEF ReadCodec, Fresh
<1>2. ChunkKnown'
  <2>1. ChunkOf(chunk', n, recorded')
    BY <1>1 DEF ChunkOf
  <2>2. ASSUME chunk' = OldSamples(n), n > 0 PROVE FALSE
    <3>1. 1 \in 1 .. n /\ recorded \in Nat
      BY <2>2, FifoAssumption, CodecAssumption DEF DataInv, DataTypes
    <3>2. chunk'[1] = recorded + 1
      BY <1>1, <3>1 DEF Fresh
    <3>3. chunk'[1] = Stale
      BY <2>2, <3>1 DEF OldSamples
    <3>4. QED
      BY <3>1, <3>2, <3>3 DEF Stale
  <2>3. QED
    BY <2>1, <2>2 DEF ChunkKnown
<1>3. DataTypes' /\ Places'
  BY <1>1 DEF DataInv, DataTypes, Places, IndicesMeet
<1>4. WholeInOrder' /\ GotInOrder'
  BY <1>1 DEF DataInv, WholeInOrder, GotInOrder, FifoIsRead
<1>5. QED
  BY <1>2, <1>3, <1>4 DEF DataInv

LEMMA FailingReadKeepsData == ASSUME DataInv, ReadFails PROVE DataInv'
<1>1. /\ thread' = "check" /\ chunk' = ReadError
      /\ UNCHANGED <<android, app, bRecord, callback, eStatusInfo, indices, want, history>>
  BY DEF ReadFails
<1>2. DataTypes' /\ Places' /\ ChunkKnown'
  BY <1>1 DEF DataInv, DataTypes, Places, IndicesMeet, ChunkKnown
<1>3. WholeInOrder' /\ GotInOrder'
  BY <1>1 DEF DataInv, WholeInOrder, GotInOrder, FifoIsRead
<1>4. QED
  BY <1>2, <1>3 DEF DataInv

(* The thread decides to store while the application may be anywhere: that  *)
(* bRecord was set says that the indices were, too.                         *)
LEMMA DecidingKeepsData == ASSUME DataInv, Handshake, GetRecord PROVE DataInv'
<1>1. /\ thread' = "store" => bRecord /\ chunk # ReadError /\ chunk' = chunk
      /\ thread' # "store" => chunk' = NoChunk
      /\ eStatusInfo' \in {eStatusInfo, "HWOVERRUN"}
      /\ UNCHANGED <<android, app, bRecord, callback, indices, want, history>>
  BY DEF GetRecord
<1>2. DataTypes'
  BY <1>1 DEF DataInv, DataTypes, StatusInfo
<1>3. ChunkKnown'
  <2>1. CASE thread' = "store"
    BY <2>1, <1>1 DEF DataInv, ChunkKnown
  <2>2. CASE thread' # "store"
    BY <2>2, <1>1, <1>2, StoreForgetsChunk DEF DataTypes
  <2>3. QED
    BY <2>1, <2>2
<1>4. Places'
  BY <1>1 DEF DataInv, Handshake, Places, IndicesMeet
<1>5. WholeInOrder' /\ GotInOrder'
  BY <1>1 DEF DataInv, WholeInOrder, GotInOrder, FifoIsRead
<1>6. QED
  BY <1>2, <1>3, <1>4, <1>5 DEF DataInv

(* The application opens; the thread is idle until the device is prepared. *)
LEMMA OpeningKeepsData ==
  ASSUME DataInv, Handshake,
         \/ Open \/ InitWoken \/ PrepareFails \/ AudioOpenFails \/ Prepare \/ SignalOpen
         \/ OpenFinish
  PROVE  DataInv'
<1>1. CASE Open
  BY <1>1, QuietStep DEF Open
<1>2. CASE InitWoken
  BY <1>2, QuietStep DEF InitWoken
<1>3. CASE PrepareFails
  BY <1>3, QuietStep DEF PrepareFails
<1>4. CASE Prepare
  <2>1. thread' # "store" /\ ~bRecord'
    BY <1>4 DEF Prepare, Handshake, Opened, Closing, ThreadIdle
  <2>2. eStatusInfo' \in StatusInfo /\ writeIndex' \in 0 .. Size - 1 /\ readIndex' \in 0 .. Size - 1
    BY <1>4 DEF Prepare, DataInv, DataTypes
  <2>3. QED
    BY <1>4, <2>1, <2>2, NewRecordingStep DEF Prepare
<1>5. CASE SignalOpen
  BY <1>5, QuietStep DEF SignalOpen
<1>6. CASE OpenFinish
  <2>1. /\ thread # "store" /\ got = <<>> /\ recorded = 0 /\ available = 0 /\ ~bRecord
        /\ app' = "open" /\ eStatusInfo' = "NORMAL" /\ callback' \in BOOLEAN
        /\ UNCHANGED <<android, thread, bRecord, indices, chunk, want, history>>
    BY <1>6 DEF OpenFinish, DataInv, Places, Handshake
  <2>2. DataTypes' /\ Places'
    BY <2>1 DEF DataInv, DataTypes, StatusInfo, Places
  <2>3. ChunkKnown'
    BY <2>1 DEF DataInv, ChunkKnown
  <2>4. WholeInOrder' /\ GotInOrder'
    BY <2>1, NothingInOrder DEF WholeInOrder, GotInOrder
  <2>5. QED
    BY <2>2, <2>3, <2>4 DEF DataInv
<1>7. CASE AudioOpenFails
  <2>1. thread' # "store" /\ ~bRecord'
    BY <1>7 DEF AudioOpenFails, Handshake, Opened, Closing, ThreadIdle
  <2>2. eStatusInfo' \in StatusInfo /\ writeIndex' \in 0 .. Size - 1 /\ readIndex' \in 0 .. Size - 1
    BY <1>7 DEF AudioOpenFails, DataInv, DataTypes
  <2>3. QED
    BY <1>7, <2>1, <2>2, NewRecordingStep DEF AudioOpenFails
<1>8. QED
  BY <1>1, <1>2, <1>3, <1>4, <1>5, <1>6, <1>7

LEMMA UsingKeepsData ==
  ASSUME DataInv, Handshake,
         \/ Start \/ Stop \/ CloseCall \/ (\E n \in 1 .. Size : GetSamples(n))
         \/ EnoughSamples \/ Copy \/ SetCloseOn \/ CloseWait \/ CloseWoken
  PROVE  DataInv'
<1>1. CASE Start
  <2>1. Size \in Nat \ {0}
    BY FifoAssumption
  <2>2. IndicesMeet'
    <3>1. Slot(0) = 0
      <4>1. 0 \in 0 .. 2 * Size - 1 /\ 0 < Size
        BY <2>1
      <4>2. QED
        BY <4>1, Modulo
    <3>2. QED
      BY <3>1, <1>1 DEF Start, IndicesMeet
  <2>3. writeIndex' \in 0 .. Size - 1 /\ readIndex' \in 0 .. Size - 1 /\ eStatusInfo' \in StatusInfo
    BY <2>1, <1>1 DEF Start, DataInv, DataTypes
  <2>4. QED
    BY <1>1, <2>2, <2>3, NewRecordingStep DEF Start
<1>2. CASE Stop
  BY <1>2, QuietStep DEF Stop
<1>3. CASE CloseCall
  BY <1>3, QuietStep DEF CloseCall
<1>4. ASSUME NEW n \in 1 .. Size, GetSamples(n) PROVE DataInv'
  <2>1. /\ app' = "getSamples" /\ ~callback /\ want' = n
        /\ UNCHANGED <<android, thread, bRecord, callback, eStatusInfo, indices, chunk, history>>
    BY <1>4 DEF GetSamples
  <2>2. n \in 0 .. Size
    BY FifoAssumption
  <2>3. DataTypes' /\ Places' /\ ChunkKnown'
    BY <2>1, <2>2 DEF DataInv, DataTypes, Places, IndicesMeet, ChunkKnown
  <2>4. WholeInOrder' /\ GotInOrder'
    BY <2>1 DEF DataInv, WholeInOrder, GotInOrder, FifoIsRead
  <2>5. QED
    BY <2>3, <2>4 DEF DataInv
<1>5. CASE EnoughSamples
  BY <1>5, QuietStep DEF EnoughSamples
<1>6. CASE Copy
  BY <1>6, CopyStep
<1>7. CASE SetCloseOn
  BY <1>7, QuietStep DEF SetCloseOn
<1>8. CASE CloseWait
  BY <1>8, QuietStep DEF CloseWait
<1>9. CASE CloseWoken
  BY <1>9, QuietStep DEF CloseWoken
<1>10. QED
  BY <1>1, <1>2, <1>3, <1>4, <1>5, <1>6, <1>7, <1>8, <1>9

LEMMA ThreadKeepsData == ASSUME DataInv, Handshake, ThreadWorks PROVE DataInv'
<1>1. CASE ThreadRunning
  BY <1>1, QuietStep DEF ThreadRunning
<1>2. CASE OpenWoken
  BY <1>2, QuietStep DEF OpenWoken
<1>3. CASE GetClose
  BY <1>3, QuietStep DEF GetClose
<1>4. CASE Acquire /\ ~GetClose
  BY <1>4, DecidingKeepsData, FailingReadKeepsData, ReadingKeepsData, QuietStore,
     NotifyingStore, DeliveringStore DEF Acquire
<1>5. CASE CloseDevice
  BY <1>5, QuietStep DEF CloseDevice
<1>6. CASE SignalClose
  BY <1>6, QuietStep DEF SignalClose
<1>7. QED
  BY <1>1, <1>2, <1>3, <1>4, <1>5, <1>6 DEF ThreadWorks

LEMMA WakeupKeepsData == ASSUME DataInv, SpuriousWakeup PROVE DataInv'
BY QuietStep DEF SpuriousWakeup

LEMMA DataStep == ASSUME DataInv, Handshake, [Next]_vars PROVE DataInv'
<1>1. CASE Next
  BY <1>1, OpeningKeepsData, UsingKeepsData, ThreadKeepsData, WakeupKeepsData
     DEF Next, UserCalls, AppWorks
<1>2. CASE UNCHANGED vars
  BY <1>2, QuietStep DEF vars
<1>3. QED
  BY <1>1, <1>2

(* The FIFO, its indices and the chunk under way hold the recording from    *)
(* its start, whatever the sizes and whatever the two threads do when.      *)
THEOREM DataInvariant == Spec => []DataInv
<1>1. Init => DataInv
  BY DataInit
<1>2. DataInv /\ Handshake /\ [Next]_vars => DataInv'
  BY DataStep
<1>3. QED
  BY <1>1, <1>2, HandshakeInvariant, PTL DEF Spec

LEMMA RecordingOfNow == \A s : Recording(s) = RecordingOf(s, recorded)
BY DEF Recording, RecordingOf

LEMMA HeldIsRing == \A n : Held(n) = Ring(fifo, readIndex, n)
BY DEF Held, Ring, Slot

(* Every variable keeps its type: no index leaves the FIFO, no count goes   *)
(* below zero or above its size.                                            *)
THEOREM TypeCorrect == Spec => []TypeOK
<1>1. DataInv /\ Handshake => TypeOK
  <2> SUFFICES ASSUME DataInv, Handshake PROVE TypeOK
    OBVIOUS
  <2>1. chunk = ReadError \/ chunk \in Seq(Samples)
    BY ChunkIsSequence DEF DataInv, DataTypes, ChunkKnown
  <2>2. QED
    BY <2>1 DEF DataInv, DataTypes, Handshake, TypeOK
<1>2. QED
  BY <1>1, DataInvariant, HandshakeInvariant, PTL

(* Until the FIFO is overrun, what the application got and what waits for   *)
(* it are the recording, for every size of FIFO and fragment.               *)
THEOREM RecordingStaysInOrder == Spec => []RecordingInOrder
<1>1. DataInv => RecordingInOrder
  BY RecordingOfNow, HeldIsRing DEF DataInv, WholeInOrder, InOrder, RecordingInOrder
<1>2. QED
  BY <1>1, DataInvariant, PTL

(* A callback on Android gets the recording in order, overrun or not. *)
THEOREM CallbackStaysInOrder == Spec => []CallbackInOrder
<1>1. DataInv => CallbackInOrder
  BY RecordingOfNow DEF DataInv, GotInOrder, InOrder, CallbackInOrder
<1>2. QED
  BY <1>1, DataInvariant, PTL
=============================================================================
