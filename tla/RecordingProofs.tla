--------------------------- MODULE RecordingProofs --------------------------
(***************************************************************************)
(* The recording of an utterance keeps what was heard in one piece, is     *)
(* wound back with the frames, and has the audio of the words, whatever    *)
(* the sizes of the ring, of a buffer and of the frame window.             *)
(***************************************************************************)
EXTENDS Recording, FrameOpsProofs, SequenceTheorems

-----------------------------------------------------------------------------
(* Runs of samples as sequences. *)

LEMMA IsSequence ==
  ASSUME NEW S, NEW n \in Nat, NEW s \in [1 .. n -> S]
  PROVE  s \in Seq(S) /\ Len(s) = n
<1>1. s \in Seq(S)
  BY SeqDef
<1>2. Len(s) \in Nat /\ 1 .. Len(s) = 1 .. n
  BY <1>1, LenProperties
<1>3. QED
  BY <1>1, <1>2, SMT

LEMMA RunIsSequence ==
  ASSUME NEW f \in Nat, f >= 1, NEW n \in Nat
  PROVE  /\ Run(f, n) \in Seq(Nat) /\ Len(Run(f, n)) = n
         /\ \A i \in 1 .. n : Run(f, n)[i] = f + i - 1
<1>1. Run(f, n) \in [1 .. n -> Nat]
  BY DEF Run
<1>2. QED
  BY <1>1, IsSequence DEF Run

(* A run without its first samples begins later. *)
LEMMA RunRest ==
  ASSUME NEW f \in Nat, f >= 1, NEW n \in Nat, NEW k \in 0 .. n
  PROVE  SubSeq(Run(f, n), k + 1, n) = Run(f + k, n - k)
<1> DEFINE s == Run(f, n)
           t == Run(f + k, n - k)
<1>1. s \in Seq(Nat) /\ Len(s) = n /\ \A i \in 1 .. n : s[i] = f + i - 1
  BY RunIsSequence
<1>2. /\ t \in Seq(Nat) /\ Len(t) = n - k
      /\ \A i \in 1 .. n - k : t[i] = f + k + i - 1
  <2>1. f + k \in Nat /\ f + k >= 1 /\ n - k \in Nat
    OBVIOUS
  <2>2. QED
    BY <2>1, RunIsSequence
<1> HIDE DEF s, t
<1>3. \A i \in k + 1 .. n : s[i] \in Nat
  BY <1>1
<1>4. /\ SubSeq(s, k + 1, n) \in Seq(Nat)
      /\ Len(SubSeq(s, k + 1, n)) = IF k + 1 <= n THEN n - (k + 1) + 1 ELSE 0
      /\ \A i \in 1 .. n - (k + 1) + 1 : SubSeq(s, k + 1, n)[i] = s[(k + 1) + i - 1]
  BY <1>3, SubSeqProperties
<1>5. Len(SubSeq(s, k + 1, n)) = n - k
  BY <1>4
<1>6. ASSUME NEW i \in 1 .. n - k PROVE SubSeq(s, k + 1, n)[i] = t[i]
  <2>1. i \in 1 .. n - (k + 1) + 1 /\ (k + 1) + i - 1 \in 1 .. n
    OBVIOUS
  <2>2. SubSeq(s, k + 1, n)[i] = f + ((k + 1) + i - 1) - 1
    BY <2>1, <1>1, <1>4
  <2>3. QED
    BY <2>2, <1>2
<1>7. SubSeq(s, k + 1, n) = t
  BY <1>2, <1>4, <1>5, <1>6, SeqEqual
<1>8. QED
  BY <1>7 DEF s, t

(* A run and the samples after it are a run. *)
LEMMA RunGrows ==
  ASSUME NEW f \in Nat, f >= 1, NEW n \in Nat, NEW m \in Nat
  PROVE  Run(f, n) \o Run(f + n, m) = Run(f, n + m)
<1> DEFINE s == Run(f, n)
           t == Run(f + n, m)
           u == Run(f, n + m)
<1>1. s \in Seq(Nat) /\ Len(s) = n /\ \A i \in 1 .. n : s[i] = f + i - 1
  BY RunIsSequence
<1>2. t \in Seq(Nat) /\ Len(t) = m /\ \A i \in 1 .. m : t[i] = f + n + i - 1
  <2>1. f + n \in Nat /\ f + n >= 1
    OBVIOUS
  <2>2. QED
    BY <2>1, RunIsSequence
<1>3. u \in Seq(Nat) /\ Len(u) = n + m /\ \A i \in 1 .. n + m : u[i] = f + i - 1
  BY RunIsSequence
<1> HIDE DEF s, t, u
<1>4. /\ s \o t \in Seq(Nat) /\ Len(s \o t) = n + m
      /\ \A i \in 1 .. n + m : (s \o t)[i] = IF i <= n THEN s[i] ELSE t[i - n]
  BY <1>1, <1>2, ConcatProperties
<1>5. ASSUME NEW i \in 1 .. n + m PROVE (s \o t)[i] = u[i]
  <2>1. CASE i <= n
    BY <2>1, <1>1, <1>3, <1>4
  <2>2. CASE i > n
    <3>1. i - n \in 1 .. m
      BY <2>2
    <3>2. t[i - n] = f + n + (i - n) - 1
      BY <3>1, <1>2
    <3>3. f + n + (i - n) - 1 = f + i - 1
      OBVIOUS
    <3>4. (s \o t)[i] = t[i - n]
      BY <2>2, <1>4
    <3>5. QED
      BY <3>2, <3>3, <3>4, <1>3
  <2>3. i <= n \/ i > n
    OBVIOUS
  <2>4. QED
    BY <2>1, <2>2, <2>3
<1>6. s \o t = u
  BY <1>3, <1>4, <1>5, SeqEqual
<1>7. QED
  BY <1>6 DEF s, t, u

(* The last k samples. *)
LEMMA LastIsSequence ==
  ASSUME NEW s \in Seq(Nat), NEW k \in 0 .. Len(s)
  PROVE  /\ SubSeq(s, k + 1, Len(s)) \in Seq(Nat)
         /\ Len(SubSeq(s, k + 1, Len(s))) = Len(s) - k
<1> DEFINE n == Len(s)
<1>1. n \in Nat
  BY LenProperties
<1>2. \A i \in k + 1 .. n : s[i] \in Nat
  BY <1>1, ElementOfSeq
<1> HIDE DEF n
<1>3. /\ SubSeq(s, k + 1, n) \in Seq(Nat)
      /\ Len(SubSeq(s, k + 1, n)) = IF k + 1 <= n THEN n - (k + 1) + 1 ELSE 0
  BY <1>1, <1>2, SubSeqProperties
<1>4. k \in 0 .. n
  BY DEF n
<1>5. QED
  BY <1>1, <1>3, <1>4 DEF n

-----------------------------------------------------------------------------
(* What the calls on the buffer keep. *)

GoodBuffer == {b \in WaveformBuffer : Len(b.held) <= Capacity}

LEMMA BufferFields ==
  ASSUME NEW b \in GoodBuffer
  PROVE  /\ b.held \in Seq(Nat) /\ Len(b.held) \in 0 .. Capacity
         /\ b.state \in {"OFF", "CIRCULAR", "LINEAR"}
         /\ b.readIdx \in 0 .. Capacity - 1
         /\ b.overflow_count \in Nat /\ b.read_size \in Nat
         /\ Capacity \in Nat \ {0} /\ FrameSize \in Nat \ {0} /\ PerFrame \in Nat \ {0}
         /\ FrameSize <= Capacity
BY RecordingAssumption, LenProperties DEF GoodBuffer, WaveformBuffer

LEMMA EmptiedFacts ==
  ASSUME NEW b \in GoodBuffer
  PROVE  /\ Emptied(b) \in GoodBuffer
         /\ Emptied(b).held = <<>> /\ Len(Emptied(b).held) = 0
         /\ Emptied(b).state = b.state /\ Emptied(b).readIdx = 0
         /\ Emptied(b).overflow_count = 0 /\ Emptied(b).read_size = 0
<1> DEFINE e == <<>>
<1>1. e \in Seq(Nat) /\ Len(e) = 0
  BY EmptySeq
<1>2. Emptied(b) = [b EXCEPT !.held = e, !.readIdx = 0, !.overflow_count = 0, !.read_size = 0]
  BY DEF Emptied
<1> HIDE DEF e
<1>3. Len(e) <= Capacity /\ 0 \in 0 .. Capacity - 1 /\ 0 \in Nat
  BY <1>1, BufferFields
<1>4. /\ Emptied(b) \in GoodBuffer
      /\ Emptied(b).held = e /\ Emptied(b).state = b.state /\ Emptied(b).readIdx = 0
      /\ Emptied(b).overflow_count = 0 /\ Emptied(b).read_size = 0
  BY <1>1, <1>2, <1>3 DEF GoodBuffer, WaveformBuffer
<1>5. QED
  BY <1>1, <1>4 DEF e

LEMMA PassedFacts ==
  ASSUME NEW b \in GoodBuffer, NEW n \in Nat
  PROVE  LET k == Lesser(n, Len(b.held))
         IN  /\ Passed(b, n) \in GoodBuffer
             /\ Passed(b, n).held = SubSeq(b.held, k + 1, Len(b.held))
             /\ Len(Passed(b, n).held) = Len(b.held) - k
             /\ Passed(b, n).state = b.state
             /\ Passed(b, n).readIdx = (b.readIdx + k) % Capacity
             /\ Passed(b, n).overflow_count = b.overflow_count
             /\ Passed(b, n).read_size = b.read_size
<1> DEFINE k == Lesser(n, Len(b.held))
           s == SubSeq(b.held, k + 1, Len(b.held))
           j == (b.readIdx + k) % Capacity
<1>1. k \in 0 .. Len(b.held)
  BY BufferFields DEF Lesser
<1>2. s \in Seq(Nat) /\ Len(s) = Len(b.held) - k
  BY <1>1, BufferFields, LastIsSequence
<1>3. j \in 0 .. Capacity - 1
  <2> HIDE DEF k
  <2>1. b.readIdx + k \in Nat
    BY <1>1, BufferFields
  <2>2. \A x \in Nat : x % Capacity \in 0 .. Capacity - 1
    BY BufferFields
  <2>3. QED
    BY <2>1, <2>2
<1>4. Passed(b, n) = [b EXCEPT !.held = s, !.readIdx = j]
  BY DEF Passed
<1> HIDE DEF k, s, j
<1>5. Len(s) <= Capacity
  BY <1>1, <1>2, BufferFields
<1>6. /\ Passed(b, n) \in GoodBuffer
      /\ Passed(b, n).held = s /\ Passed(b, n).state = b.state
      /\ Passed(b, n).readIdx = j
      /\ Passed(b, n).overflow_count = b.overflow_count
      /\ Passed(b, n).read_size = b.read_size
  BY <1>2, <1>3, <1>4, <1>5 DEF GoodBuffer, WaveformBuffer
<1>7. QED
  BY <1>2, <1>6 DEF k, s, j

LEMMA PassedNothing ==
  ASSUME NEW b \in GoodBuffer, Len(b.held) = 0, b.readIdx = 0
  PROVE  /\ Passed(b, 0) \in GoodBuffer /\ Len(Passed(b, 0).held) = 0
         /\ Passed(b, 0).state = b.state /\ Passed(b, 0).readIdx = 0
         /\ Passed(b, 0).overflow_count = b.overflow_count
<1> DEFINE p == Passed(b, 0)
           k == Lesser(0, Len(b.held))
<1>1. k = 0
  BY DEF Lesser
<1>2. /\ p \in GoodBuffer /\ Len(p.held) = Len(b.held) - k
      /\ p.state = b.state /\ p.readIdx = (b.readIdx + k) % Capacity
      /\ p.overflow_count = b.overflow_count
  BY PassedFacts
<1> HIDE DEF p, k
<1>3. 0 % Capacity = 0
  BY BufferFields
<1>4. p.readIdx = 0 /\ Len(p.held) = 0
  BY <1>1, <1>2, <1>3
<1>5. QED
  BY <1>2, <1>4 DEF p

LEMMA AppendedFacts ==
  ASSUME NEW b \in GoodBuffer, NEW s \in Seq(Nat), Len(b.held) + Len(s) <= Capacity
  PROVE  /\ Appended(b, s) \in GoodBuffer
         /\ Appended(b, s).held = b.held \o s
         /\ Len(Appended(b, s).held) = Len(b.held) + Len(s)
         /\ Appended(b, s).state = b.state /\ Appended(b, s).readIdx = b.readIdx
         /\ Appended(b, s).overflow_count = b.overflow_count
         /\ Appended(b, s).read_size = b.read_size
<1> DEFINE t == b.held \o s
<1>1. t \in Seq(Nat) /\ Len(t) = Len(b.held) + Len(s)
  BY BufferFields, ConcatProperties
<1>2. Appended(b, s) = [b EXCEPT !.held = t]
  BY DEF Appended
<1> HIDE DEF t
<1>3. Len(t) <= Capacity
  BY <1>1
<1>4. /\ Appended(b, s) \in GoodBuffer /\ Appended(b, s).held = t
      /\ Appended(b, s).state = b.state /\ Appended(b, s).readIdx = b.readIdx
      /\ Appended(b, s).overflow_count = b.overflow_count
      /\ Appended(b, s).read_size = b.read_size
  BY <1>1, <1>2, <1>3 DEF GoodBuffer, WaveformBuffer
<1>5. QED
  BY <1>1, <1>4 DEF t

(* A circular buffer makes room for what is written. *)
LEMMA WrittenCircular ==
  ASSUME NEW b \in GoodBuffer, b.state = "CIRCULAR",
         NEW s \in Seq(Nat), Len(s) <= Capacity
  PROVE  LET k == Lacking(b, s)
         IN  /\ k \in 0 .. Len(b.held)
             /\ Written(b, s) \in GoodBuffer
             /\ Written(b, s).held = SubSeq(b.held, k + 1, Len(b.held)) \o s
             /\ Len(Written(b, s).held) = Len(b.held) - k + Len(s)
             /\ Written(b, s).state = "CIRCULAR"
             /\ Written(b, s).overflow_count = b.overflow_count
             /\ Written(b, s).read_size = b.read_size
<1> DEFINE k == Lacking(b, s)
<1>1. Len(s) \in Nat
  BY LenProperties
<1>2. k \in 0 .. Len(b.held) /\ k \in Nat /\ Len(b.held) - k + Len(s) <= Capacity
  BY <1>1, BufferFields DEF Lacking, Greater
<1>3. Lesser(k, Len(b.held)) = k
  BY <1>2, BufferFields DEF Lesser
<1>4. Written(b, s) = Appended(Passed(b, k), s)
  BY DEF Written
<1> HIDE DEF k
<1> DEFINE p == Passed(b, k)
<1>5. /\ p \in GoodBuffer /\ p.held = SubSeq(b.held, k + 1, Len(b.held))
      /\ Len(p.held) = Len(b.held) - k /\ p.state = b.state
      /\ p.overflow_count = b.overflow_count /\ p.read_size = b.read_size
  BY <1>2, <1>3, PassedFacts
<1> HIDE DEF p
<1>6. Len(p.held) + Len(s) <= Capacity
  BY <1>2, <1>5
<1>7. Written(b, s) = Appended(p, s)
  BY <1>4 DEF p
<1>8. /\ Appended(p, s) \in GoodBuffer
      /\ Appended(p, s).held = p.held \o s
      /\ Len(Appended(p, s).held) = Len(p.held) + Len(s)
      /\ Appended(p, s).state = p.state
      /\ Appended(p, s).overflow_count = p.overflow_count
      /\ Appended(p, s).read_size = p.read_size
  BY <1>5, <1>6, AppendedFacts
<1>9. /\ k \in 0 .. Len(b.held)
      /\ Written(b, s) \in GoodBuffer
      /\ Written(b, s).held = SubSeq(b.held, k + 1, Len(b.held)) \o s
      /\ Len(Written(b, s).held) = Len(b.held) - k + Len(s)
      /\ Written(b, s).state = "CIRCULAR"
      /\ Written(b, s).overflow_count = b.overflow_count
      /\ Written(b, s).read_size = b.read_size
  BY <1>2, <1>5, <1>7, <1>8
<1>10. QED
  BY <1>9 DEF k

(* A linear one takes what fits and counts what does not. *)
LEMMA WrittenLinear ==
  ASSUME NEW b \in GoodBuffer, b.state = "LINEAR",
         NEW s \in Seq(Nat), Len(s) <= Capacity
  PROVE  /\ Written(b, s) \in GoodBuffer
         /\ Written(b, s).state = "LINEAR"
         /\ Written(b, s).readIdx = b.readIdx
         /\ Written(b, s).read_size = b.read_size
         /\ \/ /\ Len(b.held) + Len(s) <= Capacity
               /\ Written(b, s).held = b.held \o s
               /\ Len(Written(b, s).held) = Len(b.held) + Len(s)
               /\ Written(b, s).overflow_count = b.overflow_count
            \/ /\ Len(b.held) + Len(s) > Capacity
               /\ Written(b, s).held = b.held
               /\ Written(b, s).overflow_count = b.overflow_count + Len(s)
<1>1. Len(s) \in Nat
  BY LenProperties
<1>2. CASE Len(b.held) + Len(s) <= Capacity
  <2>1. Lacking(b, s) = 0
    BY <1>1, <1>2, BufferFields DEF Lacking, Greater
  <2>2. Written(b, s) = Appended(b, s)
    BY <2>1 DEF Written
  <2>3. QED
    BY <1>2, <2>2, AppendedFacts
<1>3. CASE Len(b.held) + Len(s) > Capacity
  <2>1. Lacking(b, s) > 0 /\ Lacking(b, s) # 0
    BY <1>1, <1>3, BufferFields DEF Lacking, Greater
  <2> DEFINE c == b.overflow_count + Len(s)
  <2>2. Written(b, s) = [b EXCEPT !.overflow_count = c]
    BY <2>1 DEF Written
  <2>3. c \in Nat
    BY <1>1, BufferFields
  <2> HIDE DEF c
  <2>4. /\ Written(b, s) \in GoodBuffer /\ Written(b, s).held = b.held
        /\ Written(b, s).state = b.state /\ Written(b, s).readIdx = b.readIdx
        /\ Written(b, s).overflow_count = c /\ Written(b, s).read_size = b.read_size
    BY <2>2, <2>3 DEF GoodBuffer, WaveformBuffer
  <2>5. QED
    BY <1>3, <2>4 DEF c
<1>4. QED
  BY <1>1, <1>2, <1>3, BufferFields

LEMMA WrittenOff ==
  ASSUME NEW b, b.state = "OFF", NEW s
  PROVE  Written(b, s) = b
BY DEF Written

(* The last samples alone. *)
LEMMA WoundBackFacts ==
  ASSUME NEW b \in GoodBuffer, b.state = "CIRCULAR", NEW n \in 0 .. Len(b.held)
  PROVE  /\ WoundBack(b, n) \in GoodBuffer
         /\ WoundBack(b, n).held = SubSeq(b.held, Len(b.held) - n + 1, Len(b.held))
         /\ Len(WoundBack(b, n).held) = n
         /\ WoundBack(b, n).state = "CIRCULAR"
         /\ WoundBack(b, n).readIdx = 0
         /\ WoundBack(b, n).overflow_count = 0
<1> DEFINE k == Len(b.held) - n
           s == SubSeq(b.held, k + 1, Len(b.held))
           e == Emptied(b)
<1>1. k \in 0 .. Len(b.held) /\ Len(b.held) - k = n
  BY BufferFields
<1>2. s \in Seq(Nat) /\ Len(s) = n
  BY <1>1, BufferFields, LastIsSequence
<1>3. /\ e \in GoodBuffer /\ e.held = <<>> /\ Len(e.held) = 0 /\ e.state = "CIRCULAR"
      /\ e.readIdx = 0 /\ e.overflow_count = 0
  BY EmptiedFacts
<1>4. WoundBack(b, n) = Written(e, s)
  BY DEF WoundBack
<1>5. n <= Capacity /\ n \in Nat
  BY BufferFields
<1> HIDE DEF k, s, e
<1>6. Lacking(e, s) = 0
  BY <1>2, <1>3, <1>5, BufferFields DEF Lacking, Greater
<1> DEFINE p == Passed(e, 0)
<1>7. Written(e, s) = Appended(p, s)
  BY <1>3, <1>6 DEF Written
<1>8. /\ p \in GoodBuffer /\ Len(p.held) = 0
      /\ p.state = "CIRCULAR" /\ p.readIdx = 0 /\ p.overflow_count = 0
  BY <1>3, PassedNothing
<1> HIDE DEF p
<1>11. p.held = <<>> /\ p.held \in Seq(Nat)
  BY <1>8, BufferFields, EmptySeq
<1>12. Len(p.held) + Len(s) = n /\ Len(p.held) + Len(s) <= Capacity
  BY <1>2, <1>5, <1>8
<1>13. /\ Appended(p, s) \in GoodBuffer
       /\ Appended(p, s).held = p.held \o s
       /\ Len(Appended(p, s).held) = Len(p.held) + Len(s)
       /\ Appended(p, s).state = p.state /\ Appended(p, s).readIdx = p.readIdx
       /\ Appended(p, s).overflow_count = p.overflow_count
  BY <1>2, <1>8, <1>12, AppendedFacts
<1>14. <<>> \o s = s
  BY <1>2, ConcatEmptySeq
<1>15. QED
  BY <1>4, <1>7, <1>8, <1>11, <1>12, <1>13, <1>14 DEF s, k

(* A wind-back copies the last samples, or fails. *)
LEMMA OutcomeFacts ==
  ASSUME NEW b \in GoodBuffer, b.state = "CIRCULAR", NEW n \in Nat
  PROVE  LET o == WindBackOutcome(b, n)
         IN  /\ o.rc \in {"SUCCESS", "INVALID_STATE", "OUT_OF_MEMORY"}
             /\ o.buffer \in GoodBuffer /\ o.buffer.state = "CIRCULAR"
             /\ n <= WindbackRoom /\ n <= Len(b.held) => o.rc = "SUCCESS"
             /\ o.rc = "SUCCESS" =>
                  /\ n <= Len(b.held) /\ Len(o.buffer.held) = n
                  /\ o.buffer.held = SubSeq(b.held, Len(b.held) - n + 1, Len(b.held))
                  /\ o.buffer.readIdx = 0 /\ o.buffer.overflow_count = 0
             /\ o.rc = "INVALID_STATE" =>
                  /\ Len(o.buffer.held) = 0
                  /\ o.buffer.overflow_count = b.overflow_count
             /\ o.rc = "OUT_OF_MEMORY" => o.buffer = b
<1>1. Len(b.held) \in Nat /\ WindbackRoom \in Nat
  BY BufferFields, RecordingAssumption
<1>2. CASE n > WindbackRoom
  <2>1. ~(n <= WindbackRoom)
    BY <1>1, <1>2
  <2>2. WindBackOutcome(b, n) = [rc |-> "OUT_OF_MEMORY", buffer |-> b]
    BY <1>2, <2>1, Zenon DEF WindBackOutcome
  <2>3. QED
    BY <2>1, <2>2
<1>3. CASE n <= WindbackRoom /\ n > Len(b.held)
  <2> DEFINE p == Passed(b, n)
  <2>1. ~(n > WindbackRoom)
    BY <1>1, <1>3
  <2>2. WindBackOutcome(b, n) = [rc |-> "INVALID_STATE", buffer |-> p]
    BY <1>3, <2>1 DEF WindBackOutcome
  <2>3. Lesser(n, Len(b.held)) = Len(b.held)
    BY <1>1, <1>3 DEF Lesser
  <2>4. /\ p \in GoodBuffer /\ Len(p.held) = Len(b.held) - Len(b.held)
        /\ p.state = b.state /\ p.overflow_count = b.overflow_count
    BY <2>3, PassedFacts
  <2> HIDE DEF p
  <2>5. Len(b.held) - Len(b.held) = 0 /\ ~(n <= Len(b.held))
    BY <1>1, <1>3
  <2>6. QED
    BY <2>2, <2>4, <2>5
<1>4. CASE n <= WindbackRoom /\ n <= Len(b.held)
  <2> DEFINE p == WoundBack(b, n)
  <2>1. ~(n > WindbackRoom) /\ ~(n > Len(b.held)) /\ n \in 0 .. Len(b.held)
    BY <1>1, <1>4
  <2>2. WindBackOutcome(b, n) = [rc |-> "SUCCESS", buffer |-> p]
    BY <2>1 DEF WindBackOutcome
  <2>3. /\ p \in GoodBuffer
        /\ p.held = SubSeq(b.held, Len(b.held) - n + 1, Len(b.held))
        /\ Len(p.held) = n /\ p.state = "CIRCULAR"
        /\ p.readIdx = 0 /\ p.overflow_count = 0
    BY <2>1, WoundBackFacts
  <2> DEFINE s == SubSeq(b.held, Len(b.held) - n + 1, Len(b.held))
  <2> HIDE DEF p
  <2>4. p.held = s
    BY <2>3
  <2> HIDE DEF s
  <2>5. /\ WindBackOutcome(b, n).rc = "SUCCESS"
        /\ WindBackOutcome(b, n).buffer = p
    BY <2>2
  <2>6. QED
    BY <1>4, <2>3, <2>4, <2>5 DEF s
<1>5. n > WindbackRoom \/ n <= WindbackRoom
  BY <1>1
<1>6. n > Len(b.held) \/ n <= Len(b.held)
  BY <1>1
<1>7. QED
  BY <1>2, <1>3, <1>4, <1>5, <1>6

LEMMA SwitchedFacts ==
  ASSUME NEW b \in GoodBuffer, NEW s \in {"OFF", "CIRCULAR", "LINEAR"}
  PROVE  LET c == [b EXCEPT !.state = s]
         IN  /\ c \in GoodBuffer /\ c.held = b.held /\ c.state = s
             /\ c.readIdx = b.readIdx /\ c.overflow_count = b.overflow_count
             /\ c.read_size = b.read_size
BY DEF GoodBuffer, WaveformBuffer

-----------------------------------------------------------------------------
(* What is recorded is one piece. *)

(* A recording, oldest sample to newest, after h buffers were heard; the    *)
(* first sample of a linear one is o.                                       *)
CircularPiece(b, last) ==
  /\ b.overflow_count = 0 /\ Len(b.held) <= last
  /\ b.held = Run(last - Len(b.held) + 1, Len(b.held))

(* Once a buffer was refused no other fits. *)
LinearPiece(b, last, o) ==
  /\ o >= 1 /\ b.held = Run(o, Len(b.held))
  /\ IF b.overflow_count = 0 THEN o + Len(b.held) - 1 = last
     ELSE Len(b.held) + FrameSize > Capacity

Piece(b, last, o) == /\ b.state = "CIRCULAR" => CircularPiece(b, last)
                     /\ b.state = "LINEAR" => LinearPiece(b, last, o)

LEMMA RunEmpty ==
  ASSUME NEW f \in Nat, f >= 1, NEW s \in Seq(Nat), Len(s) = 0
  PROVE  s = Run(f, 0)
<1>1. Run(f, 0) \in Seq(Nat) /\ Len(Run(f, 0)) = 0
  BY RunIsSequence
<1>2. QED
  BY <1>1, EmptySeq

(* The samples of one buffer. *)
LEMMA SamplesAreRun ==
  ASSUME NEW last \in Nat, NEW n \in Nat
  PROVE  [i \in 1 .. n |-> last + i] = Run(last + 1, n)
<1>1. \A i \in 1 .. n : last + i = last + 1 + i - 1
  OBVIOUS
<1>2. QED
  BY <1>1 DEF Run

LEMMA NextBuffer ==
  ASSUME NEW h \in Nat
  PROVE  h * FrameSize \in Nat /\ (h + 1) * FrameSize = h * FrameSize + FrameSize
BY RecordingAssumption

(* A circular recording loses its oldest samples, a linear one refuses the  *)
(* newest: both stay in one piece.                                          *)
LEMMA WrittenKeepsPiece ==
  ASSUME NEW b \in GoodBuffer, NEW last \in Nat, NEW o \in Nat, Piece(b, last, o)
  PROVE  /\ Written(b, Run(last + 1, FrameSize)) \in GoodBuffer
         /\ Written(b, Run(last + 1, FrameSize)).state = b.state
         /\ Piece(Written(b, Run(last + 1, FrameSize)), last + FrameSize, o)
<1> DEFINE s == Run(last + 1, FrameSize)
           c == Written(b, s)
           n == Len(b.held)
<1>1. FrameSize \in Nat /\ FrameSize <= Capacity /\ FrameSize >= 1
  BY RecordingAssumption
<1>2. s \in Seq(Nat) /\ Len(s) = FrameSize
  <2>1. last + 1 \in Nat /\ last + 1 >= 1
    OBVIOUS
  <2>2. QED
    BY <1>1, <2>1, RunIsSequence
<1>3. n \in Nat /\ n <= Capacity /\ Capacity \in Nat
  BY BufferFields
<1>4. CASE b.state = "CIRCULAR"
  <2> DEFINE k == Lacking(b, s)
  <2>1. /\ k \in 0 .. n /\ c \in GoodBuffer
        /\ c.held = SubSeq(b.held, k + 1, n) \o s
        /\ Len(c.held) = n - k + Len(s)
        /\ c.state = "CIRCULAR" /\ c.overflow_count = b.overflow_count
    <3>1. Len(s) <= Capacity
      BY <1>1, <1>2
    <3> HIDE DEF s
    <3>2. QED
      BY <1>2, <1>4, <3>1, WrittenCircular
  <2>2. b.overflow_count = 0 /\ n <= last /\ b.held = Run(last - n + 1, n)
    BY <1>4 DEF Piece, CircularPiece
  <2> HIDE DEF k, s, c, n
  <2> DEFINE f == last - n + 1
  <2>3. f \in Nat /\ f >= 1 /\ f + k \in Nat /\ f + k >= 1 /\ n - k \in Nat
    BY <1>3, <2>1, <2>2
  <2>4. SubSeq(b.held, k + 1, n) = Run(f + k, n - k)
    <3>1. SubSeq(Run(f, n), k + 1, n) = Run(f + k, n - k)
      <4> HIDE DEF f
      <4>1. QED
        BY <1>3, <2>1, <2>3, RunRest
    <3>2. QED
      BY <2>2, <3>1
  <2>5. s = Run((f + k) + (n - k), FrameSize)
    <3>1. (f + k) + (n - k) = last + 1
      BY <1>3, <2>1
    <3>2. QED
      BY <3>1 DEF s
  <2>6. c.held = Run(f + k, (n - k) + FrameSize)
    <3> HIDE DEF f
    <3> DEFINE g == f + k
               m == n - k
    <3>1. g \in Nat /\ g >= 1 /\ m \in Nat
      BY <2>3
    <3>2. c.held = Run(g, m) \o Run(g + m, FrameSize)
      BY <2>1, <2>4, <2>5
    <3> HIDE DEF g, m
    <3>3. c.held = Run(g, m + FrameSize)
      BY <1>1, <3>1, <3>2, RunGrows
    <3>4. QED
      BY <3>3 DEF g, m
  <2>7. Len(c.held) = n - k + FrameSize
    BY <1>2, <2>1
  <2>8. /\ f + k = (last + FrameSize) - Len(c.held) + 1
        /\ (n - k) + FrameSize = Len(c.held)
        /\ Len(c.held) <= last + FrameSize
    <3>1. k \in Int /\ k >= 0 /\ k <= n /\ n <= last
      BY <1>3, <2>1, <2>2
    <3>2. QED
      BY <1>1, <1>3, <2>7, <3>1
  <2>9. CircularPiece(c, last + FrameSize)
    BY <2>1, <2>2, <2>6, <2>8 DEF CircularPiece
  <2>10. QED
    BY <1>4, <2>1, <2>9 DEF Piece, c, s
<1>5. CASE b.state = "LINEAR"
  <2>1. Len(s) <= Capacity
    BY <1>1, <1>2
  <2>2. /\ c \in GoodBuffer /\ c.state = "LINEAR"
        /\ \/ /\ n + Len(s) <= Capacity /\ c.held = b.held \o s
              /\ Len(c.held) = n + Len(s) /\ c.overflow_count = b.overflow_count
           \/ /\ n + Len(s) > Capacity /\ c.held = b.held
              /\ c.overflow_count = b.overflow_count + Len(s)
    <3> HIDE DEF s
    <3>1. QED
      BY <1>2, <1>5, <2>1, WrittenLinear
  <2>3. /\ o >= 1 /\ b.held = Run(o, n)
        /\ IF b.overflow_count = 0 THEN o + n - 1 = last ELSE n + FrameSize > Capacity
    BY <1>5 DEF Piece, LinearPiece
  <2>4. b.overflow_count \in Nat
    BY BufferFields
  <2> HIDE DEF c, n
  <2>5. CASE n + FrameSize <= Capacity
    <3>1. c.held = b.held \o s /\ Len(c.held) = n + FrameSize /\ c.overflow_count = b.overflow_count
      <4>1. ~(n + Len(s) > Capacity)
        BY <1>1, <1>2, <1>3, <2>5
      <4>2. QED
        BY <1>2, <2>2, <4>1
    <3>2. b.overflow_count = 0 /\ o + n - 1 = last
      <4>1. ~(n + FrameSize > Capacity)
        BY <1>1, <1>3, <2>5
      <4>2. QED
        BY <2>3, <4>1
    <3>3. o + n = last + 1
      BY <1>3, <3>2
    <3>4. c.held = Run(o, n + FrameSize)
      <4>1. c.held = Run(o, n) \o Run(o + n, FrameSize)
        BY <2>3, <3>1, <3>3
      <4>2. QED
        BY <1>1, <1>3, <2>3, <4>1, RunGrows
    <3>5. o + (n + FrameSize) - 1 = last + FrameSize
      BY <1>1, <1>3, <3>2
    <3>6. LinearPiece(c, last + FrameSize, o)
      BY <2>3, <3>1, <3>2, <3>4, <3>5 DEF LinearPiece
    <3>7. QED
      BY <1>5, <2>2, <3>6 DEF Piece, c
  <2>6. CASE n + FrameSize > Capacity
    <3>1. c.held = b.held /\ c.overflow_count = b.overflow_count + FrameSize
      <4>1. ~(n + Len(s) <= Capacity)
        BY <1>1, <1>2, <1>3, <2>6
      <4>2. QED
        BY <1>2, <2>2, <4>1
    <3>2. c.overflow_count # 0
      BY <1>1, <2>4, <3>1
    <3>3. LinearPiece(c, last + FrameSize, o)
      BY <2>3, <2>6, <3>1, <3>2 DEF LinearPiece, n
    <3>4. QED
      BY <1>5, <2>2, <3>3 DEF Piece, c
  <2>7. n + FrameSize <= Capacity \/ n + FrameSize > Capacity
    BY <1>1, <1>3
  <2>8. QED
    BY <2>5, <2>6, <2>7
<1>6. CASE b.state = "OFF"
  <2>1. c = b
    BY <1>6, WrittenOff
  <2>2. QED
    BY <1>6, <2>1 DEF Piece
<1>7. QED
  BY <1>4, <1>5, <1>6, BufferFields

(* What a wind-back copies is the end of the piece; a failed one leaves all *)
(* of it or none.                                                           *)
LEMMA OutcomePiece ==
  ASSUME NEW b \in GoodBuffer, b.state = "CIRCULAR", NEW n \in Nat, NEW last \in Nat,
         CircularPiece(b, last)
  PROVE  LET o == WindBackOutcome(b, n)
         IN  /\ o.rc = "SUCCESS" => n <= last /\ o.buffer.held = Run(last - n + 1, n)
             /\ o.rc # "SUCCESS" => CircularPiece(o.buffer, last)
<1> DEFINE o == WindBackOutcome(b, n)
           m == Len(b.held)
<1>1. m \in Nat
  BY BufferFields
<1>2. b.overflow_count = 0 /\ m <= last /\ b.held = Run(last - m + 1, m)
  BY DEF CircularPiece
<1>3. /\ o.rc \in {"SUCCESS", "INVALID_STATE", "OUT_OF_MEMORY"}
      /\ o.buffer \in GoodBuffer
      /\ o.rc = "SUCCESS" => n <= m /\ o.buffer.held = SubSeq(b.held, m - n + 1, m)
      /\ o.rc = "INVALID_STATE" =>
           Len(o.buffer.held) = 0 /\ o.buffer.overflow_count = b.overflow_count
      /\ o.rc = "OUT_OF_MEMORY" => o.buffer = b
  BY OutcomeFacts
<1> HIDE DEF o, m
<1>4. CASE o.rc = "SUCCESS"
  <2> DEFINE f == last - m + 1
             k == m - n
  <2>1. f \in Nat /\ f >= 1 /\ k \in 0 .. m
    BY <1>1, <1>2, <1>3, <1>4
  <2>2. b.held = Run(f, m) /\ o.buffer.held = SubSeq(b.held, k + 1, m)
    BY <1>2, <1>3, <1>4
  <2>3. f + k = last - n + 1 /\ m - k = n /\ n <= last
    BY <1>1, <1>2, <1>3, <1>4
  <2> HIDE DEF f, k
  <2>4. o.buffer.held = Run(f + k, m - k)
    BY <1>1, <2>1, <2>2, RunRest
  <2>5. QED
    BY <1>4, <2>3, <2>4 DEF o
<1>5. CASE o.rc = "INVALID_STATE"
  <2> DEFINE e == o.buffer
  <2>1. e.held \in Seq(Nat) /\ Len(e.held) = 0 /\ e.overflow_count = 0
    BY <1>2, <1>3, <1>5, BufferFields
  <2> HIDE DEF e
  <2>2. last - 0 + 1 \in Nat /\ last - 0 + 1 >= 1 /\ 0 <= last
    OBVIOUS
  <2>3. e.held = Run(last - 0 + 1, 0)
    BY <2>1, <2>2, RunEmpty
  <2>4. CircularPiece(e, last)
    BY <2>1, <2>2, <2>3 DEF CircularPiece
  <2>5. QED
    BY <1>5, <2>4 DEF e, o
<1>6. CASE o.rc = "OUT_OF_MEMORY"
  BY <1>3, <1>6 DEF o
<1>7. QED
  BY <1>3, <1>4, <1>5, <1>6

-----------------------------------------------------------------------------
(* Types. *)

Typed == /\ TypeOK /\ utt \in GoodWindow /\ wb \in GoodBuffer
         /\ phase = "listening" => wb.state # "LINEAR"

LEMMA Bounds ==
  /\ {Capacity, FrameSize, PerFrame} \subseteq Nat \ {0} /\ Windback \in Nat
  /\ {BosComfort, EosComfort, BgSniff, UtteranceTimeout, HoldOff, MaxHeard} \subseteq Nat
BY RecordingAssumption, WindbackAssumption

LEMMA SamplesInNat ==
  ASSUME NEW f \in Nat
  PROVE  SamplesIn(f) \in Nat
<1>1. f * FrameSize \in Nat
  BY Bounds
<1>2. QED
  BY <1>1, Bounds DEF SamplesIn

(* The buffer with the samples of this call. *)
LEMMA HeardFacts ==
  ASSUME Typed
  PROVE  /\ Heard = Written(wb, Run(heard * FrameSize + 1, FrameSize))
         /\ Heard \in GoodBuffer /\ Heard.state = wb.state
         /\ wb.state = "OFF" => Heard = wb
         /\ heard \in Nat /\ heard * FrameSize \in Nat
         /\ (heard + 1) * FrameSize = heard * FrameSize + FrameSize
<1> DEFINE last == heard * FrameSize
           s == Run(last + 1, FrameSize)
<1>1. heard \in Nat
  BY Bounds DEF Typed, TypeOK
<1>2. last \in Nat /\ (heard + 1) * FrameSize = last + FrameSize
  BY <1>1, NextBuffer
<1>3. FrameSize \in Nat /\ FrameSize <= Capacity
  BY RecordingAssumption
<1> HIDE DEF last
<1>4. [i \in 1 .. FrameSize |-> last + i] = s
  BY <1>2, <1>3, SamplesAreRun
<1>5. Heard = Written(wb, s)
  BY <1>4 DEF Heard, last
<1>6. s \in Seq(Nat) /\ Len(s) = FrameSize
  <2>1. last + 1 \in Nat /\ last + 1 >= 1
    BY <1>2
  <2>2. QED
    BY <1>3, <2>1, RunIsSequence
<1> HIDE DEF s
<1>7. wb \in GoodBuffer /\ Len(s) <= Capacity
  BY <1>3, <1>6 DEF Typed
<1>8. CASE wb.state = "OFF"
  BY <1>1, <1>2, <1>5, <1>7, <1>8, WrittenOff DEF s, last
<1>9. CASE wb.state = "CIRCULAR"
  <2>1. Written(wb, s) \in GoodBuffer /\ Written(wb, s).state = "CIRCULAR"
    BY <1>6, <1>7, <1>9, WrittenCircular
  <2>2. QED
    BY <1>1, <1>2, <1>5, <1>9, <2>1 DEF s, last
<1>10. CASE wb.state = "LINEAR"
  <2>1. Written(wb, s) \in GoodBuffer /\ Written(wb, s).state = "LINEAR"
    BY <1>6, <1>7, <1>10, WrittenLinear
  <2>2. QED
    BY <1>1, <1>2, <1>5, <1>10, <2>1 DEF s, last
<1>11. QED
  BY <1>7, <1>8, <1>9, <1>10, BufferFields

LEMMA SoughtNewestFacts ==
  ASSUME NEW w \in GoodWindow, w.voicing
  PROVE  SoughtNewest(w) \in GoodWindow /\ SoughtNewest(w).active = w.active
<1> DEFINE oldest == Moved(w, w.behind)
           from == SeekFrom(w)
<1>1. oldest \in GoodWindow
  BY MovedFacts DEF GoodWindow, Window
<1>2. from \in GoodWindow
  <2>1. -Lesser(w.period, oldest.ahead) \in Int
    <3> HIDE DEF oldest
    <3>1. QED
      BY <1>1 DEF Lesser, GoodWindow, Window
  <2>2. QED
    BY <1>1, <2>1, MovedFacts DEF SeekFrom
<1> HIDE DEF from, oldest
<1>3. Greater(0, from.ahead - 1) \in 0 .. from.ahead
  BY <1>2, Counts DEF Greater
<1>4. SoughtNewest(w) \in Sought(w)
  BY <1>3 DEF SoughtNewest, Sought, from
<1>5. QED
  BY <1>4, SoughtFacts

(* The beginning of speech in gated mode, one of three ways. *)
Unrecorded == wb.state = "OFF" /\ wb' = wb /\ rc' = "SUCCESS"

WindBack == WindBackOutcome(Heard, SamplesIn(Windback))

WoundBackLinear == /\ wb.state = "CIRCULAR" /\ WindBack.rc = "SUCCESS"
                   /\ rc' = "SUCCESS" /\ wb' = [WindBack.buffer EXCEPT !.state = "LINEAR"]

WindBackFailed == /\ wb.state = "CIRCULAR" /\ WindBack.rc # "SUCCESS"
                  /\ rc' = WindBack.rc /\ wb' = WindBack.buffer

GatedSearch == /\ frames' = utt'.ahead /\ phase' = "searching" /\ processed' = 0
               /\ onset' = IF wb'.held = <<>> THEN heard' * FrameSize + 1 ELSE wb'.held[1]

LEMMA GatedFacts ==
  ASSUME Typed, phase = "listening", NEW w \in GoodWindow, w.voicing, SpeechBeginsGated(w)
  PROVE  /\ utt' = SoughtNewest(w)
         /\ \/ Unrecorded /\ GatedSearch
            \/ WoundBackLinear /\ GatedSearch
            \/ /\ WindBackFailed /\ frames' = frames + 1
               /\ UNCHANGED <<phase, processed, onset>>
<1>1. wb.state \in {"OFF", "CIRCULAR"}
  BY BufferFields DEF Typed
<1>2. WindbackSamples(w) = SamplesIn(Windback)
  BY DEF WindbackSamples, SeekReturn
<1>3. CASE wb.state = "OFF"
  BY <1>3, Zenon DEF SpeechBeginsGated, Unrecorded, GatedSearch, BeginRecognizing
<1>4. CASE wb.state = "CIRCULAR"
  <2>1. wb.state # "OFF"
    BY <1>4
  <2>2. /\ utt' = SoughtNewest(w) /\ rc' = WindBack.rc
        /\ wb' = IF rc' = "SUCCESS" /\ wb.state = "CIRCULAR"
                 THEN [WindBack.buffer EXCEPT !.state = "LINEAR"] ELSE WindBack.buffer
        /\ IF rc' = "SUCCESS" THEN GatedSearch
           ELSE frames' = frames + 1 /\ UNCHANGED <<phase, processed, onset>>
    BY <1>2, <2>1, Zenon DEF SpeechBeginsGated, WindBack, GatedSearch, BeginRecognizing
  <2>3. CASE rc' = "SUCCESS"
    BY <1>4, <2>2, <2>3, Zenon DEF WoundBackLinear
  <2>4. CASE rc' # "SUCCESS"
    BY <1>4, <2>2, <2>4, Zenon DEF WindBackFailed
  <2>5. QED
    BY <2>3, <2>4
<1>5. QED
  BY <1>1, <1>3, <1>4

LEMMA WindBackFacts ==
  ASSUME Typed, wb.state = "CIRCULAR"
  PROVE  LET n == SamplesIn(Windback)
         IN  /\ n \in Nat
             /\ WindBack.rc \in {"SUCCESS", "INVALID_STATE", "OUT_OF_MEMORY"}
             /\ WindBack.buffer \in GoodBuffer /\ WindBack.buffer.state = "CIRCULAR"
             /\ n <= WindbackRoom /\ n <= Len(Heard.held) => WindBack.rc = "SUCCESS"
             /\ WindBack.rc = "SUCCESS" =>
                  /\ Len(WindBack.buffer.held) = n
                  /\ WindBack.buffer.readIdx = 0 /\ WindBack.buffer.overflow_count = 0
<1> DEFINE n == SamplesIn(Windback)
           b == Heard
<1>1. n \in Nat
  BY SamplesInNat, Bounds
<1>2. b \in GoodBuffer /\ b.state = "CIRCULAR"
  BY HeardFacts
<1>3. WindBack = WindBackOutcome(b, n)
  BY DEF WindBack
<1> HIDE DEF n, b
<1>4. LET o == WindBackOutcome(b, n)
      IN  /\ o.rc \in {"SUCCESS", "INVALID_STATE", "OUT_OF_MEMORY"}
          /\ o.buffer \in GoodBuffer /\ o.buffer.state = "CIRCULAR"
          /\ n <= WindbackRoom /\ n <= Len(b.held) => o.rc = "SUCCESS"
          /\ o.rc = "SUCCESS" =>
               /\ Len(o.buffer.held) = n
               /\ o.buffer.readIdx = 0 /\ o.buffer.overflow_count = 0
  BY <1>1, <1>2, OutcomeFacts
<1>5. QED
  BY <1>1, <1>3, <1>4 DEF n, b

(* The types after it. *)
LEMMA GatedTypes ==
  ASSUME Typed, phase = "listening", NEW w \in GoodWindow, w.voicing,
         SpeechBeginsGated(w), heard' = heard + 1
  PROVE  /\ utt' \in GoodWindow /\ wb' \in GoodBuffer
         /\ frames' \in Nat /\ processed' \in Nat /\ onset' \in Nat
         /\ rc' \in {"SUCCESS", "INVALID_STATE", "OUT_OF_MEMORY"}
         /\ phase' \in {"listening", "searching"}
         /\ phase' = "listening" => wb'.state # "LINEAR"
<1>1. utt' \in GoodWindow /\ utt'.ahead \in Nat
  BY GatedFacts, SoughtNewestFacts, Counts
<1>2. frames \in Nat /\ processed \in Nat /\ onset \in Nat /\ wb \in GoodBuffer
  BY DEF Typed, TypeOK
<1>3. ASSUME GatedSearch, wb' \in GoodBuffer PROVE onset' \in Nat
  <2>1. wb'.held \in Seq(Nat)
    BY <1>3, BufferFields
  <2>2. CASE wb'.held = <<>>
    <3>1. onset' = (heard + 1) * FrameSize + 1
      BY <1>3, <2>2 DEF GatedSearch
    <3>2. QED
      BY <3>1, HeardFacts, Bounds
  <2>3. CASE wb'.held # <<>>
    <3>1. onset' = wb'.held[1]
      BY <1>3, <2>3 DEF GatedSearch
    <3>2. Len(wb'.held) \in Nat /\ Len(wb'.held) # 0
      BY <2>1, <2>3, EmptySeq
    <3>3. 1 \in 1 .. Len(wb'.held)
      BY <3>2
    <3>4. QED
      BY <2>1, <3>1, <3>3, ElementOfSeq
  <2>4. QED
    BY <2>2, <2>3
<1>4. CASE Unrecorded /\ GatedSearch
  BY <1>1, <1>2, <1>3, <1>4 DEF Unrecorded, GatedSearch
<1>5. CASE WoundBackLinear /\ GatedSearch
  <2> DEFINE b == WindBack.buffer
  <2>1. b \in GoodBuffer
    BY <1>5, WindBackFacts DEF WoundBackLinear
  <2>2. wb' = [b EXCEPT !.state = "LINEAR"]
    BY <1>5 DEF WoundBackLinear
  <2> HIDE DEF b
  <2>3. wb' \in GoodBuffer
    BY <2>1, <2>2, SwitchedFacts
  <2>4. QED
    BY <1>1, <1>2, <1>3, <1>5, <2>3 DEF WoundBackLinear, GatedSearch
<1>6. CASE WindBackFailed /\ frames' = frames + 1 /\ UNCHANGED <<phase, processed, onset>>
  <2>1. /\ wb' \in GoodBuffer /\ wb'.state = "CIRCULAR"
        /\ rc' \in {"SUCCESS", "INVALID_STATE", "OUT_OF_MEMORY"}
    BY <1>6, WindBackFacts DEF WindBackFailed
  <2>2. QED
    BY <1>1, <1>2, <1>6, <2>1
<1>7. QED
  BY <1>4, <1>5, <1>6, GatedFacts

(* The trim cuts what is before the words, or counts what is missing. *)
LEMMA TrimmedFacts ==
  ASSUME NEW b \in GoodBuffer, NEW p \in Nat, NEW q \in Nat, p < q
  PROVE  LET f      == FirstFrame(<<p, q>>)
             offset == SamplesIn(f)
             size   == SamplesIn(q + EosComfort - f)
             c      == Trimmed(b, <<p, q>>)
         IN  /\ f \in Nat /\ f <= p /\ offset \in Nat /\ size \in Nat
             /\ c \in GoodBuffer /\ c.state = b.state
             /\ \/ offset + size > Len(b.held) /\ c.overflow_count # 0
                \/ /\ offset + size <= Len(b.held)
                   /\ c.held = SubSeq(b.held, offset + 1, Len(b.held))
                   /\ Len(c.held) = Len(b.held) - offset
                   /\ c.overflow_count = b.overflow_count /\ c.read_size = size
                   /\ c.readIdx = (b.readIdx + offset) % Capacity
<1> DEFINE f      == FirstFrame(<<p, q>>)
           offset == SamplesIn(f)
           size   == SamplesIn(q + EosComfort - f)
           c      == Trimmed(b, <<p, q>>)
           n      == Len(b.held)
<1>1. f \in Nat /\ f <= p
  BY Bounds DEF FirstFrame
<1>2. q + EosComfort - f \in Nat
  <2> HIDE DEF f
  <2>1. QED
    BY <1>1, Bounds
<1>3. offset \in Nat /\ size \in Nat
  <2> HIDE DEF f
  <2>1. QED
    BY <1>1, <1>2, SamplesInNat
<1>4. n \in Nat /\ b.overflow_count \in Nat
  BY BufferFields
<1> DEFINE sized == [b EXCEPT !.read_size = size]
<1>5. Trimmed(b, <<p, q>>) =
        IF offset + sized.read_size > Len(b.held)
        THEN [sized EXCEPT !.overflow_count = @ + offset + sized.read_size - Len(b.held)]
        ELSE Passed(sized, offset)
  BY DEF Trimmed
<1> HIDE DEF f, offset, size
<1>6. /\ sized \in GoodBuffer /\ sized.held = b.held /\ sized.state = b.state
      /\ sized.readIdx = b.readIdx /\ sized.overflow_count = b.overflow_count
      /\ sized.read_size = size
  BY <1>3 DEF GoodBuffer, WaveformBuffer
<1> HIDE DEF sized
<1>7. CASE offset + size > n
  <2> DEFINE v == sized.overflow_count + offset + sized.read_size - Len(b.held)
  <2>1. v \in Nat /\ v # 0
    BY <1>3, <1>4, <1>6, <1>7
  <2>2. c = [sized EXCEPT !.overflow_count = v]
    BY <1>5, <1>6, <1>7
  <2> HIDE DEF v
  <2>3. c \in GoodBuffer /\ c.state = sized.state /\ c.overflow_count = v
    <3> HIDE DEF c
    <3>1. QED
      BY <1>6, <2>1, <2>2 DEF GoodBuffer, WaveformBuffer
  <2> HIDE DEF c
  <2>4. QED
    BY <1>1, <1>3, <1>6, <1>7, <2>1, <2>3 DEF f, offset, size, c, n
<1>8. CASE offset + size <= n
  <2>1. ~(offset + size > n)
    BY <1>3, <1>4, <1>8
  <2>2. c = Passed(sized, offset)
    BY <1>5, <1>6, <2>1
  <2>3. offset <= n
    BY <1>3, <1>4, <1>8
  <2>4. offset = Lesser(offset, Len(sized.held))
    BY <1>3, <1>4, <1>6, <2>3 DEF Lesser
  <2> HIDE DEF c, n
  <2>5. /\ c \in GoodBuffer
        /\ c.held = SubSeq(sized.held, offset + 1, Len(sized.held))
        /\ Len(c.held) = Len(sized.held) - offset
        /\ c.state = sized.state
        /\ c.readIdx = (sized.readIdx + offset) % Capacity
        /\ c.overflow_count = sized.overflow_count
        /\ c.read_size = sized.read_size
    <3> DEFINE k == Lesser(offset, Len(sized.held))
    <3>1. k = offset
      BY <2>4
    <3>2. /\ c \in GoodBuffer
          /\ c.held = SubSeq(sized.held, k + 1, Len(sized.held))
          /\ Len(c.held) = Len(sized.held) - k
          /\ c.state = sized.state
          /\ c.readIdx = (sized.readIdx + k) % Capacity
          /\ c.overflow_count = sized.overflow_count
          /\ c.read_size = sized.read_size
      BY <1>3, <1>6, <2>2, PassedFacts
    <3> HIDE DEF k
    <3>3. QED
      BY <3>1, <3>2, Zenon
  <2>6. /\ c.held = SubSeq(b.held, offset + 1, Len(b.held))
        /\ Len(c.held) = Len(b.held) - offset
        /\ c.readIdx = (b.readIdx + offset) % Capacity
    BY <1>6, <2>5, Zenon
  <2>7. QED
    BY <1>1, <1>3, <1>6, <1>8, <2>5, <2>6, Zenon DEF f, offset, size, c, n
<1>9. offset + size > n \/ offset + size <= n
  BY <1>3, <1>4
<1>10. QED
  BY <1>7, <1>8, <1>9

LEMMA InitTyped == Init => Typed
<1> SUFFICES ASSUME Init PROVE Typed
  OBVIOUS
<1>1. utt \in GoodWindow
  BY ClearedFacts DEF Init
<1> DEFINE e == <<>>
<1>2. e \in Seq(Nat) /\ Len(e) = 0
  BY EmptySeq
<1>3. /\ gatedMode \in BOOLEAN /\ enabled \in BOOLEAN /\ phase = "stopped"
      /\ frames = 0 /\ processed = 0 /\ skipped = 0 /\ heard = 0
      /\ wb = [state |-> "OFF", held |-> e, readIdx |-> 0,
               overflow_count |-> 0, read_size |-> 0]
      /\ rc = "SUCCESS" /\ label = e /\ onset = 0
  BY DEF Init
<1> HIDE DEF e
<1>4. 0 \in 0 .. PerFrame - 1 /\ 0 \in 0 .. MaxHeard /\ 0 \in 0 .. Capacity - 1
  BY Bounds
<1>5. Len(e) <= Capacity
  BY <1>2, Bounds
<1>6. wb \in WaveformBuffer /\ wb.held = e
  BY <1>2, <1>3, <1>4 DEF WaveformBuffer
<1>7. wb \in GoodBuffer
  BY <1>5, <1>6 DEF GoodBuffer
<1>8. QED
  BY <1>1, <1>2, <1>3, <1>4, <1>5, <1>6, <1>7 DEF Typed, TypeOK, GoodWindow

(* Typed, spelled out for the next state. *)
LEMMA TypedParts ==
  ASSUME gatedMode' \in BOOLEAN, enabled' \in BOOLEAN,
         phase' \in {"stopped", "listening", "searching", "voicingEnded", "done"},
         utt' \in GoodWindow, frames' \in Nat, processed' \in Nat,
         skipped' \in 0 .. PerFrame - 1, heard' \in 0 .. MaxHeard,
         wb' \in GoodBuffer, rc' \in {"SUCCESS", "INVALID_STATE", "OUT_OF_MEMORY"},
         label' \in Seq(Nat), onset' \in Nat,
         phase' = "listening" => wb'.state # "LINEAR"
  PROVE  Typed'
BY DEF Typed, TypeOK, GoodWindow, GoodBuffer

LEMMA PushTypes ==
  ASSUME Typed, Push
  PROVE  /\ heard' \in 0 .. MaxHeard /\ heard' = heard + 1
         /\ skipped' \in 0 .. PerFrame - 1
<1>1. heard \in 0 .. MaxHeard /\ skipped \in 0 .. PerFrame - 1
  BY DEF Typed, TypeOK
<1>2. heard' = heard + 1 /\ heard < MaxHeard /\ skipped' = (skipped + 1) % PerFrame
  BY DEF Push
<1>3. skipped + 1 \in Nat /\ PerFrame \in Nat \ {0}
  BY <1>1, Bounds
<1>4. \A x \in Nat : x % PerFrame \in 0 .. PerFrame - 1
  BY Bounds
<1>5. QED
  BY <1>1, <1>2, <1>3, <1>4, Bounds

LEMMA StepTyped == Typed /\ [Next]_vars => Typed'
<1> SUFFICES ASSUME Typed, [Next]_vars PROVE Typed'
  OBVIOUS
<1>1. /\ gatedMode \in BOOLEAN /\ enabled \in BOOLEAN
      /\ phase \in {"stopped", "listening", "searching", "voicingEnded", "done"}
      /\ utt \in GoodWindow /\ frames \in Nat /\ processed \in Nat
      /\ skipped \in 0 .. PerFrame - 1 /\ heard \in 0 .. MaxHeard
      /\ wb \in GoodBuffer /\ rc \in {"SUCCESS", "INVALID_STATE", "OUT_OF_MEMORY"}
      /\ label \in Seq(Nat) /\ onset \in Nat
      /\ phase = "listening" => wb.state # "LINEAR"
  BY DEF Typed, TypeOK
<1>2. Heard \in GoodBuffer /\ Heard.state = wb.state
  BY HeardFacts
<1>3. frames + 1 \in Nat /\ processed + 1 \in Nat
  BY <1>1
<1>4. Flushed(Locked(utt)) \in GoodWindow /\ Locked(utt) \in GoodWindow
  BY <1>1, LockedFacts, FlushedFacts
<1>5. CASE Start
  <2> DEFINE s == IF enabled THEN "CIRCULAR" ELSE "OFF"
             e == <<>>
  <2>1. /\ phase' = "listening" /\ frames' = 0 /\ processed' = 0 /\ heard' = 0
        /\ skipped' \in 0 .. PerFrame - 1 /\ rc' = "SUCCESS" /\ label' = e /\ onset' = 0
        /\ utt' = Begun(utt, HoldOff) /\ wb' = [Emptied(wb) EXCEPT !.state = s]
        /\ gatedMode' = gatedMode /\ enabled' = enabled
    BY <1>5 DEF Start, session
  <2>2. s \in {"OFF", "CIRCULAR"}
    OBVIOUS
  <2>3. e \in Seq(Nat)
    BY EmptySeq
  <2>4. utt' \in GoodWindow
    BY <1>1, <2>1, Bounds, BegunFacts
  <2> HIDE DEF s, e
  <2>5. wb' \in GoodBuffer /\ wb'.state = s
    BY <1>1, <2>1, <2>2, EmptiedFacts, SwitchedFacts
  <2>6. 0 \in 0 .. MaxHeard
    BY Bounds
  <2>7. QED
    BY <1>1, <2>1, <2>2, <2>3, <2>4, <2>5, <2>6, TypedParts
<1>6. CASE Stop
  BY <1>1, <1>4, <1>6, TypedParts DEF Stop, session, progress
<1>7. CASE PushOnly
  <2>1. utt' \in GoodWindow
    BY <1>1, <1>7, PushedFacts DEF PushOnly
  <2>2. /\ phase' = phase /\ frames' = frames /\ processed' = processed
        /\ gatedMode' = gatedMode /\ enabled' = enabled
        /\ rc' = rc /\ label' = label /\ onset' = onset /\ wb' = Heard /\ Push
    BY <1>7 DEF PushOnly, session, progress
  <2>3. QED
    BY <1>1, <1>2, <2>1, <2>2, PushTypes, TypedParts
<1>8. CASE Listen
  <2>1. /\ phase = "listening" /\ Push /\ (SpeechBegins \/ NoSpeech)
        /\ gatedMode' = gatedMode /\ enabled' = enabled /\ label' = label
    BY <1>8 DEF Listen, session
  <2>2. heard' \in 0 .. MaxHeard /\ heard' = heard + 1 /\ skipped' \in 0 .. PerFrame - 1
    BY <2>1, PushTypes
  <2>3. CASE SpeechBegins
    <3>1. PICK u \in Pushed(utt) :
             /\ u.voicing
             /\ IF gatedMode THEN SpeechBeginsGated(Advanced(u))
                ELSE SpeechBeginsUngated(Advanced(u))
      BY <2>3 DEF SpeechBegins
    <3> DEFINE w == Advanced(u)
    <3>2. w \in GoodWindow /\ w.voicing
      BY <1>1, <3>1, PushedFacts, AdvancedFacts, AdvancedKeeps
    <3> HIDE DEF w
    <3>3. CASE gatedMode
      <4>1. SpeechBeginsGated(w)
        BY <3>1, <3>3 DEF w
      <4>2. /\ utt' \in GoodWindow /\ wb' \in GoodBuffer
            /\ frames' \in Nat /\ processed' \in Nat /\ onset' \in Nat
            /\ rc' \in {"SUCCESS", "INVALID_STATE", "OUT_OF_MEMORY"}
            /\ phase' \in {"listening", "searching"}
            /\ phase' = "listening" => wb'.state # "LINEAR"
        BY <2>1, <2>2, <3>2, <4>1, GatedTypes
      <4>3. QED
        BY <1>1, <2>1, <2>2, <4>2, TypedParts
    <3>4. CASE ~gatedMode
      <4>1. /\ utt' = w /\ wb' = Heard /\ frames' = 0 /\ phase' = "searching"
            /\ processed' = 0 /\ rc' = rc /\ onset' = onset
        BY <3>1, <3>4 DEF w, SpeechBeginsUngated, BeginRecognizing
      <4>2. QED
        BY <1>1, <1>2, <2>1, <2>2, <3>2, <4>1, TypedParts
    <3>5. QED
      BY <3>3, <3>4
  <2>4. CASE NoSpeech
    <3>1. PICK u \in Pushed(utt) :
             IF frames + 1 > UtteranceTimeout
             THEN utt' = Flushed(Locked(Advanced(u))) /\ phase' = "stopped"
             ELSE utt' = Advanced(u) /\ UNCHANGED phase
      BY <2>4 DEF NoSpeech
    <3>2. u \in GoodWindow
      BY <1>1, PushedFacts
    <3>3. Advanced(u) \in GoodWindow /\ Flushed(Locked(Advanced(u))) \in GoodWindow
      BY <3>2, AdvancedFacts, LockedFacts, FlushedFacts
    <3>4. utt' \in GoodWindow /\ phase' \in {"listening", "stopped"}
      BY <2>1, <3>1, <3>3
    <3>5. /\ frames' = frames + 1 /\ wb' = Heard /\ processed' = processed
          /\ rc' = rc /\ onset' = onset
      BY <2>4 DEF NoSpeech
    <3>6. QED
      BY <1>1, <1>2, <1>3, <2>1, <2>2, <3>4, <3>5, TypedParts
  <2>5. QED
    BY <2>1, <2>3, <2>4
<1>9. CASE SearchUngated
  BY <1>1, <1>9, TypedParts DEF SearchUngated, session, BeginRecognizing
<1>10. CASE Search
  <2>1. /\ phase = "searching" /\ Push /\ wb' = Heard /\ frames' = frames + 1
        /\ gatedMode' = gatedMode /\ enabled' = enabled
        /\ rc' = rc /\ label' = label /\ onset' = onset
    BY <1>10 DEF Search, session
  <2>2. PICK u \in Pushed(utt) : IF frames' < BgSniff
                                 THEN utt' = u /\ UNCHANGED <<processed, phase>>
                                 ELSE SearchFrame(u, wb')
    BY <1>10 DEF Search
  <2>3. u \in GoodWindow /\ Advanced(u) \in GoodWindow
    BY <1>1, PushedFacts, AdvancedFacts
  <2>4. utt' \in GoodWindow /\ processed' \in Nat /\ phase' \in {"searching", "voicingEnded"}
    BY <1>1, <1>3, <2>1, <2>2, <2>3 DEF SearchFrame
  <2>5. QED
    BY <1>1, <1>2, <1>3, <2>1, <2>4, PushTypes, TypedParts
<1>11. CASE SearchWaiting
  <2>1. Advanced(utt) \in GoodWindow
    BY <1>1, AdvancedFacts
  <2>2. /\ utt' = Advanced(utt) /\ processed' = processed + 1
        /\ phase' \in {"searching", "voicingEnded"}
    BY <1>11 DEF SearchWaiting, SearchFrame
  <2>3. QED
    BY <1>1, <1>3, <1>11, <2>1, <2>2, TypedParts DEF SearchWaiting, session
<1>12. CASE InputEnds
  BY <1>1, <1>12, TypedParts DEF InputEnds, session, progress
<1>13. CASE CreateResult
  <2>1. /\ phase' = "done" /\ utt' = Locked(utt) /\ frames' = frames /\ processed' = processed
        /\ gatedMode' = gatedMode /\ enabled' = enabled /\ skipped' = skipped
        /\ heard' = heard /\ rc' = rc /\ onset' = onset
    BY <1>13 DEF CreateResult, session, progress
  <2>2. CASE UNCHANGED <<wb, label>>
    BY <1>1, <1>4, <2>1, <2>2, TypedParts
  <2>3. CASE \E bos, eos \in 0 .. processed :
                /\ bos < eos
                /\ label' = <<bos, eos>>
                /\ wb' = IF wb.state = "OFF" \/ wb.held = <<>> THEN wb ELSE Trimmed(wb, label')
    <3>1. PICK bos, eos \in 0 .. processed :
                /\ bos < eos
                /\ label' = <<bos, eos>>
                /\ wb' = IF wb.state = "OFF" \/ wb.held = <<>> THEN wb ELSE Trimmed(wb, label')
      BY <2>3
    <3>2. bos \in Nat /\ eos \in Nat
      BY <1>1
    <3>3. Trimmed(wb, <<bos, eos>>) \in GoodBuffer
      BY <1>1, <3>1, <3>2, TrimmedFacts
    <3>4. wb' \in GoodBuffer
      BY <1>1, <3>1, <3>3
    <3>5. label' \in Seq(Nat)
      BY <3>1, <3>2
    <3>6. QED
      BY <1>1, <1>4, <2>1, <3>4, <3>5, TypedParts
  <2>4. QED
    BY <1>13, <2>2, <2>3 DEF CreateResult
<1>14. CASE UNCHANGED vars
  BY <1>1, <1>14, TypedParts DEF vars, session, progress
<1>15. QED
  BY <1>5, <1>6, <1>7, <1>8, <1>9, <1>10, <1>11, <1>12, <1>13, <1>14 DEF Next

(* Every record and every sequence the recording keeps has its type, and    *)
(* the ring never holds more than it has room for.                          *)
THEOREM TypeCorrect == Spec => []TypeOK
<1>1. Typed => TypeOK
  BY DEF Typed
<1>2. QED
  BY InitTyped, StepTyped, <1>1, PTL DEF Spec
-----------------------------------------------------------------------------
(* One piece. *)

Live == phase \notin {"stopped", "done"}

Whole == /\ Typed
         /\ Live => /\ Piece(wb, heard * FrameSize, onset)
                    /\ wb.state = "OFF" => wb.overflow_count = 0

LEMMA HeardPiece ==
  ASSUME Whole, Live, heard' = heard + 1, onset' = onset, wb' = Heard
  PROVE  /\ Piece(wb', heard' * FrameSize, onset')
         /\ wb'.state = "OFF" => wb'.overflow_count = 0
<1> DEFINE last == heard * FrameSize
           b == Written(wb, Run(last + 1, FrameSize))
<1>1. last \in Nat /\ heard' * FrameSize = last + FrameSize /\ Heard = b
  BY HeardFacts DEF Whole
<1>2. wb \in GoodBuffer /\ onset \in Nat /\ Piece(wb, last, onset)
  BY DEF Whole, Typed, TypeOK
<1>3. /\ wb.state = "OFF" => wb.overflow_count = 0 /\ Heard = wb
      /\ Heard.state = wb.state
  BY HeardFacts DEF Whole
<1> HIDE DEF last
<1>4. Piece(b, last + FrameSize, onset)
  BY <1>1, <1>2, WrittenKeepsPiece
<1>5. QED
  BY <1>1, <1>3, <1>4

LEMMA StartedEmpty ==
  ASSUME Typed, Start
  PROVE  /\ wb' = [Emptied(wb) EXCEPT !.state = IF enabled THEN "CIRCULAR" ELSE "OFF"]
         /\ wb'.state = IF enabled THEN "CIRCULAR" ELSE "OFF"
         /\ wb'.held \in Seq(Nat) /\ Len(wb'.held) = 0 /\ wb'.overflow_count = 0
<1> DEFINE s == IF enabled THEN "CIRCULAR" ELSE "OFF"
           e == Emptied(wb)
<1>1. /\ e \in GoodBuffer /\ e.held = <<>> /\ Len(e.held) = 0
      /\ e.overflow_count = 0
  BY EmptiedFacts DEF Typed
<1>2. s \in {"OFF", "CIRCULAR", "LINEAR"} /\ wb' = [e EXCEPT !.state = s]
  BY DEF Start
<1> HIDE DEF s, e
<1>3. wb'.held = e.held /\ wb'.state = s /\ wb'.overflow_count = e.overflow_count
  BY <1>1, <1>2, SwitchedFacts
<1>4. e.held \in Seq(Nat)
  BY <1>1, BufferFields
<1>5. QED
  BY <1>1, <1>2, <1>3, <1>4 DEF s, e

(* The wind-back in gated mode. *)
LEMMA GatedPiece ==
  ASSUME Whole, phase = "listening", NEW w \in GoodWindow, w.voicing,
         SpeechBeginsGated(w), heard' = heard + 1, Typed'
  PROVE  /\ Piece(wb', heard' * FrameSize, onset')
         /\ wb'.state = "OFF" => wb'.overflow_count = 0
<1> DEFINE last == heard' * FrameSize
           n == SamplesIn(Windback)
<1>1. last \in Nat /\ last = heard * FrameSize + FrameSize
  BY HeardFacts, Bounds DEF Whole
<1>2. Live /\ (wb.state = "OFF" => wb.overflow_count = 0) /\ Typed
  BY DEF Live, Whole
<1>3. CASE Unrecorded /\ GatedSearch
  BY <1>2, <1>3 DEF Unrecorded, Piece
<1>4. ASSUME wb.state = "CIRCULAR"
      PROVE  /\ WindBack.rc = "SUCCESS" =>
                  /\ n <= last /\ WindBack.buffer.held = Run(last - n + 1, n)
                  /\ Len(WindBack.buffer.held) = n /\ WindBack.buffer.overflow_count = 0
             /\ WindBack.rc # "SUCCESS" => CircularPiece(WindBack.buffer, last)
             /\ WindBack.buffer \in GoodBuffer /\ WindBack.buffer.state = "CIRCULAR"
             /\ n \in Nat
  <2> DEFINE b == Heard
  <2>1. b \in GoodBuffer /\ b.state = "CIRCULAR"
    BY <1>2, <1>4, HeardFacts
  <2>2. Piece(b, last, onset)
    <3>1. b = Written(wb, Run(heard * FrameSize + 1, FrameSize)) /\ heard * FrameSize \in Nat
      BY <1>2, HeardFacts
    <3>2. wb \in GoodBuffer /\ onset \in Nat /\ Piece(wb, heard * FrameSize, onset)
      BY <1>2 DEF Whole, Typed, TypeOK
    <3> HIDE DEF b, last
    <3>3. QED
      BY <1>1, <3>1, <3>2, WrittenKeepsPiece
  <2>3. n \in Nat
    BY SamplesInNat, Bounds
  <2>4. WindBack = WindBackOutcome(b, n)
    BY DEF WindBack
  <2> HIDE DEF b, n, last
  <2>5. CircularPiece(b, last)
    BY <2>1, <2>2 DEF Piece
  <2>6. /\ WindBack.rc = "SUCCESS" =>
             n <= last /\ WindBack.buffer.held = Run(last - n + 1, n)
        /\ WindBack.rc # "SUCCESS" => CircularPiece(WindBack.buffer, last)
    BY <1>1, <2>1, <2>3, <2>4, <2>5, OutcomePiece
  <2>7. /\ WindBack.buffer \in GoodBuffer /\ WindBack.buffer.state = "CIRCULAR"
        /\ WindBack.rc = "SUCCESS" =>
             Len(WindBack.buffer.held) = n /\ WindBack.buffer.overflow_count = 0
    BY <1>2, <1>4, WindBackFacts DEF n
  <2>8. QED
    BY <2>3, <2>6, <2>7
<1>5. CASE WoundBackLinear /\ GatedSearch
  <2> DEFINE b == WindBack.buffer
  <2>1. /\ n \in Nat /\ n <= last /\ b.held = Run(last - n + 1, n) /\ Len(b.held) = n
        /\ b.overflow_count = 0 /\ b \in GoodBuffer
    BY <1>4, <1>5 DEF WoundBackLinear
  <2>2. wb' = [b EXCEPT !.state = "LINEAR"]
    BY <1>5 DEF WoundBackLinear
  <2>3. onset' = IF wb'.held = <<>> THEN last + 1 ELSE wb'.held[1]
    BY <1>5 DEF GatedSearch
  <2> HIDE DEF b, n, last
  <2>4. /\ wb' \in GoodBuffer /\ wb'.held = b.held /\ wb'.state = "LINEAR"
        /\ wb'.overflow_count = 0
    BY <2>1, <2>2, SwitchedFacts
  <2> DEFINE f == last - n + 1
  <2>5. f \in Nat /\ f >= 1 /\ f + n - 1 = last
    BY <1>1, <2>1
  <2>6. onset' = f
    <3>1. wb'.held = Run(f, n)
      BY <2>1, <2>4
    <3>2. CASE n = 0
      <4>1. wb'.held = <<>>
        <5>1. wb'.held \in Seq(Nat) /\ Len(wb'.held) = 0
          BY <2>1, <2>4, <3>2, BufferFields
        <5>2. QED
          BY <5>1, EmptySeq
      <4>2. f = last + 1
        BY <1>1, <3>2
      <4>3. QED
        BY <2>3, <4>1, <4>2
    <3>3. CASE n # 0
      <4>1. wb'.held # <<>>
        BY <2>1, <2>4, <3>3, EmptySeq
      <4>2. 1 \in 1 .. n
        BY <2>1, <3>3
      <4> HIDE DEF f
      <4>3. Run(f, n)[1] = f + 1 - 1
        BY <2>1, <2>5, <4>2, RunIsSequence
      <4>4. f + 1 - 1 = f
        BY <2>5
      <4>5. QED
        BY <2>3, <3>1, <4>1, <4>3, <4>4
    <3>4. QED
      BY <3>2, <3>3
  <2>7. LinearPiece(wb', last, onset')
    <3> HIDE DEF f
    <3>1. wb'.held = Run(f, n) /\ Len(wb'.held) = n
      BY <2>1, <2>4 DEF f
    <3>2. QED
      BY <2>4, <2>5, <2>6, <3>1 DEF LinearPiece
  <2>8. QED
    BY <2>4, <2>7 DEF Piece, last
<1>6. CASE WindBackFailed /\ frames' = frames + 1 /\ UNCHANGED <<phase, processed, onset>>
  <2>1. CircularPiece(wb', last) /\ wb'.state = "CIRCULAR"
    BY <1>4, <1>6 DEF WindBackFailed
  <2>2. QED
    BY <2>1 DEF Piece
<1>7. QED
  BY <1>2, <1>3, <1>5, <1>6, GatedFacts

LEMMA StepWhole == Whole /\ [Next]_vars => Whole'
<1> SUFFICES ASSUME Whole, [Next]_vars PROVE Whole'
  OBVIOUS
<1>1. Typed /\ Typed'
  BY StepTyped DEF Whole
<1> DEFINE Kept == /\ Piece(wb', heard' * FrameSize, onset')
                   /\ wb'.state = "OFF" => wb'.overflow_count = 0
<1>2. ASSUME Live' => Kept PROVE Whole'
  BY <1>1, <1>2 DEF Whole
<1>3. ASSUME Live, heard' = heard + 1, onset' = onset, wb' = Heard PROVE Kept
  BY <1>3, HeardPiece
<1>4. ASSUME Live' => Live, heard' = heard, onset' = onset, wb' = wb PROVE Live' => Kept
  BY <1>4 DEF Whole
<1> HIDE DEF Kept
<1>5. CASE Start
  <2>1. /\ wb'.held \in Seq(Nat) /\ Len(wb'.held) = 0 /\ wb'.overflow_count = 0
        /\ wb'.state \in {"CIRCULAR", "OFF"}
    BY <1>1, <1>5, StartedEmpty
  <2>2. heard' = 0
    BY <1>5 DEF Start
  <2>3. heard' * FrameSize = 0
    BY <2>2, Bounds
  <2>4. 0 - 0 + 1 \in Nat /\ 0 - 0 + 1 >= 1 /\ 0 <= 0
    OBVIOUS
  <2>5. wb'.held = Run(0 - 0 + 1, 0)
    BY <2>1, <2>4, RunEmpty
  <2>6. CircularPiece(wb', 0)
    BY <2>1, <2>4, <2>5 DEF CircularPiece
  <2>7. QED
    BY <1>2, <2>1, <2>3, <2>6 DEF Piece, Kept
<1>6. CASE Stop
  BY <1>2, <1>6 DEF Stop, Live
<1>7. CASE PushOnly
  <2>1. Live /\ heard' = heard + 1 /\ onset' = onset /\ wb' = Heard
    BY <1>7 DEF PushOnly, Push, Live
  <2>2. QED
    BY <1>2, <1>3, <2>1
<1>8. CASE Listen
  <2>1. /\ phase = "listening" /\ Live /\ heard' = heard + 1
        /\ (SpeechBegins \/ NoSpeech)
    BY <1>8 DEF Listen, Push, Live
  <2>2. CASE NoSpeech
    <3>1. onset' = onset /\ wb' = Heard
      BY <2>2 DEF NoSpeech
    <3>2. QED
      BY <1>2, <1>3, <2>1, <3>1
  <2>3. CASE SpeechBegins
    <3>1. PICK u \in Pushed(utt) :
             /\ u.voicing
             /\ IF gatedMode THEN SpeechBeginsGated(Advanced(u))
                ELSE SpeechBeginsUngated(Advanced(u))
      BY <2>3 DEF SpeechBegins
    <3> DEFINE w == Advanced(u)
    <3>2. w \in GoodWindow /\ w.voicing
      BY <1>1, <3>1, PushedFacts, AdvancedFacts, AdvancedKeeps DEF Typed
    <3> HIDE DEF w
    <3>3. CASE gatedMode
      <4>1. SpeechBeginsGated(w)
        BY <3>1, <3>3 DEF w
      <4>2. Kept
        BY <1>1, <2>1, <3>2, <4>1, GatedPiece DEF Kept
      <4>3. QED
        BY <1>2, <4>2
    <3>4. CASE ~gatedMode
      <4>1. wb' = Heard /\ onset' = onset
        BY <3>1, <3>4 DEF SpeechBeginsUngated
      <4>2. QED
        BY <1>2, <1>3, <2>1, <4>1
    <3>5. QED
      BY <3>3, <3>4
  <2>4. QED
    BY <2>1, <2>2, <2>3
<1>9. CASE SearchUngated
  <2>1. Live /\ heard' = heard /\ onset' = onset /\ wb' = wb
    BY <1>9 DEF SearchUngated, Live
  <2>2. QED
    BY <1>2, <1>4, <2>1
<1>10. CASE Search
  <2>1. Live /\ heard' = heard + 1 /\ onset' = onset /\ wb' = Heard
    BY <1>10 DEF Search, Push, Live
  <2>2. QED
    BY <1>2, <1>3, <2>1
<1>11. CASE SearchWaiting
  <2>1. Live /\ heard' = heard /\ onset' = onset /\ wb' = wb
    BY <1>11 DEF SearchWaiting, Live
  <2>2. QED
    BY <1>2, <1>4, <2>1
<1>12. CASE InputEnds
  <2>1. Live /\ heard' = heard /\ onset' = onset /\ wb' = wb
    BY <1>12 DEF InputEnds, Live
  <2>2. QED
    BY <1>2, <1>4, <2>1
<1>13. CASE CreateResult
  BY <1>2, <1>13 DEF CreateResult, Live
<1>14. CASE UNCHANGED vars
  <2>1. (Live' => Live) /\ heard' = heard /\ onset' = onset /\ wb' = wb
    BY <1>14 DEF vars, Live
  <2>2. QED
    BY <1>2, <1>4, <2>1
<1>15. QED
  BY <1>5, <1>6, <1>7, <1>8, <1>9, <1>10, <1>11, <1>12, <1>13, <1>14 DEF Next

LEMMA InitWhole == Init => Whole
BY InitTyped DEF Init, Whole, Live

LEMMA WholeIsHeard == Whole => RecordsWhatWasHeard
<1> SUFFICES ASSUME Whole, Recorded, phase # "done"
             PROVE  LET n == Len(wb.held)
                        last == IF wb.overflow_count > 0 THEN onset + n - 1
                                ELSE heard * FrameSize
                    IN  wb.held = Run(last - n + 1, n)
  BY DEF RecordsWhatWasHeard
<1> DEFINE n == Len(wb.held)
           end == heard * FrameSize
           last == IF wb.overflow_count > 0 THEN onset + n - 1 ELSE end
<1>1. wb \in GoodBuffer /\ onset \in Nat /\ end \in Nat
  BY HeardFacts DEF Whole, Typed, TypeOK
<1>2. n \in Nat /\ wb.overflow_count \in Nat
  BY <1>1, BufferFields
<1>3. Piece(wb, end, onset) /\ wb.state # "OFF"
  BY DEF Whole, Live, Recorded
<1> HIDE DEF end
<1>4. CASE wb.state = "CIRCULAR"
  <2>1. wb.overflow_count = 0 /\ wb.held = Run(end - n + 1, n)
    BY <1>3, <1>4 DEF Piece, CircularPiece
  <2>2. last = end
    BY <2>1
  <2>3. QED
    BY <2>1, <2>2 DEF end
<1>5. CASE wb.state = "LINEAR"
  <2>1. /\ wb.held = Run(onset, n)
        /\ IF wb.overflow_count = 0 THEN onset + n - 1 = end ELSE n + FrameSize > Capacity
    BY <1>3, <1>5 DEF Piece, LinearPiece
  <2>2. last = onset + n - 1
    BY <1>2, <2>1
  <2> HIDE DEF last, n
  <2>3. last - n + 1 = onset
    BY <1>1, <1>2, <2>2
  <2>4. wb.held = Run(last - n + 1, n)
    BY <2>1, <2>3
  <2>5. QED
    BY <2>4 DEF last, n, end
<1>6. QED
  BY <1>1, <1>3, <1>4, <1>5, BufferFields

(* Whatever the sizes, what is recorded is one piece of what was heard.     *)
THEOREM OnePiece == Spec => []RecordsWhatWasHeard
BY InitWhole, StepWhole, WholeIsHeard, PTL DEF Spec
-----------------------------------------------------------------------------
(* The words are in it. *)

(* A linear buffer keeps its read pointer and what it has. *)
LEMMA HeardLinear ==
  ASSUME Typed, wb.state = "LINEAR"
  PROVE  /\ Heard.state = "LINEAR" /\ Heard.readIdx = wb.readIdx
         /\ Len(wb.held) # 0 => Len(Heard.held) # 0
         /\ Heard.overflow_count \in Nat
         /\ Heard.overflow_count = 0 \/ Heard.overflow_count <= wb.overflow_count + FrameSize
<1> DEFINE s == Run(heard * FrameSize + 1, FrameSize)
<1>1. FrameSize \in Nat /\ FrameSize <= Capacity
  BY RecordingAssumption
<1>2. s \in Seq(Nat) /\ Len(s) = FrameSize
  <2>1. heard * FrameSize + 1 \in Nat /\ heard * FrameSize + 1 >= 1
    BY HeardFacts
  <2>2. QED
    BY <1>1, <2>1, RunIsSequence
<1>3. Heard = Written(wb, s) /\ wb \in GoodBuffer
  BY HeardFacts DEF Typed
<1> HIDE DEF s
<1>4. Len(wb.held) \in Nat /\ wb.overflow_count \in Nat
  BY <1>3, BufferFields
<1>5. /\ Written(wb, s).state = "LINEAR" /\ Written(wb, s).readIdx = wb.readIdx
      /\ \/ /\ Len(Written(wb, s).held) = Len(wb.held) + Len(s)
            /\ Written(wb, s).overflow_count = wb.overflow_count
         \/ /\ Written(wb, s).held = wb.held
            /\ Written(wb, s).overflow_count = wb.overflow_count + Len(s)
  BY <1>1, <1>2, <1>3, WrittenLinear
<1>6. QED
  BY <1>1, <1>2, <1>3, <1>4, <1>5

(* Sizes in samples grow with the frames. *)
LEMMA ProductGrows ==
  ASSUME NEW a \in Nat, NEW b \in Nat, a <= b, NEW c \in Nat
  PROVE  a * c <= b * c
<1> DEFINE d == b - a
<1>1. d \in Nat /\ b = a + d
  OBVIOUS
<1>2. (a + d) * c = a * c + d * c /\ a * c \in Nat /\ d * c \in Nat
  BY <1>1
<1> HIDE DEF d
<1>3. QED
  BY <1>1, <1>2

LEMMA SamplesGrow ==
  ASSUME NEW a \in Nat, NEW b \in Nat, a <= b
  PROVE  SamplesIn(a) <= SamplesIn(b)
<1>1. a * FrameSize \in Nat /\ b * FrameSize \in Nat /\ a * FrameSize <= b * FrameSize
  BY Bounds, ProductGrows
<1>2. QED
  BY <1>1, Bounds, ProductGrows DEF SamplesIn

LEMMA SamplesAdd ==
  ASSUME NEW a \in Nat, NEW b \in Nat
  PROVE  SamplesIn(a + b) = SamplesIn(a) + SamplesIn(b)
<1> DEFINE x == a * FrameSize
           y == b * FrameSize
<1>1. x \in Nat /\ y \in Nat /\ (a + b) * FrameSize = x + y
  BY Bounds
<1>2. \A u, v \in Nat : (u + v) * PerFrame = u * PerFrame + v * PerFrame
  BY Bounds
<1> HIDE DEF x, y
<1>3. (x + y) * PerFrame = x * PerFrame + y * PerFrame
  BY <1>1, <1>2
<1>4. QED
  BY <1>1, <1>3 DEF SamplesIn, x, y

LEMMA SamplesPositive ==
  ASSUME NEW a \in Nat, a # 0
  PROVE  SamplesIn(a) >= 1
<1> DEFINE x == a * FrameSize
<1>1. \A u, v \in Nat : u >= 1 /\ v >= 1 => u * v >= 1
  OBVIOUS
<1>2. FrameSize \in Nat /\ FrameSize >= 1 /\ PerFrame \in Nat /\ PerFrame >= 1 /\ a >= 1
  BY Bounds
<1>3. x \in Nat /\ x >= 1
  BY <1>1, <1>2
<1> HIDE DEF x
<1>4. x * PerFrame >= 1
  BY <1>1, <1>2, <1>3
<1>5. QED
  BY <1>4 DEF SamplesIn, x

(* A trim that misses nothing leaves the words at the front of the buffer.  *)
LEMMA TrimmedHasTheWords ==
  ASSUME NEW b \in GoodBuffer, b.readIdx = 0, NEW o \in Nat, o >= 1,
         b.held = Run(o, Len(b.held)), NEW p \in Nat, NEW q \in Nat, p < q,
         Trimmed(b, <<p, q>>).overflow_count = 0
  PROVE  LET c == Trimmed(b, <<p, q>>)
         IN  /\ c.readIdx + c.read_size <= Capacity
             /\ c.read_size <= Len(c.held) /\ c.held # <<>>
             /\ c.held[1] <= o + SamplesIn(p)
             /\ c.held[1] + c.read_size >= o + SamplesIn(q)
<1> DEFINE f      == FirstFrame(<<p, q>>)
           offset == SamplesIn(f)
           size   == SamplesIn(q + EosComfort - f)
           c      == Trimmed(b, <<p, q>>)
           n      == Len(b.held)
<1>1. /\ f \in Nat /\ f <= p /\ offset \in Nat /\ size \in Nat
      /\ c \in GoodBuffer
      /\ \/ offset + size > n /\ c.overflow_count # 0
         \/ /\ offset + size <= n
            /\ c.held = SubSeq(b.held, offset + 1, n)
            /\ Len(c.held) = n - offset
            /\ c.read_size = size
            /\ c.readIdx = (b.readIdx + offset) % Capacity
  BY TrimmedFacts
<1>2. n \in Nat /\ n <= Capacity /\ Capacity \in Nat \ {0} /\ b.held = Run(o, n)
  BY BufferFields
<1> DEFINE g == q + EosComfort - f
<1>3. g \in Nat /\ g # 0 /\ f + g = q + EosComfort
  <2> HIDE DEF f
  <2>1. f \in Nat /\ f <= p /\ EosComfort \in Nat
    BY <1>1, Bounds
  <2>2. QED
    BY <2>1
<1>4. size >= 1
  <2> HIDE DEF g
  <2>1. SamplesIn(g) >= 1
    BY <1>3, SamplesPositive
  <2>2. QED
    BY <2>1 DEF g
<1>5. offset + size >= SamplesIn(q)
  <2> HIDE DEF f, g
  <2>1. SamplesIn(f + g) = SamplesIn(f) + SamplesIn(g)
    BY <1>1, <1>3, SamplesAdd
  <2>2. q + EosComfort \in Nat /\ q <= q + EosComfort
    BY Bounds
  <2>3. SamplesIn(q) <= SamplesIn(q + EosComfort)
    BY <2>2, SamplesGrow
  <2>4. SamplesIn(q) <= SamplesIn(f) + SamplesIn(g)
    BY <1>3, <2>1, <2>3
  <2>5. SamplesIn(q) \in Nat
    BY SamplesInNat
  <2>6. QED
    BY <1>1, <2>4, <2>5 DEF g
<1>6. offset <= SamplesIn(p) /\ SamplesIn(p) \in Nat /\ SamplesIn(q) \in Nat
  <2> HIDE DEF f
  <2>1. QED
    BY <1>1, SamplesGrow, SamplesInNat
<1> HIDE DEF f, offset, size, c, n, g
<1>7. /\ offset + size <= n
      /\ c.held = SubSeq(b.held, offset + 1, n) /\ Len(c.held) = n - offset
      /\ c.read_size = size /\ c.readIdx = (b.readIdx + offset) % Capacity
  BY <1>1 DEF c
<1>8. offset \in 0 .. n /\ n - offset \in Nat /\ n - offset >= 1 /\ offset < Capacity
  BY <1>1, <1>2, <1>4, <1>7
<1>9. c.readIdx = offset
  <2>1. b.readIdx + offset = offset
    BY <1>1
  <2>2. \A x \in 0 .. Capacity - 1 : x % Capacity = x
    BY <1>2
  <2>3. offset % Capacity = offset
    BY <1>1, <1>2, <1>8, <2>2
  <2>4. QED
    BY <1>7, <2>1, <2>3
<1>10. c.held[1] = o + offset
  <2>1. c.held = Run(o + offset, n - offset)
    BY <1>2, <1>7, <1>8, RunRest
  <2>2. o + offset \in Nat /\ o + offset >= 1 /\ 1 \in 1 .. n - offset
    BY <1>1, <1>8
  <2> DEFINE g1 == o + offset
             m1 == n - offset
  <2>3. g1 \in Nat /\ g1 >= 1 /\ m1 \in Nat /\ 1 \in 1 .. m1
    BY <1>8, <2>2
  <2>6. c.held = Run(g1, m1)
    BY <2>1
  <2> HIDE DEF g1, m1
  <2>4. Run(g1, m1)[1] = g1 + 1 - 1
    BY <2>3, RunIsSequence
  <2>5. g1 + 1 - 1 = g1
    BY <2>3
  <2>7. c.held[1] = g1
    BY <2>4, <2>5, <2>6
  <2>8. QED
    BY <2>7 DEF g1
<1>11. c.held # <<>>
  <2>1. n - offset # 0
    BY <1>2, <1>8
  <2>2. Len(c.held) # 0
    BY <1>7, <2>1, Zenon
  <2>3. QED
    BY <2>2, EmptySeq
<1>12. /\ offset + size <= Capacity /\ size <= n - offset
       /\ o + offset <= o + SamplesIn(p)
       /\ (o + offset) + size >= o + SamplesIn(q)
  BY <1>1, <1>2, <1>5, <1>6, <1>7
<1>13. QED
  BY <1>7, <1>9, <1>10, <1>11, <1>12 DEF c

Worded == /\ Whole
          /\ phase \in {"listening", "searching", "voicingEnded"} => label = <<>>
          /\ phase \in {"searching", "voicingEnded"} /\ wb.state = "LINEAR" =>
               wb.readIdx = 0 /\ Len(wb.held) # 0
          /\ WaveformHasTheWords

(* Before the result there is nothing to hand out. *)
LEMMA NotDone ==
  ASSUME Whole', phase' # "done", phase' = "stopped" \/ label' = <<>>,
         phase' \in {"searching", "voicingEnded"} /\ wb'.state = "LINEAR" =>
           wb'.readIdx = 0 /\ Len(wb'.held) # 0
  PROVE  Worded'
BY DEF Worded, WaveformHasTheWords

LEMMA StepWorded ==
  ASSUME Windback > 0, Worded, [Next]_vars
  PROVE  Worded'
<1>1. Whole /\ Whole' /\ Typed
  BY StepWhole DEF Worded, Whole
<1>2. ASSUME phase \in {"searching", "voicingEnded"}, wb.state = "LINEAR"
      PROVE  wb.readIdx = 0 /\ Len(wb.held) # 0
  BY <1>2 DEF Worded
<1>3. phase \in {"listening", "searching", "voicingEnded"} => label = <<>>
  BY DEF Worded
<1>4. CASE Start
  BY <1>1, <1>4, NotDone DEF Start
<1>5. CASE Stop
  BY <1>1, <1>5, NotDone DEF Stop
<1>6. ASSUME wb' = Heard, phase \in {"listening", "searching"}, label' = label,
             phase' \in {"stopped", "listening", "searching", "voicingEnded"}
      PROVE  Worded'
  <2>1. CASE wb.state = "LINEAR"
    <3>1. phase = "searching"
      BY <1>1, <1>6, <2>1 DEF Typed
    <3>2. wb.readIdx = 0 /\ Len(wb.held) # 0
      BY <1>2, <2>1, <3>1
    <3>3. wb'.readIdx = 0 /\ Len(wb'.held) # 0
      BY <1>1, <1>6, <2>1, <3>2, HeardLinear
    <3>4. QED
      BY <1>1, <1>3, <1>6, <3>3, NotDone
  <2>2. CASE wb.state # "LINEAR"
    <3>1. wb'.state # "LINEAR"
      BY <1>1, <1>6, <2>2, HeardFacts
    <3>2. QED
      BY <1>1, <1>3, <1>6, <3>1, NotDone
  <2>3. QED
    BY <2>1, <2>2
<1>7. CASE PushOnly
  BY <1>6, <1>7 DEF PushOnly
<1>8. CASE Listen
  <2>1. phase = "listening" /\ label' = label /\ (SpeechBegins \/ NoSpeech)
    BY <1>8 DEF Listen
  <2>2. CASE NoSpeech
    <3>1. wb' = Heard /\ phase' \in {"listening", "stopped"}
      BY <2>1, <2>2 DEF NoSpeech
    <3>2. QED
      BY <1>6, <2>1, <3>1
  <2>3. CASE SpeechBegins
    <3>1. PICK u \in Pushed(utt) :
             /\ u.voicing
             /\ IF gatedMode THEN SpeechBeginsGated(Advanced(u))
                ELSE SpeechBeginsUngated(Advanced(u))
      BY <2>3 DEF SpeechBegins
    <3> DEFINE w == Advanced(u)
    <3>2. w \in GoodWindow /\ w.voicing
      BY <1>1, <3>1, PushedFacts, AdvancedFacts, AdvancedKeeps DEF Typed
    <3> HIDE DEF w
    <3>3. CASE gatedMode
      <4>1. SpeechBeginsGated(w)
        BY <3>1, <3>3 DEF w
      <4>2. wb.state # "LINEAR"
        BY <1>1, <2>1 DEF Typed
      <4>3. CASE Unrecorded /\ GatedSearch
        <5>1. phase' = "searching" /\ wb'.state # "LINEAR"
          BY <4>2, <4>3 DEF Unrecorded, GatedSearch
        <5>2. QED
          BY <1>1, <1>3, <2>1, <5>1, NotDone
      <4>4. CASE WoundBackLinear /\ GatedSearch
        <5> DEFINE b == WindBack.buffer
                   n == SamplesIn(Windback)
        <5>1. b \in GoodBuffer /\ Len(b.held) = n /\ b.readIdx = 0
          BY <1>1, <4>4, WindBackFacts DEF WoundBackLinear
        <5>2. n >= 1
          BY Bounds, SamplesPositive
        <5>3. n # 0
          BY <5>2, Bounds, SamplesInNat
        <5>4. wb' = [b EXCEPT !.state = "LINEAR"] /\ phase' = "searching"
          BY <4>4 DEF WoundBackLinear, GatedSearch
        <5> HIDE DEF b, n
        <5>5. wb'.held = b.held /\ wb'.readIdx = b.readIdx
          BY <5>1, <5>4, SwitchedFacts
        <5>6. QED
          BY <1>1, <1>3, <2>1, <5>1, <5>3, <5>4, <5>5, NotDone
      <4>5. CASE WindBackFailed /\ frames' = frames + 1
                 /\ UNCHANGED <<phase, processed, onset>>
        BY <1>1, <1>3, <2>1, <4>5, NotDone
      <4>6. QED
        BY <1>1, <2>1, <3>2, <4>1, <4>3, <4>4, <4>5, GatedFacts
    <3>4. CASE ~gatedMode
      <4>1. wb' = Heard /\ phase' = "searching"
        BY <3>1, <3>4 DEF SpeechBeginsUngated, BeginRecognizing
      <4>2. QED
        BY <1>6, <2>1, <4>1
    <3>5. QED
      BY <3>3, <3>4
  <2>4. QED
    BY <2>1, <2>2, <2>3
<1>9. CASE SearchUngated
  <2>1. /\ wb' = wb /\ label' = label /\ phase = "listening" /\ phase' = "searching"
        /\ wb.state # "LINEAR"
    BY <1>1, <1>9 DEF SearchUngated, BeginRecognizing, Typed
  <2>2. QED
    BY <1>1, <1>3, <2>1, NotDone
<1>10. CASE Search
  <2>1. wb' = Heard /\ phase = "searching" /\ label' = label
    BY <1>10 DEF Search
  <2>2. phase' \in {"searching", "voicingEnded"}
    BY <1>10 DEF Search, SearchFrame
  <2>3. QED
    BY <1>6, <2>1, <2>2
<1>11. CASE SearchWaiting
  <2>1. /\ wb' = wb /\ phase = "searching" /\ label' = label
        /\ phase' \in {"searching", "voicingEnded"}
    BY <1>11 DEF SearchWaiting, SearchFrame
  <2>2. QED
    BY <1>1, <1>2, <1>3, <2>1, NotDone
<1>12. CASE InputEnds
  <2>1. wb' = wb /\ phase = "searching" /\ label' = label /\ phase' = "voicingEnded"
    BY <1>12 DEF InputEnds
  <2>2. QED
    BY <1>1, <1>2, <1>3, <2>1, NotDone
<1>13. CASE CreateResult
  <2>1. phase = "voicingEnded" /\ phase' = "done" /\ onset' = onset /\ label = <<>>
    BY <1>3, <1>13 DEF CreateResult
  <2>2. ASSUME WaveformHasTheWords' PROVE Worded'
    BY <1>1, <2>1, <2>2 DEF Worded
  <2>3. CASE UNCHANGED <<wb, label>>
    BY <2>1, <2>2, <2>3 DEF WaveformHasTheWords
  <2>4. CASE \E bos, eos \in 0 .. processed :
                /\ bos < eos
                /\ label' = <<bos, eos>>
                /\ wb' = IF wb.state = "OFF" \/ wb.held = <<>> THEN wb ELSE Trimmed(wb, label')
    <3>1. PICK bos, eos \in 0 .. processed :
                /\ bos < eos
                /\ label' = <<bos, eos>>
                /\ wb' = IF wb.state = "OFF" \/ wb.held = <<>> THEN wb ELSE Trimmed(wb, label')
      BY <2>4
    <3>2. bos \in Nat /\ eos \in Nat /\ bos < eos
      BY <1>1, <3>1 DEF Typed, TypeOK
    <3>3. label'[1] = bos /\ label'[2] = eos
      BY <3>1
    <3>4. CASE wb.state # "LINEAR"
      <4>1. Trimmed(wb, <<bos, eos>>).state = wb.state
        BY <1>1, <3>2, TrimmedFacts DEF Typed
      <4>2. wb'.state # "LINEAR"
        BY <3>1, <3>4, <4>1
      <4>3. QED
        BY <2>2, <4>2 DEF WaveformHasTheWords
    <3>5. CASE wb.state = "LINEAR"
      <4>1. wb.readIdx = 0 /\ Len(wb.held) # 0 /\ wb \in GoodBuffer
        BY <1>1, <1>2, <2>1, <3>5 DEF Typed
      <4>2. wb.held # <<>>
        BY <4>1, EmptySeq
      <4>3. wb' = Trimmed(wb, <<bos, eos>>)
        BY <3>1, <3>5, <4>2
      <4>4. onset \in Nat /\ onset >= 1 /\ wb.held = Run(onset, Len(wb.held))
        BY <1>1, <2>1, <3>5 DEF Whole, Live, Piece, LinearPiece, Typed, TypeOK
      <4>5. ASSUME wb'.overflow_count = 0
            PROVE  /\ wb'.readIdx + wb'.read_size <= Capacity
                   /\ wb'.read_size <= Len(wb'.held) /\ wb'.held # <<>>
                   /\ wb'.held[1] <= onset + SamplesIn(bos)
                   /\ wb'.held[1] + wb'.read_size >= onset + SamplesIn(eos)
        BY <3>2, <4>1, <4>3, <4>4, <4>5, TrimmedHasTheWords
      <4>6. WaveformHasTheWords'
        BY <2>1, <3>3, <4>5 DEF WaveformHasTheWords
      <4>7. QED
        BY <2>2, <4>6
    <3>6. QED
      BY <3>4, <3>5
  <2>5. QED
    BY <1>13, <2>3, <2>4 DEF CreateResult
<1>14. CASE UNCHANGED vars
  <2>1. wb' = wb /\ phase' = phase /\ label' = label /\ onset' = onset
    BY <1>14 DEF vars
  <2>2. QED
    BY <1>1, <2>1 DEF Worded, WaveformHasTheWords
<1>15. QED
  BY <1>4, <1>5, <1>7, <1>8, <1>9, <1>10, <1>11, <1>12, <1>13, <1>14 DEF Next

LEMMA InitWorded == Init => Worded
BY InitWhole DEF Init, Worded, WaveformHasTheWords

(* With a wind-back of any length but none, what is handed out of a         *)
(* recording that is complete has the words.                                *)
THEOREM WordsRecorded ==
  ASSUME Windback > 0
  PROVE  Spec => []WaveformHasTheWords
<1>1. Worded /\ [Next]_vars => Worded'
  BY StepWorded
<1>2. Worded => WaveformHasTheWords
  BY DEF Worded
<1>3. QED
  BY InitWorded, <1>1, <1>2, PTL DEF Spec
-----------------------------------------------------------------------------
(* Wind-backs succeed. *)

(* The buffers, the last buffer's place in its frame, and the frames a      *)
(* hold-off still lasts. *)
Elapsed(w, h, k) == (HoldOff - w.holdOff) * PerFrame <= h - k + PerFrame - 1

HoldsOff(w) == w.holdOff <= HoldOff /\ (w.voicing => w.holdOff = 0)

Timed == /\ Typed /\ rc = "SUCCESS"
         /\ phase = "listening" =>
              /\ HoldsOff(utt) /\ Elapsed(utt, heard, skipped)
              /\ wb.state # "OFF" => Len(wb.held) = Lesser(Capacity, heard * FrameSize)

LEMMA HoldKept ==
  ASSUME NEW w \in GoodWindow, NEW u \in Pushed(w), HoldsOff(w)
  PROVE  HoldsOff(u) /\ u.holdOff \in Nat
<1>1. w.holdOff \in Nat /\ u.holdOff \in Nat /\ HoldOff \in Nat
  BY PushedFacts, Bounds DEF GoodWindow, Window
<1>2. /\ u.holdOff = w.holdOff \/ (w.holdOff > 0 /\ u.holdOff = w.holdOff - 1)
      /\ u.voicing => w.voicing \/ w.holdOff = 0
  BY PushedHold
<1>3. u.holdOff <= HoldOff
  BY <1>1, <1>2 DEF HoldsOff
<1>4. u.voicing => u.holdOff = 0
  BY <1>1, <1>2 DEF HoldsOff
<1>5. QED
  BY <1>1, <1>3, <1>4 DEF HoldsOff

(* The place in the frame, counted modulo its length. *)
LEMMA NextPlace ==
  ASSUME NEW k \in 0 .. PerFrame - 1
  PROVE  (k + 1) % PerFrame = IF k = PerFrame - 1 THEN 0 ELSE k + 1
<1>1. PerFrame \in Nat \ {0}
  BY Bounds
<1>2. CASE k = PerFrame - 1
  <2>1. k + 1 = PerFrame
    BY <1>1, <1>2
  <2>2. PerFrame % PerFrame = 0
    BY <1>1
  <2>3. QED
    BY <1>2, <2>1, <2>2
<1>3. CASE k # PerFrame - 1
  <2>1. k + 1 \in 0 .. PerFrame - 1
    BY <1>1, <1>3
  <2>2. \A x \in 0 .. PerFrame - 1 : x % PerFrame = x
    BY <1>1
  <2>3. QED
    BY <1>3, <2>1, <2>2
<1>4. QED
  BY <1>2, <1>3

LEMMA ElapsedStill ==
  ASSUME NEW w, NEW h \in Nat, NEW k \in 0 .. PerFrame - 1, k # PerFrame - 1, Elapsed(w, h, k)
  PROVE  Elapsed(w, h + 1, (k + 1) % PerFrame)
<1>1. (k + 1) % PerFrame = k + 1
  BY NextPlace
<1>2. (h + 1) - (k + 1) = h - k
  BY Bounds
<1>3. QED
  BY <1>1, <1>2 DEF Elapsed

LEMMA ElapsedMore ==
  ASSUME NEW w \in GoodWindow, NEW u \in Pushed(w), HoldsOff(w),
         NEW h \in Nat, NEW k, k = PerFrame - 1, Elapsed(w, h, k)
  PROVE  Elapsed(u, h + 1, (k + 1) % PerFrame)
<1> DEFINE x == (HoldOff - w.holdOff) * PerFrame
           y == (HoldOff - u.holdOff) * PerFrame
<1>1. PerFrame \in Nat /\ PerFrame >= 1 /\ HoldOff \in Nat /\ w.holdOff \in Nat
  BY Bounds DEF GoodWindow, Window
<1>2. (k + 1) % PerFrame = 0
  <2>1. k \in 0 .. PerFrame - 1
    BY <1>1
  <2>2. QED
    BY <2>1, NextPlace
<1>3. u.holdOff = w.holdOff \/ u.holdOff = w.holdOff - 1
  BY PushedHold
<1> DEFINE a == HoldOff - w.holdOff
<1>4. a \in Int /\ (HoldOff - u.holdOff = a \/ HoldOff - u.holdOff = a + 1)
  BY <1>1, <1>3
<1>5. x = a * PerFrame /\ (y = a * PerFrame \/ y = (a + 1) * PerFrame)
  <2>1. y = a * PerFrame \/ y = (a + 1) * PerFrame
    <3> HIDE DEF a
    <3>1. QED
      BY <1>4
  <2>2. QED
    BY <2>1
<1>6. (a + 1) * PerFrame = a * PerFrame + PerFrame /\ a * PerFrame \in Int
  <2> HIDE DEF a
  <2>1. QED
    BY <1>1, <1>4
<1>7. x <= h - k + PerFrame - 1
  BY DEF Elapsed
<1> HIDE DEF x, y
<1> DEFINE z == a * PerFrame
<1>8. z \in Int /\ x = z /\ (y = z \/ y = z + PerFrame)
  BY <1>5, <1>6
<1> HIDE DEF z, a
<1>9. x <= h
  BY <1>1, <1>7, <1>8
<1>10. y <= h + PerFrame
  BY <1>1, <1>8, <1>9
<1>11. h + 1 - 0 + PerFrame - 1 = h + PerFrame
  BY <1>1
<1>12. y <= h + 1 - 0 + PerFrame - 1
  BY <1>10, <1>11
<1>13. QED
  BY <1>2, <1>12 DEF Elapsed, y

(* A circular buffer has all that was heard, or is full. *)
LEMMA HeardCircular ==
  ASSUME Typed, wb.state = "CIRCULAR", Len(wb.held) = Lesser(Capacity, heard * FrameSize)
  PROVE  Len(Heard.held) = Lesser(Capacity, (heard + 1) * FrameSize)
<1> DEFINE s == Run(heard * FrameSize + 1, FrameSize)
           last == heard * FrameSize
           n == Len(wb.held)
           k == Lacking(wb, s)
<1>1. FrameSize \in Nat /\ FrameSize <= Capacity /\ Capacity \in Nat
  BY RecordingAssumption
<1>2. s \in Seq(Nat) /\ Len(s) = FrameSize
  <2>1. heard * FrameSize + 1 \in Nat /\ heard * FrameSize + 1 >= 1
    BY HeardFacts
  <2>2. QED
    BY <1>1, <2>1, RunIsSequence
<1>3. Heard = Written(wb, s) /\ wb \in GoodBuffer
  BY HeardFacts DEF Typed
<1>4. last \in Nat /\ (heard + 1) * FrameSize = last + FrameSize
  BY HeardFacts
<1> HIDE DEF s
<1>5. n \in Nat /\ n = Lesser(Capacity, last)
  BY <1>3, BufferFields
<1>6. k = Greater(0, FrameSize - (Capacity - n))
  BY <1>2 DEF Lacking
<1>7. Len(Written(wb, s).held) = n - k + Len(s)
  BY <1>1, <1>2, <1>3, WrittenCircular
<1> HIDE DEF k, n, last
<1>8. n - k + FrameSize = Lesser(Capacity, last + FrameSize)
  BY <1>1, <1>4, <1>5, <1>6 DEF Lesser, Greater
<1>9. QED
  BY <1>2, <1>3, <1>4, <1>7, <1>8

(* When speech begins enough was recorded. *)
LEMMA EnoughRecorded ==
  ASSUME Windback <= HoldOff, SamplesIn(Windback) <= Capacity,
         Typed, wb.state = "CIRCULAR", HoldsOff(utt), utt.holdOff = 0,
         skipped = PerFrame - 1, Elapsed(utt, heard, skipped),
         Len(wb.held) = Lesser(Capacity, heard * FrameSize)
  PROVE  SamplesIn(Windback) <= Len(Heard.held)
<1> DEFINE x == Windback * PerFrame
           y == HoldOff * PerFrame
           h == heard * FrameSize
<1>1. /\ Windback \in Nat /\ HoldOff \in Nat /\ PerFrame \in Nat /\ FrameSize \in Nat
      /\ Capacity \in Nat
  BY Bounds
<1>2. heard \in Nat /\ h \in Nat /\ (heard + 1) * FrameSize = h + FrameSize
  BY HeardFacts
<1>3. x \in Nat /\ y \in Nat /\ x <= y
  BY <1>1, ProductGrows
<1>4. y <= heard
  <2>1. (HoldOff - 0) * PerFrame <= heard - (PerFrame - 1) + PerFrame - 1
    BY DEF Elapsed
  <2>2. HoldOff - 0 = HoldOff
    BY <1>1
  <2>3. y <= heard - (PerFrame - 1) + PerFrame - 1
    BY <2>1, <2>2
  <2> HIDE DEF y
  <2>4. QED
    BY <1>1, <1>2, <1>3, <2>3
<1>5. x <= heard
  <2> HIDE DEF x, y
  <2>1. QED
    BY <1>2, <1>3, <1>4
<1>6. SamplesIn(Windback) = x * FrameSize
  <2>1. \A a, b, c \in Nat : a * b * c = a * c * b
    OBVIOUS
  <2>2. Windback * FrameSize * PerFrame = Windback * PerFrame * FrameSize
    BY <1>1, <2>1
  <2>3. QED
    BY <2>2 DEF SamplesIn
<1>7. x * FrameSize <= h
  <2> HIDE DEF x
  <2>1. QED
    BY <1>1, <1>2, <1>3, <1>5, ProductGrows
<1>8. Len(Heard.held) = Lesser(Capacity, h + FrameSize)
  BY <1>2, HeardCircular
<1>9. SamplesIn(Windback) \in Nat
  BY <1>1, SamplesInNat
<1> DEFINE n == SamplesIn(Windback)
<1>10. n <= h /\ n <= Capacity /\ n \in Nat
  BY <1>6, <1>7, <1>9
<1> HIDE DEF n, h
<1>11. n <= Lesser(Capacity, h + FrameSize)
  BY <1>1, <1>2, <1>10 DEF Lesser
<1>12. QED
  BY <1>8, <1>11 DEF n

RoomToWindBack == /\ Windback <= HoldOff
                  /\ SamplesIn(Windback) <= WindbackRoom
                  /\ SamplesIn(Windback) <= Capacity

(* A buffer that does not end the listening. *)
LEMMA TimedPush ==
  ASSUME Timed, phase = "listening", Push, wb' = Heard, Typed', rc' = rc,
         \/ skipped # PerFrame - 1 /\ utt' = utt
         \/ skipped = PerFrame - 1 /\ \E u \in Pushed(utt) :
              utt'.holdOff = u.holdOff /\ utt'.voicing = u.voicing
  PROVE  Timed'
<1>1. /\ Typed /\ rc = "SUCCESS" /\ HoldsOff(utt) /\ Elapsed(utt, heard, skipped)
      /\ wb.state # "OFF" => Len(wb.held) = Lesser(Capacity, heard * FrameSize)
  BY DEF Timed
<1>2. utt \in GoodWindow /\ heard \in Nat /\ skipped \in 0 .. PerFrame - 1
  BY <1>1, HeardFacts DEF Typed, TypeOK
<1>3. heard' = heard + 1 /\ skipped' = (skipped + 1) % PerFrame
  BY DEF Push
<1>4. HoldsOff(utt') /\ Elapsed(utt', heard', skipped')
  <2>1. CASE skipped # PerFrame - 1 /\ utt' = utt
    BY <1>1, <1>2, <1>3, <2>1, ElapsedStill
  <2>2. CASE skipped = PerFrame - 1 /\ \E u \in Pushed(utt) :
               utt'.holdOff = u.holdOff /\ utt'.voicing = u.voicing
    <3>1. PICK u \in Pushed(utt) : utt'.holdOff = u.holdOff /\ utt'.voicing = u.voicing
      BY <2>2
    <3>2. HoldsOff(u)
      BY <1>1, <1>2, HoldKept
    <3>3. Elapsed(u, heard', skipped')
      BY <1>1, <1>2, <1>3, <2>2, ElapsedMore
    <3>4. QED
      BY <3>1, <3>2, <3>3 DEF HoldsOff, Elapsed
  <2>3. QED
    BY <2>1, <2>2
<1>5. wb'.state # "OFF" /\ wb.state # "LINEAR" => Len(wb'.held) = Lesser(Capacity, heard' * FrameSize)
  <2> SUFFICES ASSUME wb'.state # "OFF", wb.state # "LINEAR"
               PROVE  Len(wb'.held) = Lesser(Capacity, heard' * FrameSize)
    OBVIOUS
  <2>1. wb.state = "CIRCULAR"
    BY <1>1, HeardFacts, BufferFields DEF Typed
  <2>2. QED
    BY <1>1, <1>3, <2>1, HeardCircular
<1>6. wb.state # "LINEAR"
  BY <1>1 DEF Typed
<1>7. rc' = "SUCCESS"
  BY <1>1
<1>8. wb'.state # "OFF" => Len(wb'.held) = Lesser(Capacity, heard' * FrameSize)
  BY <1>5, <1>6
<1>9. QED
  BY <1>4, <1>7, <1>8 DEF Timed

LEMMA StepTimed ==
  ASSUME RoomToWindBack, Timed, [Next]_vars
  PROVE  Timed'
<1>1. Typed /\ Typed' /\ rc = "SUCCESS"
  BY StepTyped DEF Timed
<1>2. ASSUME rc' = rc, phase' # "listening" PROVE Timed'
  BY <1>1, <1>2 DEF Timed
<1>3. CASE Start
  <2>1. utt \in GoodWindow
    BY <1>1 DEF Typed
  <2>2. utt' = Begun(utt, HoldOff) /\ heard' = 0 /\ rc' = "SUCCESS"
    BY <1>3 DEF Start
  <2>3. utt'.holdOff = HoldOff /\ ~utt'.voicing
    BY <2>1, <2>2, Bounds, BegunHold
  <2>4. HoldsOff(utt')
    BY <2>3, Bounds DEF HoldsOff
  <2>5. Elapsed(utt', heard', skipped')
    <3>1. skipped' \in 0 .. PerFrame - 1
      BY <1>3 DEF Start
    <3>2. HoldOff - HoldOff = 0 /\ 0 * PerFrame = 0 /\ PerFrame \in Nat
      BY Bounds
    <3>3. 0 <= 0 - skipped' + PerFrame - 1
      <4>1. ASSUME NEW k \in 0 .. PerFrame - 1 PROVE 0 <= 0 - k + PerFrame - 1
        BY Bounds
      <4>2. QED
        BY <3>1, <4>1
    <3>4. QED
      BY <2>2, <2>3, <3>2, <3>3 DEF Elapsed
  <2>6. Len(wb'.held) = Lesser(Capacity, heard' * FrameSize)
    <3>1. Len(wb'.held) = 0
      BY <1>1, <1>3, StartedEmpty
    <3>2. heard' * FrameSize = 0
      BY <2>2, Bounds
    <3>3. Lesser(Capacity, 0) = 0
      BY Bounds DEF Lesser
    <3>4. QED
      BY <3>1, <3>2, <3>3
  <2>7. QED
    BY <1>1, <2>2, <2>4, <2>5, <2>6 DEF Timed
<1>4. CASE Stop
  BY <1>2, <1>4 DEF Stop
<1>5. CASE PushOnly
  <2>1. Push /\ wb' = Heard /\ rc' = rc /\ phase' = phase
    BY <1>5 DEF PushOnly
  <2>2. utt' \in IF skipped = PerFrame - 1 THEN Pushed(utt) ELSE {utt}
    BY <1>5 DEF PushOnly
  <2>3. \/ skipped # PerFrame - 1 /\ utt' = utt
        \/ skipped = PerFrame - 1 /\ \E u \in Pushed(utt) :
             utt'.holdOff = u.holdOff /\ utt'.voicing = u.voicing
    BY <2>2
  <2>4. CASE phase = "listening"
    BY <1>1, <2>1, <2>3, <2>4, TimedPush
  <2>5. CASE phase # "listening"
    BY <1>2, <2>1, <2>5
  <2>6. QED
    BY <2>4, <2>5
<1>6. CASE Listen
  <2>1. phase = "listening" /\ Push /\ skipped = PerFrame - 1 /\ (SpeechBegins \/ NoSpeech)
    BY <1>6 DEF Listen, MakesFrame
  <2>2. CASE NoSpeech
    <3>1. wb' = Heard /\ rc' = rc
      BY <2>2 DEF NoSpeech
    <3>2. PICK u \in Pushed(utt) :
             IF frames + 1 > UtteranceTimeout
             THEN utt' = Flushed(Locked(Advanced(u))) /\ phase' = "stopped"
             ELSE utt' = Advanced(u) /\ UNCHANGED phase
      BY <2>2 DEF NoSpeech
    <3>3. CASE phase' = "stopped"
      BY <1>2, <3>1, <3>3
    <3>4. CASE phase' # "stopped"
      <4>1. u \in GoodWindow
        BY <1>1, PushedFacts DEF Typed
      <4>2. utt' = Advanced(u)
        BY <3>2, <3>4
      <4>3. utt'.holdOff = u.holdOff /\ utt'.voicing = u.voicing
        BY <4>1, <4>2, AdvancedKeeps
      <4>4. QED
        BY <1>1, <2>1, <3>1, <4>3, TimedPush
    <3>5. QED
      BY <3>3, <3>4
  <2>3. CASE SpeechBegins
    <3>1. PICK u \in Pushed(utt) :
             /\ u.voicing
             /\ IF gatedMode THEN SpeechBeginsGated(Advanced(u))
                ELSE SpeechBeginsUngated(Advanced(u))
      BY <2>3 DEF SpeechBegins
    <3> DEFINE w == Advanced(u)
    <3>2. w \in GoodWindow /\ w.voicing
      BY <1>1, <3>1, PushedFacts, AdvancedFacts, AdvancedKeeps DEF Typed
    <3> HIDE DEF w
    <3>3. CASE gatedMode
      <4>1. SpeechBeginsGated(w)
        BY <3>1, <3>3 DEF w
      <4>2. CASE Unrecorded /\ GatedSearch
        BY <1>1, <1>2, <4>2 DEF Unrecorded, GatedSearch
      <4>3. CASE WoundBackLinear /\ GatedSearch
        BY <1>1, <1>2, <4>3 DEF WoundBackLinear, GatedSearch
      <4>4. CASE WindBackFailed
        <5>1. wb.state = "CIRCULAR" /\ WindBack.rc # "SUCCESS"
          BY <4>4 DEF WindBackFailed
        <5>2. utt.holdOff = 0
          BY <1>1, <2>1, <3>1, PushedHold DEF Timed, HoldsOff, Typed
        <5>3. SamplesIn(Windback) <= Len(Heard.held)
          BY <1>1, <2>1, <5>1, <5>2, EnoughRecorded DEF Timed, RoomToWindBack
        <5>4. WindBack.rc = "SUCCESS"
          BY <1>1, <5>1, <5>3, WindBackFacts DEF RoomToWindBack
        <5>5. QED
          BY <5>1, <5>4
      <4>5. QED
        BY <1>1, <2>1, <3>2, <4>1, <4>2, <4>3, <4>4, GatedFacts
    <3>4. CASE ~gatedMode
      <4>1. rc' = rc /\ phase' = "searching"
        BY <3>1, <3>4 DEF SpeechBeginsUngated, BeginRecognizing
      <4>2. QED
        BY <1>2, <4>1
    <3>5. QED
      BY <3>3, <3>4
  <2>4. QED
    BY <2>1, <2>2, <2>3
<1>7. CASE SearchUngated
  BY <1>2, <1>7 DEF SearchUngated, BeginRecognizing
<1>8. CASE Search
  <2>1. rc' = rc /\ phase' \in {"searching", "voicingEnded"}
    BY <1>8 DEF Search, SearchFrame
  <2>2. QED
    BY <1>2, <2>1
<1>9. CASE SearchWaiting
  <2>1. rc' = rc /\ phase' \in {"searching", "voicingEnded"}
    BY <1>9 DEF SearchWaiting, SearchFrame
  <2>2. QED
    BY <1>2, <2>1
<1>10. CASE InputEnds
  BY <1>2, <1>10 DEF InputEnds
<1>11. CASE CreateResult
  BY <1>2, <1>11 DEF CreateResult
<1>12. CASE UNCHANGED vars
  <2>1. /\ rc' = rc /\ phase' = phase /\ utt' = utt /\ heard' = heard
        /\ skipped' = skipped /\ wb' = wb
    BY <1>12 DEF vars
  <2>2. QED
    BY <1>1, <2>1 DEF Timed
<1>13. QED
  BY <1>3, <1>4, <1>5, <1>6, <1>7, <1>8, <1>9, <1>10, <1>11, <1>12 DEF Next

LEMMA InitTimed == Init => Timed
BY InitTyped DEF Init, Timed

(* Where the hold-off is as long as the wind-back, and the ring and the     *)
(* wind-back buffer have room for it, no wind-back fails.                   *)
THEOREM NoWindBackFails ==
  ASSUME RoomToWindBack
  PROVE  Spec => []WindBackSucceeds
<1>1. Timed /\ [Next]_vars => Timed'
  BY StepTimed
<1>2. Timed => WindBackSucceeds
  BY DEF Timed, WindBackSucceeds
<1>3. QED
  BY InitTimed, <1>1, <1>2, PTL DEF Spec
-----------------------------------------------------------------------------
(* Wound back together. *)

WindowToWindBack == Windback < BlockLen /\ BlockLen < StackSize

(* While nothing was found the reader is at the newest frame, and the       *)
(* frames kept behind it grow as the hold-off runs out.                     *)
Near(w) == /\ w.active /\ w.ahead = 0 /\ w.behind <= BlockLen - 1
Behind(w) == w.period = HoldOff /\ w.behind >= Lesser(HoldOff - w.holdOff, BlockLen - 1)

LEMMA Blocks ==
  ASSUME WindowToWindBack
  PROVE  /\ BlockLen \in Nat /\ StackSize \in Nat /\ Windback \in Nat /\ HoldOff \in Nat
         /\ BlockLen >= 1 /\ StackSize >= BlockLen + 1
BY Bounds, BlockAssumption, StackAssumption DEF WindowToWindBack

(* A frame pushed while the reader is at the newest one, and then read. *)
LEMMA FrameRead ==
  ASSUME WindowToWindBack, NEW w \in GoodWindow, Near(w), NEW u \in Pushed(w)
  PROVE  /\ ~Blocked(w) /\ u.active /\ u.ahead = 1 /\ u.behind = w.behind
         /\ Advanced(u).active /\ Advanced(u).ahead = 0
         /\ Advanced(u).behind = IF w.behind + 1 >= BlockLen THEN w.behind ELSE w.behind + 1
         /\ Near(Advanced(u))
<1>1. /\ w.behind \in Nat /\ w.ahead = 0 /\ w.active /\ w.behind <= BlockLen - 1
      /\ w.ahead + w.behind <= StackSize - 1
  BY Counts DEF Near
<1>2. BlockLen \in Nat /\ StackSize \in Nat /\ BlockLen >= 1 /\ StackSize >= BlockLen + 1
  BY Blocks
<1>3. ~Full(w) /\ ~Blocked(w)
  BY <1>1, <1>2 DEF Full, Blocked
<1> DEFINE s == Stored(w)
<1>4. s.behind = w.behind
  <2>1. Stored(w) = Sized(w, w.ahead + 1, w.behind)
    BY <1>3 DEF Stored
  <2>2. w.ahead + 1 \in Nat /\ w.ahead + 1 + w.behind <= StackSize - 1
    BY <1>1, <1>2
  <2>3. QED
    BY <1>1, <2>1, <2>2, SizedFacts
<1>5. s \in GoodWindow /\ u \in Endpointed(s)
  BY <1>1, StoredFacts DEF Pushed
<1>6. u.behind = s.behind
  <2> HIDE DEF s
  <2>1. s \in Window
    BY <1>5 DEF GoodWindow
  <2>2. \/ u = [s EXCEPT !.holdOff = s.holdOff - 1] \/ u = s
        \/ u = [s EXCEPT !.voicing = TRUE] \/ u = [s EXCEPT !.ended = s.voicing]
    BY <1>5 DEF Endpointed
  <2>3. QED
    BY <2>1, <2>2 DEF Window
<1>7. u \in GoodWindow /\ u.active /\ u.ahead = 1
  BY <1>1, <1>3, PushedFacts
<1>8. u.behind = w.behind
  BY <1>4, <1>6
<1>9. /\ Advanced(u).active /\ Advanced(u).ahead = 0
      /\ Advanced(u) = Sized(u, 0, IF Drags(u) THEN u.behind ELSE u.behind + 1)
  BY <1>7, AdvancedFacts DEF Advanced
<1>10. Drags(u) <=> w.behind + 1 >= BlockLen
  BY <1>2, <1>7, <1>8 DEF Drags
<1> DEFINE b == IF w.behind + 1 >= BlockLen THEN w.behind ELSE w.behind + 1
<1>11. b \in Nat /\ 0 + b <= StackSize - 1 /\ b <= BlockLen - 1
  BY <1>1, <1>2
<1>12. Advanced(u) = Sized(u, 0, b)
  BY <1>8, <1>9, <1>10
<1> HIDE DEF b
<1>13. Advanced(u).behind = b
  BY <1>7, <1>11, <1>12, SizedFacts
<1>14. Near(Advanced(u))
  BY <1>9, <1>11, <1>13 DEF Near
<1>15. QED
  BY <1>3, <1>7, <1>8, <1>9, <1>13, <1>14 DEF b

LEMMA FrameKept ==
  ASSUME WindowToWindBack, NEW w \in GoodWindow, Near(w), Behind(w), HoldsOff(w),
         NEW u \in Pushed(w)
  PROVE  Near(Advanced(u)) /\ Behind(Advanced(u))
<1> DEFINE v == Advanced(u)
<1>1. u \in GoodWindow /\ v.holdOff = u.holdOff /\ v.period = u.period
  BY PushedFacts, AdvancedKeeps
<1>2. v.behind = IF w.behind + 1 >= BlockLen THEN w.behind ELSE w.behind + 1
  BY FrameRead
<1>3. u.period = w.period /\ (u.holdOff = w.holdOff \/ u.holdOff = w.holdOff - 1)
  BY PushedHold
<1> HIDE DEF v
<1>4. w.holdOff \in Nat /\ w.behind \in Nat
  BY Counts DEF GoodWindow, Window
<1>5. /\ w.period = HoldOff /\ w.behind >= Lesser(HoldOff - w.holdOff, BlockLen - 1)
      /\ w.behind <= BlockLen - 1
  BY DEF Near, Behind
<1>6. BlockLen \in Nat /\ HoldOff \in Nat
  BY Blocks
<1>7. HoldOff - v.holdOff = HoldOff - w.holdOff \/ HoldOff - v.holdOff = HoldOff - w.holdOff + 1
  BY <1>1, <1>3, <1>4, <1>6
<1>8. v.behind >= Lesser(HoldOff - v.holdOff, BlockLen - 1)
  <2>1. HoldOff - w.holdOff \in Int
    BY <1>4, <1>6
  <2> DEFINE x == HoldOff - w.holdOff
             y == HoldOff - v.holdOff
  <2>2. x \in Int /\ (y = x \/ y = x + 1) /\ w.behind >= Lesser(x, BlockLen - 1)
    BY <1>5, <1>7, <2>1
  <2> HIDE DEF x, y
  <2>3. v.behind >= Lesser(y, BlockLen - 1)
    BY <1>2, <1>4, <1>5, <1>6, <2>2 DEF Lesser
  <2>4. QED
    BY <2>3 DEF y
<1>9. QED
  BY <1>1, <1>3, <1>5, <1>8, FrameRead DEF Behind, v

(* A seek to the newest frame leaves the wind-back before the reader, or    *)
(* one frame more.                                                          *)
LEMMA SoughtNear ==
  ASSUME WindowToWindBack, Windback <= HoldOff,
         NEW w \in GoodWindow, Near(w), w.period = HoldOff, w.behind >= Windback
  PROVE  /\ SoughtNewest(w).active
         /\ SoughtNewest(w).ahead \in {Windback, Windback + 1}
         /\ SoughtNewest(w).behind <= BlockLen - 1
<1> DEFINE m     == Lesser(w.period, w.behind)
           from  == SeekFrom(w)
           found == Greater(0, from.ahead - 1)
           b     == BehindAfter(from, found)
           p     == AdvancedBy(from, found)
           a     == from.ahead - found
<1>1. /\ BlockLen \in Nat /\ StackSize \in Nat /\ Windback \in Nat /\ HoldOff \in Nat
      /\ BlockLen >= 1
  BY Blocks
<1>2. w.behind \in Nat /\ w.behind <= BlockLen - 1 /\ w.active /\ w.ahead = 0
  BY Counts DEF Near
<1>3. m \in 0 .. w.behind /\ m >= Windback
  BY <1>1, <1>2 DEF Lesser
<1>4. /\ from \in GoodWindow /\ from.active
      /\ from.ahead = w.behind - m /\ from.behind = m
  BY <1>2, SeekFromNear
<1> HIDE DEF m, from
<1>5. found \in 0 .. from.ahead /\ a \in {0, 1}
  BY <1>2, <1>3, <1>4 DEF Greater
<1>6. b \in Nat /\ b >= m /\ b <= BlockLen - 1
  <2>1. b = Greater(m, Lesser(m + found, BlockLen - 1))
    BY <1>1, <1>4 DEF BehindAfter
  <2> HIDE DEF b, found
  <2>2. found \in Nat /\ m \in Nat /\ m <= BlockLen - 1
    BY <1>1, <1>2, <1>3, <1>4, <1>5
  <2>3. QED
    BY <1>1, <2>1, <2>2 DEF Greater, Lesser
<1>7. p \in GoodWindow /\ p.active /\ p.ahead = a /\ p = Sized(from, a, b)
  <2> HIDE DEF found
  <2>1. QED
    BY <1>4, <1>5, AdvancedByFacts DEF AdvancedBy
<1>8. p.behind = b
  <2> HIDE DEF a, b, p, found
  <2>1. from \in Window
    BY <1>4 DEF GoodWindow
  <2>2. QED
    BY <1>7, <2>1 DEF Sized, Window
<1>9. Lesser(Windback, p.behind) = Windback
  BY <1>1, <1>3, <1>6, <1>8 DEF Lesser
<1>10. SoughtNewest(w) = Moved(p, Lesser(Windback, p.behind))
  BY DEF SoughtNewest, SeekTo, from
<1>11. SoughtNewest(w) = Moved(p, Windback)
  BY <1>9, <1>10
<1> HIDE DEF a, b, p, found
<1>12. -p.ahead <= Windback /\ Windback <= p.behind /\ Windback \in Int
  BY <1>1, <1>3, <1>5, <1>6, <1>7, <1>8
<1>13. /\ Moved(p, Windback).active
       /\ Moved(p, Windback).ahead = a + Windback
       /\ Moved(p, Windback).behind = b - Windback
  BY <1>7, <1>8, <1>12, MovedSized
<1>14. a + Windback \in {Windback, Windback + 1} /\ b - Windback <= BlockLen - 1
  BY <1>1, <1>5, <1>6
<1>15. QED
  BY <1>11, <1>13, <1>14

Reached == /\ Timed
           /\ phase = "stopped" => utt.ahead = 0 /\ utt.behind = 0
           /\ phase = "listening" => Near(utt) /\ Behind(utt)

(* Where the window is when speech begins. *)
LEMMA BeginsBehind ==
  ASSUME WindowToWindBack, Windback <= HoldOff, Reached, phase = "listening",
         NEW u \in Pushed(utt), u.voicing
  PROVE  LET w == Advanced(u)
         IN  /\ w \in GoodWindow /\ w.voicing /\ Near(w)
             /\ SoughtNewest(w).active
             /\ SoughtNewest(w).ahead \in {Windback, Windback + 1}
             /\ SoughtNewest(w).behind <= BlockLen - 1
<1> DEFINE w == Advanced(u)
<1>1. utt \in GoodWindow /\ HoldsOff(utt) /\ Near(utt) /\ Behind(utt)
  BY DEF Reached, Timed, Typed
<1>2. u \in GoodWindow /\ HoldsOff(u)
  BY <1>1, PushedFacts, HoldKept
<1>3. w \in GoodWindow /\ w.voicing /\ w.holdOff = u.holdOff
  BY <1>2, AdvancedFacts, AdvancedKeeps
<1>4. Near(w) /\ Behind(w)
  BY <1>1, FrameKept
<1>5. w.holdOff = 0
  BY <1>2, <1>3 DEF HoldsOff
<1> HIDE DEF w
<1>6. w.period = HoldOff /\ w.behind >= Windback
  <2>1. w.behind \in Nat /\ w.behind >= Lesser(HoldOff - 0, BlockLen - 1) /\ w.period = HoldOff
    BY <1>3, <1>4, <1>5, Counts DEF Behind
  <2>2. Lesser(HoldOff - 0, BlockLen - 1) \in Int /\ Lesser(HoldOff - 0, BlockLen - 1) >= Windback
    BY Blocks DEF Lesser, WindowToWindBack
  <2>3. QED
    BY <2>1, <2>2, Blocks
<1>7. QED
  BY <1>3, <1>4, <1>6, SoughtNear DEF w

LEMMA StepReached ==
  ASSUME RoomToWindBack, WindowToWindBack, Reached, [Next]_vars
  PROVE  Reached'
<1>1. Timed /\ Timed' /\ Typed /\ Typed'
  BY StepTimed DEF Reached, Timed
<1>2. utt \in GoodWindow /\ (phase = "listening" => HoldsOff(utt) /\ Near(utt) /\ Behind(utt))
  BY <1>1 DEF Reached, Timed, Typed
<1>3. ASSUME phase' \notin {"stopped", "listening"} PROVE Reached'
  BY <1>1, <1>3 DEF Reached
<1>4. ASSUME NEW w \in GoodWindow, utt' = Flushed(Locked(w)), phase' = "stopped"
      PROVE  Reached'
  <2> DEFINE l == Locked(w)
  <2>1. l \in GoodWindow
    BY LockedFacts
  <2>2. 0 + 0 <= StackSize - 1
    BY StackAssumption
  <2> HIDE DEF l
  <2>3. Flushed(l).ahead = 0 /\ Flushed(l).behind = 0
    BY <2>1, <2>2, SizedFacts DEF Flushed
  <2>4. QED
    BY <1>1, <1>4, <2>3 DEF Reached, l
<1>5. CASE Start
  <2>1. utt.ahead = 0 /\ utt.behind = 0
    BY <1>5 DEF Start, Reached
  <2>2. utt' = Begun(utt, HoldOff) /\ phase' = "listening"
    BY <1>5 DEF Start
  <2>3. /\ utt'.active /\ utt'.ahead = 0 /\ utt'.behind = 0
        /\ utt'.holdOff = HoldOff /\ utt'.period = HoldOff
    BY <1>2, <2>1, <2>2, Bounds, BegunFacts, BegunHold
  <2>4. Near(utt') /\ Behind(utt')
    <3>1. HoldOff - HoldOff = 0 /\ 0 <= BlockLen - 1 /\ Lesser(0, BlockLen - 1) = 0
      BY Blocks DEF Lesser
    <3>2. QED
      BY <2>3, <3>1 DEF Near, Behind
  <2>5. QED
    BY <1>1, <2>2, <2>4 DEF Reached
<1>6. CASE Stop
  BY <1>2, <1>4, <1>6 DEF Stop
<1>7. CASE PushOnly
  <2>1. phase' = phase /\ phase \in {"listening", "searching"} /\ ~MakesFrame
    BY <1>7 DEF PushOnly
  <2>2. CASE phase = "listening"
    <3>1. utt' = utt
      <4>1. PICK u : u \in Pushed(utt)
        BY DEF Pushed, Endpointed
      <4>2. ~Blocked(utt) /\ utt.active
        BY <1>2, <2>2, <4>1, FrameRead DEF Near
      <4>3. skipped # PerFrame - 1
        BY <2>1, <4>2 DEF MakesFrame
      <4>4. QED
        BY <1>7, <4>3 DEF PushOnly
    <3>2. QED
      BY <1>1, <1>2, <2>1, <2>2, <3>1 DEF Reached
  <2>3. CASE phase = "searching"
    BY <1>3, <2>1, <2>3
  <2>4. QED
    BY <2>1, <2>2, <2>3
<1>8. CASE Listen
  <2>1. phase = "listening" /\ (SpeechBegins \/ NoSpeech)
    BY <1>8 DEF Listen
  <2>2. CASE NoSpeech
    <3>1. PICK u \in Pushed(utt) :
             IF frames + 1 > UtteranceTimeout
             THEN utt' = Flushed(Locked(Advanced(u))) /\ phase' = "stopped"
             ELSE utt' = Advanced(u) /\ UNCHANGED phase
      BY <2>2 DEF NoSpeech
    <3>2. Advanced(u) \in GoodWindow
      BY <1>2, PushedFacts, AdvancedFacts
    <3>3. CASE phase' = "stopped"
      BY <1>4, <2>1, <3>1, <3>2, <3>3
    <3>4. CASE phase' # "stopped"
      <4>1. utt' = Advanced(u) /\ phase' = "listening"
        BY <2>1, <3>1, <3>4
      <4>2. Near(utt') /\ Behind(utt')
        BY <1>2, <2>1, <4>1, FrameKept
      <4>3. QED
        BY <1>1, <4>1, <4>2 DEF Reached
    <3>5. QED
      BY <3>3, <3>4
  <2>3. CASE SpeechBegins
    <3>1. PICK u \in Pushed(utt) :
             /\ u.voicing
             /\ IF gatedMode THEN SpeechBeginsGated(Advanced(u))
                ELSE SpeechBeginsUngated(Advanced(u))
      BY <2>3 DEF SpeechBegins
    <3> DEFINE w == Advanced(u)
    <3>2. w \in GoodWindow /\ w.voicing
      BY <1>2, <3>1, PushedFacts, AdvancedFacts, AdvancedKeeps
    <3> HIDE DEF w
    <3>3. CASE gatedMode
      <4>1. SpeechBeginsGated(w)
        BY <3>1, <3>3 DEF w
      <4>2. ~WindBackFailed
        <5>1. rc' = "SUCCESS"
          BY <1>1 DEF Timed
        <5>2. QED
          BY <5>1 DEF WindBackFailed
      <4>3. GatedSearch
        BY <1>1, <2>1, <3>2, <4>1, <4>2, GatedFacts
      <4>4. QED
        BY <1>3, <4>3 DEF GatedSearch
    <3>4. CASE ~gatedMode
      BY <1>3, <3>1, <3>4 DEF SpeechBeginsUngated, BeginRecognizing
    <3>5. QED
      BY <3>3, <3>4
  <2>4. QED
    BY <2>1, <2>2, <2>3
<1>9. CASE SearchUngated
  BY <1>3, <1>9 DEF SearchUngated, BeginRecognizing
<1>10. CASE Search
  <2>1. phase' \in {"searching", "voicingEnded"}
    BY <1>10 DEF Search, SearchFrame
  <2>2. QED
    BY <1>3, <2>1
<1>11. CASE SearchWaiting
  <2>1. phase' \in {"searching", "voicingEnded"}
    BY <1>11 DEF SearchWaiting, SearchFrame
  <2>2. QED
    BY <1>3, <2>1
<1>12. CASE InputEnds
  BY <1>3, <1>12 DEF InputEnds
<1>13. CASE CreateResult
  BY <1>3, <1>13 DEF CreateResult
<1>14. CASE UNCHANGED vars
  BY <1>1, <1>14 DEF vars, Reached
<1>15. QED
  BY <1>5, <1>6, <1>7, <1>8, <1>9, <1>10, <1>11, <1>12, <1>13, <1>14 DEF Next

Together == (phase = "listening" /\ phase' = "searching" /\ wb'.state = "LINEAR")
              => SamplesIn(utt'.ahead) - Len(wb'.held) \in 0 .. SamplesIn(1)

LEMMA InitReached == Init => Reached
BY InitTimed DEF Init, Reached, ClearedWindow

LEMMA StepTogether ==
  ASSUME RoomToWindBack, WindowToWindBack, Reached, [Next]_vars
  PROVE  Together
<1> SUFFICES ASSUME phase = "listening", phase' = "searching", wb'.state = "LINEAR"
             PROVE  SamplesIn(utt'.ahead) - Len(wb'.held) \in 0 .. SamplesIn(1)
  BY DEF Together
<1>1. Typed /\ Timed' /\ wb.state # "LINEAR"
  BY StepTimed DEF Reached, Timed, Typed
<1>2. \/ (Listen /\ SpeechBegins) \/ SearchUngated
  <2>1. ~Start /\ ~Stop /\ ~Search /\ ~SearchWaiting /\ ~InputEnds /\ ~CreateResult
    BY DEF Start, Stop, Search, SearchWaiting, InputEnds, CreateResult
  <2>2. ~PushOnly /\ ~UNCHANGED vars
    BY DEF PushOnly, vars
  <2>3. ~NoSpeech
    BY DEF NoSpeech
  <2>4. QED
    BY <2>1, <2>2, <2>3 DEF Next, Listen
<1>3. ~SearchUngated
  BY <1>1 DEF SearchUngated
<1>4. PICK u \in Pushed(utt) :
         /\ u.voicing
         /\ IF gatedMode THEN SpeechBeginsGated(Advanced(u))
            ELSE SpeechBeginsUngated(Advanced(u))
  BY <1>2, <1>3 DEF SpeechBegins
<1>5. gatedMode
  <2>1. Heard.state # "LINEAR"
    BY <1>1, HeardFacts
  <2>2. QED
    BY <1>4, <2>1 DEF SpeechBeginsUngated
<1> DEFINE w == Advanced(u)
<1>6. /\ w \in GoodWindow /\ w.voicing
      /\ SoughtNewest(w).ahead \in {Windback, Windback + 1}
  BY <1>4, BeginsBehind DEF RoomToWindBack
<1>7. SpeechBeginsGated(w)
  BY <1>4, <1>5
<1> HIDE DEF w
<1>8. utt' = SoughtNewest(w) /\ WoundBackLinear
  <2>1. ~WindBackFailed
    BY <1>1 DEF WindBackFailed, Timed
  <2>2. ~Unrecorded
    BY <1>1 DEF Unrecorded
  <2>3. QED
    BY <1>1, <1>6, <1>7, <2>1, <2>2, GatedFacts
<1>9. Len(wb'.held) = SamplesIn(Windback)
  <2> DEFINE b == WindBack.buffer
  <2>1. b \in GoodBuffer /\ Len(b.held) = SamplesIn(Windback)
    BY <1>1, <1>8, WindBackFacts DEF WoundBackLinear
  <2>2. wb' = [b EXCEPT !.state = "LINEAR"]
    BY <1>8 DEF WoundBackLinear
  <2> HIDE DEF b
  <2>3. wb'.held = b.held
    BY <2>1, <2>2, SwitchedFacts
  <2>4. QED
    BY <2>1, <2>3
<1>10. SamplesIn(Windback + 1) = SamplesIn(Windback) + SamplesIn(1)
  BY Bounds, SamplesAdd
<1>11. SamplesIn(Windback) \in Nat /\ SamplesIn(1) \in Nat
  BY Bounds, SamplesInNat
<1>12. utt'.ahead = Windback \/ utt'.ahead = Windback + 1
  BY <1>6, <1>8
<1>13. \/ SamplesIn(utt'.ahead) = SamplesIn(Windback)
       \/ SamplesIn(utt'.ahead) = SamplesIn(Windback) + SamplesIn(1)
  BY <1>10, <1>12
<1> DEFINE x == SamplesIn(Windback)
           y == SamplesIn(1)
           z == SamplesIn(utt'.ahead)
<1>14. x \in Nat /\ y \in Nat /\ (z = x \/ z = x + y) /\ Len(wb'.held) = x
  BY <1>9, <1>11, <1>13
<1> HIDE DEF x, y, z
<1>15. z - x \in 0 .. y
  BY <1>14
<1>16. QED
  BY <1>14, <1>15 DEF x, y, z

(* Where moreover the window has room for the wind-back, the recording      *)
(* begins with the first frame searched or the one after it.                *)
THEOREM BeginsTogether ==
  ASSUME RoomToWindBack, WindowToWindBack
  PROVE  Spec => WoundBackTogether
<1>1. Reached /\ [Next]_vars => Reached'
  BY StepReached
<1>2. Reached /\ [Next]_vars => [Together]_vars
  BY StepTogether
<1>3. Spec => [][Together]_vars
  BY InitReached, <1>1, <1>2, PTL DEF Spec
<1>4. QED
  BY <1>3 DEF Together, WoundBackTogether

-----------------------------------------------------------------------------
(* A full recording ends the search. *)

BackgroundFirst == BgSniff <= Windback

SearchesOn == /\ utt.active /\ utt.behind <= BlockLen - 1 /\ frames >= BgSniff
              /\ wb.overflow_count <= skipped * FrameSize

Ending == /\ Reached /\ Whole /\ OverflowEndsSearch
          /\ phase = "searching" /\ wb.state = "LINEAR" => SearchesOn

LEMMA AdvancedBehind ==
  ASSUME WindowToWindBack, NEW w \in GoodWindow, w.active, w.behind <= BlockLen - 1
  PROVE  Advanced(w).active /\ Advanced(w).behind <= BlockLen - 1
<1>1. w.ahead \in Nat /\ w.behind \in Nat /\ w.ahead + w.behind <= StackSize - 1
  BY Counts
<1>2. BlockLen \in Nat /\ StackSize \in Nat /\ BlockLen >= 1
  BY Blocks
<1>3. Advanced(w).active
  BY AdvancedFacts
<1>4. CASE w.ahead = 0
  BY <1>3, <1>4 DEF Advanced
<1>5. CASE w.ahead # 0
  <2> DEFINE b == IF Drags(w) THEN w.behind ELSE w.behind + 1
             a == w.ahead - 1
  <2>1. Drags(w) <=> w.behind + 1 >= BlockLen
    BY <1>2 DEF Drags
  <2>2. b \in Nat /\ b <= BlockLen - 1 /\ a \in Nat /\ a + b <= StackSize - 1
    BY <1>1, <1>2, <1>5, <2>1
  <2>3. Advanced(w) = Sized(w, a, b)
    BY <1>5 DEF Advanced
  <2> HIDE DEF a, b
  <2>4. QED
    BY <1>3, <2>2, <2>3, SizedFacts
<1>6. QED
  BY <1>4, <1>5

(* The refused samples of one frame at most. *)
LEMMA OneFrame ==
  ASSUME NEW k \in 0 .. PerFrame - 1
  PROVE  /\ k * FrameSize \in Nat /\ (k + 1) * FrameSize = k * FrameSize + FrameSize
         /\ (k + 1) * FrameSize <= SamplesIn(1) /\ SamplesIn(1) \in Nat
<1>1. k \in Nat /\ k + 1 \in Nat /\ k + 1 <= PerFrame /\ PerFrame \in Nat /\ FrameSize \in Nat
  BY Bounds
<1>2. (k + 1) * FrameSize <= PerFrame * FrameSize
  BY <1>1, ProductGrows
<1>3. 1 * FrameSize = FrameSize /\ FrameSize * PerFrame = PerFrame * FrameSize
  BY <1>1
<1>4. SamplesIn(1) = PerFrame * FrameSize
  BY <1>3 DEF SamplesIn
<1>5. k * FrameSize \in Nat /\ (k + 1) * FrameSize = k * FrameSize + FrameSize
  BY <1>1, NextBuffer
<1>6. SamplesIn(1) \in Nat
  BY SamplesInNat
<1>7. QED
  BY <1>2, <1>4, <1>5, <1>6

LEMMA StepEnding ==
  ASSUME RoomToWindBack, WindowToWindBack, BackgroundFirst, Ending, [Next]_vars
  PROVE  Ending'
<1>1. Reached /\ Reached' /\ Whole /\ Whole' /\ Typed /\ Typed'
  BY StepReached, StepWhole DEF Ending, Whole
<1>2. /\ wb \in GoodBuffer /\ wb' \in GoodBuffer /\ utt \in GoodWindow
      /\ skipped \in 0 .. PerFrame - 1 /\ skipped' \in 0 .. PerFrame - 1
  BY <1>1 DEF Typed, TypeOK
<1>3. ASSUME Live', wb'.state # "LINEAR" PROVE wb'.overflow_count = 0
  BY <1>1, <1>2, <1>3, BufferFields DEF Whole, Piece, CircularPiece
<1>4. ASSUME wb'.overflow_count = 0 PROVE OverflowEndsSearch'
  BY <1>4, <1>2, OneFrame DEF OverflowEndsSearch
<1>5. ASSUME phase' \notin {"searching", "voicingEnded"} PROVE Ending'
  BY <1>1, <1>5 DEF Ending, OverflowEndsSearch
<1>6. ASSUME phase' \in {"searching", "voicingEnded"}, wb'.state # "LINEAR" PROVE Ending'
  BY <1>1, <1>3, <1>4, <1>6 DEF Ending, Live
<1>7. ASSUME phase' = "voicingEnded", wb'.overflow_count <= SamplesIn(1) PROVE Ending'
  BY <1>1, <1>7 DEF Ending, OverflowEndsSearch
<1>8. ASSUME phase' = "searching", SearchesOn' PROVE Ending'
  <2> DEFINE x == skipped' * FrameSize
             y == SamplesIn(1)
             z == wb'.overflow_count
             v == (skipped' + 1) * FrameSize
  <2>1. x \in Nat /\ v = x + FrameSize /\ v <= y /\ y \in Nat
    BY <1>2, OneFrame
  <2>2. z <= x /\ z \in Nat /\ FrameSize \in Nat
    BY <1>2, <1>8, BufferFields DEF SearchesOn
  <2> HIDE DEF x, y, z, v
  <2>3. z <= y
    BY <2>1, <2>2
  <2>4. QED
    BY <1>1, <1>8, <2>3 DEF Ending, OverflowEndsSearch, y, z
(* The recording while the search goes on. *)
<1>9. ASSUME phase = "searching", wb.state = "LINEAR"
      PROVE  /\ SearchesOn /\ (utt.ahead = 0 => Near(utt)) /\ frames \in Nat
             /\ wb.overflow_count <= skipped * FrameSize
  BY <1>1, <1>9 DEF Ending, SearchesOn, Near, Typed, TypeOK
(* A buffer refused while the search goes on. *)
<1>10. ASSUME phase = "searching", wb.state = "LINEAR", wb' = Heard
       PROVE  /\ wb'.overflow_count \in Nat
              /\ wb'.overflow_count <= (skipped + 1) * FrameSize
              /\ wb'.overflow_count <= SamplesIn(1)
  <2> DEFINE x == skipped * FrameSize
             y == SamplesIn(1)
             z == wb'.overflow_count
             v == (skipped + 1) * FrameSize
             o == wb.overflow_count
  <2>1. x \in Nat /\ v = x + FrameSize /\ v <= y /\ y \in Nat
    BY <1>2, OneFrame
  <2>2. o <= x /\ o \in Nat /\ FrameSize \in Nat
    BY <1>2, <1>9, <1>10, BufferFields
  <2>3. z \in Nat /\ (z = 0 \/ z <= o + FrameSize)
    BY <1>1, <1>10, HeardLinear
  <2> HIDE DEF x, y, z, v, o
  <2>4. z <= v /\ z <= y
    BY <2>1, <2>2, <2>3
  <2>5. QED
    BY <2>3, <2>4 DEF y, z, v
<1>11. CASE Start
  BY <1>5, <1>11 DEF Start
<1>12. CASE Stop
  BY <1>5, <1>12 DEF Stop
<1>13. CASE PushOnly
  <2>1. /\ phase' = phase /\ phase \in {"listening", "searching"} /\ wb' = Heard /\ Push
        /\ frames' = frames /\ ~MakesFrame
        /\ phase = "searching" => ~(utt.ahead > 0 /\ frames >= BgSniff)
    BY <1>13 DEF PushOnly, progress
  <2>2. CASE phase = "searching" /\ wb.state = "LINEAR"
    <3>1. Near(utt)
      <4>1. utt.ahead \in Nat /\ ~(utt.ahead > 0)
        BY <1>2, <1>9, <2>1, <2>2, Counts DEF SearchesOn
      <4>2. utt.ahead = 0
        BY <4>1
      <4>3. QED
        BY <1>9, <2>2, <4>2
    <3>2. skipped # PerFrame - 1 /\ utt' = utt
      <4>1. PICK u : u \in Pushed(utt)
        BY DEF Pushed, Endpointed
      <4>2. ~Blocked(utt) /\ utt.active
        BY <1>2, <3>1, <4>1, FrameRead DEF Near
      <4>3. skipped # PerFrame - 1
        BY <2>1, <4>2 DEF MakesFrame
      <4>4. QED
        BY <1>13, <4>3 DEF PushOnly
    <3>3. skipped' = skipped + 1
      BY <1>2, <2>1, <3>2, NextPlace DEF Push
    <3>4. SearchesOn'
      BY <1>9, <1>10, <2>1, <2>2, <3>2, <3>3 DEF SearchesOn
    <3>5. QED
      BY <1>8, <2>1, <2>2, <3>4
  <2>3. CASE phase = "listening"
    BY <1>5, <2>1, <2>3
  <2>4. CASE wb.state # "LINEAR"
    <3>1. wb'.state # "LINEAR"
      BY <1>1, <2>1, <2>4, HeardFacts
    <3>2. QED
      BY <1>5, <1>6, <3>1
  <2>5. QED
    BY <2>1, <2>2, <2>3, <2>4
<1>14. CASE Listen
  <2>1. phase = "listening" /\ (SpeechBegins \/ NoSpeech)
    BY <1>14 DEF Listen
  <2>2. CASE NoSpeech
    <3>1. phase' \in {"listening", "stopped"}
      BY <2>1, <2>2 DEF NoSpeech
    <3>2. QED
      BY <1>5, <3>1
  <2>3. CASE SpeechBegins
    <3>1. PICK u \in Pushed(utt) :
             /\ u.voicing
             /\ IF gatedMode THEN SpeechBeginsGated(Advanced(u))
                ELSE SpeechBeginsUngated(Advanced(u))
      BY <2>3 DEF SpeechBegins
    <3> DEFINE w == Advanced(u)
    <3>2. /\ w \in GoodWindow /\ w.voicing
          /\ SoughtNewest(w).active
          /\ SoughtNewest(w).ahead \in {Windback, Windback + 1}
          /\ SoughtNewest(w).behind <= BlockLen - 1
      BY <1>1, <2>1, <3>1, BeginsBehind DEF RoomToWindBack
    <3> HIDE DEF w
    <3>3. CASE gatedMode
      <4>1. SpeechBeginsGated(w)
        BY <3>1, <3>3 DEF w
      <4>2. ~WindBackFailed
        <5>1. rc' = "SUCCESS"
          BY <1>1 DEF Reached, Timed
        <5>2. QED
          BY <5>1 DEF WindBackFailed
      <4>3. utt' = SoughtNewest(w)
        BY <1>1, <2>1, <3>2, <4>1, GatedFacts
      <4>4. CASE Unrecorded /\ GatedSearch
        BY <1>6, <4>4 DEF Unrecorded, GatedSearch
      <4>5. CASE WoundBackLinear /\ GatedSearch
        <5>1. phase' = "searching" /\ frames' = utt'.ahead
          BY <4>5 DEF GatedSearch
        <5>2. wb'.overflow_count = 0
          <6> DEFINE b == WindBack.buffer
          <6>1. b \in GoodBuffer /\ b.overflow_count = 0
            BY <1>1, <4>5, WindBackFacts DEF WoundBackLinear
          <6>2. wb' = [b EXCEPT !.state = "LINEAR"]
            BY <4>5 DEF WoundBackLinear
          <6> HIDE DEF b
          <6>3. QED
            BY <6>1, <6>2, SwitchedFacts
        <5>3. frames' >= BgSniff
          <6>1. frames' = Windback \/ frames' = Windback + 1
            BY <3>2, <4>3, <5>1
          <6>2. QED
            BY <6>1, Bounds DEF BackgroundFirst
        <5>4. 0 <= skipped' * FrameSize
          BY <1>2, OneFrame
        <5>5. SearchesOn'
          BY <3>2, <4>3, <5>2, <5>3, <5>4 DEF SearchesOn
        <5>6. QED
          BY <1>8, <5>1, <5>5
      <4>6. QED
        BY <1>1, <2>1, <3>2, <4>1, <4>2, <4>4, <4>5, GatedFacts
    <3>4. CASE ~gatedMode
      <4>1. wb' = Heard /\ phase' = "searching"
        BY <3>1, <3>4 DEF SpeechBeginsUngated, BeginRecognizing
      <4>2. wb'.state # "LINEAR"
        BY <1>1, <2>1, <4>1, HeardFacts DEF Typed
      <4>3. QED
        BY <1>6, <4>1, <4>2
    <3>5. QED
      BY <3>3, <3>4
  <2>4. QED
    BY <2>1, <2>2, <2>3
<1>15. CASE SearchUngated
  <2>1. wb' = wb /\ wb.state # "LINEAR" /\ phase' = "searching"
    BY <1>1, <1>15 DEF SearchUngated, BeginRecognizing, Typed
  <2>2. QED
    BY <1>6, <2>1
<1>16. CASE Search
  <2>1. /\ phase = "searching" /\ wb' = Heard /\ frames' = frames + 1
        /\ ~(utt.ahead > 0 /\ frames >= BgSniff)
    BY <1>16 DEF Search
  <2>2. PICK u \in Pushed(utt) : IF frames' < BgSniff
                                 THEN utt' = u /\ UNCHANGED <<processed, phase>>
                                 ELSE SearchFrame(u, wb')
    BY <1>16 DEF Search
  <2>3. phase' \in {"searching", "voicingEnded"}
    BY <2>1, <2>2 DEF SearchFrame
  <2>4. CASE wb.state = "LINEAR"
    <3>1. frames \in Nat /\ frames >= BgSniff /\ BgSniff \in Nat
      BY <1>9, <2>1, <2>4, Bounds DEF SearchesOn
    <3>2. ~(frames' < BgSniff) /\ frames' >= BgSniff
      BY <2>1, <3>1
    <3>3. Near(utt)
      <4>1. utt.ahead \in Nat /\ ~(utt.ahead > 0)
        BY <1>2, <2>1, <3>1, Counts
      <4>2. utt.ahead = 0
        BY <4>1
      <4>3. QED
        BY <1>9, <2>1, <2>4, <4>2
    <3>4. SearchFrame(u, wb')
      BY <2>2, <3>2
    <3>5. utt'.active /\ utt'.behind <= BlockLen - 1
      BY <1>2, <3>3, <3>4, FrameRead DEF SearchFrame, Near
    <3>6. CASE wb'.overflow_count > 0
      <4>1. phase' = "voicingEnded"
        BY <3>4, <3>6 DEF SearchFrame, EndForced
      <4>2. QED
        BY <1>7, <1>10, <2>1, <2>4, <4>1
    <3>7. CASE ~(wb'.overflow_count > 0)
      <4>1. wb'.overflow_count = 0
        BY <1>10, <2>1, <2>4, <3>7
      <4>2. 0 <= skipped' * FrameSize /\ 0 <= SamplesIn(1)
        BY <1>2, OneFrame
      <4>3. SearchesOn'
        BY <3>2, <3>5, <4>1, <4>2 DEF SearchesOn
      <4>4. QED
        BY <1>7, <1>8, <2>3, <4>1, <4>2, <4>3
    <3>8. QED
      BY <3>6, <3>7
  <2>5. CASE wb.state # "LINEAR"
    <3>1. wb'.state # "LINEAR"
      BY <1>1, <2>1, <2>5, HeardFacts
    <3>2. QED
      BY <1>6, <2>3, <3>1
  <2>6. QED
    BY <2>4, <2>5
<1>17. CASE SearchWaiting
  <2>1. /\ phase = "searching" /\ wb' = wb /\ frames' = frames
        /\ SearchFrame(utt, wb)
    BY <1>17 DEF SearchWaiting
  <2>2. phase' \in {"searching", "voicingEnded"} /\ utt' = Advanced(utt)
    BY <2>1 DEF SearchFrame
  <2>3. CASE wb.state = "LINEAR"
    <3>1. SearchesOn
      BY <1>9, <2>1, <2>3
    <3>2. utt'.active /\ utt'.behind <= BlockLen - 1
      BY <1>2, <2>2, <3>1, AdvancedBehind DEF SearchesOn
    <3>3. wb.overflow_count \in Nat /\ wb.overflow_count <= SamplesIn(1)
      BY <1>2, <2>1, BufferFields DEF Ending, OverflowEndsSearch
    <3>4. CASE wb.overflow_count > 0
      <4>1. phase' = "voicingEnded"
        BY <2>1, <3>4 DEF SearchFrame, EndForced
      <4>2. QED
        BY <1>7, <2>1, <3>3, <4>1
    <3>5. CASE ~(wb.overflow_count > 0)
      <4>1. wb'.overflow_count = 0
        BY <2>1, <3>3, <3>5
      <4>2. 0 <= skipped' * FrameSize /\ 0 <= SamplesIn(1)
        BY <1>2, OneFrame
      <4>3. SearchesOn'
        BY <2>1, <3>1, <3>2, <4>1, <4>2 DEF SearchesOn
      <4>4. QED
        BY <1>7, <1>8, <2>2, <4>1, <4>2, <4>3
    <3>6. QED
      BY <3>4, <3>5
  <2>4. CASE wb.state # "LINEAR"
    BY <1>6, <2>1, <2>2, <2>4
  <2>5. QED
    BY <2>3, <2>4
<1>18. CASE InputEnds
  <2>1. phase = "searching" /\ phase' = "voicingEnded" /\ wb' = wb
    BY <1>18 DEF InputEnds
  <2>2. wb'.overflow_count <= SamplesIn(1)
    BY <2>1 DEF Ending, OverflowEndsSearch
  <2>3. QED
    BY <1>7, <2>1, <2>2
<1>19. CASE CreateResult
  BY <1>5, <1>19 DEF CreateResult
<1>20. CASE UNCHANGED vars
  BY <1>1, <1>20 DEF vars, progress, Ending, OverflowEndsSearch, SearchesOn
<1>21. QED
  BY <1>11, <1>12, <1>13, <1>14, <1>15, <1>16, <1>17, <1>18, <1>19, <1>20 DEF Next

LEMMA InitEnding == Init => Ending
BY InitReached, InitWhole DEF Init, Ending, OverflowEndsSearch

(* Where moreover the wind-back is as long as the background, a recording   *)
(* that is full ends the search within the audio of one frame.              *)
THEOREM SearchEnds ==
  ASSUME RoomToWindBack, WindowToWindBack, BackgroundFirst
  PROVE  Spec => []OverflowEndsSearch
<1>1. Ending /\ [Next]_vars => Ending'
  BY StepEnding
<1>2. Ending => OverflowEndsSearch
  BY DEF Ending
<1>3. QED
  BY InitEnding, <1>1, <1>2, PTL DEF Spec
=============================================================================
