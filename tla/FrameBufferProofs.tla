------------------------- MODULE FrameBufferProofs -------------------------
(***************************************************************************)
(* The frame buffer for every stack size: its three pointers never cross,  *)
(* and seen as counts they move as FrameWindow says.                       *)
(***************************************************************************)
EXTENDS FrameBuffer, WellFoundedInduction, TLAPS

(* Distances around the ring of slots. *)

LEMMA GapRange ==
  ASSUME NEW p \in Slot, NEW q \in Slot
  PROVE  /\ Gap(p, q) \in 0 .. StackSize - 1
         /\ Gap(p, q) = 0 <=> p = q
BY StackAssumption DEF Gap, Slot

LEMMA GapSum ==
  ASSUME NEW p \in Slot, NEW q \in Slot, NEW r \in Slot
  PROVE  \/ Gap(p, q) + Gap(q, r) = Gap(p, r)
         \/ Gap(p, q) + Gap(q, r) = Gap(p, r) + StackSize
BY StackAssumption DEF Gap, Slot

LEMMA NextFacts ==
  ASSUME NEW p \in Slot, NEW q \in Slot
  PROVE  /\ NextFrame(p) \in Slot
         /\ NextFrame(p) = q <=> Gap(p, q) = StackSize - 1
         /\ NextFrame(p) # q => Gap(NextFrame(p), q) = Gap(p, q) + 1
         /\ p # q => Gap(q, NextFrame(p)) = Gap(q, p) - 1
         /\ PrevFrame(p) \in Slot
         /\ p # q => Gap(PrevFrame(p), q) = Gap(p, q) - 1
         /\ StackSize > 1 => Gap(p, PrevFrame(p)) = 1
BY StackAssumption DEF Gap, Slot, NextFrame, PrevFrame

(* Going back n frames, or on for a negative n. *)
LEMMA FixFacts ==
  ASSUME NEW p \in Slot, NEW q \in Slot, NEW n \in Int,
         -StackSize < n, n < StackSize
  PROVE  /\ FixFrame(p - n) \in Slot
         /\ Gap(p, q) - n \in 0 .. StackSize - 1 => Gap(FixFrame(p - n), q) = Gap(p, q) - n
         /\ Gap(q, p) + n \in 0 .. StackSize - 1 => Gap(q, FixFrame(p - n)) = Gap(q, p) + n
BY StackAssumption DEF Gap, Slot, FixFrame

LEMMA FixBack ==
  ASSUME NEW p \in Slot, NEW n \in Int, -StackSize < n, n < StackSize
  PROVE  FixFrame(FixFrame(p - n) + n) = p
BY StackAssumption DEF Slot, FixFrame

-----------------------------------------------------------------------------
(* The pointers are slots, and in order. *)
Pointers == pushp \in Slot /\ pullp \in Slot /\ pushBlkp \in Slot /\ PointersInOrder

LEMMA GapsInOrder ==
  ASSUME Pointers
  PROVE  /\ FrameGap \in Nat /\ BlockGap \in Nat /\ Gap(pushp, pushBlkp) \in Nat
         /\ FrameGap + BlockGap = Gap(pushp, pushBlkp)
         /\ FrameGap + BlockGap <= StackSize - 1
BY GapRange, StackAssumption DEF Pointers, PointersInOrder, FrameGap, BlockGap

(* No room for a frame: the reader's slot is next, or the oldest kept one. *)
NoRoom == \/ FrameGap = StackSize - 1
          \/ FrameGap + BlockGap = StackSize - 1 /\ BlockLen > 0

(* A push that has room adds one frame, giving up the oldest if it must. *)
LEMMA StoreGaps ==
  ASSUME Pointers, Store
  PROVE  /\ Pointers'
         /\ NoRoom => FrameGap' = FrameGap /\ BlockGap' = BlockGap
         /\ ~NoRoom => /\ FrameGap' = FrameGap + 1
                       /\ BlockGap' = IF FrameGap + BlockGap = StackSize - 1
                                      THEN BlockGap - 1 ELSE BlockGap
<1> DEFINE next == NextFrame(pushp)
<1>1. /\ pushp \in Slot /\ pullp \in Slot /\ pushBlkp \in Slot
      /\ FrameGap \in Nat /\ BlockGap \in Nat
      /\ Gap(pushp, pullp) = FrameGap /\ Gap(pullp, pushBlkp) = BlockGap
      /\ Gap(pushp, pushBlkp) = FrameGap + BlockGap
      /\ FrameGap + BlockGap <= StackSize - 1
  BY GapsInOrder DEF Pointers, FrameGap, BlockGap
<1>2. /\ next \in Slot
      /\ next = pullp <=> FrameGap = StackSize - 1
      /\ next = pushBlkp <=> FrameGap + BlockGap = StackSize - 1
      /\ next # pullp => Gap(next, pullp) = FrameGap + 1
      /\ next # pushBlkp => Gap(next, pushBlkp) = FrameGap + BlockGap + 1
  BY <1>1, NextFacts
<1>3. NoRoom <=> next = pullp \/ (next = pushBlkp /\ BlockLen > 0)
  BY <1>2 DEF NoRoom
<1>4. CASE NoRoom
  BY <1>3, <1>4 DEF Store, pointers, Pointers, PointersInOrder, FrameGap, BlockGap
<1>5. CASE ~NoRoom
  <2>1. pushp' = next /\ pullp' = pullp /\ next # pullp
    BY <1>3, <1>5 DEF Store
  <2>2. FrameGap' = FrameGap + 1
    BY <1>2, <2>1 DEF FrameGap
  <2>3. CASE next # pushBlkp
    <3>1. pushBlkp' = pushBlkp
      BY <1>3, <1>5, <2>3 DEF Store
    <3>2. QED
      BY <1>1, <1>2, <1>5, <2>1, <2>2, <2>3, <3>1
      DEF Pointers, PointersInOrder, FrameGap, BlockGap
  <2>4. CASE next = pushBlkp
    <3>1. pushBlkp' = NextFrame(pushBlkp)
      BY <1>3, <1>5, <2>4 DEF Store
    <3>2. pullp # pushBlkp /\ FrameGap + BlockGap = StackSize - 1
      BY <1>2, <2>1, <2>4
    <3>3. pushBlkp' \in Slot /\ Gap(pullp, pushBlkp') = BlockGap - 1
      BY <1>1, <3>1, <3>2, NextFacts
    <3>4. BlockGap' = BlockGap - 1
      BY <2>1, <3>3 DEF BlockGap
    <3>5. Gap(pushp', pushBlkp') = StackSize - 1
      <4>1. FrameGap + 1 <= StackSize - 1
        BY <1>2, <1>1, <2>1, StackAssumption
      <4>2. pushp' \in Slot /\ pullp \in Slot
        BY <1>1, <1>2, <2>1
      <4>3. Gap(pushp', pullp) = FrameGap + 1 /\ Gap(pullp, pushBlkp') = BlockGap - 1
        BY <1>2, <2>1, <3>3
      <4>4. Gap(pushp', pushBlkp') \in 0 .. StackSize - 1
        BY <3>3, <4>2, GapRange
      <4>5. \/ FrameGap + 1 + (BlockGap - 1) = Gap(pushp', pushBlkp')
            \/ FrameGap + 1 + (BlockGap - 1) = Gap(pushp', pushBlkp') + StackSize
        BY <3>3, <4>2, <4>3, GapSum
      <4>6. QED
        BY <1>1, <3>2, <4>4, <4>5, StackAssumption
    <3>6. QED
      BY <1>1, <1>2, <1>5, <2>1, <2>2, <3>2, <3>3, <3>4, <3>5
      DEF Pointers, PointersInOrder, FrameGap, BlockGap
  <2>5. QED
    BY <2>3, <2>4
<1>6. QED
  BY <1>4, <1>5

(* The blocker is dragged along when the reader would leave it too far. *)
Dragged == BlockLen > 0 /\ isCollecting /\ BlockGap + 1 >= BlockLen

LEMMA AdvanceGaps ==
  ASSUME Pointers, Advance
  PROVE  /\ Pointers'
         /\ pushp' = pushp
         /\ FrameGap = 0 => FrameGap' = 0 /\ BlockGap' = BlockGap
         /\ FrameGap # 0 => /\ FrameGap' = FrameGap - 1
                            /\ BlockGap' = IF Dragged THEN BlockGap ELSE BlockGap + 1
<1> DEFINE next == NextFrame(pullp)
<1>1. /\ pushp \in Slot /\ pullp \in Slot /\ pushBlkp \in Slot
      /\ FrameGap \in Nat /\ BlockGap \in Nat
      /\ Gap(pushp, pullp) = FrameGap /\ Gap(pullp, pushBlkp) = BlockGap
      /\ Gap(pushp, pushBlkp) = FrameGap + BlockGap
      /\ FrameGap + BlockGap <= StackSize - 1
      /\ FrameGap = 0 <=> pullp = pushp
  BY GapsInOrder, GapRange DEF Pointers, FrameGap, BlockGap
<1>2. CASE pullp = pushp
  BY <1>1, <1>2 DEF Advance, pointers, Pointers, PointersInOrder, FrameGap, BlockGap
<1>3. CASE pullp # pushp
  <2>1. pullp' = next /\ pushp' = pushp
    BY <1>3 DEF Advance
  <2>2. next \in Slot /\ Gap(pushp, next) = FrameGap - 1
    BY <1>1, <1>3, NextFacts
  <2>3. Gap(next, pushBlkp) = BlockGap + 1
    <3>1. Gap(pullp, pushBlkp) # StackSize - 1
      BY <1>1, <1>3, StackAssumption
    <3>2. QED
      BY <1>1, <3>1, NextFacts
  <2>4. CASE Dragged
    <3>1. pushBlkp' = NextFrame(pushBlkp)
      BY <1>3, <2>3, <2>4 DEF Advance, Dragged
    <3>2. next # pushBlkp /\ pushp # pushBlkp
      BY <1>1, <1>3, <2>2, <2>3, GapRange
    <3>3. /\ pushBlkp' \in Slot
          /\ Gap(next, pushBlkp') = BlockGap
          /\ Gap(pushp, pushBlkp') = FrameGap + BlockGap - 1
      BY <1>1, <2>2, <2>3, <3>1, <3>2, NextFacts
    <3>4. QED
      BY <1>1, <1>3, <2>1, <2>2, <2>4, <3>3 DEF Pointers, PointersInOrder, FrameGap, BlockGap
  <2>5. CASE ~Dragged
    <3>1. pushBlkp' = pushBlkp
      BY <1>3, <2>3, <2>5 DEF Advance, Dragged
    <3>2. QED
      BY <1>1, <1>3, <2>1, <2>2, <2>3, <2>5, <3>1
      DEF Pointers, PointersInOrder, FrameGap, BlockGap
  <2>6. QED
    BY <2>4, <2>5
<1>4. QED
  BY <1>2, <1>3
-----------------------------------------------------------------------------
(* A relative move from a slot in the window ends in the window. *)
LEMMA RelativeGaps ==
  ASSUME Pointers, NEW p \in Slot, NEW n \in Int,
         Gap(p, pushBlkp) + Gap(pushp, p) = Gap(pushp, pushBlkp),
         NEW cut, cut = RelativeCut(p, n)
  PROVE  /\ cut \in Int /\ -StackSize < cut /\ cut < StackSize
         /\ cut = Greater(Lesser(n, Gap(p, pushBlkp)), -Gap(pushp, p))
         /\ Relative(p, n) = FixFrame(p - cut)
         /\ Relative(p, n) \in Slot
         /\ Gap(Relative(p, n), pushBlkp) = Gap(p, pushBlkp) - cut
         /\ Gap(pushp, Relative(p, n)) = Gap(pushp, p) + cut
<1>1. /\ pushp \in Slot /\ pushBlkp \in Slot
      /\ Gap(p, pushBlkp) \in 0 .. StackSize - 1
      /\ Gap(pushp, p) \in 0 .. StackSize - 1
      /\ Gap(pushp, pushBlkp) \in 0 .. StackSize - 1
  BY GapRange DEF Pointers
<1>2. /\ cut \in Int /\ cut <= Gap(p, pushBlkp) /\ -Gap(pushp, p) <= cut
      /\ cut = Greater(Lesser(n, Gap(p, pushBlkp)), -Gap(pushp, p))
  BY <1>1, StackAssumption DEF RelativeCut, Greater, Lesser
<1>3. -StackSize < cut /\ cut < StackSize
  BY <1>1, <1>2, StackAssumption
<1>4. Relative(p, n) = FixFrame(p - cut)
  BY DEF Relative
<1>5. /\ Gap(p, pushBlkp) - cut \in 0 .. StackSize - 1
      /\ Gap(pushp, p) + cut \in 0 .. StackSize - 1
  BY <1>1, <1>2, StackAssumption
<1>6. QED
  BY <1>1, <1>2, <1>3, <1>4, <1>5, FixFacts

(* Measuring the background puts the reader back. *)
LEMMA StatisticsPutBack ==
  ASSUME Pointers, NEW n \in 1 .. StackSize
  PROVE  /\ BlockGap >= n => StatisticsEnd(n, 0) = pullp
         /\ StatisticsEnd(0, -n) = pullp
<1>1. /\ pullp \in Slot /\ pushp \in Slot /\ pushBlkp \in Slot /\ n \in Int
      /\ FrameGap \in Nat /\ BlockGap \in Nat
      /\ Gap(pushp, pullp) = FrameGap /\ Gap(pullp, pushBlkp) = BlockGap
      /\ FrameGap <= StackSize - 1 /\ BlockGap <= StackSize - 1
      /\ BlockGap + FrameGap = Gap(pushp, pushBlkp)
      /\ FrameGap + BlockGap <= StackSize - 1
  BY GapsInOrder, StackAssumption DEF Pointers, FrameGap, BlockGap
<1>2. ASSUME BlockGap >= n PROVE StatisticsEnd(n, 0) = pullp
  <2> DEFINE to == FixFrame(pullp - n)
  <2>1. RelativeCut(pullp, 0) = 0
    BY <1>1 DEF RelativeCut, Greater, Lesser
  <2>2. Relative(pullp, 0) = pullp
    BY <1>1, <2>1, StackAssumption DEF Relative, FixFrame, Slot
  <2>3. Lesser(n - 0, Gap(pullp, pushBlkp)) = n
    BY <1>1, <1>2 DEF Lesser
  <2>4. to \in Slot /\ Gap(to, pushBlkp) = BlockGap - n /\ Gap(pushp, to) = FrameGap + n
    <3>1. BlockGap - n \in 0 .. StackSize - 1 /\ FrameGap + n \in 0 .. StackSize - 1
          /\ -StackSize < n /\ n < StackSize
      BY <1>1, <1>2, StackAssumption
    <3>2. QED
      BY <1>1, <3>1, FixFacts
  <2>5. RelativeCut(to, -n) = -n
    <3> HIDE DEF to
    <3>1. QED
      BY <1>1, <1>2, <2>4 DEF RelativeCut, Greater, Lesser
  <2>6. Relative(to, -n) = FixFrame(to + n)
    <3>1. to - (-n) = to + n
      BY <1>1, <2>4, StackAssumption DEF Slot
    <3>2. QED
      BY <2>5, <3>1 DEF Relative
  <2>7. FixFrame(to + n) = pullp
    <3>1. -StackSize < n /\ n < StackSize
      BY <1>1, <1>2, StackAssumption
    <3>2. QED
      BY <1>1, <3>1, FixBack
  <2>8. QED
    BY <1>1, <2>1, <2>2, <2>3, <2>6, <2>7 DEF StatisticsEnd
<1>3. StatisticsEnd(0, -n) = pullp
  <2> DEFINE got  == RelativeCut(pullp, -n)
             from == Relative(pullp, -n)
  <2>1. /\ got \in Int /\ -StackSize < got /\ got < StackSize
        /\ got = Greater(Lesser(-n, BlockGap), -FrameGap)
        /\ from = FixFrame(pullp - got) /\ from \in Slot
        /\ Gap(from, pushBlkp) = BlockGap - got
        /\ Gap(pushp, from) = FrameGap + got
    <3>1. -n \in Int
      BY <1>1
    <3>2. QED
      BY <1>1, <3>1, RelativeGaps
  <2> HIDE DEF got, from
  <2>2. FixFrame(from + got) = pullp /\ got <= 0
    <3>1. got <= 0
      BY <1>1, <2>1 DEF Greater, Lesser
    <3>2. QED
      BY <1>1, <2>1, <3>1, FixBack
  <2>3. CASE got # -n
    <3>1. got = -FrameGap
      BY <1>1, <2>1, <2>3 DEF Greater, Lesser
    <3>2. RelativeCut(from, -got) = -got
      BY <1>1, <2>1, <2>2, <3>1 DEF RelativeCut, Greater, Lesser
    <3>3. from - (-got) = from + got
      BY <2>1, StackAssumption DEF Slot
    <3>4. Relative(from, -got) = pullp
      BY <2>2, <3>2, <3>3 DEF Relative
    <3>5. StatisticsEnd(0, -n) = Relative(from, -got)
      BY <2>3 DEF StatisticsEnd, got, from
    <3>6. QED
      BY <3>4, <3>5
  <2>4. CASE got = -n
    <3>1. Lesser(0 - (-n), Gap(from, pushBlkp)) = n
      BY <1>1, <2>1, <2>4 DEF Lesser
    <3>2. from - n = from + got
      BY <1>1, <2>1, <2>4, StackAssumption DEF Slot
    <3>3. StatisticsEnd(0, -n) = FixFrame(from - n)
      BY <2>4, <3>1 DEF StatisticsEnd, got, from
    <3>4. QED
      BY <2>2, <3>2, <3>3
  <2>5. QED
    BY <2>3, <2>4
<1>4. QED
  BY <1>2, <1>3
-----------------------------------------------------------------------------
(* Every nonempty set of naturals has a least member. *)
LEMMA LeastNatural ==
  ASSUME NEW S, S \subseteq Nat, S # {}
  PROVE  \E m \in S : \A j \in S : m <= j
<1> DEFINE R == OpToRel(<, Nat)
<1>1. IsWellFoundedOn(R, Nat)
  BY NatLessThanWellFounded, PTL
<1>2. \A i, j \in Nat : i < j => <<i, j>> \in R
  BY DEF OpToRel
<1> HIDE DEF R
<1>3. PICK m \in S : \A j \in S : ~(<<j, m>> \in R)
  BY <1>1, WFMin, Zenon
<1>4. ASSUME NEW j \in S PROVE m <= j
  <2>1. m \in Nat /\ j \in Nat /\ ~(<<j, m>> \in R)
    BY <1>3
  <2>2. ~(j < m)
    BY <1>2, <2>1
  <2>3. QED
    BY <2>1, <2>2
<1>5. QED
  BY <1>4

(* The seek's loop passes over no more frames than there are. *)
LEMMA VoiceFound ==
  ASSUME Gap(pushp, SeekStart) \in Nat
  PROVE  FramesToVoice \in 0 .. Gap(pushp, SeekStart)
<1> DEFINE newest   == Gap(pushp, SeekStart)
           voiced(k) == voice[FixFrame(SeekStart + k)] = "voice"
           stops    == {k \in 0 .. newest : voiced(k) \/ k = newest}
<1> HIDE DEF newest, voiced
<1>1. newest \in Nat
  BY DEF newest
<1>2. stops \subseteq Nat /\ stops # {}
  <2>1. newest \in stops
    BY <1>1
  <2>2. QED
    BY <1>1, <2>1
<1>3. PICK m \in stops : \A j \in stops : m <= j
  BY <1>2, LeastNatural
<1>4. ASSUME NEW j \in 0 .. m - 1 PROVE ~voiced(j)
  <2>1. m \in 0 .. newest /\ j \in 0 .. newest /\ ~(m <= j)
    BY <1>1, <1>3
  <2>2. j \notin stops
    BY <1>3, <2>1
  <2>3. QED
    BY <2>1, <2>2
<1>5. \E k \in 0 .. newest : (voiced(k) \/ k = newest) /\ \A j \in 0 .. k - 1 : ~voiced(j)
  BY <1>3, <1>4
<1>6. QED
  BY <1>5 DEF FramesToVoice, newest, voiced

(* Where the seek starts: over as much of the hold-off as there is. *)
LEMMA SeekStartGaps ==
  ASSUME Pointers, holdOffPeriod \in Nat,
         NEW skipped, skipped = Lesser(holdOffPeriod, FrameGap + BlockGap)
  PROVE  /\ SeekStart \in Slot
         /\ Gap(SeekStart, pushBlkp) = skipped
         /\ Gap(pushp, SeekStart) = FrameGap + BlockGap - skipped
<1>1. /\ pullp \in Slot /\ pushp \in Slot /\ pushBlkp \in Slot
      /\ FrameGap \in Nat /\ BlockGap \in Nat
      /\ Gap(pushp, pullp) = FrameGap /\ Gap(pullp, pushBlkp) = BlockGap
      /\ BlockGap + FrameGap = Gap(pushp, pushBlkp)
      /\ FrameGap + BlockGap <= StackSize - 1
  BY GapsInOrder DEF Pointers, FrameGap, BlockGap
<1> DEFINE oldest == Relative(pullp, BlockGap)
<1>2. /\ oldest \in Slot /\ Gap(oldest, pushBlkp) = 0
      /\ Gap(pushp, oldest) = FrameGap + BlockGap
  <2>1. RelativeCut(pullp, BlockGap) = BlockGap
    BY <1>1 DEF RelativeCut, Greater, Lesser
  <2>2. /\ oldest \in Slot /\ Gap(oldest, pushBlkp) = BlockGap - BlockGap
        /\ Gap(pushp, oldest) = FrameGap + BlockGap
    BY <1>1, <2>1, RelativeGaps
  <2>3. QED
    BY <1>1, <2>2
<1> HIDE DEF oldest
<1>3. CASE holdOffPeriod > 0
  <2>1. skipped \in Nat /\ skipped <= FrameGap + BlockGap
    BY <1>1 DEF Lesser
  <2>2. RelativeCut(oldest, -skipped) = -skipped
    BY <1>1, <1>2, <2>1 DEF RelativeCut, Greater, Lesser
  <2>3. /\ Relative(oldest, -skipped) \in Slot
        /\ Gap(Relative(oldest, -skipped), pushBlkp) = 0 - (-skipped)
        /\ Gap(pushp, Relative(oldest, -skipped)) = FrameGap + BlockGap + (-skipped)
    <3>1. -skipped \in Int
      BY <2>1
    <3>2. Gap(oldest, pushBlkp) + Gap(pushp, oldest) = Gap(pushp, pushBlkp)
      BY <1>1, <1>2
    <3>3. QED
      BY <1>2, <2>2, <3>1, <3>2, RelativeGaps
  <2>4. SeekStart = Relative(oldest, -skipped)
    BY <1>2, <1>3 DEF SeekStart, oldest
  <2>5. QED
    BY <1>1, <2>1, <2>3, <2>4
<1>4. CASE ~(holdOffPeriod > 0)
  <2>1. SeekStart = oldest /\ skipped = 0
    BY <1>1, <1>4 DEF SeekStart, oldest, Lesser
  <2>2. QED
    BY <1>1, <1>2, <2>1
<1>5. QED
  BY <1>3, <1>4

(* Where the seek ends, in terms of the frames it passed over. *)
LEMMA SeekGaps ==
  ASSUME Pointers, holdOffPeriod \in Nat, voicingDetected, SeekStartOfUtterance,
         NEW skipped, skipped = Lesser(holdOffPeriod, FrameGap + BlockGap),
         NEW kept, kept = BlockGapAfter(FramesToVoice),
         NEW back, back = Lesser(Windback, kept)
  PROVE  /\ Pointers'
         /\ FramesToVoice \in 0 .. FrameGap + BlockGap - skipped
         /\ kept \in Nat /\ back \in Nat /\ skipped \in Nat
         /\ kept = IF BlockLen > 0 /\ isCollecting
                   THEN Greater(skipped, Lesser(skipped + FramesToVoice, BlockLen - 1))
                   ELSE skipped + FramesToVoice
         /\ FrameGap' = FrameGap + BlockGap - skipped - FramesToVoice + back
         /\ BlockGap' = kept - back
<1> DEFINE k     == FramesToVoice
           found == FixFrame(SeekStart + k)
<1>1. /\ pushp \in Slot /\ pushBlkp \in Slot /\ pullp \in Slot
      /\ FrameGap \in Nat /\ BlockGap \in Nat /\ FrameGap + BlockGap <= StackSize - 1
      /\ Gap(pushp, pushBlkp) = FrameGap + BlockGap
      /\ skipped \in Nat /\ skipped <= FrameGap + BlockGap
  BY GapsInOrder DEF Pointers, Lesser
<1>2. /\ SeekStart \in Slot
      /\ Gap(SeekStart, pushBlkp) = skipped
      /\ Gap(pushp, SeekStart) = FrameGap + BlockGap - skipped
  BY SeekStartGaps
<1>3. k \in 0 .. FrameGap + BlockGap - skipped
  <2>1. FrameGap + BlockGap - skipped \in Nat
    BY <1>1
  <2>2. QED
    BY <1>2, <2>1, VoiceFound
<1> HIDE DEF k
<1>4. kept = IF BlockLen > 0 /\ isCollecting
             THEN Greater(skipped, Lesser(skipped + k, BlockLen - 1)) ELSE skipped + k
  BY <1>2 DEF BlockGapAfter, k
<1>5. kept \in Nat /\ kept <= skipped + k /\ back \in Nat /\ back <= kept
  BY <1>1, <1>3, <1>4, BlockAssumption, WindbackAssumption DEF Greater, Lesser
<1>6. found \in Slot /\ Gap(pushp, found) = FrameGap + BlockGap - skipped - k
  <2>1. -k \in Int /\ -StackSize < -k /\ -k < StackSize /\ SeekStart - (-k) = SeekStart + k
    BY <1>1, <1>2, <1>3, StackAssumption DEF Slot
  <2>2. Gap(pushp, SeekStart) + (-k) \in 0 .. StackSize - 1
    BY <1>1, <1>2, <1>3, StackAssumption
  <2>3. /\ FixFrame(SeekStart - (-k)) \in Slot
        /\ Gap(pushp, FixFrame(SeekStart - (-k))) = Gap(pushp, SeekStart) + (-k)
    BY <1>1, <1>2, <2>1, <2>2, FixFacts
  <2>4. QED
    BY <1>1, <1>2, <1>3, <2>1, <2>3
<1>7. pushBlkp' = FixFrame(found - kept) /\ pullp' = FixFrame(found - back) /\ pushp' = pushp
  BY DEF SeekStartOfUtterance, k
<1> HIDE DEF found
<1>8. /\ pushBlkp' \in Slot
      /\ Gap(found, pushBlkp') = kept
      /\ Gap(pushp, pushBlkp') = FrameGap + BlockGap - skipped - k + kept
  <2>1. -StackSize < kept /\ kept < StackSize /\ kept \in Int
    BY <1>1, <1>3, <1>5, StackAssumption
  <2>2. Gap(found, found) = 0
    BY <1>6, GapRange
  <2>3. /\ Gap(found, found) + kept \in 0 .. StackSize - 1
        /\ Gap(pushp, found) + kept \in 0 .. StackSize - 1
    BY <1>1, <1>3, <1>5, <1>6, <2>2, StackAssumption
  <2>4. /\ FixFrame(found - kept) \in Slot
        /\ Gap(found, FixFrame(found - kept)) = Gap(found, found) + kept
        /\ Gap(pushp, FixFrame(found - kept)) = Gap(pushp, found) + kept
    BY <1>1, <1>6, <2>1, <2>3, FixFacts
  <2>5. QED
    BY <1>5, <1>6, <1>7, <2>2, <2>4
<1>9. /\ pullp' \in Slot
      /\ Gap(pullp', pushBlkp') = kept - back
      /\ Gap(pushp, pullp') = FrameGap + BlockGap - skipped - k + back
  <2>1. -StackSize < back /\ back < StackSize /\ back \in Int
    BY <1>1, <1>3, <1>5, StackAssumption
  <2>2. /\ Gap(found, pushBlkp') - back \in 0 .. StackSize - 1
        /\ Gap(pushp, found) + back \in 0 .. StackSize - 1
    BY <1>1, <1>3, <1>5, <1>6, <1>8, StackAssumption
  <2>3. /\ FixFrame(found - back) \in Slot
        /\ Gap(FixFrame(found - back), pushBlkp') = Gap(found, pushBlkp') - back
        /\ Gap(pushp, FixFrame(found - back)) = Gap(pushp, found) + back
    BY <1>1, <1>6, <1>8, <2>1, <2>2, FixFacts
  <2>4. QED
    BY <1>6, <1>7, <1>8, <2>3
<1>10. Pointers'
  <2>1. Gap(pullp', pushBlkp') + Gap(pushp', pullp') = Gap(pushp', pushBlkp')
    BY <1>1, <1>3, <1>5, <1>7, <1>8, <1>9
  <2>2. QED
    BY <1>1, <1>7, <1>8, <1>9, <2>1 DEF Pointers, PointersInOrder, FrameGap, BlockGap
<1>11. QED
  BY <1>1, <1>3, <1>4, <1>5, <1>7, <1>9, <1>10 DEF FrameGap, BlockGap, k
-----------------------------------------------------------------------------
Types == /\ isCollecting \in BOOLEAN
         /\ voice \in [Slot -> Code]
         /\ voicingDetected \in BOOLEAN /\ utt_ended \in BOOLEAN
         /\ quietFrames \in 0 .. MaxQuiet
         /\ holdOff \in Nat /\ holdOffPeriod \in HoldOffs \cup {0}
         /\ last_push \in Slot \cup {None}
         /\ phase \in {"idle", "bos", "eos", "locked"}

(* The buffer collects in the phases in which the recognizer reads it, and  *)
(* is empty between utterances.                                             *)
Calls == /\ isCollecting <=> phase \in {"bos", "eos"}
         /\ phase = "idle" => FrameGap = 0 /\ BlockGap = 0

Inv == Types /\ Pointers /\ Calls

LEMMA InvInit == Init => Inv
<1> SUFFICES ASSUME Init PROVE Inv
  OBVIOUS
<1>1. pushp \in Slot /\ pullp = pushp /\ pushBlkp = pushp
  BY StackAssumption DEF Init, Slot
<1>2. Gap(pushp, pushp) = 0
  BY <1>1, GapRange
<1>3. FrameGap = 0 /\ BlockGap = 0 /\ Pointers
  BY <1>1, <1>2 DEF FrameGap, BlockGap, Pointers, PointersInOrder
<1>4. Types
  <2>1. voice \in [Slot -> Code] /\ quietFrames \in 0 .. MaxQuiet /\ holdOff \in Nat
    BY TimeoutAssumption DEF Init, Code
  <2>2. isCollecting = FALSE /\ voicingDetected = FALSE /\ utt_ended = FALSE
    BY DEF Init
  <2>3. QED
    BY <2>1, <2>2 DEF Init, Types
<1>5. Calls
  BY <1>3, Zenon DEF Init, Calls
<1>6. QED
  BY <1>3, <1>4, <1>5 DEF Inv

(* A step that moves no pointer. *)
LEMMA PointersKept ==
  ASSUME Pointers, UNCHANGED pointers
  PROVE  Pointers' /\ FrameGap' = FrameGap /\ BlockGap' = BlockGap
BY DEF Pointers, PointersInOrder, pointers, FrameGap, BlockGap

LEMMA BeginStep == ASSUME Inv, NEW hold \in HoldOffs, Begin(hold) PROVE Inv'
<1>1. Pointers' /\ FrameGap' = FrameGap /\ BlockGap' = BlockGap
  BY PointersKept DEF Inv, Begin
<1>2. Types'
  <2>1. quietFrames' \in 0 .. MaxQuiet /\ holdOff' \in Nat
    BY HoldOffsAssumption, TimeoutAssumption DEF Begin
  <2>2. isCollecting' = TRUE /\ voicingDetected' = FALSE /\ utt_ended' = FALSE
    BY DEF Begin
  <2>3. QED
    BY <2>1, <2>2 DEF Inv, Begin, Types
<1>3. Calls'
  BY DEF Begin, Calls
<1>4. QED
  BY <1>1, <1>2, <1>3 DEF Inv

LEMMA PushStep == ASSUME Inv, NEW code \in Code, Push(code) PROVE Inv'
<1>1. Pointers'
  BY PointersKept, StoreGaps DEF Inv, Push
<1>2. isCollecting
  BY DEF Inv, Calls, Push
<1>3. voicingDetected' \in BOOLEAN /\ utt_ended' \in BOOLEAN
  <2>1. CASE holdOff > 0 \/ utt_ended
    BY <1>2, <2>1 DEF Inv, Types, Push, Listen
  <2>2. CASE ~(holdOff > 0 \/ utt_ended)
    BY <1>2, <2>2 DEF Inv, Types, Push, Listen
  <2>3. QED
    BY <2>1, <2>2
<1>4. quietFrames' \in 0 .. MaxQuiet /\ holdOff' \in Nat
  BY <1>2, TimeoutAssumption DEF Inv, Types, Push, Listen
<1>5. voice' \in [Slot -> Code]
  BY <1>2 DEF Inv, Types, Push
<1>6. Types' /\ Calls'
  BY <1>3, <1>4, <1>5 DEF Inv, Types, Calls, Push
<1>7. QED
  BY <1>1, <1>6 DEF Inv

LEMMA AdvanceUtteranceFrameStep == ASSUME Inv, AdvanceUtteranceFrame PROVE Inv'
<1>1. Pointers'
  BY AdvanceGaps DEF Inv, AdvanceUtteranceFrame
<1>2. Types' /\ Calls'
  BY DEF Inv, AdvanceUtteranceFrame, endpoint, Types, Calls
<1>3. QED
  BY <1>1, <1>2 DEF Inv

LEMMA MakePatternFrameStep == ASSUME Inv, MakePatternFrame PROVE Inv'
<1>1. Pointers'
  BY AdvanceGaps DEF Inv, MakePatternFrame
<1>2. last_push' \in Slot
  BY NextFacts DEF Inv, Pointers, MakePatternFrame
<1>3. Types' /\ Calls'
  BY <1>2 DEF Inv, MakePatternFrame, endpoint, Types, Calls
<1>4. QED
  BY <1>1, <1>3 DEF Inv

LEMMA SeekStep == ASSUME Inv, SeekStartOfUtterance PROVE Inv'
<1>1. holdOffPeriod \in Nat
  BY HoldOffsAssumption DEF Inv, Types
<1>2. CASE voicingDetected
  <2>1. Pointers'
    BY <1>1, <1>2, SeekGaps DEF Inv
  <2>2. Types' /\ Calls'
    BY <1>2 DEF Inv, SeekStartOfUtterance, endpoint, Types, Calls
  <2>3. QED
    BY <2>1, <2>2 DEF Inv
<1>3. CASE ~voicingDetected
  <2>1. UNCHANGED pointers
    BY <1>3 DEF SeekStartOfUtterance, pointers
  <2>2. Types' /\ Calls'
    BY <1>3 DEF Inv, SeekStartOfUtterance, endpoint, Types, Calls
  <2>3. QED
    BY <2>1, <2>2, PointersKept DEF Inv
<1>4. QED
  BY <1>2, <1>3

LEMMA KeepStep == ASSUME Inv, KeepStart PROVE Inv'
<1>1. Types' /\ Calls'
  BY DEF Inv, KeepStart, endpoint, Types, Calls
<1>2. QED
  BY <1>1, PointersKept DEF Inv, KeepStart

(* Both ways the statistics are taken leave every variable as it was. *)
LEMMA StatisticsStep ==
  ASSUME Inv, NEW n \in 1 .. StackSize,
         CalculateStatistics(n, 0) \/ CalculateStatistics(0, -n)
  PROVE  UNCHANGED vars
<1>1. pullp' = pullp
  BY StatisticsPutBack DEF Inv, CalculateStatistics
<1>2. QED
  BY <1>1 DEF CalculateStatistics, vars, pointers

LEMMA LockStep == ASSUME Inv, Lock PROVE Inv'
<1>1. Types' /\ Calls'
  BY DEF Inv, Lock, endpoint, Types, Calls
<1>2. QED
  BY <1>1, PointersKept DEF Inv, Lock

LEMMA FlushGaps ==
  ASSUME Pointers, Flush
  PROVE  Pointers' /\ FrameGap' = 0 /\ BlockGap' = 0
<1>1. pushp' \in Slot /\ pullp' = pushp' /\ pushBlkp' = pushp'
  BY DEF Pointers, Flush
<1>2. Gap(pushp', pushp') = 0
  BY <1>1, GapRange
<1>3. QED
  BY <1>1, <1>2 DEF Pointers, PointersInOrder, FrameGap, BlockGap

LEMMA FlushStep == ASSUME Inv, Flush PROVE Inv'
<1>1. Types' /\ Calls'
  BY FlushGaps DEF Inv, Flush, endpoint, Types, Calls
<1>2. QED
  BY <1>1, FlushGaps DEF Inv

LEMMA StutterStep == ASSUME Inv, UNCHANGED vars PROVE Inv'
<1>1. Types' /\ Calls' /\ UNCHANGED pointers
  BY DEF Inv, vars, pointers, endpoint, Types, Calls, FrameGap, BlockGap
<1>2. QED
  BY <1>1, PointersKept DEF Inv

LEMMA InvStep == ASSUME Inv, [Next]_vars PROVE Inv'
<1>1. CASE UNCHANGED vars
  BY <1>1, StutterStep
<1>2. CASE \E hold \in HoldOffs : Begin(hold)
  BY <1>2, BeginStep
<1>3. CASE \E code \in Code : Push(code)
  BY <1>3, PushStep
<1>4. CASE AdvanceUtteranceFrame \/ MakePatternFrame
  BY <1>4, AdvanceUtteranceFrameStep, MakePatternFrameStep
<1>5. CASE SeekStartOfUtterance \/ KeepStart
  BY <1>5, SeekStep, KeepStep
<1>6. CASE \E n \in 1 .. StackSize : CalculateStatistics(n, 0) \/ CalculateStatistics(0, -n)
  BY <1>6, StatisticsStep, StutterStep
<1>7. CASE Lock \/ Flush
  BY <1>7, LockStep, FlushStep
<1>8. QED
  BY <1>1, <1>2, <1>3, <1>4, <1>5, <1>6, <1>7 DEF Next

(* The inductive invariant: types, pointer order, and when frames arrive.   *)
THEOREM BufferInvariant == Spec => []Inv
<1>1. Inv /\ [Next]_vars => Inv'
  BY InvStep
<1>2. QED
  BY InvInit, <1>1, PTL DEF Spec

(* Every pointer is a slot of the stack whatever the wraps. *)
THEOREM TypeCorrect == Spec => []TypeOK
<1>1. Inv => TypeOK
  <2> SUFFICES ASSUME Inv PROVE TypeOK
    OBVIOUS
  <2>1. holdOffPeriod \in Nat
    BY HoldOffsAssumption DEF Inv, Types
  <2>2. phase \in Counted!Phases
    BY DEF Inv, Types, Counted!Phases
  <2>3. QED
    BY <2>1, <2>2 DEF Inv, Types, Pointers, TypeOK
<1>2. QED
  BY <1>1, BufferInvariant, PTL

(* No push, read, seek, measurement or flush takes the three pointers out   *)
(* of order.                                                                *)
THEOREM PointersStayInOrder == Spec => []PointersInOrder
<1>1. Inv => PointersInOrder
  BY DEF Inv, Pointers
<1>2. QED
  BY <1>1, BufferInvariant, PTL
-----------------------------------------------------------------------------
(* The hold-off, which the seek skips, is shorter than the window kept: the *)
(* shipped values are 30 and 40 (baseline.par, KEEP_FRAMES).                *)
HoldOffsWithinBlock == \A hold \in HoldOffs : hold < BlockLen

(* While frames arrive the blocker is never left BlockLen frames behind.    *)
THEOREM KeepsBlockBounded ==
  ASSUME HoldOffsWithinBlock
  PROVE  Spec => []KeepsAtMostBlockLen
<1>1. Init => KeepsAtMostBlockLen
  BY Zenon DEF Init, KeepsAtMostBlockLen
<1>2. ASSUME Inv, KeepsAtMostBlockLen, [Next]_vars PROVE KeepsAtMostBlockLen'
  <2> USE BlockAssumption
  <2>1. /\ FrameGap \in Nat /\ BlockGap \in Nat
        /\ FrameGap + BlockGap <= StackSize - 1
    BY <1>2, GapsInOrder DEF Inv
  <2>2. CASE UNCHANGED vars
    BY <1>2, <2>2 DEF vars, pointers, KeepsAtMostBlockLen, BlockGap
  <2>3. CASE \E hold \in HoldOffs : Begin(hold)
    <3>1. BlockGap' = 0
      BY <1>2, <2>3, PointersKept DEF Inv, Calls, Begin
    <3>2. QED
      BY <3>1 DEF KeepsAtMostBlockLen
  <2>4. CASE \E code \in Code : Push(code)
    <3>1. BlockGap' <= BlockGap /\ isCollecting' = isCollecting
      BY <1>2, <2>1, <2>4, StoreGaps, PointersKept DEF Inv, Push
    <3>2. QED
      BY <1>2, <2>1, <2>4, <3>1, StoreGaps, PointersKept DEF KeepsAtMostBlockLen, Inv, Push
  <2>5. CASE AdvanceUtteranceFrame \/ MakePatternFrame
    <3>1. Advance /\ isCollecting' = isCollecting
      BY <2>5 DEF AdvanceUtteranceFrame, MakePatternFrame
    <3>2. QED
      BY <1>2, <2>1, <3>1, AdvanceGaps DEF Inv, Dragged, KeepsAtMostBlockLen
  <2>6. CASE SeekStartOfUtterance \/ KeepStart
    <3>1. CASE SeekStartOfUtterance /\ voicingDetected
      <4> DEFINE skipped == Lesser(holdOffPeriod, FrameGap + BlockGap)
                 kept    == BlockGapAfter(FramesToVoice)
                 back    == Lesser(Windback, kept)
      <4>1. holdOffPeriod \in Nat /\ (BlockLen > 0 => holdOffPeriod < BlockLen)
        BY <1>2, HoldOffsAssumption DEF Inv, Types, HoldOffsWithinBlock
      <4>2. isCollecting
        BY <1>2, <3>1 DEF Inv, Calls, SeekStartOfUtterance
      <4>3. /\ FramesToVoice \in Nat /\ kept \in Nat /\ back \in Nat /\ skipped \in Nat
            /\ BlockLen > 0 => kept = Greater(skipped, Lesser(skipped + FramesToVoice, BlockLen - 1))
            /\ BlockGap' = kept - back
        <5>1. skipped \in Nat
          BY <2>1, <4>1 DEF Lesser
        <5> HIDE DEF skipped, kept, back
        <5>2. Pointers
          BY <1>2 DEF Inv
        <5>3. /\ FramesToVoice \in 0 .. FrameGap + BlockGap - skipped
              /\ kept \in Nat /\ back \in Nat
              /\ BlockLen > 0 =>
                   kept = Greater(skipped, Lesser(skipped + FramesToVoice, BlockLen - 1))
              /\ BlockGap' = kept - back
          BY <3>1, <4>1, <4>2, <5>2, SeekGaps DEF skipped, kept, back
        <5>4. QED
          BY <2>1, <5>1, <5>3
      <4>4. BlockLen > 0 => skipped < BlockLen
        BY <2>1, <4>1 DEF Lesser
      <4> HIDE DEF skipped, kept, back
      <4>5. BlockLen > 0 => kept < BlockLen
        BY <4>3, <4>4 DEF Greater, Lesser
      <4>6. QED
        BY <4>3, <4>5 DEF KeepsAtMostBlockLen
    <3>2. CASE KeepStart \/ ~voicingDetected
      BY <1>2, <2>6, <3>2 DEF SeekStartOfUtterance, KeepStart, pointers, KeepsAtMostBlockLen, BlockGap
    <3>3. QED
      BY <2>6, <3>1, <3>2
  <2>7. CASE \E n \in 1 .. StackSize : CalculateStatistics(n, 0) \/ CalculateStatistics(0, -n)
    BY <1>2, <2>7, StatisticsStep DEF vars, pointers, KeepsAtMostBlockLen, BlockGap
  <2>8. CASE Lock
    BY <2>8 DEF Lock, KeepsAtMostBlockLen
  <2>9. CASE Flush
    BY <1>2, <2>9, FlushGaps DEF Inv, KeepsAtMostBlockLen
  <2>10. QED
    BY <1>2, <2>2, <2>3, <2>4, <2>5, <2>6, <2>7, <2>8, <2>9 DEF Next
<1>3. QED
  BY <1>1, <1>2, BufferInvariant, PTL DEF Spec

(* The frame the fixup stopped at is no older than the one read last. *)
LastRead ==
  /\ phase \in {"idle", "bos"} => last_push = None
  /\ (phase = "eos" /\ last_push # None) =>
       /\ 1 <= Gap(pushp, last_push)
       /\ Gap(pushp, last_push) <= FrameGap + 1
       /\ Gap(pushp, last_push) <= FrameGap + BlockGap

(* Where the fixup stopped is still kept when it resumes, as long as more   *)
(* than one frame is kept: with one the frame read last is given up at once.*)
THEOREM FixupNeverStale ==
  ASSUME BlockLen > 1
  PROVE  Spec => []FixupResumesInWindow
<1>1. Init => LastRead
  BY DEF Init, LastRead
<1>2. ASSUME Inv, LastRead, [Next]_vars PROVE LastRead'
  <2> USE BlockAssumption
  <2>1. /\ FrameGap \in Nat /\ BlockGap \in Nat
        /\ FrameGap + BlockGap <= StackSize - 1
        /\ Gap(pushp, pushBlkp) = FrameGap + BlockGap
        /\ Pointers /\ pushp \in Slot /\ pushBlkp \in Slot
        /\ last_push \in Slot \cup {None}
    BY <1>2, GapsInOrder DEF Inv, Pointers, Types
  <2>2. CASE UNCHANGED vars
    BY <1>2, <2>2 DEF vars, pointers, LastRead, FrameGap, BlockGap
  <2>3. CASE \E hold \in HoldOffs : Begin(hold)
    BY <1>2, <2>3 DEF Begin, LastRead
  <2>4. CASE \E code \in Code : Push(code)
    <3>1. phase' = phase /\ last_push' = last_push
      BY <2>4 DEF Push
    <3>2. CASE UNCHANGED pointers
      BY <1>2, <2>1, <3>1, <3>2, PointersKept DEF LastRead, pointers
    <3>3. CASE ~UNCHANGED pointers
      <4>1. Store /\ pushp' = NextFrame(pushp)
        BY <2>4, <3>3 DEF Push, Store
      <4>2. ~NoRoom
        <5>1. NextFrame(pushp) # pullp /\ NextFrame(pushp) # pushBlkp
          BY <3>3, <4>1 DEF Store
        <5>2. pullp \in Slot /\ Gap(pushp, pullp) = FrameGap
          BY <2>1 DEF Pointers, FrameGap
        <5>3. QED
          BY <2>1, <5>1, <5>2, NextFacts DEF NoRoom
      <4>3. FrameGap' = FrameGap + 1 /\ BlockGap' = BlockGap
            /\ FrameGap + BlockGap < StackSize - 1
        BY <2>1, <4>1, <4>2, StoreGaps, StackAssumption DEF NoRoom
      <4>4. CASE phase = "eos" /\ last_push # None
        <5>1. Gap(pushp, last_push) # StackSize - 1
          BY <1>2, <2>1, <4>3, <4>4, StackAssumption DEF LastRead
        <5>2. Gap(pushp', last_push) = Gap(pushp, last_push) + 1
              /\ Gap(pushp, last_push) \in Nat
          BY <2>1, <4>1, <4>4, <5>1, NextFacts, GapRange
        <5>3. QED
          BY <1>2, <2>1, <3>1, <4>3, <4>4, <5>2 DEF LastRead
      <4>5. CASE ~(phase = "eos" /\ last_push # None)
        BY <1>2, <3>1, <4>5 DEF LastRead
      <4>6. QED
        BY <4>4, <4>5
    <3>4. QED
      BY <3>2, <3>3
  <2>5. CASE AdvanceUtteranceFrame
    BY <1>2, <2>5 DEF AdvanceUtteranceFrame, LastRead
  <2>6. CASE MakePatternFrame
    <3>1. /\ Advance /\ FrameGap # 0 /\ phase' = "eos"
          /\ last_push' = PrevFrame(pushp) /\ isCollecting' = isCollecting
      BY <2>1, <2>6 DEF MakePatternFrame
    <3>2. pushp' = pushp /\ FrameGap' = FrameGap - 1
          /\ BlockGap' = IF Dragged THEN BlockGap ELSE BlockGap + 1
      BY <2>1, <3>1, AdvanceGaps
    <3>3. Gap(pushp', last_push') = 1
      BY <2>1, <3>1, <3>2, NextFacts, StackAssumption
    <3>4. 1 <= FrameGap' + BlockGap'
      BY <2>1, <3>1, <3>2 DEF Dragged
    <3>5. QED
      BY <2>1, <3>1, <3>2, <3>3, <3>4 DEF LastRead
  <2>7. CASE SeekStartOfUtterance \/ KeepStart
    BY <1>2, <2>7 DEF SeekStartOfUtterance, KeepStart, LastRead
  <2>8. CASE \E n \in 1 .. StackSize : CalculateStatistics(n, 0) \/ CalculateStatistics(0, -n)
    BY <1>2, <2>8, StatisticsStep DEF vars, pointers, LastRead, FrameGap, BlockGap
  <2>9. CASE Lock \/ Flush
    BY <2>9 DEF Lock, Flush, LastRead
  <2>10. QED
    BY <1>2, <2>2, <2>3, <2>4, <2>5, <2>6, <2>7, <2>8, <2>9 DEF Next
<1>3. Inv /\ LastRead => FixupResumesInWindow
  <2> SUFFICES ASSUME Inv, LastRead, phase = "eos", last_push # None
               PROVE  Gap(last_push, pushBlkp) <= Gap(pushp, pushBlkp)
    BY DEF FixupResumesInWindow
  <2>1. pushp \in Slot /\ pushBlkp \in Slot /\ last_push \in Slot
    BY DEF Inv, Types, Pointers
  <2>2. /\ Gap(pushp, last_push) \in Nat /\ Gap(last_push, pushBlkp) \in 0 .. StackSize - 1
        /\ Gap(pushp, last_push) <= Gap(pushp, pushBlkp) /\ Gap(pushp, pushBlkp) \in Nat
    BY <2>1, GapRange, GapsInOrder DEF Inv, LastRead
  <2>3. \/ Gap(pushp, last_push) + Gap(last_push, pushBlkp) = Gap(pushp, pushBlkp)
        \/ Gap(pushp, last_push) + Gap(last_push, pushBlkp) = Gap(pushp, pushBlkp) + StackSize
    BY <2>1, GapSum
  <2>4. QED
    BY <2>2, <2>3, StackAssumption
<1>4. QED
  BY <1>1, <1>2, <1>3, BufferInvariant, PTL DEF Spec
-----------------------------------------------------------------------------
(* The refinement of FrameWindow. *)

(* The windows that are seen. *)
SeenType == [active  : BOOLEAN, ahead   : Nat,
             behind  : Nat,     voicing : BOOLEAN,
             ended   : BOOLEAN, holdOff : Nat,
             period  : Nat]

LEMMA SeenTyped ==
  ASSUME Inv
  PROVE  /\ WindowSeen \in SeenType
         /\ WindowSeen.active = isCollecting /\ WindowSeen.ahead = FrameGap
         /\ WindowSeen.behind = BlockGap     /\ WindowSeen.voicing = voicingDetected
         /\ WindowSeen.ended = utt_ended     /\ WindowSeen.holdOff = holdOff
         /\ WindowSeen.period = holdOffPeriod
<1>1. FrameGap \in Nat /\ BlockGap \in Nat
  BY GapsInOrder DEF Inv
<1>2. holdOffPeriod \in Nat
  BY HoldOffsAssumption DEF Inv, Types
<1>3. QED
  BY <1>1, <1>2 DEF Inv, Types, WindowSeen, SeenType

LEMMA SeenTypedNext ==
  ASSUME Inv'
  PROVE  /\ WindowSeen' \in SeenType
         /\ WindowSeen'.active = isCollecting' /\ WindowSeen'.ahead = FrameGap'
         /\ WindowSeen'.behind = BlockGap'     /\ WindowSeen'.voicing = voicingDetected'
         /\ WindowSeen'.ended = utt_ended'     /\ WindowSeen'.holdOff = holdOff'
         /\ WindowSeen'.period = holdOffPeriod'
<1>1. FrameGap' \in Nat /\ BlockGap' \in Nat
  BY GapRange, StackAssumption DEF Inv, Pointers, FrameGap, BlockGap
<1>2. holdOffPeriod' \in Nat
  BY HoldOffsAssumption DEF Inv, Types
<1>3. QED
  BY <1>1, <1>2 DEF Inv, Types, WindowSeen, SeenType

(* Two windows are the same when their fields are. *)
LEMMA SameWindow ==
  ASSUME NEW u \in SeenType, NEW w \in SeenType,
         u.active = w.active, u.ahead = w.ahead, u.behind = w.behind,
         u.voicing = w.voicing, u.ended = w.ended, u.holdOff = w.holdOff,
         u.period = w.period
  PROVE  u = w
BY DEF SeenType

LEMMA SizedFields ==
  ASSUME NEW w \in SeenType, NEW a \in Nat, NEW b \in Nat,
         NEW u, u = Counted!Sized(w, a, b)
  PROVE  /\ u \in SeenType /\ u.ahead = a /\ u.behind = b
         /\ u.active = w.active /\ u.voicing = w.voicing /\ u.ended = w.ended
         /\ u.holdOff = w.holdOff /\ u.period = w.period
BY DEF SeenType, Counted!Sized

(* A step that leaves the endpointer alone only changes what is counted. *)
LEMMA SeenCounts ==
  ASSUME Inv, Inv', UNCHANGED <<isCollecting, endpoint, holdOffPeriod>>
  PROVE  WindowSeen' = Counted!Sized(WindowSeen, FrameGap', BlockGap')
<1>1. FrameGap' \in Nat /\ BlockGap' \in Nat
  BY SeenTypedNext DEF SeenType
<1> DEFINE u == Counted!Sized(WindowSeen, FrameGap', BlockGap')
<1>2. u = Counted!Sized(WindowSeen, FrameGap', BlockGap')
  OBVIOUS
<1> HIDE DEF u
<1>3. /\ u \in SeenType /\ u.ahead = FrameGap' /\ u.behind = BlockGap'
      /\ u.active = isCollecting /\ u.voicing = voicingDetected /\ u.ended = utt_ended
      /\ u.holdOff = holdOff /\ u.period = holdOffPeriod
  BY <1>1, <1>2, SeenTyped, SizedFields
<1>4. WindowSeen' = u
  BY <1>3, SeenTypedNext, SameWindow DEF endpoint
<1>5. QED
  BY <1>2, <1>4

LEMMA SeenKept ==
  ASSUME Pointers, UNCHANGED <<isCollecting, endpoint, holdOffPeriod, pointers>>
  PROVE  WindowSeen' = WindowSeen
BY PointersKept DEF WindowSeen, endpoint

LEMMA InitMaps == Init => Counted!Init
<1> SUFFICES ASSUME Init PROVE Counted!Init
  OBVIOUS
<1>1. FrameGap = 0 /\ BlockGap = 0
  BY InvInit DEF Inv, Calls, Init
<1>2. QED
  BY <1>1 DEF Init, Counted!Init, Counted!ClearedWindow, WindowSeen

LEMMA BeginMaps == ASSUME Inv, NEW hold \in HoldOffs, Begin(hold) PROVE Counted!Begin
<1>1. FrameGap' = FrameGap /\ BlockGap' = BlockGap
  BY PointersKept DEF Inv, Begin
<1>2. isCollecting = FALSE
  BY DEF Begin, Inv, Types
<1>3. WindowSeen' = Counted!Begun(WindowSeen, hold)
  BY <1>1, <1>2
  DEF Begin, WindowSeen, Counted!Begun, Counted!VoicingReset, Counted!Configured,
      Counted!Unlocked, Counted!Collecting, Counted!EndpointCleared
<1>4. QED
  BY <1>3 DEF Begin, Counted!Begin

LEMMA AdvanceMaps ==
  ASSUME Inv, Inv', Advance, UNCHANGED <<isCollecting, endpoint, holdOffPeriod>>
  PROVE  WindowSeen' = Counted!Advanced(WindowSeen)
<1>1. FrameGap \in Nat /\ BlockGap \in Nat
  BY GapsInOrder DEF Inv
<1>2. WindowSeen.ahead = FrameGap /\ WindowSeen.behind = BlockGap
      /\ WindowSeen.active = isCollecting
  BY DEF WindowSeen
<1>3. Dragged <=> Counted!Drags(WindowSeen)
  BY <1>2 DEF Dragged, Counted!Drags
<1>4. CASE FrameGap = 0
  <2>1. WindowSeen' = WindowSeen
    BY <1>4, AdvanceGaps DEF Inv, WindowSeen, endpoint
  <2>2. QED
    BY <1>2, <1>4, <2>1 DEF Counted!Advanced
<1>5. CASE FrameGap # 0
  <2>1. FrameGap' = FrameGap - 1 /\ BlockGap' = IF Dragged THEN BlockGap ELSE BlockGap + 1
    BY <1>5, AdvanceGaps DEF Inv
  <2>2. QED
    BY <1>2, <1>3, <1>5, <2>1, SeenCounts DEF Counted!Advanced
<1>6. QED
  BY <1>4, <1>5

LEMMA PushMaps == ASSUME Inv, Inv', NEW code \in Code, Push(code) PROVE Counted!Push
<1> DEFINE stored == Counted!Stored(WindowSeen)
<1>1. FrameGap \in Nat /\ BlockGap \in Nat
  BY GapsInOrder DEF Inv
<1>2. isCollecting /\ isCollecting' = isCollecting /\ holdOffPeriod' = holdOffPeriod
  BY DEF Push, Inv, Types, Calls
<1>3. NoRoom <=> Counted!Blocked(WindowSeen)
  BY <1>1, SeenTyped DEF NoRoom, Counted!Blocked, Counted!Full
<1>4. /\ stored \in SeenType
      /\ stored.active = isCollecting /\ stored.ahead = FrameGap'
      /\ stored.behind = BlockGap'    /\ stored.voicing = voicingDetected
      /\ stored.ended = utt_ended     /\ stored.holdOff = holdOff
      /\ stored.period = holdOffPeriod
  <2>1. CASE NoRoom
    <3>1. FrameGap' = FrameGap /\ BlockGap' = BlockGap
      BY <1>2, <2>1, StoreGaps DEF Inv, Push
    <3>2. stored = WindowSeen
      BY <1>3, <2>1 DEF Counted!Stored
    <3>3. QED
      BY <3>1, <3>2, SeenTyped
  <2>2. CASE ~NoRoom
    <3>1. /\ FrameGap' = FrameGap + 1
          /\ BlockGap' = IF FrameGap + BlockGap = StackSize - 1 THEN BlockGap - 1 ELSE BlockGap
      BY <1>2, <2>2, StoreGaps DEF Inv, Push
    <3>2. stored = Counted!Sized(WindowSeen, FrameGap', BlockGap')
      BY <1>3, <2>2, <3>1, SeenTyped DEF Counted!Stored, Counted!Full
    <3>3. FrameGap' \in Nat /\ BlockGap' \in Nat
      BY SeenTypedNext DEF SeenType
    <3>4. QED
      BY <3>2, <3>3, SeenTyped, SizedFields
  <2>3. QED
    BY <2>1, <2>2
<1> HIDE DEF stored
<1>5. WindowSeen' \in Counted!Endpointed(stored)
  <2>1. Listen(code)
    BY <1>2 DEF Push
  <2>2. CASE holdOff > 0
    <3>1. /\ holdOff' = holdOff - 1 /\ voicingDetected' = voicingDetected
          /\ utt_ended' = utt_ended
      BY <2>1, <2>2 DEF Listen
    <3>2. Counted!Endpointed(stored) = {[stored EXCEPT !.holdOff = stored.holdOff - 1]}
      BY <1>4, <2>2 DEF Counted!Endpointed
    <3>3. WindowSeen' = [stored EXCEPT !.holdOff = stored.holdOff - 1]
      BY <1>2, <1>4, <2>2, <3>1, SeenTypedNext, SameWindow DEF SeenType
    <3>4. QED
      BY <3>2, <3>3
  <2>3. CASE ~(holdOff > 0) /\ utt_ended
    <3>1. /\ holdOff' = holdOff /\ voicingDetected' = voicingDetected
          /\ utt_ended' = utt_ended
      BY <2>1, <2>3 DEF Listen
    <3>2. Counted!Endpointed(stored) = {stored}
      BY <1>4, <2>3 DEF Counted!Endpointed
    <3>3. WindowSeen' = stored
      BY <1>2, <1>4, <3>1, SeenTypedNext, SameWindow
    <3>4. QED
      BY <3>2, <3>3
  <2>4. CASE ~(holdOff > 0) /\ ~utt_ended
    <3>1. /\ holdOff' = holdOff
          /\ voicingDetected' = (voicingDetected \/ code = "voice")
          /\ quietFrames' = IF code = "quiet" THEN quietFrames + 1 ELSE 0
          /\ utt_ended' = (voicingDetected /\ quietFrames' > UttTimeout)
      BY <2>1, <2>4 DEF Listen
    <3>2. Counted!Endpointed(stored) =
            {stored, [stored EXCEPT !.voicing = TRUE], [stored EXCEPT !.ended = stored.voicing]}
      BY <1>4, <2>4 DEF Counted!Endpointed
    <3>3. /\ voicingDetected \in BOOLEAN /\ utt_ended = FALSE
          /\ voicingDetected' \in BOOLEAN /\ utt_ended' \in BOOLEAN
      BY <2>4 DEF Inv, Types
    <3>4. CASE code = "voice"
      <4>1. ~(quietFrames' > UttTimeout)
        BY <3>1, <3>4, TimeoutAssumption
      <4>2. voicingDetected' = TRUE /\ utt_ended' = FALSE
        BY <3>1, <3>3, <3>4, <4>1, Zenon
      <4>3. WindowSeen' = [stored EXCEPT !.voicing = TRUE]
        BY <1>2, <1>4, <3>1, <3>3, <4>2, SeenTypedNext, SameWindow DEF SeenType
      <4>4. QED
        BY <3>2, <4>3
    <3>5. CASE code # "voice" /\ quietFrames' > UttTimeout
      <4>1. voicingDetected' = voicingDetected /\ utt_ended' = voicingDetected
        BY <3>1, <3>3, <3>5
      <4>2. WindowSeen' = [stored EXCEPT !.ended = stored.voicing]
        BY <1>2, <1>4, <3>1, <4>1, SeenTypedNext, SameWindow DEF SeenType
      <4>3. QED
        BY <3>2, <4>2
    <3>6. CASE code # "voice" /\ ~(quietFrames' > UttTimeout)
      <4>1. voicingDetected' = voicingDetected /\ utt_ended' = utt_ended
        BY <3>1, <3>3, <3>6
      <4>2. WindowSeen' = stored
        BY <1>2, <1>4, <3>1, <4>1, SeenTypedNext, SameWindow
      <4>3. QED
        BY <3>2, <4>2
    <3>7. QED
      BY <3>4, <3>5, <3>6
  <2>5. QED
    BY <2>2, <2>3, <2>4
<1>6. WindowSeen' \in Counted!Pushed(WindowSeen)
  BY <1>2, <1>5, SeenTyped DEF Counted!Pushed, stored
<1>7. QED
  BY <1>6 DEF Push, Counted!Push

(* A move that is not cut short. *)
LEMMA MovedFields ==
  ASSUME NEW w \in SeenType, NEW n \in Int,
         n = Counted!MoveCut(w, n), NEW u, u = Counted!Moved(w, n)
  PROVE  /\ u \in SeenType /\ u.ahead = w.ahead + n /\ u.behind = w.behind - n
         /\ u.active = w.active /\ u.voicing = w.voicing /\ u.ended = w.ended
         /\ u.holdOff = w.holdOff /\ u.period = w.period
<1>1. w.ahead \in Nat /\ w.behind \in Nat
  BY DEF SeenType
<1> DEFINE a == w.ahead + n
           b == w.behind - n
<1>2. a \in Nat /\ b \in Nat
  BY <1>1 DEF Counted!MoveCut, Counted!Greater, Counted!Lesser
<1>3. u = Counted!Sized(w, a, b)
  BY DEF Counted!Moved
<1> HIDE DEF a, b
<1>4. /\ u \in SeenType /\ u.ahead = a /\ u.behind = b
      /\ u.active = w.active /\ u.voicing = w.voicing /\ u.ended = w.ended
      /\ u.holdOff = w.holdOff /\ u.period = w.period
  BY <1>2, <1>3, SizedFields
<1>5. QED
  BY <1>4 DEF a, b

(* The start of the counted seek, as SeekStartGaps has it for the pointers. *)
LEMMA SeekFromFields ==
  ASSUME NEW w \in SeenType, NEW skipped, skipped = Lesser(w.period, w.ahead + w.behind)
  PROVE  LET u == Counted!SeekFrom(w)
         IN  /\ u \in SeenType
             /\ u.ahead = w.ahead + w.behind - skipped /\ u.behind = skipped
             /\ u.active = w.active /\ u.voicing = w.voicing /\ u.ended = w.ended
             /\ u.holdOff = w.holdOff /\ u.period = w.period
<1> DEFINE oldest == Counted!Moved(w, w.behind)
<1>1. w.ahead \in Nat /\ w.behind \in Nat /\ w.period \in Nat
  BY DEF SeenType
<1>2. /\ oldest \in SeenType /\ oldest.ahead = w.ahead + w.behind /\ oldest.behind = 0
      /\ oldest.active = w.active /\ oldest.voicing = w.voicing /\ oldest.ended = w.ended
      /\ oldest.holdOff = w.holdOff /\ oldest.period = w.period
  <2>1. w.behind = Counted!MoveCut(w, w.behind)
    BY <1>1 DEF Counted!MoveCut, Counted!Greater, Counted!Lesser
  <2>2. /\ oldest \in SeenType /\ oldest.ahead = w.ahead + w.behind
        /\ oldest.behind = w.behind - w.behind
        /\ oldest.active = w.active /\ oldest.voicing = w.voicing /\ oldest.ended = w.ended
        /\ oldest.holdOff = w.holdOff /\ oldest.period = w.period
    <3>1. oldest = Counted!Moved(w, w.behind) /\ w.behind \in Int
      BY <1>1
    <3> HIDE DEF oldest
    <3>2. QED
      BY <2>1, <3>1, MovedFields
  <2>3. QED
    BY <1>1, <2>2
<1>3. Counted!SeekFrom(w) = IF w.period > 0
                            THEN Counted!Moved(oldest, -Counted!Lesser(w.period, oldest.ahead))
                            ELSE oldest
  BY DEF Counted!SeekFrom
<1> HIDE DEF oldest
<1>4. CASE w.period > 0
  <2>1. skipped \in Nat /\ skipped = Counted!Lesser(w.period, oldest.ahead)
        /\ skipped <= oldest.ahead
    BY <1>1, <1>2 DEF Lesser, Counted!Lesser
  <2>2. -skipped = Counted!MoveCut(oldest, -skipped) /\ -skipped \in Int
    BY <1>1, <1>2, <2>1 DEF Counted!MoveCut, Counted!Greater, Counted!Lesser
  <2> DEFINE u    == Counted!Moved(oldest, -skipped)
             less == -skipped
  <2>3. /\ u \in SeenType
        /\ u.ahead = oldest.ahead + (-skipped) /\ u.behind = oldest.behind - (-skipped)
        /\ u.active = w.active /\ u.voicing = w.voicing /\ u.ended = w.ended
        /\ u.holdOff = w.holdOff /\ u.period = w.period
    <3>1. u = Counted!Moved(oldest, less) /\ less = Counted!MoveCut(oldest, less)
          /\ less \in Int
      BY <2>2
    <3>2. oldest \in SeenType
      BY <1>2
    <3>3. /\ u \in SeenType
          /\ u.ahead = oldest.ahead + less /\ u.behind = oldest.behind - less
          /\ u.active = oldest.active /\ u.voicing = oldest.voicing
          /\ u.ended = oldest.ended /\ u.holdOff = oldest.holdOff
          /\ u.period = oldest.period
      <4> HIDE DEF u, less
      <4>1. QED
        BY <3>1, <3>2, MovedFields
    <3> HIDE DEF u
    <3>4. QED
      BY <1>2, <3>3
  <2>4. Counted!SeekFrom(w) = u
    BY <1>3, <1>4, <2>1
  <2> HIDE DEF u
  <2>5. QED
    BY <1>1, <1>2, <2>1, <2>3, <2>4
<1>5. CASE ~(w.period > 0)
  <2>1. skipped = 0
    BY <1>1, <1>5 DEF Lesser
  <2>2. QED
    BY <1>1, <1>2, <1>3, <1>5, <2>1
<1>6. QED
  BY <1>4, <1>5

LEMMA SeekMaps == ASSUME Inv, Inv', SeekStartOfUtterance PROVE Counted!Seek
<1>1. CASE ~voicingDetected
  <2>1. UNCHANGED <<isCollecting, endpoint, holdOffPeriod, pointers>>
    BY <1>1 DEF SeekStartOfUtterance, pointers, endpoint
  <2>2. WindowSeen' = WindowSeen
    BY <2>1, SeenKept DEF Inv
  <2>3. ~WindowSeen.voicing
    BY <1>1, SeenTyped
  <2>4. QED
    BY <2>2, <2>3 DEF SeekStartOfUtterance, Counted!Seek, Counted!Sought
<1>2. CASE voicingDetected
  <2> DEFINE skipped == Lesser(holdOffPeriod, FrameGap + BlockGap)
             kept    == BlockGapAfter(FramesToVoice)
             back    == Lesser(Windback, kept)
             from    == Counted!SeekFrom(WindowSeen)
             passed  == Counted!AdvancedBy(from, FramesToVoice)
  <2>1. /\ FrameGap \in Nat /\ BlockGap \in Nat /\ holdOffPeriod \in Nat /\ Pointers
        /\ FrameGap + BlockGap <= StackSize - 1
    BY GapsInOrder, HoldOffsAssumption DEF Inv, Types
  <2>2. /\ from \in SeenType
        /\ from.ahead = FrameGap + BlockGap - skipped /\ from.behind = skipped
        /\ from.active = isCollecting /\ from.voicing = voicingDetected
        /\ from.ended = utt_ended /\ from.holdOff = holdOff /\ from.period = holdOffPeriod
    BY SeenTyped, SeekFromFields
  <2> HIDE DEF skipped, kept, back, from
  <2>3. /\ FramesToVoice \in 0 .. FrameGap + BlockGap - skipped
        /\ kept \in Nat /\ back \in Nat /\ skipped \in Nat
        /\ kept = IF BlockLen > 0 /\ isCollecting
                  THEN Greater(skipped, Lesser(skipped + FramesToVoice, BlockLen - 1))
                  ELSE skipped + FramesToVoice
        /\ FrameGap' = FrameGap + BlockGap - skipped - FramesToVoice + back
        /\ BlockGap' = kept - back
    BY <1>2, <2>1, SeekGaps DEF skipped, kept, back
  <2>4. kept = Counted!BehindAfter(from, FramesToVoice)
    BY <2>2, <2>3 DEF Counted!BehindAfter, Counted!Greater, Counted!Lesser, Greater, Lesser
  <2>5. passed = Counted!Sized(from, from.ahead - FramesToVoice, kept)
    BY <2>4 DEF Counted!AdvancedBy
  <2>6. /\ passed \in SeenType
        /\ passed.ahead = from.ahead - FramesToVoice /\ passed.behind = kept
        /\ passed.active = isCollecting /\ passed.voicing = voicingDetected
        /\ passed.ended = utt_ended /\ passed.holdOff = holdOff
        /\ passed.period = holdOffPeriod
    <3>1. from.ahead - FramesToVoice \in Nat
      BY <2>1, <2>2, <2>3
    <3> DEFINE left == from.ahead - FramesToVoice
    <3>2. passed = Counted!Sized(from, left, kept)
      BY <2>5
    <3>3. /\ passed \in SeenType /\ passed.ahead = left /\ passed.behind = kept
          /\ passed.active = from.active /\ passed.voicing = from.voicing
          /\ passed.ended = from.ended /\ passed.holdOff = from.holdOff
          /\ passed.period = from.period
      <4>1. left \in Nat /\ kept \in Nat /\ from \in SeenType
        BY <2>2, <2>3, <3>1
      <4> HIDE DEF left, passed
      <4>2. QED
        BY <3>2, <4>1, SizedFields
    <3> HIDE DEF passed
    <3>4. QED
      BY <2>2, <3>3
  <2>7. /\ back = Counted!Lesser(Windback, passed.behind)
        /\ back = Counted!MoveCut(passed, back)
    BY <2>1, <2>2, <2>3, <2>6, WindbackAssumption
    DEF back, Counted!MoveCut, Counted!Lesser, Counted!Greater, Lesser
  <2>8. Counted!SeekTo(WindowSeen, FramesToVoice) = Counted!Moved(passed, back)
    BY <2>7 DEF Counted!SeekTo, from
  <2> DEFINE u == Counted!Moved(passed, back)
  <2> HIDE DEF passed
  <2>9. /\ u \in SeenType
        /\ u.ahead = passed.ahead + back /\ u.behind = passed.behind - back
        /\ u.active = isCollecting /\ u.voicing = voicingDetected
        /\ u.ended = utt_ended /\ u.holdOff = holdOff /\ u.period = holdOffPeriod
    <3>1. u = Counted!Moved(passed, back) /\ back \in Int
      BY <2>3
    <3> HIDE DEF u
    <3>2. QED
      BY <2>6, <2>7, <3>1, MovedFields
  <2> HIDE DEF u
  <2>10. u.ahead = FrameGap' /\ u.behind = BlockGap'
    BY <2>1, <2>2, <2>3, <2>6, <2>9
  <2>11. WindowSeen' = u
    <3>1. UNCHANGED <<isCollecting, endpoint, holdOffPeriod>>
      BY DEF SeekStartOfUtterance, endpoint
    <3>2. QED
      BY <2>9, <2>10, <3>1, SeenTypedNext, SameWindow DEF endpoint
  <2>12. WindowSeen' \in Counted!Sought(WindowSeen)
    <3>1. FramesToVoice \in 0 .. from.ahead
      BY <2>2, <2>3
    <3>2. WindowSeen.voicing
      BY <1>2, SeenTyped
    <3>3. WindowSeen' = Counted!SeekTo(WindowSeen, FramesToVoice)
      BY <2>8, <2>11 DEF u
    <3>4. QED
      BY <3>1, <3>2, <3>3 DEF Counted!Sought, from
  <2>13. QED
    BY <2>12 DEF SeekStartOfUtterance, Counted!Seek
<1>3. QED
  BY <1>1, <1>2

LEMMA FlushMaps == ASSUME Inv, Inv', Flush PROVE Counted!Flush
<1>1. FrameGap' = 0 /\ BlockGap' = 0
  BY FlushGaps DEF Inv
<1>2. UNCHANGED <<isCollecting, endpoint, holdOffPeriod>>
  BY DEF Flush, endpoint
<1>3. WindowSeen' = Counted!Sized(WindowSeen, 0, 0)
  BY <1>1, <1>2, SeenCounts
<1>4. QED
  BY <1>3 DEF Flush, Counted!Flush, Counted!Flushed

LEMMA LockMaps == ASSUME Inv, Inv', Lock PROVE Counted!Lock
<1> DEFINE u == Counted!Locked(WindowSeen)
<1>1. /\ u \in SeenType /\ u.active = FALSE /\ u.ahead = FrameGap /\ u.behind = BlockGap
      /\ u.voicing = voicingDetected /\ u.ended = utt_ended
      /\ u.holdOff = holdOff /\ u.period = holdOffPeriod
  BY SeenTyped DEF SeenType, Counted!Locked
<1> HIDE DEF u
<1>2. FrameGap' = FrameGap /\ BlockGap' = BlockGap
  BY PointersKept DEF Inv, Lock
<1>3. WindowSeen' = u
  BY <1>1, <1>2, SeenTypedNext, SameWindow DEF Lock, endpoint
<1>4. QED
  BY <1>3 DEF Lock, Counted!Lock, u

(* Every step of the pointers is a step of the window, or changes nothing   *)
(* in it.                                                                   *)
LEMMA StepMaps ==
  ASSUME Inv, Inv', [Next]_vars
  PROVE  [Counted!Next]_Counted!vars
<1>1. CASE UNCHANGED vars
  BY <1>1, SeenKept DEF Inv, vars, Counted!vars
<1>2. CASE \E hold \in HoldOffs : Begin(hold)
  BY <1>2, BeginMaps DEF Counted!Next
<1>3. CASE \E code \in Code : Push(code)
  BY <1>3, PushMaps DEF Counted!Next
<1>4. CASE AdvanceUtteranceFrame \/ MakePatternFrame
  <2>1. Advance /\ UNCHANGED <<isCollecting, endpoint, holdOffPeriod, phase>>
        /\ phase \in {"bos", "eos"}
    BY <1>4 DEF AdvanceUtteranceFrame, MakePatternFrame
  <2>2. Counted!Advance
    BY <2>1, AdvanceMaps DEF Counted!Advance
  <2>3. QED
    BY <2>2 DEF Counted!Next
<1>5. CASE SeekStartOfUtterance
  BY <1>5, SeekMaps DEF Counted!Next
<1>6. CASE KeepStart
  BY <1>6, SeenKept DEF Inv, KeepStart, Counted!Keep, Counted!Next
<1>7. CASE \E n \in 1 .. StackSize : CalculateStatistics(n, 0) \/ CalculateStatistics(0, -n)
  BY <1>1, <1>7, StatisticsStep
<1>8. CASE Lock
  BY <1>8, LockMaps DEF Counted!Next
<1>9. CASE Flush
  BY <1>9, FlushMaps DEF Counted!Next
<1>10. QED
  BY <1>1, <1>2, <1>3, <1>4, <1>5, <1>6, <1>7, <1>8, <1>9 DEF Next

(* The frame buffer implements the counted window that Recognizer relies on.*)
THEOREM PointersImplementWindow == Spec => ImplementsWindow
<1>1. Init => Counted!Init
  BY InitMaps
<1>2. Inv /\ Inv' /\ [Next]_vars => [Counted!Next]_Counted!vars
  BY StepMaps
<1>3. QED
  BY <1>1, <1>2, BufferInvariant, PTL DEF Spec, ImplementsWindow, Counted!Spec
=============================================================================
