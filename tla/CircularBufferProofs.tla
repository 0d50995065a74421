------------------------ MODULE CircularBufferProofs ------------------------
(***************************************************************************)
(* The ring of CircularBuffer.c never indexes outside its data area, and   *)
(* is a queue of bytes, whatever its capacity and whatever the transfers.  *)
(***************************************************************************)
EXTENDS CircularBuffer, SequenceTheorems, TLAPS

(* The numeric half of TypeOK with the agreement of the indices: inductive. *)
IndexInv == /\ size \in 0 .. Capacity
            /\ readIdx \in Index
            /\ writeIdx \in Index
            /\ IndicesAgree

(* A transfer carries a number of bytes. *)
LEMMA TransferLength == ASSUME NEW bytes \in Transfers PROVE Len(bytes) \in Nat
BY TransferAssumption DEF Transfers

(* Reading leaves the read index inside the data area: the second chunk of  *)
(* CircularBufferRead, which has no wrap test, ends at or before writeIdx.  *)
LEMMA ReadStep == ASSUME IndexInv, NEW n \in Nat, Read(n) PROVE IndexInv'
BY CapacityAssumption
   DEF IndexInv, IndicesAgree, Index, Read, Smaller, ChunkToEnd, Wrapped

LEMMA SkipStep == ASSUME IndexInv, NEW n \in Nat, Skip(n) PROVE IndexInv'
BY CapacityAssumption DEF IndexInv, IndicesAgree, Index, Skip, Smaller

(* Writing leaves the write index inside the data area: the second chunk of *)
(* CircularBufferWrite ends before readIdx, or on it when the ring is full. *)
LEMMA WriteStep ==
  ASSUME IndexInv, NEW bytes \in Transfers, Write(bytes) PROVE IndexInv'
<1>1. Len(bytes) \in Nat
  BY TransferLength
<1>2. CASE Capacity - size < Len(bytes)
  BY <1>2 DEF IndexInv, IndicesAgree, Write, WriteRefused
<1>3. CASE ~(Capacity - size < Len(bytes))
  <2> DEFINE n     == Len(bytes)
             first == ChunkToEnd(writeIdx, readIdx, n)
             next  == Wrapped(writeIdx + first)
  <2>1. size' = size + n /\ writeIdx' = next + (n - first) /\ readIdx' = readIdx
    BY <1>3 DEF Write, WriteStored
  <2>2. n \in Nat /\ ~(Capacity - size < n)
    BY <1>1, <1>3
  <2> HIDE DEF n
  <2>3. QED
    BY <2>1, <2>2, CapacityAssumption
       DEF IndexInv, IndicesAgree, Index, Smaller, ChunkToEnd, Wrapped
<1>4. QED
  BY <1>2, <1>3

LEMMA ResetStep == ASSUME IndexInv, Reset PROVE IndexInv'
BY CapacityAssumption DEF IndexInv, IndicesAgree, Index, Reset

(* The inductive invariant: no call of CircularBuffer.c moves an index out  *)
(* of the data area or lets the count and the indices disagree.             *)
THEOREM IndexInvariant == Spec => []IndexInv
<1>1. Init => IndexInv
  BY CapacityAssumption DEF Init, IndexInv, IndicesAgree, Index
<1>2. IndexInv /\ [Next]_vars => IndexInv'
  <2> SUFFICES ASSUME IndexInv, [Next]_vars PROVE IndexInv'
    OBVIOUS
  <2>1. ASSUME NEW bytes \in Transfers, Write(bytes) PROVE IndexInv'
    BY <2>1, WriteStep
  <2>2. ASSUME NEW n \in 0 .. MaxTransfer, Read(n) PROVE IndexInv'
    BY <2>2, ReadStep, TransferAssumption
  <2>3. ASSUME NEW n \in 0 .. MaxTransfer, Skip(n) PROVE IndexInv'
    BY <2>3, SkipStep, TransferAssumption
  <2>4. CASE Reset
    BY <2>4, ResetStep
  <2>5. CASE UNCHANGED vars
    BY <2>5 DEF vars, IndexInv, IndicesAgree
  <2>6. QED
    BY <2>1, <2>2, <2>3, <2>4, <2>5 DEF Next
<1>3. QED
  BY <1>1, <1>2, PTL DEF Spec

(* The write index stays size bytes ahead of the read index, for every      *)
(* capacity and every sequence of calls.                                    *)
THEOREM IndicesAlwaysAgree == Spec => []IndicesAgree
BY IndexInvariant, PTL DEF IndexInv
-----------------------------------------------------------------------------
(* The ring as a sequence. *)

Slot(i) == i % Capacity

(* The n bytes of the data area f from the slot r on, once around at most. *)
Ring(f, r, n) == [i \in 1 .. n |-> f[Slot(r + i - 1)]]

LEMMA Modulo ==
  ASSUME NEW a \in 0 .. 2 * Capacity - 1
  PROVE  /\ Slot(a) = IF a < Capacity THEN a ELSE a - Capacity
         /\ Slot(a) \in Index
<1>1. Capacity \in Nat \ {0}
  BY CapacityAssumption
<1>2. \A b \in 0 .. Capacity - 1 : b % Capacity = b
  BY <1>1, SMT
<1>3. \A b \in Capacity .. 2 * Capacity - 1 : b % Capacity = b - Capacity
  BY <1>1, SMT
<1>4. QED
  BY <1>1, <1>2, <1>3, SMT DEF Slot, Index

LEMMA IsSequence ==
  ASSUME NEW S, NEW n \in Nat, NEW s \in [1 .. n -> S]
  PROVE  s \in Seq(S) /\ Len(s) = n
<1>1. s \in Seq(S)
  BY SeqDef
<1>2. Len(s) \in Nat /\ 1 .. Len(s) = 1 .. n
  BY <1>1, LenProperties
<1>3. QED
  BY <1>1, <1>2, SMT

LEMMA TransferIsSequence ==
  ASSUME NEW bytes \in Transfers
  PROVE  bytes \in Seq(Byte) /\ Len(bytes) \in 0 .. MaxTransfer
<1>1. PICK n \in 0 .. MaxTransfer : bytes \in [1 .. n -> Byte]
  BY DEF Transfers
<1>2. QED
  BY <1>1, TransferAssumption, IsSequence

LEMMA SequenceIsTransfer ==
  ASSUME NEW s \in Seq(Byte), Len(s) \in 0 .. MaxTransfer
  PROVE  s \in Transfers
BY LenProperties DEF Transfers

LEMMA RingIsSequence ==
  ASSUME NEW f \in [Index -> Byte], NEW r \in Index, NEW n \in 0 .. Capacity
  PROVE  /\ Ring(f, r, n) \in Seq(Byte) /\ Len(Ring(f, r, n)) = n
         /\ \A i \in 1 .. n : Ring(f, r, n)[i] = f[Slot(r + i - 1)]
<1>1. Capacity \in Nat
  BY CapacityAssumption
<1>2. ASSUME NEW i \in 1 .. n PROVE Slot(r + i - 1) \in Index
  <2>1. r + i - 1 \in 0 .. 2 * Capacity - 1
    BY <1>1 DEF Index
  <2>2. QED
    BY <2>1, Modulo
<1>3. Ring(f, r, n) \in [1 .. n -> Byte]
  BY <1>2 DEF Ring
<1>4. n \in Nat
  BY <1>1
<1>5. QED
  BY <1>3, <1>4, IsSequence DEF Ring

(* What leaves is the front of what was held. *)
LEMMA RingFront ==
  ASSUME NEW f \in [Index -> Byte], NEW r \in Index,
         NEW a \in 0 .. Capacity, NEW n \in 0 .. a
  PROVE  SubSeq(Ring(f, r, a), 1, n) = Ring(f, r, n)
<1>1. Capacity \in Nat /\ a \in Nat /\ n \in 0 .. Capacity
  BY CapacityAssumption
<1>2. /\ Ring(f, r, a) \in Seq(Byte) /\ Len(Ring(f, r, a)) = a
      /\ \A i \in 1 .. a : Ring(f, r, a)[i] = f[Slot(r + i - 1)]
  BY RingIsSequence
<1>3. /\ Ring(f, r, n) \in Seq(Byte) /\ Len(Ring(f, r, n)) = n
      /\ \A i \in 1 .. n : Ring(f, r, n)[i] = f[Slot(r + i - 1)]
  BY <1>1, RingIsSequence
<1> DEFINE s == Ring(f, r, a)
           t == Ring(f, r, n)
<1>4. \A i \in 1 .. n : s[i] \in Byte
  BY <1>1, <1>2, ElementOfSeq
<1>5. \A i \in 1 .. n : s[i] = t[i]
  BY <1>1, <1>2, <1>3
<1> HIDE DEF s, t
<1>6. /\ SubSeq(s, 1, n) \in Seq(Byte) /\ Len(SubSeq(s, 1, n)) = n
      /\ \A i \in 1 .. n : SubSeq(s, 1, n)[i] = s[i]
  BY <1>1, <1>4, SubSeqProperties
<1>7. t \in Seq(Byte) /\ Len(t) = n
  BY <1>3 DEF t
<1>8. SubSeq(s, 1, n) = t
  BY <1>5, <1>6, <1>7, SeqEqual
<1>9. QED
  BY <1>8 DEF s, t

(* The next slot after n bytes is once around at most. *)
LEMMA SlotAfter ==
  ASSUME NEW r \in Index, NEW n \in 0 .. Capacity
  PROVE  /\ Slot(r + n) = IF r + n < Capacity THEN r + n ELSE r + n - Capacity
         /\ Slot(r + n) \in Index
<1> DEFINE x == r + n
<1>1. x \in 0 .. 2 * Capacity - 1
  BY CapacityAssumption DEF Index
<1> HIDE DEF x
<1>2. /\ Slot(x) = IF x < Capacity THEN x ELSE x - Capacity
      /\ Slot(x) \in Index
  BY <1>1, Modulo
<1>3. x = r + n /\ r \in Int /\ n \in Int /\ Capacity \in Int
  BY CapacityAssumption DEF x, Index
<1>4. QED
  BY <1>2, <1>3

(* The slot of the i-th byte from r on. *)
LEMMA SlotOf ==
  ASSUME NEW r \in Index, NEW i \in 1 .. Capacity
  PROVE  /\ Slot(r + i - 1) = IF r + i - 1 < Capacity THEN r + i - 1 ELSE r + i - 1 - Capacity
         /\ Slot(r + i - 1) \in Index
<1> DEFINE x == r + i - 1
<1>1. x \in 0 .. 2 * Capacity - 1
  BY CapacityAssumption DEF Index
<1> HIDE DEF x
<1>2. /\ Slot(x) = IF x < Capacity THEN x ELSE x - Capacity
      /\ Slot(x) \in Index
  BY <1>1, Modulo
<1>3. x = r + i - 1 /\ r \in Int /\ i \in Int /\ Capacity \in Int
  BY CapacityAssumption DEF x, Index
<1>4. QED
  BY <1>2, <1>3

LEMMA SlotAdds ==
  ASSUME NEW r \in Index, NEW n \in 0 .. Capacity, NEW i \in 1 .. Capacity - n
  PROVE  Slot(Slot(r + n) + i - 1) = Slot(r + (n + i) - 1)
<1> DEFINE q == Slot(r + n)
           x == q + i - 1
           y == r + (n + i) - 1
<1>1. Capacity \in Nat \ {0}
  BY CapacityAssumption
<1>2. q = (IF r + n < Capacity THEN r + n ELSE r + n - Capacity) /\ q \in Index
  BY SlotAfter
<1> HIDE DEF q
<1>3. x \in 0 .. 2 * Capacity - 1 /\ y \in 0 .. 2 * Capacity - 1
  BY <1>1, <1>2 DEF Index
<1>4. x = y \/ (x = y - Capacity /\ y >= Capacity /\ x < Capacity)
  BY <1>1, <1>2 DEF Index
<1> HIDE DEF x, y
<1>5. Slot(x) = (IF x < Capacity THEN x ELSE x - Capacity)
  BY <1>3, Modulo
<1>6. Slot(y) = (IF y < Capacity THEN y ELSE y - Capacity)
  BY <1>3, Modulo
<1>7. Slot(x) = Slot(y)
  BY <1>1, <1>3, <1>4, <1>5, <1>6
<1>8. QED
  BY <1>7 DEF x, y, q

(* What stays is held from the slot where the next read begins. *)
LEMMA RingRest ==
  ASSUME NEW f \in [Index -> Byte], NEW r \in Index,
         NEW a \in 0 .. Capacity, NEW n \in 0 .. a
  PROVE  SubSeq(Ring(f, r, a), n + 1, a) = Ring(f, Slot(r + n), a - n)
<1> DEFINE q == Slot(r + n)
           m == a - n
<1>1. Capacity \in Nat /\ a \in Nat /\ n \in 0 .. Capacity /\ m \in 0 .. Capacity
  BY CapacityAssumption
<1>2. q \in Index
  BY <1>1, SlotAfter
<1>3. /\ Ring(f, r, a) \in Seq(Byte) /\ Len(Ring(f, r, a)) = a
      /\ \A i \in 1 .. a : Ring(f, r, a)[i] = f[Slot(r + i - 1)]
  BY RingIsSequence
<1> HIDE DEF q
<1>4. /\ Ring(f, q, m) \in Seq(Byte) /\ Len(Ring(f, q, m)) = m
      /\ \A i \in 1 .. m : Ring(f, q, m)[i] = f[Slot(q + i - 1)]
  <2> HIDE DEF m
  <2>1. QED
    BY <1>1, <1>2, RingIsSequence
<1> DEFINE s == Ring(f, r, a)
           t == Ring(f, q, m)
<1>5. \A i \in n + 1 .. a : s[i] \in Byte
  BY <1>1, <1>3, ElementOfSeq
<1>6. ASSUME NEW i \in 1 .. m PROVE s[n + i] = t[i]
  <2>1. n + i \in 1 .. a /\ i \in 1 .. Capacity - n
    BY <1>1
  <2>2. Slot(q + i - 1) = Slot(r + (n + i) - 1)
    BY <2>1, <1>1, SlotAdds DEF q
  <2>3. s[n + i] = f[Slot(r + (n + i) - 1)]
    BY <2>1, <1>3
  <2>4. QED
    BY <2>2, <2>3, <1>4
<1> HIDE DEF s, t
<1>7. /\ SubSeq(s, n + 1, a) \in Seq(Byte) /\ Len(SubSeq(s, n + 1, a)) = m
      /\ \A i \in 1 .. m : SubSeq(s, n + 1, a)[i] = s[n + i]
  <2>1. /\ SubSeq(s, n + 1, a) \in Seq(Byte)
        /\ Len(SubSeq(s, n + 1, a)) = IF n + 1 <= a THEN a - (n + 1) + 1 ELSE 0
        /\ \A i \in 1 .. a - (n + 1) + 1 : SubSeq(s, n + 1, a)[i] = s[(n + 1) + i - 1]
    BY <1>1, <1>5, SubSeqProperties
  <2>2. a - (n + 1) + 1 = m /\ \A i \in 1 .. m : (n + 1) + i - 1 = n + i
    BY <1>1
  <2>3. QED
    BY <2>1, <2>2, <1>1
<1>8. t \in Seq(Byte) /\ Len(t) = m
  BY <1>4 DEF t
<1>9. SubSeq(s, n + 1, a) = t
  BY <1>6, <1>7, <1>8, SeqEqual
<1>10. QED
  BY <1>9 DEF s, t, q, m

(* The two chunks of a read are one run of the ring. *)
LEMMA ChunksAreRing ==
  ASSUME NEW f \in [Index -> Byte], NEW r \in Index, NEW k \in 0 .. Capacity,
         NEW first \in 0 .. k, NEW next \in Index,
         r + first <= Capacity, next = Wrapped(r + first), next + (k - first) <= Capacity
  PROVE  Fetched(f, r, first) \o Fetched(f, next, k - first) = Ring(f, r, k)
<1> DEFINE s == Fetched(f, r, first)
           t == Fetched(f, next, k - first)
           u == Ring(f, r, k)
           n == k - first
<1>1. Capacity \in Nat /\ first \in Nat /\ n \in Nat /\ k \in Nat /\ k = first + n
  BY CapacityAssumption
<1>2. \A i \in 1 .. first : r + i - 1 \in Index
  BY <1>1 DEF Index
<1>3. s \in [1 .. first -> Byte] /\ \A i \in 1 .. first : s[i] = f[r + i - 1]
  BY <1>2 DEF Fetched
<1>4. \A i \in 1 .. n : next + i - 1 \in Index
  BY <1>1 DEF Index
<1>5. t \in [1 .. n -> Byte] /\ \A i \in 1 .. n : t[i] = f[next + i - 1]
  BY <1>4 DEF Fetched
<1>6. u \in Seq(Byte) /\ Len(u) = k /\ \A i \in 1 .. k : u[i] = f[Slot(r + i - 1)]
  BY RingIsSequence
<1> HIDE DEF s, t, u, n
<1>7. s \in Seq(Byte) /\ Len(s) = first /\ t \in Seq(Byte) /\ Len(t) = n
  BY <1>1, <1>3, <1>5, IsSequence
<1>8. /\ s \o t \in Seq(Byte) /\ Len(s \o t) = Len(s) + Len(t)
      /\ \A i \in 1 .. Len(s) + Len(t) : (s \o t)[i] = IF i <= Len(s) THEN s[i] ELSE t[i - Len(s)]
  BY <1>7, ConcatProperties
<1>9. ASSUME NEW i \in 1 .. k PROVE (s \o t)[i] = u[i]
  <2>1. /\ i \in Int /\ r \in Int /\ first \in Int /\ n \in Int /\ Capacity \in Int /\ k = first + n
        /\ 1 <= i /\ i <= k /\ k <= Capacity /\ 0 <= r /\ r < Capacity /\ r + first <= Capacity
    BY <1>1 DEF Index
  <2>2. i \in 1 .. Capacity
    BY <2>1
  <2>3. Slot(r + i - 1) = IF r + i - 1 < Capacity THEN r + i - 1 ELSE r + i - 1 - Capacity
    BY <2>2, SlotOf
  <2>4. CASE i <= first
    <3>1. r + i - 1 < Capacity
      BY <2>1, <2>4
    <3>2. (s \o t)[i] = s[i] /\ s[i] = f[r + i - 1]
      <4>1. i \in 1 .. first /\ i \in 1 .. Len(s) + Len(t) /\ i <= Len(s)
        BY <2>1, <2>4, <1>7
      <4>2. QED
        BY <4>1, <1>3, <1>8
    <3>3. QED
      BY <3>1, <3>2, <2>3, <1>6
  <2>5. CASE i > first
    <3>1. i - first \in 1 .. n
      BY <2>1, <2>5
    <3>2. next + (i - first) - 1 = Slot(r + i - 1)
      <4>1. CASE r + first = Capacity
        <5>1. next = 0
          BY <4>1 DEF Wrapped
        <5>2. QED
          BY <5>1, <4>1, <2>1, <2>3, <2>5
      <4>2. CASE r + first # Capacity
        <5>1. next = r + first
          BY <4>2 DEF Wrapped
        <5>2. r + i - 1 < Capacity
          BY <5>1, <2>1, <1>1 DEF n
        <5>3. QED
          BY <5>1, <5>2, <2>1, <2>3, <1>1
      <4>3. QED
        BY <4>1, <4>2
    <3>3. (s \o t)[i] = t[i - first]
      <4>1. i \in 1 .. Len(s) + Len(t) /\ ~(i <= Len(s)) /\ Len(s) = first
        BY <2>1, <2>5, <1>7
      <4>2. QED
        BY <4>1, <1>8
    <3>4. QED
      BY <3>1, <3>2, <3>3, <1>5, <1>6
  <2>6. i <= first \/ i > first
    BY <2>1
  <2>7. QED
    BY <2>4, <2>5, <2>6
<1>10. Len(s \o t) = k
  BY <1>1, <1>7, <1>8
<1>11. s \o t = u
  BY <1>6, <1>8, <1>9, <1>10, SeqEqual
<1>12. QED
  BY <1>11 DEF s, t, u, n

(* The data area f with the bytes c at the slot w, once around at most, is  *)
(* the data area g.                                                         *)
StoredAt(g, f, w, c) ==
  \A i \in Index :
     g[i] = IF i >= w /\ i - w < Len(c) THEN c[i - w + 1]
            ELSE IF i + Capacity - w < Len(c) THEN c[i + Capacity - w + 1]
            ELSE f[i]

(* Where a byte of the second chunk is in the bytes to write. *)
LEMMA InSecondChunk ==
  ASSUME NEW n \in Int, NEW first \in Int, NEW next \in Int, NEW i \in Int,
         0 <= first, first <= n, i >= next, i - next < n - first
  PROVE  /\ i - next + 1 \in 1 .. n - first
         /\ first + (i - next + 1) \in 1 .. n
OBVIOUS

(* The second chunk goes on where the first one ended. *)
LEMMA ChunksMeet ==
  ASSUME NEW n \in Int, NEW first \in Int, NEW w \in Int, NEW i \in Int,
         0 <= first, first <= n, i >= w + first, i - (w + first) < n - first
  PROVE  i >= w /\ i - w < n /\ i - w + 1 = first + (i - (w + first) + 1)
OBVIOUS

(* The two chunks of a write put every byte at its slot. *)
LEMMA ChunksAreStored ==
  ASSUME NEW f \in [Index -> Byte], NEW w \in Index, NEW c \in Seq(Byte),
         Len(c) <= Capacity, NEW first \in 0 .. Len(c), NEW next \in Index,
         w + first <= Capacity, next = Wrapped(w + first),
         next + (Len(c) - first) <= Capacity,
         NEW g, g = Stored(Stored(f, w, SubSeq(c, 1, first)),
                           next, SubSeq(c, first + 1, Len(c)))
  PROVE  g \in [Index -> Byte] /\ StoredAt(g, f, w, c)
<1> DEFINE n == Len(c)
           p == SubSeq(c, 1, first)
           s == SubSeq(c, first + 1, n)
<1>1. /\ Capacity \in Nat \ {0} /\ n \in Nat /\ first \in 0 .. n /\ n <= Capacity
      /\ next + (n - first) <= Capacity
  BY CapacityAssumption, LenProperties
<1>2. \A i \in 1 .. n : c[i] \in Byte
  BY ElementOfSeq
<1>3. g = Stored(Stored(f, w, p), next, s)
  OBVIOUS
<1> HIDE DEF n
<1>4. Len(p) = first /\ \A i \in 1 .. first : p[i] = c[i]
  <2>1. \A i \in 1 .. first : c[i] \in Byte
    BY <1>1, <1>2
  <2>2. /\ Len(p) = IF 1 <= first THEN first - 1 + 1 ELSE 0
        /\ \A i \in 1 .. first - 1 + 1 : p[i] = c[1 + i - 1]
    BY <2>1, <1>1, SubSeqProperties
  <2> HIDE DEF p
  <2>3. QED
    BY <2>2, <1>1
<1>5. Len(s) = n - first /\ \A i \in 1 .. n - first : s[i] = c[first + i]
  <2>1. \A i \in first + 1 .. n : c[i] \in Byte
    BY <1>1, <1>2
  <2>2. /\ Len(s) = IF first + 1 <= n THEN n - (first + 1) + 1 ELSE 0
        /\ \A i \in 1 .. n - (first + 1) + 1 : s[i] = c[(first + 1) + i - 1]
    BY <2>1, <1>1, SubSeqProperties
  <2> HIDE DEF s
  <2>3. n - (first + 1) + 1 = n - first /\ \A i \in 1 .. n - first : (first + 1) + i - 1 = first + i
    BY <1>1
  <2>4. QED
    BY <2>2, <2>3, <1>1
<1> HIDE DEF p, s
<1>6. ASSUME NEW i \in Index
      PROVE  g[i] = IF i >= next /\ i - next < n - first THEN s[i - next + 1]
                    ELSE IF i >= w /\ i - w < first THEN p[i - w + 1]
                    ELSE f[i]
  <2>1. i \in Int /\ w \in Int /\ next \in Int /\ n \in Int /\ first \in Int
    BY <1>1 DEF Index
  <2>2. g[i] = IF i \in next .. next + Len(s) - 1 THEN s[i - next + 1]
               ELSE IF i \in w .. w + Len(p) - 1 THEN p[i - w + 1] ELSE f[i]
    BY <1>3 DEF Stored
  <2>3. i \in next .. next + Len(s) - 1 <=> i >= next /\ i - next < n - first
    <3>1. i \in next .. next + (n - first) - 1 <=> i >= next /\ i - next < n - first
      BY <2>1
    <3>2. QED
      BY <3>1, <1>5
  <2>4. i \in w .. w + Len(p) - 1 <=> i >= w /\ i - w < first
    <3>1. i \in w .. w + first - 1 <=> i >= w /\ i - w < first
      BY <2>1
    <3>2. QED
      BY <3>1, <1>4
  <2>5. QED
    BY <2>2, <2>3, <2>4
<1>7. DOMAIN g = Index /\ g = [i \in Index |-> g[i]]
  BY <1>3 DEF Stored
<1>8. ASSUME NEW i \in Index
      PROVE  /\ g[i] = IF i >= w /\ i - w < n THEN c[i - w + 1]
                       ELSE IF i + Capacity - w < n THEN c[i + Capacity - w + 1]
                       ELSE f[i]
             /\ g[i] \in Byte
  <2>1. /\ i \in Int /\ w \in Int /\ next \in Int /\ first \in Int
        /\ n \in Int /\ Capacity \in Int
        /\ 0 <= i /\ i < Capacity /\ 0 <= w /\ w < Capacity /\ 0 <= first /\ first <= n
        /\ n <= Capacity /\ 0 <= next /\ next + (n - first) <= Capacity /\ w + first <= Capacity
    BY <1>1 DEF Index
  <2>2. CASE i >= next /\ i - next < n - first
    <3>1. i - next + 1 \in 1 .. n - first /\ g[i] = s[i - next + 1]
      <4>1. i - next + 1 \in 1 .. n - first
        BY <2>1, <2>2, InSecondChunk
      <4>2. QED
        BY <4>1, <2>2, <1>6
    <3>2. g[i] = c[first + (i - next + 1)] /\ first + (i - next + 1) \in 1 .. n
      <4>1. first + (i - next + 1) \in 1 .. n
        BY <2>1, <2>2, InSecondChunk
      <4>2. QED
        BY <4>1, <3>1, <1>5
    <3>3. CASE w + first = Capacity
      <4>1. next = 0
        BY <3>3 DEF Wrapped
      <4>2. ~(i >= w /\ i - w < n) /\ i + Capacity - w < n
             /\ i + Capacity - w + 1 = first + (i - next + 1)
        BY <4>1, <3>3, <2>1, <2>2
      <4>3. QED
        BY <4>2, <3>2, <1>2
    <3>4. CASE w + first # Capacity
      <4>1. next = w + first
        BY <3>4 DEF Wrapped
      <4>2. i >= w /\ i - w < n /\ i - w + 1 = first + (i - next + 1)
        <5>1. i >= w + first /\ i - (w + first) < n - first
          BY <4>1, <2>2
        <5>2. i >= w /\ i - w < n /\ i - w + 1 = first + (i - (w + first) + 1)
          BY <5>1, <2>1, ChunksMeet
        <5>3. QED
          BY <4>1, <5>2
      <4>3. QED
        BY <4>2, <3>2, <1>2
    <3>5. QED
      BY <3>3, <3>4
  <2>3. CASE ~(i >= next /\ i - next < n - first) /\ i >= w /\ i - w < first
    <3>1. i - w + 1 \in 1 .. first /\ g[i] = p[i - w + 1] /\ i - w < n
      <4>1. i - w + 1 \in 1 .. first /\ i - w < n
        BY <2>1, <2>3
      <4>2. QED
        BY <4>1, <2>3, <1>6
    <3>2. g[i] = c[i - w + 1] /\ i - w + 1 \in 1 .. n
      <4>1. i - w + 1 \in 1 .. n
        BY <2>1, <2>3
      <4>2. QED
        BY <4>1, <3>1, <1>4
    <3>3. QED
      BY <3>1, <3>2, <2>3, <1>2
  <2>4. CASE ~(i >= next /\ i - next < n - first) /\ ~(i >= w /\ i - w < first)
    <3>1. g[i] = f[i]
      BY <2>4, <1>6
    <3>2. ~(i >= w /\ i - w < n) /\ ~(i + Capacity - w < n)
      <4>1. CASE w + first = Capacity
        <5>1. next = 0
          BY <4>1 DEF Wrapped
        <5>2. QED
          BY <5>1, <4>1, <2>1, <2>4
      <4>2. CASE w + first # Capacity
        <5>1. next = w + first
          BY <4>2 DEF Wrapped
        <5>2. QED
          BY <5>1, <2>1, <2>4
      <4>3. QED
        BY <4>1, <4>2
    <3>3. QED
      BY <3>1, <3>2
  <2>5. QED
    BY <2>2, <2>3, <2>4
<1>9. g \in [Index -> Byte]
  BY <1>7, <1>8
<1>10. QED
  BY <1>8, <1>9 DEF StoredAt, n

(* What is written follows what was held, wherever the data area wraps. *)
LEMMA RingGrows ==
  ASSUME NEW f \in [Index -> Byte], NEW g \in [Index -> Byte],
         NEW r \in Index, NEW a \in 0 .. Capacity, NEW c \in Seq(Byte),
         NEW w \in Index, a + Len(c) <= Capacity, w = Slot(r + a),
         StoredAt(g, f, w, c)
  PROVE  Ring(g, r, a + Len(c)) = Ring(f, r, a) \o c
<1> DEFINE n == Len(c)
           h == Ring(f, r, a)
           u == Ring(g, r, a + n)
<1>1. Capacity \in Nat \ {0} /\ n \in Nat /\ a \in Nat /\ a + n \in 0 .. Capacity
  BY CapacityAssumption, LenProperties
<1>2. w = (IF r + a < Capacity THEN r + a ELSE r + a - Capacity)
  BY SlotAfter
<1>3. h \in Seq(Byte) /\ Len(h) = a /\ \A i \in 1 .. a : h[i] = f[Slot(r + i - 1)]
  BY RingIsSequence
<1> HIDE DEF n
<1>4. u \in Seq(Byte) /\ Len(u) = a + n /\ \A i \in 1 .. a + n : u[i] = g[Slot(r + i - 1)]
  BY <1>1, RingIsSequence
<1> HIDE DEF h, u
<1>5. /\ h \o c \in Seq(Byte) /\ Len(h \o c) = a + n
      /\ \A i \in 1 .. a + n : (h \o c)[i] = IF i <= a THEN h[i] ELSE c[i - a]
  BY <1>3, ConcatProperties DEF n
<1>6. ASSUME NEW j \in Index
      PROVE  g[j] = IF j >= w /\ j - w < n THEN c[j - w + 1]
                    ELSE IF j + Capacity - w < n THEN c[j + Capacity - w + 1]
                    ELSE f[j]
  BY DEF n, StoredAt
<1>7. ASSUME NEW i \in 1 .. a + n PROVE u[i] = (h \o c)[i]
  <2> DEFINE j == Slot(r + i - 1)
  <2>1. /\ i \in Int /\ r \in Int /\ 1 <= i /\ i <= a + n /\ 0 <= r /\ r < Capacity
        /\ a + n <= Capacity /\ a \in Int /\ n \in Int /\ w \in Int /\ Capacity \in Int
        /\ 0 <= a /\ 0 <= n /\ 0 <= w
    BY <1>1 DEF Index
  <2>2. i \in 1 .. Capacity
    BY <2>1
  <2>3. j = (IF r + i - 1 < Capacity THEN r + i - 1 ELSE r + i - 1 - Capacity) /\ j \in Index
    BY <2>2, SlotOf
  <2>4. u[i] = g[j]
    BY <1>4
  <2> HIDE DEF j
  <2>5. j \in Int /\ 0 <= j /\ j < Capacity
    BY <2>3, <1>1 DEF Index
  <2>6. CASE i <= a
    <3>1. ~(j >= w /\ j - w < n) /\ ~(j + Capacity - w < n)
      BY <2>1, <2>3, <2>5, <2>6, <1>2
    <3>2. g[j] = f[j] /\ h[i] = f[j]
      <4>1. i \in 1 .. a
        BY <2>1, <2>6
      <4>2. QED
        BY <4>1, <3>1, <2>3, <1>3, <1>6 DEF j
    <3>3. QED
      BY <3>2, <2>4, <2>6, <1>5
  <2>7. CASE i > a
    <3>1. (h \o c)[i] = c[i - a]
      BY <2>1, <2>7, <1>5
    <3>2. CASE r + i - 1 < Capacity
      <4>1. j = r + i - 1 /\ w = r + a
        BY <3>2, <2>1, <2>3, <2>7, <1>2
      <4>2. j >= w /\ j - w < n /\ j - w + 1 = i - a
        BY <4>1, <2>1, <2>7
      <4>3. QED
        BY <4>2, <3>1, <2>3, <2>4, <1>6
    <3>3. CASE ~(r + i - 1 < Capacity) /\ r + a < Capacity
      <4>1. j = r + i - 1 - Capacity /\ w = r + a
        BY <3>3, <2>3, <1>2
      <4>2. ~(j >= w) /\ j + Capacity - w < n /\ j + Capacity - w + 1 = i - a
        BY <4>1, <3>3, <2>1, <2>7
      <4>3. QED
        BY <4>2, <3>1, <2>3, <2>4, <1>6
    <3>4. CASE ~(r + i - 1 < Capacity) /\ ~(r + a < Capacity)
      <4>1. j = r + i - 1 - Capacity /\ w = r + a - Capacity
        BY <3>4, <2>3, <1>2
      <4>2. j >= w /\ j - w < n /\ j - w + 1 = i - a
        BY <4>1, <2>1, <2>7
      <4>3. QED
        BY <4>2, <3>1, <2>3, <2>4, <1>6
    <3>5. QED
      BY <3>2, <3>3, <3>4
  <2>8. i <= a \/ i > a
    BY <2>1
  <2>9. QED
    BY <2>6, <2>7, <2>8
<1>8. u = h \o c
  BY <1>4, <1>5, <1>7, SeqEqual
<1>9. QED
  BY <1>8 DEF u, h, n
-----------------------------------------------------------------------------
(* The ring implements the queue of CircularBuffer.h. *)

DataInv == IndexInv /\ data \in [Index -> Byte]

LEMMA WriteIndexIsSlot == ASSUME IndexInv PROVE writeIdx = Slot(readIdx + size)
<1>1. Slot(readIdx + size) = IF readIdx + size < Capacity
                             THEN readIdx + size ELSE readIdx + size - Capacity
  BY SlotAfter DEF IndexInv
<1>2. QED
  BY <1>1, CapacityAssumption DEF IndexInv, IndicesAgree, Index

(* The first chunk of a transfer, and the second one, stay in the data area. *)
LEMMA ReadChunks ==
  ASSUME IndexInv, NEW n \in Nat,
         NEW k, k = Smaller(size, n),
         NEW first, first = ChunkToEnd(readIdx, writeIdx, k),
         NEW next, next = Wrapped(readIdx + first)
  PROVE  /\ k \in 0 .. size /\ k <= n /\ first \in 0 .. k /\ next \in Index
         /\ readIdx + first <= Capacity /\ next + (k - first) <= Capacity
         /\ next + (k - first) = Slot(readIdx + k)
<1>1. /\ k \in 0 .. size /\ k <= n /\ first \in 0 .. k /\ next \in Index
      /\ readIdx + first <= Capacity /\ next + (k - first) < Capacity
  BY CapacityAssumption
     DEF IndexInv, IndicesAgree, Index, Smaller, ChunkToEnd, Wrapped
<1>2. Slot(readIdx + k) = IF readIdx + k < Capacity THEN readIdx + k ELSE readIdx + k - Capacity
  <2>1. k \in 0 .. Capacity
    BY <1>1, CapacityAssumption DEF IndexInv
  <2>2. QED
    BY <2>1, SlotAfter DEF IndexInv
<1>3. next + (k - first) = Slot(readIdx + k)
  BY <1>1, <1>2, CapacityAssumption DEF IndexInv, Index, Wrapped
<1>4. QED
  BY <1>1, <1>3, CapacityAssumption DEF IndexInv, Index

LEMMA WriteChunks ==
  ASSUME IndexInv, NEW n \in Nat, ~(Capacity - size < n),
         NEW first, first = ChunkToEnd(writeIdx, readIdx, n),
         NEW next, next = Wrapped(writeIdx + first)
  PROVE  /\ size + n <= Capacity /\ first \in 0 .. n /\ next \in Index
         /\ writeIdx + first <= Capacity /\ next + (n - first) <= Capacity
BY CapacityAssumption
   DEF IndexInv, IndicesAgree, Index, Smaller, ChunkToEnd, Wrapped

LEMMA HeldIsRing == Contents = Ring(data, readIdx, size)
BY DEF Contents, Ring, Slot

LEMMA HeldIsSequence == ASSUME DataInv PROVE Contents \in Seq(Byte) /\ Len(Contents) = size
BY HeldIsRing, RingIsSequence DEF DataInv, IndexInv

LEMMA HeldAfter == Contents' = Ring(data', readIdx', size')
BY DEF Contents, Ring, Slot

(* k bytes leave the ring. *)
LEMMA TakenFromFront ==
  ASSUME DataInv, NEW k \in 0 .. size,
         size' = size - k, readIdx' = Slot(readIdx + k), data' = data
  PROVE  Contents' = SubSeq(Contents, k + 1, Len(Contents))
<1>1. SubSeq(Ring(data, readIdx, size), k + 1, size) = Ring(data, Slot(readIdx + k), size - k)
  BY RingRest DEF DataInv, IndexInv
<1>2. QED
  BY <1>1, HeldIsRing, HeldAfter, HeldIsSequence

LEMMA ReadImplements ==
  ASSUME DataInv, NEW n \in Nat, Read(n)
  PROVE  Fifo!Read(n) /\ data' \in [Index -> Byte]
<1> DEFINE k     == Smaller(size, n)
           first == ChunkToEnd(readIdx, writeIdx, k)
           next  == Wrapped(readIdx + first)
<1>1. /\ buf' = Fetched(data, readIdx, first) \o Fetched(data, next, k - first)
      /\ size' = size - k /\ readIdx' = next + (k - first) /\ ret' = k /\ data' = data
  BY DEF Read
<1>2. /\ k \in 0 .. size /\ k <= n /\ first \in 0 .. k /\ next \in Index
      /\ readIdx + first <= Capacity /\ next + (k - first) <= Capacity
      /\ next + (k - first) = Slot(readIdx + k)
  BY ReadChunks DEF DataInv
<1>3. next = Wrapped(readIdx + first) /\ k = Smaller(size, n)
  OBVIOUS
<1> HIDE DEF k, first, next
<1>4. k \in 0 .. Capacity /\ readIdx \in Index /\ data \in [Index -> Byte] /\ size \in 0 .. Capacity
  BY <1>2, CapacityAssumption DEF DataInv, IndexInv
<1>5. buf' = Ring(data, readIdx, k)
  BY <1>1, <1>2, <1>3, <1>4, ChunksAreRing
<1>6. buf' = SubSeq(Contents, 1, k)
  BY <1>2, <1>4, <1>5, RingFront, HeldIsRing
<1>7. Contents' = SubSeq(Contents, k + 1, Len(Contents))
  BY <1>1, <1>2, TakenFromFront
<1>8. k = Smaller(Len(Contents), n)
  BY <1>3, HeldIsSequence
<1>9. QED
  BY <1>1, <1>4, <1>6, <1>7, <1>8 DEF Fifo!Read, Fifo!Take, Fifo!Smaller, Smaller

LEMMA SkipImplements ==
  ASSUME DataInv, NEW n \in Nat, Skip(n)
  PROVE  Fifo!Skip(n) /\ data' \in [Index -> Byte]
<1> DEFINE k == Smaller(size, n)
<1>1. k \in 0 .. size /\ k \in 0 .. Capacity
  BY CapacityAssumption DEF DataInv, IndexInv, Smaller
<1>2. /\ readIdx' = IF readIdx + k >= Capacity THEN readIdx + k - Capacity ELSE readIdx + k
      /\ size' = size - k /\ ret' = k /\ buf' = <<>> /\ data' = data
  <2>1. k \in Int /\ readIdx \in Int /\ Capacity \in Int
    BY <1>1, CapacityAssumption DEF DataInv, IndexInv, Index
  <2>2. QED
    BY <2>1 DEF Skip
<1>3. k = Smaller(Len(Contents), n)
  BY HeldIsSequence
<1> HIDE DEF k
<1>4. Slot(readIdx + k) = IF readIdx + k < Capacity THEN readIdx + k ELSE readIdx + k - Capacity
  BY <1>1, SlotAfter DEF DataInv, IndexInv
<1>5. readIdx' = Slot(readIdx + k)
  BY <1>1, <1>2, <1>4, CapacityAssumption DEF DataInv, IndexInv, Index
<1>6. Contents' = SubSeq(Contents, k + 1, Len(Contents))
  BY <1>1, <1>2, <1>5, TakenFromFront
<1>7. QED
  BY <1>2, <1>3, <1>6 DEF DataInv, Fifo!Skip, Fifo!Take, Fifo!Smaller, Smaller

LEMMA WriteImplements ==
  ASSUME DataInv, NEW bytes \in Transfers, Write(bytes)
  PROVE  Fifo!Write(bytes) /\ data' \in [Index -> Byte]
<1> DEFINE n == Len(bytes)
<1>1. bytes \in Seq(Byte) /\ n \in Nat
  BY TransferIsSequence, LenProperties
<1>2. Len(Contents) = size /\ size \in Nat /\ Capacity \in Nat
  BY HeldIsSequence, CapacityAssumption DEF DataInv, IndexInv
<1>3. CASE Capacity - size < n
  <2>1. ret' = -1 /\ size' = size /\ data' = data /\ readIdx' = readIdx /\ buf' = bytes
    BY <1>3 DEF Write, WriteRefused
  <2>2. Contents' = Contents
    BY <2>1, HeldIsRing, HeldAfter
  <2>3. ~(Len(Contents) + n <= Capacity)
    BY <1>1, <1>2, <1>3
  <2>4. QED
    BY <2>1, <2>2, <2>3 DEF DataInv, Fifo!Write
<1>4. CASE ~(Capacity - size < n)
  <2> DEFINE first == ChunkToEnd(writeIdx, readIdx, n)
             next  == Wrapped(writeIdx + first)
  <2>1. /\ data' = Stored(Stored(data, writeIdx, SubSeq(bytes, 1, first)),
                          next, SubSeq(bytes, first + 1, n))
        /\ size' = size + n /\ ret' = n /\ readIdx' = readIdx /\ buf' = bytes
    BY <1>4 DEF Write, WriteStored
  <2>2. /\ size + n <= Capacity /\ first \in 0 .. n /\ next \in Index
        /\ writeIdx + first <= Capacity /\ next + (n - first) <= Capacity
    <3> HIDE DEF n
    <3>1. QED
      BY <1>1, <1>4, WriteChunks DEF DataInv
  <2>3. next = Wrapped(writeIdx + first)
    OBVIOUS
  <2> HIDE DEF first, next
  <2>4. n <= Capacity
    BY <1>1, <1>2, <2>2
  <2>5. data' \in [Index -> Byte] /\ StoredAt(data', data, writeIdx, bytes)
    BY <1>1, <2>1, <2>2, <2>3, <2>4, ChunksAreStored DEF DataInv, IndexInv
  <2>6. Ring(data', readIdx, size + n) = Ring(data, readIdx, size) \o bytes
    BY <1>1, <2>2, <2>5, WriteIndexIsSlot, RingGrows DEF DataInv, IndexInv
  <2>7. Contents' = Contents \o bytes
    BY <2>1, <2>6, HeldIsRing, HeldAfter
  <2>8. Len(Contents) + n <= Capacity
    BY <1>2, <2>2
  <2>9. QED
    BY <2>1, <2>5, <2>7, <2>8 DEF Fifo!Write
<1>5. QED
  BY <1>3, <1>4

LEMMA NothingHeld == ASSUME size = 0 PROVE Contents = <<>>
<1>1. Contents \in [1 .. 0 -> Byte]
  BY DEF Contents
<1>2. Contents \in Seq(Byte) /\ Len(Contents) = 0
  BY <1>1, IsSequence
<1>3. QED
  BY <1>2, EmptySeq

LEMMA ResetImplements ==
  ASSUME DataInv, Reset
  PROVE  Fifo!Reset /\ data' \in [Index -> Byte]
<1>1. size' = 0 /\ data' = data /\ ret' = 0 /\ buf' = <<>>
  BY DEF Reset
<1>2. Contents' \in [1 .. 0 -> Byte]
  BY <1>1 DEF Contents
<1>3. Contents' \in Seq(Byte) /\ Len(Contents') = 0
  BY <1>2, IsSequence
<1>4. Contents' = <<>>
  BY <1>3, EmptySeq
<1>5. QED
  BY <1>1, <1>4 DEF Fifo!Reset, DataInv

LEMMA SameTransfers == Fifo!Transfers = Transfers
BY DEF Fifo!Transfers, Transfers

(* Every call is the call of the queue, or changes nothing in it. *)
LEMMA StepImplements ==
  ASSUME DataInv, [Next]_vars
  PROVE  [Fifo!Next]_(Fifo!vars) /\ data' \in [Index -> Byte]
<1>1. ASSUME NEW bytes \in Transfers, Write(bytes)
      PROVE  Fifo!Next /\ data' \in [Index -> Byte]
  BY <1>1, WriteImplements, SameTransfers DEF Fifo!Next
<1>2. ASSUME NEW n \in 0 .. MaxTransfer, Read(n)
      PROVE  Fifo!Next /\ data' \in [Index -> Byte]
  BY <1>2, ReadImplements, TransferAssumption DEF Fifo!Next
<1>3. ASSUME NEW n \in 0 .. MaxTransfer, Skip(n)
      PROVE  Fifo!Next /\ data' \in [Index -> Byte]
  BY <1>3, SkipImplements, TransferAssumption DEF Fifo!Next
<1>4. CASE Reset
  BY <1>4, ResetImplements DEF Fifo!Next
<1>5. CASE UNCHANGED vars
  <2>1. Contents' = Contents
    BY <1>5, HeldIsRing, HeldAfter DEF vars
  <2>2. QED
    BY <1>5, <2>1 DEF vars, Fifo!vars, DataInv
<1>6. QED
  BY <1>1, <1>2, <1>3, <1>4, <1>5 DEF Next

LEMMA DataInvariant == Spec => []DataInv
<1>1. Init => data \in [Index -> Byte]
  BY DEF Init
<1>2. data \in [Index -> Byte] /\ IndexInv /\ [Next]_vars => (data \in [Index -> Byte])'
  BY StepImplements DEF DataInv
<1>3. QED
  BY <1>1, <1>2, IndexInvariant, PTL DEF Spec, DataInv

(* No byte is lost, doubled or reordered, for every capacity and transfer:  *)
(* the ring is the queue CircularBuffer.h describes.                        *)
THEOREM ImplementsFifo == Spec => IsFifo
<1>1. Init => Fifo!Init
  BY NothingHeld DEF Init, Fifo!Init
<1>2. DataInv /\ [Next]_vars => [Fifo!Next]_(Fifo!vars)
  BY StepImplements
<1>3. QED
  BY <1>1, <1>2, DataInvariant, PTL DEF Spec, IsFifo, Fifo!Spec

-----------------------------------------------------------------------------
(* What a call returns, and leaves in the caller's buffer. *)
Results == ret \in -1 .. MaxTransfer /\ buf \in Transfers

LEMMA NoBytes == <<>> \in Transfers
<1>1. <<>> \in Seq(Byte) /\ Len(<<>>) = 0
  BY EmptySeq
<1>2. Len(<<>>) \in 0 .. MaxTransfer
  BY <1>1, TransferAssumption
<1>3. QED
  BY <1>1, <1>2, SequenceIsTransfer, Zenon

LEMMA WriteResults == ASSUME NEW bytes \in Transfers, Write(bytes) PROVE Results'
<1>1. Len(bytes) \in 0 .. MaxTransfer /\ MaxTransfer \in Nat
  BY TransferIsSequence, TransferAssumption
<1>2. (ret' = -1 \/ ret' = Len(bytes)) /\ buf' = bytes
  BY DEF Write, WriteRefused, WriteStored
<1>3. QED
  BY <1>1, <1>2 DEF Results

LEMMA ReadResults == ASSUME DataInv, NEW n \in 0 .. MaxTransfer, Read(n) PROVE Results'
<1> DEFINE k == Smaller(Len(Contents), n)
<1>1. n \in Nat /\ MaxTransfer \in Nat
  BY TransferAssumption
<1>2. Fifo!Read(n)
  BY <1>1, ReadImplements
<1>3. ret' = k /\ buf' = SubSeq(Contents, 1, k)
  BY <1>2 DEF Fifo!Read, Fifo!Take, Fifo!Smaller, Smaller
<1>4. Contents \in Seq(Byte) /\ Len(Contents) \in Nat
  BY HeldIsSequence, LenProperties
<1>5. k \in Nat /\ k <= Len(Contents) /\ k <= n
  BY <1>1, <1>4 DEF Smaller
<1> HIDE DEF k
<1>6. \A i \in 1 .. k : Contents[i] \in Byte
  BY <1>4, <1>5, ElementOfSeq
<1>7. SubSeq(Contents, 1, k) \in Seq(Byte) /\ Len(SubSeq(Contents, 1, k)) = k
  BY <1>5, <1>6, SubSeqProperties
<1>8. buf' \in Transfers
  <2>1. k \in 0 .. MaxTransfer
    BY <1>1, <1>5
  <2>2. QED
    BY <2>1, <1>3, <1>7, SequenceIsTransfer
<1>9. QED
  BY <1>1, <1>3, <1>5, <1>8 DEF Results

LEMMA SkipResults == ASSUME DataInv, NEW n \in 0 .. MaxTransfer, Skip(n) PROVE Results'
<1>1. ret' = Smaller(size, n) /\ buf' = <<>>
  BY DEF Skip
<1>2. Smaller(size, n) \in -1 .. MaxTransfer
  BY TransferAssumption, CapacityAssumption DEF DataInv, IndexInv, Smaller
<1>3. QED
  BY <1>1, <1>2, NoBytes DEF Results

LEMMA ResultsInvariant == Spec => []Results
<1>1. Init => Results
  BY NoBytes, TransferAssumption DEF Init, Results
<1>2. DataInv /\ Results /\ [Next]_vars => Results'
  <2> SUFFICES ASSUME DataInv, Results, [Next]_vars PROVE Results'
    OBVIOUS
  <2>1. ASSUME NEW bytes \in Transfers, Write(bytes) PROVE Results'
    BY <2>1, WriteResults
  <2>2. ASSUME NEW n \in 0 .. MaxTransfer, Read(n) PROVE Results'
    BY <2>2, ReadResults
  <2>3. ASSUME NEW n \in 0 .. MaxTransfer, Skip(n) PROVE Results'
    BY <2>3, SkipResults
  <2>4. CASE Reset
    BY <2>4, NoBytes, TransferAssumption DEF Reset, Results
  <2>5. CASE UNCHANGED vars
    BY <2>5 DEF vars, Results
  <2>6. QED
    BY <2>1, <2>2, <2>3, <2>4, <2>5 DEF Next
<1>3. QED
  BY <1>1, <1>2, DataInvariant, PTL DEF Spec

(* Type correctness, and with it that no call stores or fetches outside the *)
(* data area (CircularBuffer.c:66-84, 127-144).                                        *)
THEOREM TypeCorrect == Spec => []TypeOK
<1>1. DataInv /\ Results => TypeOK
  BY DEF DataInv, IndexInv, Results, TypeOK
<1>2. QED
  BY <1>1, DataInvariant, ResultsInvariant, PTL
=============================================================================
