--------------------------- MODULE CircularBuffer ---------------------------
(***************************************************************************)
(* The byte ring of shared/src/CircularBuffer.c: a data area of capacity   *)
(* bytes, a count and two indices.  PutAudio writes it and Advance reads   *)
(* it under the recognizer's lock, so each call is one step here.          *)
(*                                                                         *)
(* Read and Write copy at most two chunks.  Only the first chunk tests for *)
(* the end of the data area; that the second one never has to is what the  *)
(* index invariant below is about.                                         *)
(***************************************************************************)
EXTENDS Integers, Sequences

CONSTANTS Capacity,      \* size of the data area in bytes
          Byte,          \* values a byte is drawn from
          MaxTransfer    \* largest bufSize a caller passes

ASSUME CapacityAssumption == Capacity \in Nat \ {0}
ASSUME TransferAssumption == MaxTransfer \in Nat

VARIABLES size,          \* bytes in the buffer
          readIdx,       \* where the next byte is read
          writeIdx,      \* where the next byte is written
          data,          \* the data area behind the header
          ret,           \* value returned by the last call
          buf            \* the caller's buffer: what Write was given, what Read stored

vars == <<size, readIdx, writeIdx, data, ret, buf>>

Index == 0 .. Capacity - 1

Smaller(a, b) == IF a < b THEN a ELSE b

Transfers == UNION {[1 .. n -> Byte] : n \in 0 .. MaxTransfer}

(* memcpy into, and out of, the data area. *)
Stored(area, at, bytes) ==
  [i \in Index |-> IF i \in at .. at + Len(bytes) - 1 THEN bytes[i - at + 1] ELSE area[i]]

Fetched(area, at, n) == [i \in 1 .. n |-> area[at + i - 1]]

(* Faulty, used by no action: the first chunk not cut at the end of the data area. *)
ChunkToEndOfCount(idx, other, n) == IF idx >= other THEN n ELSE 0

(* The chunk copied up to the end of the data area when the moving index is *)
(* not behind the other one, and where the second chunk starts after it.    *)
ChunkToEnd(idx, other, n) == IF idx >= other THEN Smaller(Capacity - idx, n) ELSE 0

Wrapped(idx) == IF idx = Capacity THEN 0 ELSE idx
-----------------------------------------------------------------------------
(* CircularBufferCreate ends in CircularBufferReset; the data area is what *)
(* MALLOC returned.                                                        *)
Init == /\ size = 0 /\ readIdx = 0 /\ writeIdx = 0
        /\ data \in [Index -> Byte]
        /\ ret = 0 /\ buf = <<>>

Reset == /\ size' = 0 /\ readIdx' = 0 /\ writeIdx' = 0
         /\ ret' = 0 /\ buf' = <<>>
         /\ UNCHANGED data

(* A short count is not an error: the caller gets what there is. *)
Read(bufSize) ==
  LET n     == Smaller(size, bufSize)
      first == ChunkToEnd(readIdx, writeIdx, n)
      next  == Wrapped(readIdx + first)
      rest  == n - first
  IN  /\ buf' = Fetched(data, readIdx, first) \o Fetched(data, next, rest)
      /\ size' = size - n
      /\ readIdx' = next + rest
      /\ ret' = n
      /\ UNCHANGED <<writeIdx, data>>

(* Faulty, used by no action: a skip that wraps one byte late. *)
SkipToCapacity(bufSize) ==
  LET n   == Smaller(size, bufSize)
      idx == readIdx + n
  IN  /\ readIdx' = IF idx > Capacity THEN idx - Capacity ELSE idx
      /\ size' = size - n
      /\ ret' = n /\ buf' = <<>>
      /\ UNCHANGED <<writeIdx, data>>

Skip(bufSize) ==
  LET n   == Smaller(size, bufSize)
      idx == readIdx + n
  IN  /\ readIdx' = IF idx >= Capacity THEN idx - Capacity ELSE idx
      /\ size' = size - n
      /\ ret' = n /\ buf' = <<>>
      /\ UNCHANGED <<writeIdx, data>>

(* All or nothing: too little room is an error and stores nothing. *)
WriteRefused == ret' = -1 /\ UNCHANGED <<size, writeIdx, data>>

(* Faulty, used by no action: the second chunk taken from the start of the caller's buffer. *)
WriteSameTwice(bytes) ==
  LET n     == Len(bytes)
      first == ChunkToEnd(writeIdx, readIdx, n)
      next  == Wrapped(writeIdx + first)
  IN  /\ data' = Stored(Stored(data, writeIdx, SubSeq(bytes, 1, first)),
                        next, SubSeq(bytes, 1, n - first))
      /\ size' = size + n
      /\ writeIdx' = next + (n - first)
      /\ ret' = n

WriteStored(bytes) ==
  LET n     == Len(bytes)
      first == ChunkToEnd(writeIdx, readIdx, n)
      next  == Wrapped(writeIdx + first)
  IN  /\ data' = Stored(Stored(data, writeIdx, SubSeq(bytes, 1, first)),
                        next, SubSeq(bytes, first + 1, n))
      /\ size' = size + n
      /\ writeIdx' = next + (n - first)
      /\ ret' = n

Write(bytes) ==
  /\ IF Capacity - size < Len(bytes) THEN WriteRefused ELSE WriteStored(bytes)
  /\ buf' = bytes
  /\ UNCHANGED readIdx

Next == \/ \E bytes \in Transfers : Write(bytes)
        \/ \E n \in 0 .. MaxTransfer : Read(n) \/ Skip(n)
        \/ Reset

Spec == Init /\ [][Next]_vars
-----------------------------------------------------------------------------
(* The bytes held, oldest first: the refinement mapping to ByteFifo. *)
Contents == [i \in 1 .. size |-> data[(readIdx + i - 1) % Capacity]]

Fifo == INSTANCE ByteFifo WITH queue <- Contents

(* Type correctness: both indices stay inside the data area, although only  *)
(* the first chunk of a transfer tests for its end (lines 66-84, 127-144).  *)
TypeOK == /\ size \in 0 .. Capacity
          /\ readIdx \in Index
          /\ writeIdx \in Index
          /\ data \in [Index -> Byte]
          /\ ret \in -1 .. MaxTransfer
          /\ buf \in Transfers

(* The write index is always size bytes ahead of the read index, at most    *)
(* once around: the count and the two indices, updated by separate          *)
(* statements of each call, never disagree.                                 *)
IndicesAgree == \/ writeIdx = readIdx + size
                \/ writeIdx + Capacity = readIdx + size

(* The ring implements the queue CircularBuffer.h describes: no byte is     *)
(* lost, duplicated or reordered across a wrap, and a refused write changes *)
(* nothing.                                                                 *)
IsFifo == Fifo!Spec
=============================================================================
