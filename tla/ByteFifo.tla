------------------------------ MODULE ByteFifo ------------------------------
(***************************************************************************)
(* What shared/include/CircularBuffer.h promises its callers: a bounded    *)
(* first-in first-out queue of bytes.  A write is all or nothing, a read   *)
(* or a skip takes what there is, oldest byte first.                       *)
(***************************************************************************)
EXTENDS Integers, Sequences

CONSTANTS Capacity,      \* size of the data area in bytes
          Byte,          \* values a byte is drawn from
          MaxTransfer    \* largest transfer a caller asks for

VARIABLES queue,         \* the bytes held, oldest first
          ret,           \* value returned by the last call
          buf            \* the caller's buffer: what a write was given, what a read got

vars == <<queue, ret, buf>>

Smaller(a, b) == IF a < b THEN a ELSE b

Transfers == UNION {[1 .. n -> Byte] : n \in 0 .. MaxTransfer}

Init == queue = <<>> /\ ret = 0 /\ buf = <<>>

Write(bytes) ==
  /\ IF Len(queue) + Len(bytes) <= Capacity
     THEN queue' = queue \o bytes /\ ret' = Len(bytes)
     ELSE queue' = queue /\ ret' = -1
  /\ buf' = bytes

Take(n) == queue' = SubSeq(queue, n + 1, Len(queue)) /\ ret' = n

Read(bufSize) ==
  LET n == Smaller(Len(queue), bufSize)
  IN  Take(n) /\ buf' = SubSeq(queue, 1, n)

Skip(bufSize) == Take(Smaller(Len(queue), bufSize)) /\ buf' = <<>>

Reset == queue' = <<>> /\ ret' = 0 /\ buf' = <<>>

Next == \/ \E bytes \in Transfers : Write(bytes)
        \/ \E n \in 0 .. MaxTransfer : Read(n) \/ Skip(n)
        \/ Reset

Spec == Init /\ [][Next]_vars
=============================================================================
