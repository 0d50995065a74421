-------------------------- MODULE MCCircularBuffer --------------------------
(* CircularBuffer over two byte values, so that a byte out of place shows. *)
EXTENDS CircularBuffer, TLC

CONSTANTS b1, b2

MCByte == {b1, b2}
=============================================================================
