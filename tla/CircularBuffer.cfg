\* A ring of three bytes and transfers of up to four: every wrap position of
\* both indices, refused writes and short reads.
CONSTANTS
  Capacity = 3
  b1 = b1
  b2 = b2
  Byte <- MCByte
  MaxTransfer = 4
SPECIFICATION Spec
INVARIANTS TypeOK IndicesAgree
PROPERTY IsFifo
