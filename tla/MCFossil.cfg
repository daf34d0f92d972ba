SPECIFICATION Spec
CONSTANTS
  RingSize = 2
  Byte <- MCByte
  Blocks <- MCBlocks
  NoByte = NoByte
INVARIANTS
  TypeOK
  MsrMatchesLine
  CarrierChangeLatched
  StatusKept
  PeekKept
PROPERTY RxWaitWakes
