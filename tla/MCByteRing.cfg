SPECIFICATION RingSpec
CONSTANTS
  RingSize = 4
  Byte <- MCByte
INVARIANT WellFormed
PROPERTY ImplementsFifo
