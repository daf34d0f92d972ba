SPECIFICATION Spec
CONSTANTS
  MaxCalls = 2
  MaxSent = 3
  MaxLen = 2
  FlushMax = 2
  LineEnds <- SecondEndsLine
  OutBound = 2
INVARIANT NoCarrierNoPeer
CHECK_DEADLOCK FALSE
