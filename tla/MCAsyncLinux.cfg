SPECIFICATION FairSpec
CONSTANTS
  MaxCalls = 2
  MaxSent = 3
  MaxLen = 2
  FlushMax = 2
  LineEnds <- SecondEndsLine
  OutBound = 2
INVARIANTS TypeOK ReadOnce DropsAtEnd
PROPERTY HangupNoticed
CHECK_DEADLOCK FALSE
