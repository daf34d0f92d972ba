SPECIFICATION Spec
CONSTANTS
  Threads = {t1, t2}
  Waits = {i1}
  NoIrp = NoIrp
  Values <- TwoRates
  Signals = {"CTS"}
  Is60MHz = FALSE
  MaxOpens = 1
  MaxCalls = 2
  MaxSleeps = 0
  MaxChanges = 0
INVARIANT ReportedRuns
CHECK_DEADLOCK FALSE
