SPECIFICATION Spec
CONSTANTS
  Threads = {t1}
  Waits = {i1}
  NoIrp = NoIrp
  Values <- SomeValues
  Signals = {"CTS"}
  Is60MHz = FALSE
  MaxOpens = 1
  MaxCalls = 1
  MaxSleeps = 1
  MaxChanges = 0
INVARIANT ReportedRuns
CHECK_DEADLOCK FALSE
