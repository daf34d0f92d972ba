SPECIFICATION InstallSpec
CONSTANTS
  MaxRuns = 3
  MaxPolls = 1
INVARIANTS RemovesCompletely
CHECK_DEADLOCK FALSE
