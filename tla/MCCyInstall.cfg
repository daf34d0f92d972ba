SPECIFICATION InstallSpec
CONSTANTS
  MaxRuns = 3
  MaxPolls = 1
INVARIANTS NoOrphan GoneAfterBoot
CHECK_DEADLOCK FALSE
