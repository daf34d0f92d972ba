SPECIFICATION Spec
CONSTANTS
  Threads = {t1, t2}
  Waits = {i1, i2}
  NoIrp = NoIrp
  Values <- SomeValues
  Signals = {"CTS"}
  Is60MHz = FALSE
  MaxOpens = 2
  MaxCalls = 2
  MaxSleeps = 1
  MaxChanges = 1
INVARIANTS TypeOK SettingsAgree WaitsKept
PROPERTY PowerRoundTrip
SYMMETRY Interchangeable
CHECK_DEADLOCK FALSE
