SPECIFICATION Spec
CONSTANTS
  i0 = i0
  i1 = i1
  i2 = i2
  Irps = {i0, i1, i2}
  Cpus = {c1, c2}
  NoIrp = NoIrp
  MaxOpens = 2
  MaxBytes = 2
  FifoSize = 1
  RingSize = 2
  Asked <- ZeroToTwo
INVARIANTS TypeOK ReadInOrder NothingTakenIsLost
PROPERTY WakesReaders
CHECK_DEADLOCK FALSE
