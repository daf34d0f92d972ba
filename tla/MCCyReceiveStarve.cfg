SPECIFICATION Spec
CONSTANTS
  i0 = i0
  i1 = i1
  i2 = i2
  Irps = {i0, i1, i2}
  Cpus = {c1, c2}
  NoIrp = NoIrp
  MaxOpens = 1
  MaxBytes = 2
  FifoSize = 2
  RingSize = 2
  Asked <- ZeroToTwo
PROPERTY NoReadStarves
CHECK_DEADLOCK FALSE
