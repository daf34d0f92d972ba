SPECIFICATION Spec
CONSTANTS
  i1 = i1
  i2 = i2
  Irps = {i1, i2}
  Cpus = {c1, c2}
  NoIrp = NoIrp
  MaxOpens = 2
  FifoSize = 1
  RingSize = 2
  Length <- ThreeAndTwo
INVARIANTS TypeOK WriteInOrder
PROPERTY RingDrains
CHECK_DEADLOCK FALSE
