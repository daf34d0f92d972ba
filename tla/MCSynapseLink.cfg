SPECIFICATION LinkSpec
CONSTANTS
  TailMax = 2
  Chunk = 2
  MaxLen = 3
  MaxBytes = 5
  MaxWire = 7
INVARIANTS
  LinkTypeOK
  NothingSkipped
  HandedOnce
