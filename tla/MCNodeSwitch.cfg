SPECIFICATION Spec
CONSTANTS
  Index = {0, 1}
  MaxNodes = 2
  Node = {a, b, c}
  None = None
INVARIANTS
  TypeOK
  NoDangling
  OnlineListed
PROPERTY NoTrapping
