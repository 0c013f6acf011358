SPECIFICATION Spec
CONSTANTS
  Base = 8
  Words = 4
  Field = 2
INVARIANTS
  FilledIsAccepted
  SumIsOnesComplement
PROPERTIES
  OneWordIsNoticed
CHECK_DEADLOCK FALSE
