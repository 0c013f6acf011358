SPECIFICATION Spec
CONSTANTS
  DATASIZE = 5
  Modulus = 64
  Lengths <- ShortLengths
INVARIANTS
  WholeFile
  EndIsLast
CHECK_DEADLOCK FALSE
