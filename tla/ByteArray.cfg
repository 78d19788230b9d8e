CONSTANTS
  BaseSizes = {1, 2, 3}
  ByteBits = 3
  MaxBytes = 4
  MaxItems = 2
  Junk = junk
SPECIFICATION Spec
INVARIANTS CurAtPosition ItemsReadBack
PROPERTY IsFile
CHECK_DEADLOCK FALSE
