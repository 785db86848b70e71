SPECIFICATION TabSpec
CONSTANTS
  Bytes <- MCBytes
  Strings <- MCStrings
  Hash <- MCHash
  INITIAL_CAP = 1
  MaxCap = 8
  UNINIT = UNINIT
INVARIANTS TabTypeOK Injective
PROPERTY Implements
CHECK_DEADLOCK FALSE
