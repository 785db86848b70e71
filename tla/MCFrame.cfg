SPECIFICATION FrameSpec
CONSTANTS
  Types <- Unbounded
  VLA_BYTES = 32
  MaxTemps = 5
INVARIANTS FrameTypeOK StorageDisjoint InFrame
CHECK_DEADLOCK FALSE
