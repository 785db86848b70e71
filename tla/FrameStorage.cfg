SPECIFICATION FrameSpec
CONSTANTS
  Types <- Unbounded
  VLA_BYTES = 32
  MaxTemps = 6
INVARIANT StorageSuffices
CHECK_DEADLOCK FALSE
