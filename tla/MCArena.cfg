SPECIFICATION Spec
CONSTANTS
  SIZE_MAX = 31
  MaxBlock = 15
  HDR = 2
  DEFAULT_CAP = 5
  InitCaps = {0, 3}
  Sizes = {0, 1, 3, 9, 25}
  Aligns = {1, 4}
  StrLens = {1, 14}
  MaxLive = 4
INVARIANTS TypeOK InBlock Disjoint StrdupSafe
CHECK_DEADLOCK FALSE
