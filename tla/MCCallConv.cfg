SPECIFICATION Spec
CONSTANTS
  Operands <- Sound
  RetTypes <- Results
  NInt = 3
  NSse = 2
  FrameSize = 32
  MaxArgs = 4
INVARIANT TypeOK ArgumentsArrive StackBalanced ResultArrives
CHECK_DEADLOCK FALSE
