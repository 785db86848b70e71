SPECIFICATION Spec
CONSTANTS
  Bits <- MCBits
  VarType <- MCVarType
  AddrOf <- MCAddrOf
  Starts <- MCStarts
  Trees <- MCTrees
  Parses <- MCParses
INVARIANTS TypeOK ParsesTheGrammar OutcomeRight ResultExtended
CHECK_DEADLOCK FALSE
