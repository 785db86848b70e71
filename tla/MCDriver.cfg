SPECIFICATION Spec
CONSTANTS
  Inputs <- MCInputs
  BUF = 2
  MaxErrors = 1
INVARIANTS TypeOK ReadAsC Located ExitTells
CHECK_DEADLOCK FALSE
