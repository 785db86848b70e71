SPECIFICATION Spec
CONSTANTS
  Slots <- MCSlots
  Hash <- MCHash
  Idents <- MCIdents
  NumberOf <- MCNumberOf
  Programs <- MatrixPrograms
INVARIANT DeclaredAsC
CHECK_DEADLOCK FALSE
