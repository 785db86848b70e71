SPECIFICATION Spec
CONSTANTS
  Slots <- MCSlots
  Hash <- MCHash
  Idents <- MCIdents
  NumberOf <- MCNumberOf
  Programs <- MCPrograms
INVARIANTS TypeOK DeclaredAsC InternedOnce
PROPERTY Ends
CHECK_DEADLOCK FALSE
