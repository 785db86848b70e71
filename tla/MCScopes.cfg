SPECIFICATION Spec
CONSTANTS
  T = T
  v = v
  NoName = NoName
  Names <- MCNames
  MaxIds = 3
  MaxDepth = 4
SYMMETRY Sym
INVARIANTS TypeOK SameObject SameSymbol TypedefNames
CHECK_DEADLOCK FALSE
