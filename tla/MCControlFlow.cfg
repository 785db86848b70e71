SPECIFICATION Spec
CONSTANTS
  Programs <- AllTexts
  Values <- SomeValues
INVARIANTS TypeOK Follows
PROPERTIES KeepsUp Answers
CHECK_DEADLOCK FALSE
