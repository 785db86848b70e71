SPECIFICATION FSpec
CONSTANTS
  Types <- MCTypes
  BitTypes <- MCBitTypes
  MaxMembers = 3
  StoreShapes <- MCStoreShapes
  CompoundShapes <- MCPlainShapes
  InitShapes <- MCPlainShapes
  Values <- MCValues
  MaxItems = 3
INVARIANTS TypeOK MembersDisjoint FitsAndTiles MatchesABI FieldsHold InitializedAsC
CHECK_DEADLOCK FALSE
