SPECIFICATION Spec
CONSTANTS
  none = none
  NoType = none
  Ids <- TheIds
  U64 = 4
  U8 = 3
  Views <- MCViews
INVARIANTS TypeOK CirclesOnlyAtLimit
PROPERTIES ImplementsVerdict Terminates
CHECK_DEADLOCK FALSE
