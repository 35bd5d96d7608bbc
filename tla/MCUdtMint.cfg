SPECIFICATION Spec
CONSTANTS
  none = none
  NoType = none
  Ids <- TheIds
  U64 = 4
  U8 = 3
  Genesis <- TwoCells
  OutputLists <- Lists
  MaxInputs = 3
  MaxLive = 3
VIEW View
PROPERTIES MintVerified
CHECK_DEADLOCK FALSE
