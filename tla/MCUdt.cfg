SPECIFICATION Spec
CONSTANTS
  none = none
  NoType = none
  Ids <- TheIds
  U64 = 4
  U8 = 3
  Genesis <- TwoCells
  OutputLists <- Lists
  MaxInputs = 3
  MaxLive = 4
VIEW View
INVARIANTS IInv
PROPERTIES MintMatchesSupply SupplyNeverFalls InfoSettledOnce LongSupplyStays
CHECK_DEADLOCK FALSE
