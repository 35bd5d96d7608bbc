SPECIFICATION Spec
CONSTANTS
  none = none
  NoId = none
  GenesisSize = 2
  MaxInputs = 2
  MaxOutputs = 2
  MaxHeight = 4
INVARIANTS IInv
PROPERTIES CopiesSetOnce
CHECK_DEADLOCK FALSE
