SPECIFICATION Spec
CONSTANTS
  MaxInputs = 9
  MaxFailing = 6
  Txs <- MCTxs
INVARIANTS InputsCounted IInv SignatureCovers
PROPERTIES ImplementsVerdict Terminates
CHECK_DEADLOCK FALSE
