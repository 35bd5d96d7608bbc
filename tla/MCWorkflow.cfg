SPECIFICATION Spec
CONSTANTS
  lock1 = lock1
  lock2 = lock2
  wallet = wallet
  token = token
  use = use
  none = none
  NoType = none
  LockHashes <- MCLockHashes
  TypeHashes <- MCTypeHashes
  U128 = 16777216
  U64 = 1048576
  CodeSize = 1500
  Genesis <- MCGenesis
INVARIANTS TypeOK HeldCells ScriptsNeverRefuse PublishingAccepted
PROPERTIES Settles
CHECK_DEADLOCK FALSE
