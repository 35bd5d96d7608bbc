SPECIFICATION Spec
CONSTANTS
  wallet = wallet
  other = other
  token = token
  otherToken = otherToken
  none = none
  LockHashes <- MCLockHashes
  TypeHashes <- MCTypeHashes
  NoType = none
  U128 = 4
  U64 = 4
  Views <- MCViews
INVARIANTS TypeOK IInv UnlockErrorMeansUnpaid
PROPERTIES ImplementsVerdict Terminates
CHECK_DEADLOCK FALSE
