SPECIFICATION Spec
CONSTANTS
  user = user
  dev = dev
  wallet = wallet
  token = token
  plugin = plugin
  none = none
  LockHashes <- MCLockHashes
  TypeHashes <- MCTypeHashes
  NoType = none
  U128 = 4
  U64 = 4
  Wallets <- MCWallets
  ArgsOf <- MCArgsMany
  Tokens <- MCTokens
  Governance <- MCGovernance
  Plugins <- MCPlugins
  PluginWallet <- MCPluginWallet
  Genesis <- FeeGenesis
  OutputLists <- FeeLists
  MaxInputs = 3
  MaxDeps = 0
VIEW ChainView
INVARIANTS TokenDataReadable WalletUsable
PROPERTIES UnsignedSpendPays UseIsPaid StrandedStays ImplementsAccount
CHECK_DEADLOCK FALSE
