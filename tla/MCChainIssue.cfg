SPECIFICATION Spec
CONSTANTS
  user = user
  dev = dev
  wallet = wallet
  token = token
  plugin = plugin
  none = none
  LockHashes <- MCLockHashes
  TypeHashes <- MCTypeHashes
  NoType = none
  U128 = 4
  U64 = 4
  Wallets <- MCWallets
  ArgsOf <- MCArgsUniq
  Tokens <- MCTokens
  Governance <- MCGovernance
  Plugins <- MCPlugins
  PluginWallet <- MCPluginWallet
  Genesis <- IssueGenesis
  OutputLists <- IssueLists
  MaxInputs = 3
  MaxDeps = 1
VIEW ChainView
PROPERTIES UnsignedSpendPays SupplyGrowsByGovernance
CHECK_DEADLOCK FALSE
