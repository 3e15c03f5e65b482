\* Two trades of one pair and everything that moves cNGN but path payments:
\* deposits, refunds, releases, rulings, immediate and queued clawbacks,
\* whole and partial, and fees withdrawn.
SPECIFICATION Spec
CHECK_DEADLOCK FALSE
CONSTANTS
  None = None
  Admin = admin
  Escrow = escrow
  Market = market
  Buyers = {buyer}
  Sellers = {seller}
  Mediators = {m1}
  Guardians = {}
  LegacyMediators = {}
  Hashes = {}
  Destinations = {treasury}
  Assets = {}
  Wallet = 10
  Amounts = {3, 5}
  LossShares = {4000}
  FeeRates = {2500}
  Rulings = {3000}
  Weights = {}
  Lifetimes = {}
  Extensions = {}
  ClawbackAmounts = {3}
  ClawbackFlags = {}
  WithdrawAmounts = {1}
  SourceAmounts = {}
  DestMins = {}
  Arrivals = {}
  WasmHashes = {}
  ExtensionPolicies <- NoPolicies
  DefaultExtensionPolicy <- DefaultPolicy
  QuorumConfigs <- NoQuorums
  DefaultQuorumConfig <- QuorumOff
  MaxTradeValue = 20
  MaxMediatorWeight = 10
  ExtensionCeilingCount = 3
  ExtensionCeilingSecs = 3
  ClawbackDelay = 1
  UpgradeDelay = 2
  MaxTrades = 2
  MaxOps = 1
  MaxTime = 1
  MaxEvidence = 0
INVARIANTS TypeOK Solvency TradeConservation WalletsReconcile
PROPERTIES RefinesCustody SettledForGood StatusMachine
