\* Claim: a path payment custodies the trade's amount in escrow.
SPECIFICATION Spec
CHECK_DEADLOCK FALSE
CONSTANTS
  None = None
  Admin = admin
  Escrow = escrow
  Market = market
  Buyers = {buyer}
  Sellers = {seller}
  Mediators = {}
  Guardians = {}
  LegacyMediators = {}
  Hashes = {}
  Destinations = {treasury}
  Assets = {}
  Wallet = 9
  Amounts = {5}
  LossShares = {4000}
  FeeRates = {2500}
  Rulings = {}
  Weights = {}
  Lifetimes = {}
  Extensions = {}
  ClawbackAmounts = {}
  ClawbackFlags = {}
  WithdrawAmounts = {}
  SourceAmounts = {7}
  DestMins = {4}
  Arrivals = {}
  WasmHashes = {}
  ExtensionPolicies <- NoPolicies
  DefaultExtensionPolicy <- DefaultPolicy
  QuorumConfigs <- NoQuorums
  DefaultQuorumConfig <- QuorumOff
  MaxTradeValue = 20
  MaxMediatorWeight = 10
  ExtensionCeilingCount = 3
  ExtensionCeilingSecs = 3
  ClawbackDelay = 1
  UpgradeDelay = 2
  MaxTrades = 2
  MaxOps = 0
  MaxTime = 0
  MaxEvidence = 0
INVARIANTS PathFundsCustodied
