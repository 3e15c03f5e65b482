\* Claim: the single-mediator path cannot bypass a vote.
SPECIFICATION Spec
CHECK_DEADLOCK FALSE
CONSTANTS
  None = None
  Admin = admin
  Escrow = escrow
  Market = market
  Buyers = {buyer}
  Sellers = {seller}
  Mediators = {m1, m2}
  Guardians = {}
  LegacyMediators = {}
  Hashes = {}
  Destinations = {treasury}
  Assets = {}
  Wallet = 9
  Amounts = {5}
  LossShares = {4000}
  FeeRates = {2500}
  Rulings = {0, 10000}
  Weights = {}
  Lifetimes = {}
  Extensions = {}
  ClawbackAmounts = {2}
  ClawbackFlags = {}
  WithdrawAmounts = {}
  SourceAmounts = {}
  DestMins = {}
  Arrivals = {}
  WasmHashes = {}
  ExtensionPolicies <- NoPolicies
  DefaultExtensionPolicy <- DefaultPolicy
  QuorumConfigs <- OneQuorum
  DefaultQuorumConfig <- QuorumOff
  MaxTradeValue = 20
  MaxMediatorWeight = 10
  ExtensionCeilingCount = 3
  ExtensionCeilingSecs = 3
  ClawbackDelay = 1
  UpgradeDelay = 2
  MaxTrades = 1
  MaxOps = 0
  MaxTime = 0
  MaxEvidence = 0
INVARIANTS PathsNotMixed
