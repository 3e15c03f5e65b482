\* Claim: get_claimed_amount is the amount released.
SPECIFICATION Spec
CHECK_DEADLOCK FALSE
CONSTANTS
  None = None
  Admin = admin
  Escrow = escrow
  Market = market
  Buyers = {buyer}
  Sellers = {seller}
  Mediators = {}
  Guardians = {}
  LegacyMediators = {}
  Hashes = {}
  Destinations = {treasury}
  Assets = {}
  Wallet = 9
  Amounts = {5}
  LossShares = {4000}
  FeeRates = {2500}
  Rulings = {}
  Weights = {}
  Lifetimes = {}
  Extensions = {}
  ClawbackAmounts = {2}
  ClawbackFlags = {}
  WithdrawAmounts = {}
  SourceAmounts = {}
  DestMins = {}
  Arrivals = {}
  WasmHashes = {}
  ExtensionPolicies <- NoPolicies
  DefaultExtensionPolicy <- DefaultPolicy
  QuorumConfigs <- NoQuorums
  DefaultQuorumConfig <- QuorumOff
  MaxTradeValue = 20
  MaxMediatorWeight = 10
  ExtensionCeilingCount = 3
  ExtensionCeilingSecs = 3
  ClawbackDelay = 1
  UpgradeDelay = 2
  MaxTrades = 1
  MaxOps = 0
  MaxTime = 0
  MaxEvidence = 0
INVARIANTS ClaimedIsReleased
