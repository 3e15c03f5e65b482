\* A dispute under vote, time passing, the fee and the allowed assets changing:
\* the fallback always comes. Clawbacks are off: a partial one can take the amount
\* below the quorum threshold, and then the fallback no longer applies.
SPECIFICATION FairSpec
CHECK_DEADLOCK FALSE
CONSTANTS
  None = None
  Admin = admin
  Escrow = escrow
  Market = market
  Buyers = {buyer}
  Sellers = {seller}
  Mediators = {m1, m2}
  Guardians = {}
  LegacyMediators = {}
  Hashes = {}
  Destinations = {treasury}
  Assets = {xlm}
  Wallet = 9
  Amounts = {5}
  LossShares = {4000}
  FeeRates = {400, 2500}
  Rulings = {0, 10000}
  Weights = {2}
  Lifetimes = {}
  Extensions = {}
  ClawbackAmounts = {}
  ClawbackFlags = {}
  WithdrawAmounts = {}
  SourceAmounts = {}
  DestMins = {}
  Arrivals = {}
  WasmHashes = {}
  ExtensionPolicies <- NoPolicies
  DefaultExtensionPolicy <- DefaultPolicy
  QuorumConfigs <- OneQuorum
  DefaultQuorumConfig <- QuorumOff
  MaxTradeValue = 20
  MaxMediatorWeight = 10
  ExtensionCeilingCount = 3
  ExtensionCeilingSecs = 3
  ClawbackDelay = 1
  UpgradeDelay = 2
  MaxTrades = 1
  MaxOps = 0
  MaxTime = 2
  MaxEvidence = 0
PROPERTIES FallbackResolves
