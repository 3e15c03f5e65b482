\* Queued clawbacks and upgrades, executed and cancelled, beside immediate
\* clawbacks, on a trade funded directly or by a path payment, with its manifest,
\* proof and evidence.
SPECIFICATION Spec
CHECK_DEADLOCK FALSE
CONSTANTS
  None = None
  Admin = admin
  Escrow = escrow
  Market = market
  Buyers = {buyer}
  Sellers = {seller}
  Mediators = {}
  Guardians = {}
  LegacyMediators = {}
  Hashes = {doc}
  Destinations = {treasury}
  Assets = {}
  Wallet = 9
  Amounts = {6}
  LossShares = {4000}
  FeeRates = {2500}
  Rulings = {}
  Weights = {}
  Lifetimes = {}
  Extensions = {}
  ClawbackAmounts = {0, 3}
  ClawbackFlags = {FALSE}
  WithdrawAmounts = {}
  SourceAmounts = {0, 7}
  DestMins = {0, 4}
  Arrivals = {4}
  WasmHashes = {v2}
  ExtensionPolicies <- NoPolicies
  DefaultExtensionPolicy <- DefaultPolicy
  QuorumConfigs <- NoQuorums
  DefaultQuorumConfig <- QuorumOff
  MaxTradeValue = 20
  MaxMediatorWeight = 10
  ExtensionCeilingCount = 3
  ExtensionCeilingSecs = 3
  ClawbackDelay = 1
  UpgradeDelay = 2
  MaxTrades = 1
  MaxOps = 2
  MaxTime = 2
  MaxEvidence = 1
INVARIANTS TimelockHonoured
PROPERTIES ClawbackAccountable
