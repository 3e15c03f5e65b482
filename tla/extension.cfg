\* One trade with a deadline under two mediators registered either way and a
\* guardian: extensions, the admin changing the policy in between, expiry,
\* clawback, rulings and every refund, and the inputs the contract rejects.
SPECIFICATION Spec
CHECK_DEADLOCK FALSE
CONSTANTS
  None = None
  Admin = admin
  Escrow = escrow
  Market = market
  Buyers = {buyer}
  Sellers = {seller}
  Mediators = {m1, m2}
  Guardians = {g}
  LegacyMediators = {m1, m2}
  Hashes = {}
  Destinations = {treasury}
  Assets = {}
  Wallet = 9
  Amounts = {0, 5}
  LossShares = {4000, 10001}
  FeeRates = {2500}
  Rulings = {0, 7000, 10001}
  Weights = {}
  Lifetimes = {1, 2}
  Extensions = {1, 2}
  ClawbackAmounts = {3}
  ClawbackFlags = {}
  WithdrawAmounts = {}
  SourceAmounts = {}
  DestMins = {}
  Arrivals = {}
  WasmHashes = {}
  ExtensionPolicies <- SomePolicies
  DefaultExtensionPolicy <- DefaultPolicy
  QuorumConfigs <- NoQuorums
  DefaultQuorumConfig <- QuorumOff
  MaxTradeValue = 20
  MaxMediatorWeight = 10
  ExtensionCeilingCount = 3
  ExtensionCeilingSecs = 3
  ClawbackDelay = 1
  UpgradeDelay = 2
  MaxTrades = 1
  MaxOps = 0
  MaxTime = 4
  MaxEvidence = 0
INVARIANTS RevocationComplete MetricsMatch DeadlineCap RefundIsWhole ExtensionVerdictsAgree
PROPERTIES ExpiredStaysExpired
SYMMETRY MediatorSymmetry
