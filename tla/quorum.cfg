\* One dispute, three mediators of different weights, removed and re-added,
\* time passing.
SPECIFICATION Spec
CHECK_DEADLOCK FALSE
CONSTANTS
  None = None
  Admin = admin
  Escrow = escrow
  Market = market
  Buyers = {buyer}
  Sellers = {seller}
  Mediators = {m1, m2, m3}
  Guardians = {}
  LegacyMediators = {}
  Hashes = {}
  Destinations = {treasury}
  Assets = {}
  Wallet = 9
  Amounts = {5}
  LossShares = {4000}
  FeeRates = {2500}
  Rulings = {0, 5000, 10000}
  Weights = {2}
  Lifetimes = {}
  Extensions = {}
  ClawbackAmounts = {}
  ClawbackFlags = {}
  WithdrawAmounts = {}
  SourceAmounts = {}
  DestMins = {}
  Arrivals = {}
  WasmHashes = {}
  ExtensionPolicies <- NoPolicies
  DefaultExtensionPolicy <- DefaultPolicy
  QuorumConfigs <- OneQuorum
  DefaultQuorumConfig <- QuorumOff
  MaxTradeValue = 20
  MaxMediatorWeight = 10
  ExtensionCeilingCount = 3
  ExtensionCeilingSecs = 3
  ClawbackDelay = 1
  UpgradeDelay = 2
  MaxTrades = 1
  MaxOps = 0
  MaxTime = 2
  MaxEvidence = 0
INVARIANTS OneVoteEach FallbackOutcomeIsPlurality VotedRulingsHold MirrorOffersFallback
SYMMETRY MediatorSymmetry
