\* One trade, two replicas that may crash, two events and two requests or jobs
\* racing for the tables; and the payouts of one milestone under two schedules.
CONSTANTS
  Subjects = {"ChainSync", "Payouts"}
  TradeIds = {t1}
  NoRow = NoRow
  MaxRequests = 2
  Listeners = {a, b}
  MaxEvents = 2
  PageLimit = 1
  CacheSize = 1
  MaxAttempts = 2
  MaxCrashes = 1
  Milestones = {1}
  PayoutAmounts = {5, 6}
  HeaderKeys = {k1}
  Schedulers = {1}
  Releasers = {c1, c2}
  Sweepers = {1}
  MaxSchedules = 2
  MaxReleases = 2
  MaxRecords = 1
INIT BackendInit
NEXT BackendNext
CONSTRAINT Disturbances
SYMMETRY ReplicaSymmetry
INVARIANTS PayTypeOK AppliedOnce UnseenOnlyInSharedLedgers ConfirmedOnChain
PROPERTIES TablesOnlyAdvance 
CHECK_DEADLOCK FALSE
