\* Every service, page and screen on its own small instance: two or three requests,
\* visits, workers or answers, enough for them to cross.
CONSTANTS
  Subjects = {"Sessions", "Profiles", "Reputation", "Preferences", "InboundCallbacks",
    "FeatureFlags", "Money", "Quotes", "NetworkFees", "RetryLoop", "TradeRequests",
    "Listings", "DisputeCategories", "SealedRecords", "EvidencePins", "TradeHistory",
    "AuditLog", "OutboxScan", "DriftSweep", "AdminCalls", "Routing", "FlakeReports",
    "TradeWizard", "BulkImport", "TradePage", "TradesPage", "VaultPage", "AssetsPage",
    "EvidenceDialog", "MediatorPanel", "ClawbackDesk", "StreamAdmin", "AuditPage",
    "AdminGate", "WebSession", "WalletIdentity", "OptimisticStore", "CachedList",
    "SearchOverlay", "SettingsPage", "ReputationPage", "ErrorPages", "MobileTrades",
    "MobileShell", "EvidenceCapture", "PhoneAdvice", "PhoneSigning", "PhoneFlags",
    "PhoneBatch"}
  \* Sessions
  Tabs = {c1, c2}  TokenTtl = 1  RefreshGrace = 1  MaxTokens = 3
  MaxChallenges = 1  MaxDeviceCalls = 2  MaxClock = 2
  \* Profiles
  ProfileRequests = {p1, p2, p3}  DisplayNames = {"n1"}
  \* Reputation
  RepTrades = {t1, t2, t3}  OwnTrades = {t3}  HistorySlice = 3  BonusTrades = 3
  TradeBonus = 5
  \* Preferences
  EventKeys = {"funded", "disputed"}  PhoneNumbers = {"n1", "n2"}
  PutRequests = {r1, r2}  MaxTexts = 1
  \* InboundCallbacks
  CallbackIds = {c1}  Tolerance = 1  MaxSkew = 2  LastSecond = 2  MaxDeploys = 1
  MaxCallbackTries = 2
  \* FeatureFlags
  Toggles = {g1}  SetVars = {"ENABLE_TRADE_WIZARD_V2"}  FlagTtl = 1
  LastFlagTick = 2  MaxFlagLookups = 3
  \* Money
  DustDenominator = 4  Numerators = {3, 6, 5}  MaxWindows = 5
  SplitTotals = {0, 5, 7}  BpsShares = {0, 3333, 3334, 5000, 10000}
  MoneyDecimals = 2  MaxI128 = 350
  \* Quotes
  QuoteCalls = {q1, q2}  QuoteTtl = 1  LastQuoteTick = 2  QuoteAssets = {"NGN"}
  QuoteAmounts = {1, 2}
  \* NetworkFees
  FeeLevels = {0, 100, 450}  FeeFloor = 100  FeeCeiling = 700
  FeeOperations = {0, 2, 101}
  \* RetryLoop
  MaxRetries = 3  RetryBase = 1  RetryCap = 3  RetryBudget = 4  OpTimes = {0, 2}
  TimerLateness = {0, 1}
  \* TradeRequests
  Buyers = {b1}  MaxLedger = 2  MaxCreates = 2
  \* Listings
  ListedTrades = {1, 2, 3}  OddCase = {3}  PageLimits = {1, 2}  MaxVideos = 1
  MaxBookmarks = 1
  \* DisputeCategories
  CategoryCalls = {c1, c2}  CategoryNames = {"n1", "n2"}  MaxCategories = 2
  MaxCategoryCalls = 2
  \* SealedRecords
  NoteIds = {n1}  Rotations = {r1, r2}  KeyVersions = {"v2"}
  \* EvidencePins
  Uploads = {u1, u2}  PinRetries = 1  ScanRequired = FALSE
  \* TradeHistory
  MaxHistClock = 2  Retention = 1
  \* AuditLog
  AuditWriters = {w1, w2}  MaxAuditRows = 3  MaxTampers = 1  AuditPageRows = 1
  \* OutboxScan
  ScanTrades = {t1}  ScanWindow = 2  WarnAge = 0  CriticalAge = 1  LastMinute = 2
  MaxScans = 1
  \* DriftSweep
  DriftTrades = {t1, t2}  DriftAmount = 5  WarningBps = 100  CriticalBps = 1000
  MaxDriftMoves = 1
  \* AdminCalls
  AdminRequests = {r1}  QuotaMax = 1  QuotaWindow = 3  TicksPerSecond = 2
  AlertThreshold = 2  FailureAlertWindow = 1  LastTick = 3  MaxAdminAsks = 3
  \* Routing
  MaxRouted = 1
  \* FlakeReports
  BackendFiles = {"b1"}  FrontendFiles = {}  MaxExpiryDays = 1  LastCiDay = 1
  MaxCiRuns = 1  MaxMerges = 2
  \* TradeWizard
  MaxIntents = 1  MaxReplays = 2  MaxOutages = 2  MaxReloads = 1  MaxLapses = 1
  \* BulkImport
  ImportMax = 2  MaxLines = 3  MaxBulkEdits = 1  MaxImports = 2  MaxLedgerTrades = 2
  \* TradePage
  MaxTries = 3
  \* TradesPage
  TabFilters = {"all", "active"}  MaxTradePages = 3  MaxListFlights = 2
  \* VaultPage
  VaultTrades = {1, 2}  MaxManifests = 2  MaxVaultLoads = 2
  \* AssetsPage
  AssetCount = 2  FoundBySearch = {2}  NoDeadlineFor = {2}  AssetPageSize = 1
  SoonWindow = 1  LastDay = 1  MaxMoves = 1  MaxRefreshes = 1
  \* EvidenceDialog
  ClipFiles = {f1, f2}  MaxOpenings = 2  MaxClips = 2
  \* MediatorPanel
  Rulings = {"split"}  PanelDisputes = {3, 5}  MaxSafeInteger = 4  Gateways = 2
  MaxMounts = 2  MaxRulings = 1  MaxListLoads = 2
  \* ClawbackDesk
  DeskStreams = {1, 2}  MaxVested = 1  Pods = {"a"}  MaxPreviews = 2  MaxForms = 3
  \* StreamAdmin
  Decimals = 2  Stroops = {0, 5, 105}  MaxEdits = 2  MaxAsks = 2
  \* AuditPage
  AuditPageSize = 1  MaxTrail = 2  MaxAuditFetches = 3
  \* AdminGate
  MaxGateMoves = 2
  \* WebSession
  WebAccounts = {"a1", "a2"}  WebLastTime = 2  TokenMinutes = 2  ExpiryBuffer = 1
  MaxWebCalls = 2
  \* WalletIdentity
  IdAccounts = {"i1"}  MaxIdOps = 3  MaxIdChanges = 1
  \* OptimisticStore
  StoreTrades = {t1}  CreatedTrade = t3  Patches = {"SETTLED"}  StorePage = 2
  DedupWindow = 1  MaxCalls = 2
  \* CachedList
  HookKeys = {"k1", "k2"}  OtherKeys = {"o1"}  BigKeys = {"o1"}  BigBytes = 2
  QuotaBytes = 2
  \* SearchOverlay
  Queries = {"q1", "q2"}  MaxSearches = 3  MaxKeystrokes = 4
  \* SettingsPage
  BadgeTime = 1  LastSettingsTick = 2  MaxThemeMoves = 2
  \* ReputationPage
  RepAccounts = {"a1", "a2"}  MaxRepLoads = 3
  \* ErrorPages
  MaxCrashesSeen = 2  MaxClientIds = 3
  \* MobileTrades
  MobileIds = {t1, t2}  MaxPhoneCalls = 2  MaxLaunches = 2
  \* MobileShell
  Links = {l1}  Wallets = {w1}  MaxStarts = 1  MaxLinks = 1  MaxLogins = 2
  \* EvidenceCapture
  MaxShots = 3
  \* PhoneAdvice
  Waits = {0, 30}  MaxPhoneRequests = 2
  \* PhoneSigning
  MaxXdrs = 2  MaxSignings = 1  MaxVisits = 2
  \* PhoneFlags
  PhoneFlagNames = {"x", "y"}  MaxFlagPatches = 2  MaxFlagLoads = 2
  MaxFlagVisits = 2
  \* PhoneBatch
  BatchTrades = {b1, b2}  BatchTargets = {"CANCELLED", "FUNDED"}  MaxBatchRuns = 2
  MaxBatchVisits = 1
INIT PlatformInit
NEXT PlatformNext
INVARIANTS PlatformTypeOK ShownIsCurrent DoneOnce  RecordsMatch CausesToldApart
  ReportsAreTrue
PROPERTIES NothingLost ComputedRight
CHECK_DEADLOCK FALSE
