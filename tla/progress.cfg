\* What promises progress, on instances small enough for liveness.
CONSTANTS
  Subjects = {"ChainSync", "Idempotency", "AdminStreams", "JobQueue", "JobHealth",
    "ServerProcess", "Submission", "Breaker", "EvidenceStream", "WebhookDelivery"}
  \* ChainSync
  TradeIds = {t1}  NoRow = NoRow  MaxRequests = 0  Listeners = {a}  MaxEvents = 2
  PageLimit = 1  CacheSize = 1  MaxAttempts = 2  MaxCrashes = 1
  \* Idempotency
  KeyedRequests = {r1, r2, r3}  Altered = {r3}
  \* AdminStreams
  Admins = {a1, a2}  MaxAdminRequests = 2
  \* JobQueue
  JobWorkers = {w1}  DlqAdmins = {a1, a2}  JobAttempts = 2  MaxJobs = 3
  MaxJobCrashes = 1
  \* JobHealth
  HbJobs = {j1, j2}  HbWorkers = {w1}  HbDeadline = 1  AlertWindow = 2
  MaxLostPings = 1
  \* ServerProcess
  FlakyDeps = {"redis", "stellar"}  MaxInFlight = 1  ProbeFailures = 2
  \* Submission
  Submitters = {s1, s2}  SubmitRetries = 1  PayThreshold = 2  PayReset = 2
  \* Breaker
  Calls = {k1, k2, k3}  FailureThreshold = 2  SuccessThreshold = 2  Cooldown = 2
  \* EvidenceStream
  Streams = {s1}  GatewayCount = 2  GatewayThreshold = 2  GatewayCooldown = 1
  MaxMisses = 2
  \* WebhookDelivery
  Subscribers = {u1}  ConfiguredUrl = TRUE  WebhookAttempts = 2  MaxDispatches = 1
  MaxSubscriptions = 1
SPECIFICATION BackboneSpec
INVARIANTS BackboneTypeOK HandledOnce
PROPERTIES TakenForCause WorkSettles ReachedAgain
CHECK_DEADLOCK FALSE
