---------------------------- MODULE AdminRequests ----------------------------
\* How a request finds its handler and how a failure is told: the mounted routes,
\* admin calls, and the advice of the phone.
EXTENDS Subject, Integers, Sequences, FiniteSets

-----------------------------------------------------------------------------
(***************************************************************************)
(* AdminCalls                                                              *)
(*                                                                         *)
(* Privileged requests on their way through the API: the credential and    *)
(* admin checks, the per-admin quota, the wall-clock timeout that races    *)
(* the handler, the handler itself (build a transaction, write the audit   *)
(* row, answer), the classification of what went wrong, the monitor that   *)
(* alerts on repeated failures, and the reason the web client derives.     *)
(*                                                                         *)
(* op "contract" stands for the three contract-maintenance routes, op      *)
(* "withdraw" for the treasury route, which has a quota and no timeout.    *)
(***************************************************************************)

CONSTANTS
  AdminRequests,
  QuotaMax, QuotaWindow,         \* window in clock ticks
  TicksPerSecond,                \* the clock is finer than Retry-After
  AlertThreshold, FailureAlertWindow,
  LastTick,                      \* bound: the clock stops here
  MaxAdminAsks                   \* bound: requests made

VARIABLES
  adminCalls,     \* request -> where it is and what was answered
  quota,          \* quotaStore's window of the one admin
  failures,       \* windows' entry of the one endpoint
  adminTick,      \* Date.now()
  adminAsks,      \* requests made
  promises,       \* ghost: waits told, with the window they were told in
  unalerted,      \* ghost: tick -> failures no alert has counted yet
  misfired        \* ghost: an alert counted failures it should not have

adminVars == <<adminCalls, quota, failures, adminTick, adminAsks, promises, unalerted, misfired>>

Credentials == {"missing", "garbled", "expired", "redisDown", "outsider", "checkFailed", "admin"}
StellarFaults == {"timeout", "refused", "notFound", "limited", "badXdr", "panic", "rpc", "other"}

NoReply == [status |-> 0, code |-> "", cause |-> "none"]
IdleCall == [stage |-> "idle", op |-> "none", timer |-> FALSE, timedOut |-> FALSE,
             failed |-> FALSE, audited |-> FALSE, writes |-> 0, reply |-> NoReply]

AdminInit ==
  /\ adminCalls = [r \in AdminRequests |-> IdleCall]
  /\ quota = [count |-> 0, resetAt |-> 0]
  /\ failures = [count |-> 0, start |-> -(FailureAlertWindow + 1)]   \* no entry: as if long expired
  /\ adminTick = 0 /\ adminAsks = 0 /\ promises = {} /\ unalerted = [t \in 0..LastTick |-> 0]
  /\ misfired = FALSE

Reply(status, code, cause) == [status |-> status, code |-> code, cause |-> cause]

-----------------------------------------------------------------------------
(* authMiddleware and adminMiddleware                                      *)

\* extractAuthHeader, validateTokenFormat; validateToken throws only AppErrors,
\* which classifyAuthError hands on as they are.
AuthenticateRequest(cred) ==
  CASE cred = "redisDown" -> Reply(503, "INFRA_ERROR", cred)
    [] cred \in {"missing", "garbled", "expired"} -> Reply(401, "AUTH_ERROR", cred)
    [] OTHER -> NoReply

\* A revocation check that fails after the first one passed refuses with 401.
AdminCheck(cred) ==
  CASE cred = "outsider" -> Reply(403, "AUTH_ERROR", cred)
    [] cred = "checkFailed" -> Reply(401, "", cred)
    [] OTHER -> NoReply

Gate(cred) == IF AuthenticateRequest(cred) # NoReply THEN AuthenticateRequest(cred) ELSE AdminCheck(cred)

Answering(call, reply) ==
  [call EXCEPT !.stage = "done", !.writes = @ + 1, !.timer = FALSE,
               !.reply = IF @ = NoReply THEN reply ELSE @]

AdminAsks(r, op, cred) ==
  /\ adminCalls[r].stage = "idle" /\ adminAsks < MaxAdminAsks
  /\ adminAsks' = adminAsks + 1
  /\ adminCalls' = [adminCalls EXCEPT ![r] =
       IF Gate(cred) = NoReply THEN [IdleCall EXCEPT !.stage = "admitted", !.op = op]
                               ELSE Answering([IdleCall EXCEPT !.op = op], Gate(cred))]
  /\ UNCHANGED <<quota, failures, adminTick, promises, unalerted, misfired>>

-----------------------------------------------------------------------------
(* createAdminQuotaMiddleware                                              *)

QuotaNow == IF quota.resetAt <= adminTick THEN [count |-> 0, resetAt |-> adminTick + QuotaWindow]
                                          ELSE quota

SecondsLeft(ticks) == (ticks + TicksPerSecond - 1) \div TicksPerSecond

RetryAfterSeconds(ticks) == SecondsLeft(ticks)

Quota(r) ==
  /\ adminCalls[r].stage = "admitted" /\ adminCalls[r].op = "withdraw"
  /\ LET window == [QuotaNow EXCEPT !.count = @ + 1]
         wait == RetryAfterSeconds(window.resetAt - adminTick)
     IN /\ quota' = window
        /\ IF window.count > QuotaMax
           THEN /\ adminCalls' = [adminCalls EXCEPT ![r] =
                     Answering(@, Reply(429, "ADMIN_QUOTA_EXCEEDED", "quota"))]
                /\ promises' = promises \cup
                     {[until |-> adminTick + wait * TicksPerSecond, reset |-> window.resetAt]}
           ELSE /\ adminCalls' = [adminCalls EXCEPT ![r].stage = "auditing"]
                /\ UNCHANGED promises
  /\ UNCHANGED <<failures, adminTick, adminAsks, unalerted, misfired>>

-----------------------------------------------------------------------------
(* adminTimeoutMiddleware, validateRequest and the rate limiter in front   *)

RateLimited(r) ==
  /\ adminCalls[r].stage = "admitted" /\ adminCalls[r].op = "contract"
  /\ adminCalls' = [adminCalls EXCEPT ![r] =
       Answering(@, Reply(429, "RATE_LIMIT_EXCEEDED", "limited"))]
  /\ UNCHANGED <<quota, failures, adminTick, adminAsks, promises, unalerted, misfired>>

ValidateRequest(r, valid) ==
  /\ adminCalls[r].stage = "admitted" /\ adminCalls[r].op = "contract"
  /\ adminCalls' = [adminCalls EXCEPT ![r] =
       IF valid THEN [@ EXCEPT !.stage = "building", !.timer = TRUE]
                ELSE Answering(@, Reply(400, "VALIDATION_ERROR", "badInput"))]
  /\ UNCHANGED <<quota, failures, adminTick, adminAsks, promises, unalerted, misfired>>

\* The timer answers; the handler is not cancelled.
TimeoutFires(r) ==
  /\ adminCalls[r].timer
  /\ adminCalls' = [adminCalls EXCEPT ![r] =
       [@ EXCEPT !.timer = FALSE, !.timedOut = TRUE, !.writes = @ + 1,
                 !.reply = Reply(504, "ADMIN_OPERATION_TIMEOUT", "slow")]]
  /\ UNCHANGED <<quota, failures, adminTick, adminAsks, promises, unalerted, misfired>>

HeadersSent(r) == adminCalls[r].reply # NoReply

-----------------------------------------------------------------------------
(* recordAdminSorobanTxFailure                                             *)

WindowNow == IF adminTick - failures.start > FailureAlertWindow
             THEN [count |-> 0, start |-> adminTick] ELSE failures

FailureWindow == WindowNow

InWindow(counts) == LET ticks == {t \in 0..LastTick : t <= adminTick /\ adminTick - t <= FailureAlertWindow}
                        Total[T \in SUBSET ticks] ==
                          IF T = {} THEN 0
                          ELSE LET t == CHOOSE x \in T : TRUE IN counts[t] + Total[T \ {t}]
                    IN Total[ticks]

CountFailure ==
  LET counted == FailureWindow.count + 1
      seen == [unalerted EXCEPT ![adminTick] = @ + 1]
  IN IF counted >= AlertThreshold
     THEN /\ failures' = [count |-> 0, start |-> adminTick]
          /\ misfired' = (misfired \/ InWindow(seen) < AlertThreshold)
          /\ unalerted' = [t \in 0..LastTick |-> 0]
     ELSE /\ failures' = [count |-> counted, start |-> FailureWindow.start]
          /\ unalerted' = seen /\ UNCHANGED misfired

-----------------------------------------------------------------------------
(* The handlers                                                            *)

\* Mutant: a contract panic is reported as a bad request.
PanicIsBadRequest(cause) ==
  CASE cause = "timeout" -> 504 [] cause = "refused" -> 503 [] cause = "limited" -> 429
    [] cause \in {"badXdr", "panic"} -> 400 [] cause = "notFound" -> 404 [] OTHER -> 502

\* CATEGORY_MAP of the category classifyStellarError finds.
SubmissionStatus(cause) ==
  CASE cause = "timeout" -> 504 [] cause = "refused" -> 503 [] cause = "limited" -> 429
    [] cause = "badXdr" -> 400 [] cause = "notFound" -> 404 [] OTHER -> 502

SubmissionCode(cause) ==
  CASE cause = "badXdr" -> "SUBMISSION_VALIDATION_ERROR"
    [] cause \in {"notFound", "panic", "rpc"} -> "SUBMISSION_CONTRACT_ERROR"
    [] OTHER -> "SUBMISSION_NETWORK_ERROR"

ClassifyAdminSubmissionError(cause) == Reply(SubmissionStatus(cause), SubmissionCode(cause), cause)

\* next(error): errorHandler writes whatever was sent before.
HandlerFails(r, reply) ==
  adminCalls' = [adminCalls EXCEPT ![r] = Answering([@ EXCEPT !.failed = TRUE], reply)]

BuildFails(r, cause) ==
  /\ adminCalls[r].stage = "building"
  /\ HandlerFails(r, ClassifyAdminSubmissionError(cause))
  /\ CountFailure
  /\ UNCHANGED <<quota, adminTick, adminAsks, promises>>

\* if (res.headersSent) return;
Built(r) ==
  /\ adminCalls[r].stage = "building"
  /\ adminCalls' = [adminCalls EXCEPT ![r].stage = IF HeadersSent(r) THEN "done" ELSE "auditing"]
  /\ UNCHANGED <<quota, failures, adminTick, adminAsks, promises, unalerted, misfired>>

AuditFails(r) ==
  /\ adminCalls[r].stage = "auditing"
  /\ IF adminCalls[r].op = "contract"
     THEN HandlerFails(r, ClassifyAdminSubmissionError("other")) /\ CountFailure
     ELSE HandlerFails(r, Reply(500, "", "other")) /\ UNCHANGED <<failures, unalerted, misfired>>
  /\ UNCHANGED <<quota, adminTick, adminAsks, promises>>

AuditWritten(r) ==
  /\ adminCalls[r].stage = "auditing"
  /\ adminCalls' = [adminCalls EXCEPT ![r].stage = "audited", ![r].audited = TRUE]
  /\ UNCHANGED <<quota, failures, adminTick, adminAsks, promises, unalerted, misfired>>

HandlerAnswers(r) ==
  /\ adminCalls[r].stage = "audited"
  /\ adminCalls' = [adminCalls EXCEPT ![r] =
       IF HeadersSent(r) THEN [@ EXCEPT !.stage = "done"] ELSE Answering(@, Reply(200, "", "none"))]
  /\ UNCHANGED <<quota, failures, adminTick, adminAsks, promises, unalerted, misfired>>

AdminClockTicks ==
  /\ adminTick < LastTick /\ adminTick' = adminTick + 1
  /\ UNCHANGED <<adminCalls, quota, failures, adminAsks, promises, unalerted, misfired>>

\* The web client lets go of an answered request and may ask again.
AdminAsksAnew(r) ==
  /\ adminCalls[r].stage = "done"
  /\ adminCalls' = [adminCalls EXCEPT ![r] = IdleCall]
  /\ UNCHANGED <<quota, failures, adminTick, adminAsks, promises, unalerted, misfired>>

AdminNext ==
  \/ \E r \in AdminRequests :
       \/ \E op \in {"contract", "withdraw"}, cred \in Credentials : AdminAsks(r, op, cred)
       \/ Quota(r) \/ RateLimited(r) \/ TimeoutFires(r)
       \/ \E valid \in BOOLEAN : ValidateRequest(r, valid)
       \/ \E cause \in StellarFaults : BuildFails(r, cause)
       \/ Built(r) \/ AuditFails(r) \/ AuditWritten(r) \/ HandlerAnswers(r) \/ AdminAsksAnew(r)
  \/ AdminClockTicks

-----------------------------------------------------------------------------
(* What the web client makes of an answer                                  *)

ReasonForStatus(status) ==
  CASE status = 401 -> "unauthenticated" [] status = 403 -> "forbidden"
    [] status = 404 -> "not_found"       [] status = 429 -> "rate_limited"
    [] status >= 500 -> "server"         [] OTHER -> "validation"

Reason(r) == ReasonForStatus(adminCalls[r].reply.status)
Failed(r) == adminCalls[r].reply # NoReply /\ adminCalls[r].reply.status # 200

AdminTypeOK ==
  /\ \A r \in AdminRequests :
       /\ adminCalls[r].stage \in {"idle", "admitted", "building", "auditing", "audited", "done"}
       /\ adminCalls[r].writes \in 0..2 /\ adminCalls[r].audited \in BOOLEAN
  /\ quota.count \in Nat /\ failures.count \in 0..AlertThreshold
  /\ adminTick \in 0..LastTick /\ misfired \in BOOLEAN

(* The timeout and the handler race to answer, yet one response is written *)
(* and a success is never told without its audit row. The one exception is *)
(* a handler that fails after the timeout answered: errorHandler does not  *)
(* look at headersSent (admin.contract.routes.ts, adminTimeout.middleware). *)
AnsweredOnce ==
  \A r \in AdminRequests :
    /\ adminCalls[r].writes > 1 => adminCalls[r].timedOut /\ adminCalls[r].failed
    /\ adminCalls[r].reply.status = 200 => adminCalls[r].audited /\ ~adminCalls[r].failed

(* Waiting as long as a quota refusal says is enough: once the wait is     *)
(* over the window it was told in no longer refuses anyone                 *)
(* (adminQuota.middleware.ts: Retry-After in whole seconds).               *)
RetryAfterIsEnough ==
  \A p \in promises : quota.resetAt = p.reset /\ quota.count > QuotaMax => p.until >= p.reset

(* Every alert counts at least the threshold of failures that happened     *)
(* within the window and that no earlier alert counted                     *)
(* (adminTxFailureMonitor.ts: recordAdminSorobanTxFailure).                *)
AlertsCountFreshFailures == ~misfired

(* The reason the web client shows tells the causes apart: a sign-in       *)
(* problem, missing rights, a quota, a bad request and a fault of the      *)
(* service are never taken for one another. A revocation check that fails  *)
(* on the second look is told as a sign-in problem (admin.middleware.ts).  *)
ReasonFitsCause ==
  \A r \in AdminRequests : Failed(r) =>
    LET cause == adminCalls[r].reply.cause
    IN CASE Reason(r) = "unauthenticated" -> cause \in {"missing", "garbled", "expired", "checkFailed"}
         [] Reason(r) = "forbidden" -> cause = "outsider"
         [] Reason(r) = "not_found" -> cause = "notFound"
         [] Reason(r) = "rate_limited" -> cause \in {"quota", "limited"}
         [] Reason(r) = "validation" -> cause \in {"badInput", "badXdr"}
         [] OTHER -> cause \in {"redisDown", "slow", "timeout", "refused", "panic", "rpc", "other"}

AdminSpec == AdminInit /\ [][AdminNext]_adminVars

-----------------------------------------------------------------------------
(***************************************************************************)
(* Routing                                                                 *)
(*                                                                         *)
(* One request on its way through the application's middleware stack. The  *)
(* order of the mounts decides which guards it meets: the payouts router   *)
(* is mounted without a path and guards everything behind it, and the      *)
(* outbox and job pages check for an administrator that only an earlier    *)
(* guard has put on the request. The admin switch is read on every pass    *)
(* and sessions are revoked while a request is under way.                  *)
(***************************************************************************)

CONSTANT MaxRouted    \* bound: requests

VARIABLES
  routed,            \* the request: what it asks for, carries and has been given
  adminEnabled,      \* ADMIN_ROUTES_ENABLED, read at run time
  revoked,           \* the administrator's session was revoked
  routedCount,
  unsettled          \* ghost: switch or session changed since the request came

routingVars == <<routed, adminEnabled, revoked, routedCount, unsettled>>

Mounts ==
  <<"health", "version", "v1", "legacy", "features", "audit", "contract", "adminAuth", "batch",
    "payouts", "streams", "inbound", "webhooks", "outbox", "jobs", "dlq", "docs">>

AdminPages == {"features", "audit", "contract", "adminAuth", "batch", "payouts", "streams", "outbox", "dlq"}
Wanted == AdminPages \cup {"health", "v1", "legacy", "callbacks", "jobs", "docs", "nowhere"}

\* The router whose route answers; the public webhook pages are those of the legacy lane.
Owner(page) == CASE page = "callbacks" -> "inbound" [] page = "nowhere" -> "none" [] OTHER -> page

Unrouted == [page |-> "none", token |-> "none", signed |-> FALSE, safe |-> TRUE, csrf |-> FALSE,
             at |-> 0, user |-> "none", tag |-> "unversioned", by |-> "none", code |-> 0]

RoutingInit ==
  /\ routed = Unrouted /\ adminEnabled = TRUE /\ revoked = FALSE
  /\ routedCount = 0 /\ unsettled = FALSE

\* The admin endpoints are enabled in this deployment, or not.
RoutingStart ==
  /\ adminEnabled' \in BOOLEAN
  /\ UNCHANGED <<routed, revoked, routedCount, unsettled>>

RequestComes ==
  /\ routed.at = 0 /\ routedCount < MaxRouted /\ routedCount' = routedCount + 1
  /\ \E page \in Wanted, token \in {"none", "user", "admin"}, signed, safe, csrf \in BOOLEAN :
       /\ routed' = [Unrouted EXCEPT !.page = page, !.token = token, !.signed = signed,
                       !.safe = safe, !.csrf = csrf, !.at = 1]
       /\ page # "callbacks" => ~signed
       /\ page \notin AdminPages => safe /\ ~csrf
  /\ unsettled' = FALSE
  /\ UNCHANGED <<adminEnabled, revoked>>

Layer == Mounts[routed.at]
Under == routed.at \in 1..Len(Mounts) /\ routed.code = 0
Answers(code) == routed' = [routed EXCEPT !.by = Layer, !.code = code]
world == <<adminEnabled, revoked, routedCount, unsettled>>

\* Paths that begin with a public base path: the inbound callbacks are under /webhooks.
PUBLIC_API_BASE_PATHS == {"legacy", "callbacks"}

VersionTagged ==
  /\ Under /\ Layer = "version"
  /\ routed' = [routed EXCEPT !.at = @ + 1,
       !.tag = CASE routed.page = "v1" -> "v1" [] routed.page \in PUBLIC_API_BASE_PATHS -> "deprecated"
                 [] OTHER -> "unversioned"]
  /\ UNCHANGED world

Gated == {"features", "audit", "contract", "adminAuth", "batch", "payouts", "streams", "outbox", "dlq"}

AdminFeatureGate == Layer \in Gated /\ routed.page \in AdminPages /\ ~adminEnabled

CsrfProtection ==
  Layer \in Gated /\ routed.page \in AdminPages /\ ~routed.safe /\ routed.token = "none" /\ ~routed.csrf

GateCloses ==
  /\ Under /\ (AdminFeatureGate \/ CsrfProtection)
  /\ Answers(IF AdminFeatureGate THEN 404 ELSE 403) /\ UNCHANGED world

Pass == Under /\ ~AdminFeatureGate /\ ~CsrfProtection /\ Layer # "version"

Authenticated == routed.token # "none" /\ ~(routed.token = "admin" /\ revoked)

\* Routers that guard whatever reaches them, their own pages or not.
RouterWide == {"payouts", "dlq"}

\* The guards in front of a router's own routes.
OwnGuard(layer) ==
  CASE layer \in AdminPages \ {"outbox", "payouts", "dlq"} -> {"auth", "admin"}
    [] layer \in {"v1", "legacy"} -> {"auth"} [] layer \in {"outbox", "jobs"} -> {"admin"}
    [] layer = "inbound" -> {"signature"} [] OTHER -> {}

Met == (IF Owner(routed.page) = Layer THEN OwnGuard(Layer) ELSE {})
         \cup (IF Layer \in RouterWide THEN {"auth", "admin"} ELSE {})

\* authMiddleware puts the caller on the request; it stays there.
UserAfter == IF "auth" \in Met THEN routed.token ELSE routed.user

AuthRefuses ==
  /\ Pass /\ "auth" \in Met /\ ~Authenticated /\ Answers(401) /\ UNCHANGED world

AdminRefuses ==
  /\ Pass /\ "admin" \in Met /\ ("auth" \in Met => Authenticated)
  /\ \/ UserAfter # "admin" /\ Answers(403)
     \/ UserAfter = "admin" /\ revoked /\ Answers(401)
  /\ UNCHANGED world

SignatureRefuses ==
  /\ Pass /\ "signature" \in Met /\ ~routed.signed /\ Answers(401) /\ UNCHANGED world

Admitted ==
  /\ "auth" \in Met => Authenticated
  /\ "admin" \in Met => UserAfter = "admin" /\ ~revoked
  /\ "signature" \in Met => routed.signed

HandlerRuns ==
  /\ Pass /\ Admitted /\ Owner(routed.page) = Layer
  /\ routed' = [routed EXCEPT !.by = Layer, !.code = 200, !.user = UserAfter]
  /\ UNCHANGED world

FallsThrough ==
  /\ Pass /\ Admitted /\ Owner(routed.page) # Layer
  /\ routed' = [routed EXCEPT !.at = @ + 1, !.user = UserAfter]
  /\ UNCHANGED world

NotFound ==
  /\ routed.at = Len(Mounts) + 1 /\ routed.code = 0
  /\ routed' = [routed EXCEPT !.by = "express", !.code = 404] /\ UNCHANGED world

ConnectionCloses ==
  /\ routed.code # 0 /\ routed' = Unrouted /\ UNCHANGED world

SwitchFlips ==
  /\ routed.at # 0 /\ routed.code = 0 /\ ~unsettled /\ routed.page \in AdminPages
  /\ adminEnabled' = ~adminEnabled /\ unsettled' = TRUE
  /\ UNCHANGED <<routed, revoked, routedCount>>

SessionRevoked ==
  /\ ~revoked /\ revoked' = TRUE /\ unsettled' = TRUE /\ routed.token = "admin" /\ routed.code = 0
  /\ UNCHANGED <<routed, adminEnabled, routedCount>>

RoutingNext ==
  \/ RequestComes \/ VersionTagged \/ GateCloses \/ AuthRefuses \/ AdminRefuses \/ SignatureRefuses
  \/ HandlerRuns \/ FallsThrough \/ NotFound \/ ConnectionCloses \/ SwitchFlips \/ SessionRevoked

RoutingSpec == RoutingInit /\ [][RoutingNext]_routingVars

RoutingTypeOK ==
  /\ routed.at \in 0..(Len(Mounts) + 1) /\ routed.code \in {0, 200, 401, 403, 404}
  /\ routed.user \in {"none", "user", "admin"} /\ adminEnabled \in BOOLEAN

(* An administrator whose session and switch stay as they are gets every   *)
(* admin page from the router that owns it. The outbox and job pages never *)
(* authenticate; they work because the payouts router, mounted before      *)
(* them, has (app.ts: createApp).                                          *)
AdminsReachTheirPages ==
  routed.code # 0 /\ ~unsettled /\ routed.token = "admin" /\ ~revoked
      /\ ((routed.page \in AdminPages /\ adminEnabled) \/ routed.page = "jobs") =>
    routed.code = 200 /\ routed.by = Owner(routed.page)

(* The handlers of the admin and job pages run for administrators only,    *)
(* although two of their routers carry no guard of their own, and the      *)
(* callback handler runs for signed requests only (app.ts: createApp,      *)
(* admin.payouts.routes.ts: createAdminPayoutsRouter).                     *)
HandlersAreGuarded ==
  routed.code = 200 =>
    /\ routed.page \in AdminPages \cup {"jobs"} => routed.user = "admin"
    /\ routed.page = "callbacks" => routed.signed

(* A served page that is announced as deprecated has a versioned twin, or  *)
(* is a provider callback, whose path only looks like a public one         *)
(* (apiVersion.middleware.ts: apiVersionMiddleware).                       *)
DeprecatedHasTwin ==
  routed.code = 200 => (routed.tag = "deprecated" <=> routed.by \in {"legacy", "inbound"})

-----------------------------------------------------------------------------
(***************************************************************************)
(* PhoneAdvice                                                             *)
(*                                                                         *)
(* What the phone makes of a failed trade request: the axios interceptor   *)
(* types the error, the admin error map picks the advice, the trade store  *)
(* keeps it in a slot for loads or one for actions, and the banner of the  *)
(* detail screen offers the buttons that go with it.                       *)
(***************************************************************************)

CONSTANTS
  Waits,             \* seconds a rate-limit answer may carry
  MaxPhoneRequests   \* bound: requests sent

VARIABLES
  slots,             \* errorView and lastActionErrorView
  pending,           \* requests in flight
  signedIn,          \* the phone holds a token
  sentRequests       \* requests sent

adviceVars == <<slots, pending, signedIn, sentRequests>>

Kinds == {"load", "silent", "act"}
NoView == [action |-> "none", wait |-> -1, cause |-> "none", kind |-> "load"]
Slots == {"load", "act"}

AdviceInit ==
  /\ slots = [s \in Slots |-> NoView] /\ pending = {} /\ signedIn = TRUE /\ sentRequests = 0

-----------------------------------------------------------------------------
(* The answers: authMiddleware, the rate limiter, the trade controller and *)
(* errorHandler. Status 0: axios got no answer.                            *)

AdviceAnswers ==
  {[status |-> 0,   code |-> "",                     wait |-> -1, cause |-> "offline"],
   [status |-> 0,   code |-> "ECONNABORTED",         wait |-> -1, cause |-> "slow"],
   [status |-> 401, code |-> "AUTH_ERROR",           wait |-> -1, cause |-> "badToken"],
   [status |-> 503, code |-> "INFRA_ERROR",          wait |-> -1, cause |-> "redisDown"],
   [status |-> 404, code |-> "TRADE_NOT_FOUND",      wait |-> -1, cause |-> "unknownTrade"],
   [status |-> 403, code |-> "TRADE_ACCESS_DENIED",  wait |-> -1, cause |-> "notAParty"],
   [status |-> 400, code |-> "TRADE_INVALID_STATUS", wait |-> -1, cause |-> "wrongStatus"],
   [status |-> 400, code |-> "VALIDATION_ERROR",     wait |-> -1, cause |-> "badInput"],
   [status |-> 500, code |-> "TRADE_BUILD_FAILED",   wait |-> -1, cause |-> "buildFailed"],
   [status |-> 500, code |-> "INTERNAL_ERROR",       wait |-> -1, cause |-> "crash"]}
  \cup {[status |-> 429, code |-> "RATE_LIMIT_EXCEEDED", wait |-> w, cause |-> "limited"] : w \in Waits}

\* 401/403 keep the backend's code when there is one.
RefusalCode(a) == IF a.code = "" THEN "AUTH_ERROR" ELSE a.code

InterceptedCode(a) ==
  CASE a.status = 0 -> IF a.code = "ECONNABORTED" THEN "TIMEOUT_ERROR" ELSE "NETWORK_ERROR"
    [] a.status \in {401, 403} -> RefusalCode(a)
    [] a.code # "" -> a.code
    [] OTHER -> "UNKNOWN"

\* ADMIN_ERROR_MAP, for the codes a trade request can meet.
MapAdminErrorCode(code) ==
  CASE code \in {"NETWORK_ERROR", "TIMEOUT_ERROR"} -> "retry"
    [] code \in {"RATE_LIMIT_EXCEEDED", "INFRA_ERROR"} -> "wait_then_retry"
    [] code = "AUTH_ERROR" -> "sign_out_required"
    [] code = "TRADE_NOT_FOUND" -> "go_back"
    [] code = "TRADE_INVALID_STATUS" -> "refresh"
    [] code = "VALIDATION_ERROR" -> "dismiss"
    [] OTHER -> "contact_support"

\* extractRetryAfterSeconds: zero is a wait, an absent one is not.
ExtractRetryAfterSeconds(a) == a.wait

ViewForError(a, kind) ==
  [action |-> MapAdminErrorCode(InterceptedCode(a)), wait |-> ExtractRetryAfterSeconds(a),
   cause |-> a.cause, kind |-> kind]

-----------------------------------------------------------------------------
(* The trade store                                                         *)

SendRequest(kind) == [kind |-> kind, n |-> sentRequests + 1]

\* A silent refresh leaves both slots alone.
Cleared(kind) == CASE kind = "load" -> [slots EXCEPT !["load"] = NoView]
                   [] kind = "act" -> [slots EXCEPT !["act"] = NoView]
                   [] OTHER -> slots

Request(kind) ==
  /\ sentRequests < MaxPhoneRequests
  /\ sentRequests' = sentRequests + 1
  /\ slots' = Cleared(kind)

UserLoads == Request("load") /\ pending' = pending \cup {SendRequest("load")} /\ UNCHANGED signedIn
UserActs == Request("act") /\ pending' = pending \cup {SendRequest("act")} /\ UNCHANGED signedIn

\* releaseFunds and deposit reload the trade silently once they succeed.
RequestSucceeds(q) ==
  /\ q \in pending
  /\ \/ pending' = pending \ {q} /\ UNCHANGED <<slots, sentRequests>>
     \/ q.kind = "act" /\ Request("silent") /\ pending' = (pending \ {q}) \cup {SendRequest("silent")}
  /\ UNCHANGED signedIn

SlotOf(kind) == CASE kind = "act" -> "act" [] kind = "load" -> "load" [] OTHER -> "none"

ErrorSlot(kind) == SlotOf(kind)

RequestFails(q, a) ==
  /\ q \in pending /\ pending' = pending \ {q}
  /\ slots' = IF ErrorSlot(q.kind) = "none" THEN slots
              ELSE [slots EXCEPT ![ErrorSlot(q.kind)] = ViewForError(a, q.kind)]
  /\ UNCHANGED <<signedIn, sentRequests>>

-----------------------------------------------------------------------------
(* The banner                                                              *)

IsActionError == slots["act"] # NoView
Visible == IF IsActionError THEN slots["act"] ELSE slots["load"]

\* resolvePrimaryButton with the callbacks the detail screen passes.
PrimaryButton ==
  CASE Visible.action \in {"retry", "wait_then_retry", "refresh"} ->
         IF IsActionError THEN "none" ELSE "retry"
    [] Visible.action = "sign_out_required" -> "signOut"
    [] Visible.action = "go_back" -> "clear"
    [] Visible.action = "contact_support" -> "support"
    [] OTHER -> "none"

PressRetry == PrimaryButton = "retry" /\ UserLoads

PressSignOut ==
  /\ PrimaryButton = "signOut" /\ signedIn /\ signedIn' = FALSE
  /\ UNCHANGED <<slots, pending, sentRequests>>

PressGoBack ==
  /\ PrimaryButton = "clear" /\ slots' = [s \in Slots |-> NoView]
  /\ UNCHANGED <<pending, signedIn, sentRequests>>

AdviceNext ==
  \/ signedIn /\ (UserLoads \/ UserActs)
  \/ \E q \in pending : RequestSucceeds(q) \/ \E a \in AdviceAnswers : RequestFails(q, a)
  \/ signedIn /\ PressRetry
  \/ PressSignOut \/ PressGoBack

AdviceTypeOK ==
  /\ DOMAIN slots = Slots /\ \A q \in pending : q.kind \in Kinds /\ q.n \in 1..MaxPhoneRequests
  /\ sentRequests \in 0..MaxPhoneRequests /\ signedIn \in BOOLEAN

(* The advice on the phone fits what went wrong: it suggests trying again  *)
(* only for what may pass, signing out only when the token was refused,    *)
(* going back only for a trade that is not there; and the wait it names is *)
(* the server's (errorInterceptor.ts, adminErrorMap.ts).                   *)
AdviceFitsCause ==
  \A s \in Slots : LET v == slots[s] IN
    /\ CASE v.action = "none" -> v = NoView
         [] v.action = "retry" -> v.cause \in {"offline", "slow"}
         [] v.action = "wait_then_retry" -> v.cause \in {"limited", "redisDown"}
         [] v.action = "sign_out_required" -> v.cause = "badToken"
         [] v.action = "go_back" -> v.cause = "unknownTrade"
         [] v.action = "refresh" -> v.cause = "wrongStatus"
         [] v.action = "dismiss" -> v.cause = "badInput"
         [] OTHER -> v.cause \in {"notAParty", "buildFailed", "crash"}
    /\ (v.wait >= 0) <=> (v.cause = "limited")

(* A release or deposit that succeeded is never followed by an error       *)
(* banner because its silent refresh failed (tradeStore.ts: fetchTrade     *)
(* with silent), whatever loads and actions overlap it.                    *)
SilentFailuresStaySilent == \A s \in Slots : slots[s].kind # "silent"

AdviceSpec == AdviceInit /\ [][AdviceNext]_adviceVars

-----------------------------------------------------------------------------
\* The parts side by side: a behaviour follows one of them.

adminRequestsVars == <<adminVars, routingVars, adviceVars>>

AdminRequestsInit ==
  /\ AdminInit
  /\ RoutingInit
  /\ AdviceInit

AdminRequestsNext ==
  \/ /\ \/ TurnTo("AdminCalls") /\ UNCHANGED adminVars
        \/ StaysWith("AdminCalls") /\ AdminNext
     /\ UNCHANGED <<routingVars, adviceVars>>
  \/ /\ \/ TurnTo("Routing") /\ RoutingStart
        \/ StaysWith("Routing") /\ RoutingNext
     /\ UNCHANGED <<adminVars, adviceVars>>
  \/ /\ \/ TurnTo("PhoneAdvice") /\ UNCHANGED adviceVars
        \/ StaysWith("PhoneAdvice") /\ AdviceNext
     /\ UNCHANGED <<adminVars, routingVars>>

AdminRequestsTypeOK ==
  /\ subject = "AdminCalls" => AdminTypeOK
  /\ subject = "Routing" => RoutingTypeOK
  /\ subject = "PhoneAdvice" => AdviceTypeOK
=============================================================================
