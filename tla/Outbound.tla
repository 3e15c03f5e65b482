------------------------------- MODULE Outbound ------------------------------
\* What the backend sends out and asks for: Stellar transactions, calls behind a
\* breaker, evidence from the gateways and webhook deliveries.
EXTENDS Integers, FiniteSets

-----------------------------------------------------------------------------
(***************************************************************************)
(* Submission                                                              *)
(*                                                                         *)
(* StellarService.submitTransaction: retryAsync around one breaker-guarded *)
(* sendTransaction, the breaker (lib/circuit-breaker.ts) shared by every   *)
(* submission of the process. The network may accept a transaction whose   *)
(* answer is lost; a second sending of it is then answered DUPLICATE while *)
(* it is pending, and with an ERROR once it was applied.                   *)
(*                                                                         *)
(* A submitter has one signed transaction at a time. Failure counts above  *)
(* the threshold behave as the threshold, so the count stops there.        *)
(***************************************************************************)

CONSTANTS
  Submitters,        \* concurrent callers of submitTransaction
  SubmitRetries,     \* SOROBAN_SUBMIT_MAX_RETRIES
  PayThreshold,      \* failureThreshold of paymentCircuitBreaker
  PayReset           \* resetTimeoutMs, in ticks

VARIABLES
  payBreaker,        \* state, failureCount, ticks since lastFailureTime
  submission,        \* per submitter: where it is, retries made, verdict returned
  accepted           \* per submitter: the network has taken its transaction

subVars == <<payBreaker, submission, accepted>>

SubInit ==
  /\ payBreaker = [state |-> "closed", failureCount |-> 0, since |-> PayReset]
  /\ submission = [c \in Submitters |-> [at |-> "idle", attempt |-> 0, verdict |-> "none"]]
  /\ accepted = [c \in Submitters |-> FALSE]

-----------------------------------------------------------------------------
(* lib/circuit-breaker.ts                                                  *)

BreakerNow ==
  IF payBreaker.state = "open" /\ payBreaker.since >= PayReset
  THEN [payBreaker EXCEPT !.state = "half-open"] ELSE payBreaker

Available == BreakerNow.state # "open"

RecordSuccess ==
  payBreaker' = [payBreaker EXCEPT
    !.state = IF @ = "half-open" THEN "closed" ELSE @, !.failureCount = 0]

RecordFailure ==
  LET count == IF payBreaker.failureCount < PayThreshold
               THEN payBreaker.failureCount + 1 ELSE PayThreshold
  IN payBreaker' =
       [state |-> IF payBreaker.state = "half-open" \/ count >= PayThreshold
                  THEN "open" ELSE payBreaker.state,
        failureCount |-> count, since |-> 0]

-----------------------------------------------------------------------------
(* retryAsync                                                              *)

Settle(c, verdict) ==
  submission' = [submission EXCEPT ![c].at = "done", ![c].verdict = verdict]

\* classifyStellarError: only these categories are not retried.
Retryable(category) ==
  category \notin {"not_found", "invalid_xdr", "contract_panic", "rpc_error"}

\* The catch block: an error that is not retryable is rethrown, and so is the
\* last one; the time budget may end the loop before the attempts do.
AfterError(c, category) ==
  IF ~Retryable(category) THEN Settle(c, "rejected")
  ELSE \/ Settle(c, "exhausted")
       \/ /\ submission[c].attempt < SubmitRetries
          /\ submission' = [submission EXCEPT ![c].at = "backoff", ![c].attempt = @ + 1]

SubmitTransaction(c) ==
  /\ submission[c].at \in {"idle", "done"}
  /\ submission' = [submission EXCEPT ![c] = [at |-> "try", attempt |-> 0, verdict |-> "none"]]
  /\ accepted' = [accepted EXCEPT ![c] = FALSE]
  /\ UNCHANGED payBreaker

SendBackoffElapses(c) ==
  /\ submission[c].at = "backoff"
  /\ submission' = [submission EXCEPT ![c].at = "try"]
  /\ UNCHANGED <<payBreaker, accepted>>

\* withCircuitBreaker: an open breaker refuses, with a message that
\* classifyStellarError takes for a network error.
Send(c) ==
  /\ submission[c].at = "try"
  /\ IF Available
     THEN /\ payBreaker' = BreakerNow
          /\ submission' = [submission EXCEPT ![c].at = "sent"]
     ELSE /\ payBreaker' = BreakerNow
          /\ AfterError(c, "network_error")
  /\ UNCHANGED accepted

\* PENDING, or DUPLICATE when an earlier attempt had reached the network.
Taken(c) ==
  /\ submission[c].at = "sent"
  /\ accepted' = [accepted EXCEPT ![c] = TRUE]
  /\ RecordSuccess
  /\ Settle(c, "ok")

\* An error is thrown inside the breaker: TRY_AGAIN_LATER, a refused
\* connection, an ERROR status with or without a contract result. An ERROR is
\* taken at its word, also when it answers the second sending of a transaction
\* that was applied after the first.
Refused(c, category) ==
  /\ submission[c].at = "sent"
  /\ RecordFailure
  /\ AfterError(c, category)
  /\ UNCHANGED accepted

\* The answer does not come back; the network may have the transaction.
AnswerLost(c) ==
  /\ submission[c].at = "sent"
  /\ \E reached \in BOOLEAN : accepted' = [accepted EXCEPT ![c] = @ \/ reached]
  /\ RecordFailure
  /\ AfterError(c, "timeout")

PayTick ==
  /\ payBreaker.since < PayReset
  /\ payBreaker' = [payBreaker EXCEPT !.since = @ + 1]
  /\ UNCHANGED <<submission, accepted>>

SubNext ==
  \/ \E c \in Submitters :
       \/ SubmitTransaction(c) \/ SendBackoffElapses(c) \/ Send(c) \/ Taken(c) \/ AnswerLost(c)
       \/ \E category \in {"rate_limited", "connection_refused", "invalid_xdr",
                           "contract_panic", "rpc_error"} : Refused(c, category)
  \/ PayTick

-----------------------------------------------------------------------------

SubTypeOK ==
  /\ payBreaker \in [state : {"closed", "open", "half-open"},
                     failureCount : 0..PayThreshold, since : 0..PayReset]
  /\ submission \in [Submitters -> [at : {"idle", "try", "sent", "backoff", "done"},
                                    attempt : 0..SubmitRetries,
                                    verdict : {"none", "ok", "rejected", "exhausted"}]]
  /\ accepted \in [Submitters -> BOOLEAN]

\* An open breaker lets submissions through again, even while callers keep
\* being refused by it.
BreakerLetsThroughAgain == []<>Available

\* Timers fire and the RPC client answers or times out; nobody has to submit.
SubFairness ==
  /\ WF_subVars(PayTick)
  /\ \A c \in Submitters :
       WF_subVars(SendBackoffElapses(c) \/ Send(c) \/ Taken(c) \/ AnswerLost(c))

-----------------------------------------------------------------------------
(***************************************************************************)
(* Breaker                                                                 *)
(*                                                                         *)
(* The circuit breaker of lib/circuitBreaker.ts, which guards the event    *)
(* listener's RPC polls, IPFS uploads and Horizon path queries. Calls run  *)
(* concurrently, so a result may arrive in a state later than the one its  *)
(* call was admitted in; onSuccess and onFailure only look at the current  *)
(* state.                                                                  *)
(***************************************************************************)

CONSTANTS
  Calls,              \* concurrent operations
  FailureThreshold,   \* consecutive failures that open the breaker
  SuccessThreshold,   \* successes that close it
  Cooldown            \* cooldownMs, in ticks

VARIABLES
  circuit,            \* state, failureCount, successCount, ticks since openedAt
  flying,             \* operations in progress
  serviceUp,          \* the guarded service answers
  refused             \* the last call was refused with CircuitBreakerOpenError

circuitVars == <<circuit, flying, serviceUp, refused>>

CircuitInit ==
  /\ circuit = [state |-> "CLOSED", failureCount |-> 0, successCount |-> 0, since |-> Cooldown]
  /\ flying = {}
  /\ serviceUp = TRUE
  /\ refused = FALSE

TransitionIfCooldownElapsed ==
  IF circuit.state = "OPEN" /\ circuit.since >= Cooldown
  THEN [circuit EXCEPT !.state = "HALF_OPEN", !.successCount = 0, !.failureCount = 0]
  ELSE circuit

Call(k) ==
  /\ k \notin flying
  /\ circuit' = TransitionIfCooldownElapsed
  /\ refused' = (circuit'.state = "OPEN")
  /\ flying' = IF refused' THEN flying ELSE flying \cup {k}
  /\ UNCHANGED serviceUp

\* Mutant: the success that reaches the threshold is counted and no more.
OnSuccessStaysHalfOpen ==
  circuit' =
    CASE circuit.state # "HALF_OPEN" -> [circuit EXCEPT !.failureCount = 0]
      [] circuit.successCount < SuccessThreshold -> [circuit EXCEPT !.successCount = @ + 1]
      [] OTHER -> circuit

OnSuccess ==
  circuit' =
    CASE circuit.state # "HALF_OPEN" -> [circuit EXCEPT !.failureCount = 0]
      [] circuit.successCount + 1 >= SuccessThreshold ->
           [state |-> "CLOSED", failureCount |-> 0, successCount |-> 0, since |-> Cooldown]
      [] OTHER -> [circuit EXCEPT !.successCount = @ + 1]

\* A failure while OPEN counts too, and re-arms the cooldown once the count is
\* back at the threshold.
OnFailure ==
  circuit' =
    CASE circuit.state = "HALF_OPEN" ->
           [state |-> "OPEN", failureCount |-> 0, successCount |-> 0, since |-> 0]
      [] circuit.failureCount + 1 >= FailureThreshold ->
           [state |-> "OPEN", failureCount |-> FailureThreshold, successCount |-> 0, since |-> 0]
      [] OTHER -> [circuit EXCEPT !.failureCount = @ + 1]

CallSucceeds(k) ==
  /\ k \in flying /\ serviceUp
  /\ OnSuccess
  /\ flying' = flying \ {k}
  /\ UNCHANGED <<serviceUp, refused>>

GuardedCallFails(k) ==
  /\ k \in flying /\ ~serviceUp
  /\ OnFailure
  /\ flying' = flying \ {k}
  /\ UNCHANGED <<serviceUp, refused>>

ServiceFlips ==
  /\ serviceUp' = ~serviceUp
  /\ UNCHANGED <<circuit, flying, refused>>

CircuitTick ==
  /\ circuit.since < Cooldown
  /\ circuit' = [circuit EXCEPT !.since = @ + 1]
  /\ UNCHANGED <<flying, serviceUp, refused>>

CircuitNext ==
  \/ \E k \in Calls : Call(k) \/ CallSucceeds(k) \/ GuardedCallFails(k)
  \/ ServiceFlips
  \/ CircuitTick

-----------------------------------------------------------------------------

CircuitTypeOK ==
  /\ circuit \in [state : {"CLOSED", "OPEN", "HALF_OPEN"}, failureCount : 0..FailureThreshold,
                  successCount : 0..(SuccessThreshold - 1), since : 0..Cooldown]
  /\ flying \subseteq Calls
  /\ serviceUp \in BOOLEAN /\ refused \in BOOLEAN

\* A service that is back for good is reached without refusals again.
RecoveredServiceIsReached ==
  (<>[]serviceUp) => <>[](circuit.state = "CLOSED")

\* Time passes, operations end, and the pollers keep calling while the breaker
\* is not closed.
CircuitFairness ==
  /\ WF_circuitVars(CircuitTick)
  /\ \A k \in Calls :
       /\ WF_circuitVars(CallSucceeds(k) \/ GuardedCallFails(k))
       /\ WF_circuitVars(circuit.state # "CLOSED" /\ Call(k))

-----------------------------------------------------------------------------
(***************************************************************************)
(* EvidenceStream                                                          *)
(*                                                                         *)
(* GET /evidence/:cid/stream: a file is asked of the configured gateways   *)
(* in order, over a circuit per gateway URL.  The URL holds the CID, so    *)
(* the model is of one file.  Streams run concurrently; each reads the     *)
(* circuits again after the answer it awaited.                             *)
(***************************************************************************)

CONSTANTS
  Streams,            \* concurrent requests for the file
  GatewayCount,       \* allowed gateways in IPFS_GATEWAY_URLS
  GatewayThreshold,   \* IPFS_GATEWAY_CIRCUIT_FAILURE_THRESHOLD
  GatewayCooldown,    \* IPFS_GATEWAY_CIRCUIT_COOLDOWN_MS, in ticks
  MaxMisses           \* bound: failures counted

VARIABLES
  gate,        \* per gateway: failures and the ticks until openUntil
  gatewayUp,   \* which gateways answer
  videoStream,      \* per request: the gateway asked, or how it ended
  misses       \* history: failures of a gateway since its last answer

gatewayVars == <<gate, gatewayUp, videoStream, misses>>

GatewayNumbers == 1..GatewayCount
ClosedGate == [failures |-> 0, wait |-> 0]
AtMost(n) == IF n < MaxMisses THEN n ELSE MaxMisses

GatewayInit ==
  /\ gate = [g \in GatewayNumbers |-> ClosedGate]
  /\ gatewayUp = [g \in GatewayNumbers |-> TRUE]
  /\ videoStream = [s \in Streams |-> [at |-> 0, end |-> "none"]]
  /\ misses = [g \in GatewayNumbers |-> 0]

IsGatewayCircuitOpen(circuits, g) == circuits[g].wait > 0

\* The loop goes on to the next gateway whose circuit is not open.
AskedFrom(circuits, first) ==
  LET open == {g \in first..GatewayCount : ~IsGatewayCircuitOpen(circuits, g)}
  IN IF open = {} THEN [at |-> 0, end |-> "unavailable"]
     ELSE [at |-> CHOOSE g \in open : \A h \in open : g <= h, end |-> "none"]

StreamFromIPFS(s) ==
  /\ videoStream[s].at = 0
  /\ videoStream' = [videoStream EXCEPT ![s] = AskedFrom(gate, 1)]
  /\ UNCHANGED <<gate, gatewayUp, misses>>

OnGatewaySuccess(g) == gate' = [gate EXCEPT ![g] = ClosedGate]

OnGatewayFailure(g) ==
  LET failures == gate[g].failures + 1
  IN gate' = [gate EXCEPT ![g] = [failures |-> AtMost(failures),
                                  wait |-> IF failures >= GatewayThreshold THEN GatewayCooldown ELSE 0]]

\* Any status below 500 is an answer; the route passes it on, as 206 when the
\* client asked for a range.
GatewayAnswers(s) ==
  LET g == videoStream[s].at IN
  /\ g # 0 /\ gatewayUp[g]
  /\ OnGatewaySuccess(g)
  /\ videoStream' = [videoStream EXCEPT ![s] = [at |-> 0, end |-> "served"]]
  /\ misses' = [misses EXCEPT ![g] = 0]
  /\ UNCHANGED gatewayUp

GatewayFails(s) ==
  LET g == videoStream[s].at IN
  /\ g # 0 /\ ~gatewayUp[g]
  /\ OnGatewayFailure(g)
  /\ videoStream' = [videoStream EXCEPT ![s] = AskedFrom(gate', g + 1)]
  /\ misses' = [misses EXCEPT ![g] = AtMost(@ + 1)]
  /\ UNCHANGED gatewayUp

GatewayFlips(g) ==
  /\ gatewayUp' = [gatewayUp EXCEPT ![g] = ~@]
  /\ UNCHANGED <<gate, videoStream, misses>>

GatewayTick ==
  /\ \E g \in GatewayNumbers : gate[g].wait > 0
  /\ gate' = [g \in GatewayNumbers |-> [gate[g] EXCEPT !.wait = IF @ > 0 THEN @ - 1 ELSE 0]]
  /\ UNCHANGED <<gatewayUp, videoStream, misses>>

GatewayNext ==
  \/ \E s \in Streams : StreamFromIPFS(s) \/ GatewayAnswers(s) \/ GatewayFails(s)
  \/ \E g \in GatewayNumbers : GatewayFlips(g)
  \/ GatewayTick

-----------------------------------------------------------------------------

GatewayTypeOK ==
  /\ gate \in [GatewayNumbers -> [failures : 0..MaxMisses, wait : 0..GatewayCooldown]]
  /\ gatewayUp \in [GatewayNumbers -> BOOLEAN]
  /\ videoStream \in [Streams -> [at : 0..GatewayCount, end : {"none", "served", "unavailable"}]]
  /\ misses \in [GatewayNumbers -> 0..MaxMisses]

\* A gateway is left out only after as many failures as the threshold with no
\* answer of its own in between, whatever the order in which concurrent
\* streams saw answers and failures.
LeftOutOnlyAfterFailures ==
  \A g \in GatewayNumbers : gate[g].wait > 0 => misses[g] >= GatewayThreshold

\* The first gateway, once it answers for good, is asked again by streams that
\* were sent past it and its circuit is forgotten.
FirstGatewayAskedAgain ==
  (<>[]gatewayUp[1]) => <>[](gate[1] = ClosedGate)

\* Time passes, a gateway's answer or failure arrives, and clients ask again
\* for a file while a gateway that failed it is not cleared.
GatewayFairness ==
  /\ WF_gatewayVars(GatewayTick)
  /\ \A s \in Streams :
       /\ WF_gatewayVars(GatewayAnswers(s) \/ GatewayFails(s))
       /\ WF_gatewayVars(gate[1] # ClosedGate /\ StreamFromIPFS(s))

-----------------------------------------------------------------------------
(***************************************************************************)
(* WebhookDelivery                                                         *)
(*                                                                         *)
(* Outbound webhooks. An event handler starts a dispatch without waiting   *)
(* for it, inside the transaction that may still roll back; the dispatch   *)
(* looks up the subscriptions, then each target is tried on its own with   *)
(* retries held in memory, so a stopping process forgets them.             *)
(***************************************************************************)

CONSTANTS
  Subscribers,       \* webhook subscriptions that users may register
  ConfiguredUrl,     \* BOOLEAN: WEBHOOK_URL is set
  WebhookAttempts,   \* WEBHOOK_MAX_ATTEMPTS
  MaxDispatches,     \* bound: dispatches
  MaxSubscriptions   \* bound: subscriptions made and deleted

VARIABLES
  subscribed,        \* active subscriptions
  dispatches,        \* per dispatch: its phase and its transaction
  hookSends,         \* per dispatch and target: where the retries are
  subscriptions,
  heard              \* ghost: the answers each target gave, per dispatch

hookVars == <<subscribed, dispatches, hookSends, subscriptions, heard>>

HookTargets == Subscribers \cup {"configured"}
Sends == (1..MaxDispatches) \X HookTargets
HookAnswers == {"ok", "4xx", "429", "5xx", "lost"}

HookInit ==
  /\ subscribed = {}
  /\ dispatches = [d \in 1..MaxDispatches |-> [phase |-> "none", tx |-> "none"]]
  /\ hookSends = [s \in Sends |-> [phase |-> "none", attempt |-> 0]]
  /\ subscriptions = 0 /\ heard = [s \in Sends |-> [a \in HookAnswers |-> 0]]

\* The subscriptions there are.
HookStart ==
  /\ subscribed' \in SUBSET Subscribers
  /\ UNCHANGED <<dispatches, hookSends, subscriptions, heard>>

-----------------------------------------------------------------------------
(* /webhooks                                                               *)

CreateWebhook(u) ==
  /\ u \notin subscribed /\ subscriptions < MaxSubscriptions
  /\ subscribed' = subscribed \cup {u} /\ subscriptions' = subscriptions + 1
  /\ UNCHANGED <<dispatches, hookSends, heard>>

DeleteWebhook(u) ==
  /\ u \in subscribed /\ subscriptions < MaxSubscriptions
  /\ subscribed' = subscribed \ {u} /\ subscriptions' = subscriptions + 1
  /\ UNCHANGED <<dispatches, hookSends, heard>>

-----------------------------------------------------------------------------
(* Dispatching                                                             *)

HandlerDispatches(d) ==
  /\ dispatches[d].phase = "none" /\ \A e \in 1..(d - 1) : dispatches[e].phase # "none"
  /\ dispatches' = [dispatches EXCEPT ![d] = [phase |-> "finding", tx |-> "open"]]
  /\ UNCHANGED <<subscribed, hookSends, subscriptions, heard>>

\* The surrounding transaction ends on its own time.
HandlerCommits(d) ==
  /\ dispatches[d].tx = "open"
  /\ \E end \in {"committed", "rolledBack"} : dispatches' = [dispatches EXCEPT ![d].tx = end]
  /\ UNCHANGED <<subscribed, hookSends, subscriptions, heard>>

DeliveryTargets == subscribed \cup (IF ConfiguredUrl THEN {"configured"} ELSE {})

DispatchFinds(d) ==
  /\ dispatches[d].phase = "finding"
  /\ dispatches' = [dispatches EXCEPT ![d].phase = "sending"]
  /\ hookSends' = [s \in Sends |-> IF s[1] = d /\ s[2] \in DeliveryTargets
                                 THEN [phase |-> "flying", attempt |-> 1] ELSE hookSends[s]]
  /\ UNCHANGED <<subscribed, subscriptions, heard>>

ShouldRetry(a) == a \in {"5xx", "429", "lost"}

\* Mutant: the attempts are counted from the first retry.
RetriesCounted(s) == hookSends[s].attempt <= WebhookAttempts

AttemptsLeft(s) == hookSends[s].attempt < WebhookAttempts

AfterAttempt(s, a) ==
  IF a = "ok" THEN "delivered"
  ELSE IF ShouldRetry(a) /\ AttemptsLeft(s) THEN "waiting" ELSE "ended"

AttemptEnds(s, a) ==
  /\ hookSends[s].phase = "flying"
  /\ hookSends' = [hookSends EXCEPT ![s].phase = AfterAttempt(s, a)]
  /\ heard' = [heard EXCEPT ![s][a] = @ + 1]
  /\ UNCHANGED <<subscribed, dispatches, subscriptions>>

DelayOver(s) ==
  /\ hookSends[s].phase = "waiting"
  /\ hookSends' = [hookSends EXCEPT ![s] = [phase |-> "flying", attempt |-> @.attempt + 1]]
  /\ UNCHANGED <<subscribed, dispatches, subscriptions, heard>>

\* The process stops: dispatches and retries under way are gone.
HookProcessStops ==
  /\ \E d \in 1..MaxDispatches : dispatches[d].phase \in {"finding", "sending"}
  /\ dispatches' = [d \in 1..MaxDispatches |->
       IF dispatches[d].phase = "none" THEN dispatches[d]
       ELSE [phase |-> "gone", tx |-> IF dispatches[d].tx = "open" THEN "rolledBack" ELSE dispatches[d].tx]]
  /\ hookSends' = [s \in Sends |-> IF hookSends[s].phase \in {"flying", "waiting"}
                                 THEN [hookSends[s] EXCEPT !.phase = "gone"] ELSE hookSends[s]]
  /\ UNCHANGED <<subscribed, subscriptions, heard>>

HookNext ==
  \/ \E u \in Subscribers : CreateWebhook(u) \/ DeleteWebhook(u)
  \/ \E d \in 1..MaxDispatches : HandlerDispatches(d) \/ HandlerCommits(d) \/ DispatchFinds(d)
  \/ \E s \in Sends : DelayOver(s) \/ \E a \in HookAnswers : AttemptEnds(s, a)
  \/ HookProcessStops

HookFairness ==
  /\ \A d \in 1..MaxDispatches : WF_hookVars(DispatchFinds(d)) /\ WF_hookVars(HandlerCommits(d))
  /\ \A s \in Sends : WF_hookVars(DelayOver(s)) /\ WF_hookVars(\E a \in HookAnswers : AttemptEnds(s, a))

HookSpec == HookInit /\ [][HookNext]_hookVars

HookTypeOK ==
  /\ subscribed \subseteq Subscribers
  /\ \A s \in Sends : hookSends[s].attempt \in 0..WebhookAttempts

(* A target is given up only when it refused the delivery outright or when *)
(* every one of the configured attempts failed, and one that accepted is   *)
(* never sent the same dispatch again: a second copy follows only an       *)
(* answer that was lost or asked for a retry (webhook.service.ts:          *)
(* sendWebhookWithRetry).                                                  *)
GivenUpForCause ==
  \A s \in Sends : LET h == heard[s] IN
    /\ h["ok"] <= 1 /\ h["4xx"] <= 1 /\ h["ok"] + h["4xx"] <= 1
    /\ hookSends[s].phase = "ended" =>
         h["4xx"] = 1 \/ h["429"] + h["5xx"] + h["lost"] = WebhookAttempts

(* Every committed change is announced to each target its dispatch found,  *)
(* or given up there, unless the process stopped first: no delivery stays  *)
(* waiting for its delay (webhook.service.ts: dispatch).                   *)
DeliveriesEnd ==
  \A s \in Sends :
    []<>(hookSends[s].phase \in {"none", "delivered", "ended", "gone"})
=============================================================================
