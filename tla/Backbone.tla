------------------------------- MODULE Backbone ------------------------------
\* The parts of the backend that promise progress: the chain listeners,
\* keyed requests, queues, heartbeats, breakers, deliveries and the process
\* itself.
EXTENDS Subject, ChainSync, Idempotency, AdminStreams, Jobs, Outbound

backboneVars == <<syncVars, idemVars, streamVars, jobVars, hbVars, procVars,
                  subVars, circuitVars, gatewayVars, hookVars>>

BackboneInit ==
  /\ subject = NoSubject
  /\ SyncInit /\ tradeRow = [t \in TradeIds |-> NoRow]
  /\ IdemInit
  /\ StreamInit
  /\ JobInit
  /\ HbInit
  /\ ProcInit
  /\ SubInit
  /\ CircuitInit
  /\ GatewayInit
  /\ HookInit

BackboneNext ==
  \/ /\ \/ TurnTo("ChainSync") /\ SyncStart
        \/ StaysWith("ChainSync") /\ SyncNext
     /\ UNCHANGED <<idemVars, streamVars, jobVars, hbVars, procVars, subVars,
                   circuitVars, gatewayVars, hookVars>>
  \/ /\ \/ TurnTo("Idempotency") /\ UNCHANGED idemVars
        \/ StaysWith("Idempotency") /\ IdemNext
     /\ UNCHANGED <<syncVars, streamVars, jobVars, hbVars, procVars, subVars,
                   circuitVars, gatewayVars, hookVars>>
  \/ /\ \/ TurnTo("AdminStreams") /\ UNCHANGED streamVars
        \/ StaysWith("AdminStreams") /\ StreamNext
     /\ UNCHANGED <<syncVars, idemVars, jobVars, hbVars, procVars, subVars,
                   circuitVars, gatewayVars, hookVars>>
  \/ /\ \/ TurnTo("JobQueue") /\ UNCHANGED jobVars
        \/ StaysWith("JobQueue") /\ JobNext
     /\ UNCHANGED <<syncVars, idemVars, streamVars, hbVars, procVars, subVars,
                   circuitVars, gatewayVars, hookVars>>
  \/ /\ \/ TurnTo("JobHealth") /\ UNCHANGED hbVars
        \/ StaysWith("JobHealth") /\ HbNext
     /\ UNCHANGED <<syncVars, idemVars, streamVars, jobVars, procVars, subVars,
                   circuitVars, gatewayVars, hookVars>>
  \/ /\ \/ TurnTo("ServerProcess") /\ UNCHANGED procVars
        \/ StaysWith("ServerProcess") /\ ProcNext
     /\ UNCHANGED <<syncVars, idemVars, streamVars, jobVars, hbVars, subVars,
                   circuitVars, gatewayVars, hookVars>>
  \/ /\ \/ TurnTo("Submission") /\ UNCHANGED subVars
        \/ StaysWith("Submission") /\ SubNext
     /\ UNCHANGED <<syncVars, idemVars, streamVars, jobVars, hbVars, procVars,
                   circuitVars, gatewayVars, hookVars>>
  \/ /\ \/ TurnTo("Breaker") /\ UNCHANGED circuitVars
        \/ StaysWith("Breaker") /\ CircuitNext
     /\ UNCHANGED <<syncVars, idemVars, streamVars, jobVars, hbVars, procVars,
                   subVars, gatewayVars, hookVars>>
  \/ /\ \/ TurnTo("EvidenceStream") /\ UNCHANGED gatewayVars
        \/ StaysWith("EvidenceStream") /\ GatewayNext
     /\ UNCHANGED <<syncVars, idemVars, streamVars, jobVars, hbVars, procVars,
                   subVars, circuitVars, hookVars>>
  \/ /\ \/ TurnTo("WebhookDelivery") /\ HookStart
        \/ StaysWith("WebhookDelivery") /\ HookNext
     /\ UNCHANGED <<syncVars, idemVars, streamVars, jobVars, hbVars, procVars,
                   subVars, circuitVars, gatewayVars>>

\* Every service keeps its variables in their types.
BackboneTypeOK ==
  /\ subject = "ChainSync" => SyncTypeOK
  /\ subject = "Idempotency" => IdemTypeOK
  /\ subject = "AdminStreams" => StreamTypeOK
  /\ subject = "JobQueue" => JobTypeOK
  /\ subject = "JobHealth" => HbTypeOK
  /\ subject = "ServerProcess" => ProcTypeOK
  /\ subject = "Submission" => SubTypeOK
  /\ subject = "Breaker" => CircuitTypeOK
  /\ subject = "EvidenceStream" => GatewayTypeOK
  /\ subject = "WebhookDelivery" => HookTypeOK

\* The poll loop reschedules itself after every cycle and the process manager
\* restarts a dead replica (weak fairness); an attempt that is begun again and
\* again eventually ends in one of its recorded outcomes, that is, the database
\* is not lost at that very point for ever (strong fairness); time passes. The
\* listeners poll from the start, so this is said of behaviours that follow them.
SyncFairness ==
  /\ \A i \in Listeners : /\ WF_syncVars(subject = "ChainSync" /\ Loop(i))
                          /\ SF_syncVars(subject = "ChainSync" /\ AttemptSettles(i))
  /\ \A e \in Events : WF_syncVars(subject = "ChainSync" /\ BackoffElapses(e))

BackboneFairness ==
  /\ SyncFairness
  /\ IdemFairness
  /\ StreamFairness
  /\ JobFairness
  /\ ProcFairness
  /\ SubFairness
  /\ CircuitFairness
  /\ GatewayFairness
  /\ HookFairness

BackboneSpec ==
  /\ BackboneInit
  /\ [][BackboneNext]_<<subject, backboneVars>>
  /\ BackboneFairness

-----------------------------------------------------------------------------
\* A request, a job or a delivery that is tried several times takes effect once:
\* the key of a request executes once for each time it was protected and answers
\* with a real answer (idempotency.ts), a dead letter is replayed once and none
\* is lost (the DLQ listener), and a webhook is given up only for cause.
HandledOnce ==
  /\ OneExecution /\ ReplaysARealAnswer
  /\ ExhaustedAreKept /\ ReplayedOnce
  /\ GivenUpForCause

\* Nothing is taken away without a cause that is still there: a pod leaves the
\* rotation for its own dependencies (health routes), a lock stops terminations
\* and the audit explains the row (admin streams), connections close after their
\* work (shutdown), and a gateway is left out after failures of its own.
TakenForCause ==
  /\ ShedForCause /\ LockStopsTermination
  /\ [](/\ AuditExplainsRow /\ ConnectionsOutliveWork
        /\ LeftOutOnlyAfterFailures)

\* What was begun ends, through crashes, lost answers and retries: failed events
\* are tried again (EventListenerService), keyed requests are answered, jobs of
\* the queues whose workers index.ts starts settle, deliveries end, a cached
\* stream does not outlive its TTL, and a process told to stop exits.
WorkSettles ==
  /\ RetriedUntilPassed /\ RequestsAnswered
  /\ StaleCacheHeals /\ JobsSettle /\ DeliveriesEnd /\ ShutdownEnds

\* What was shut out comes back: both breakers close over a service that is back
\* for good, and the first gateway is asked again.
ReachedAgain ==
  /\ BreakerLetsThroughAgain /\ RecoveredServiceIsReached
  /\ FirstGatewayAskedAgain
=============================================================================
