--------------------------------- MODULE Jobs --------------------------------
\* The backend's own work: the queue, the watchdog over its jobs and the server
\* process that runs them.
EXTENDS Naturals, Sequences, FiniteSets

-----------------------------------------------------------------------------
(***************************************************************************)
(* JobQueue                                                                *)
(*                                                                         *)
(* One BullMQ queue of the backend whose worker index.ts starts: the       *)
(* reconciliation sweep or the PII log scan. Jobs have a fixed number of   *)
(* attempts; there are workers that run them, the "failed" listener that   *)
(* copies an exhausted job to the dead-letter queue, and the admin route   *)
(* that replays an entry from there. The workers of the other queues are   *)
(* written the same way and nothing starts them.                           *)
(*                                                                         *)
(* The listener runs after BullMQ has recorded the failure, in the worker's*)
(* process; a replay adds the job to its queue and removes the dead letter *)
(* in two calls. Processes die between any two of these.                   *)
(***************************************************************************)

CONSTANTS
  JobWorkers,     \* worker processes on the queue
  DlqAdmins,      \* admins that replay dead letters, one request each
  JobAttempts,    \* defaultJobOptions.attempts
  MaxJobs,        \* bound: jobs ever added
  MaxJobCrashes   \* bound: worker and API processes that die

VARIABLES
  job,            \* jobs by id: state, attempts made, the dead letter replayed
  running,        \* per worker: the job it processes, 0 when idle
  burying,        \* failed events not yet handled, as <<worker, job>>
  dlq,            \* dead letters, named by the job they were made of
  replaying,      \* per admin: the entry fetched and whether it was re-added
  jobCrashes,     \* processes that died
  unburied,       \* exhausted jobs whose listener died with its process
  replaysOverlap      \* entries two replays held at once, or one died holding

jobVars == <<job, running, burying, dlq, replaying, jobCrashes, unburied, replaysOverlap>>

JobIds == 1..MaxJobs
NoJob == [state |-> "none", made |-> 0, replays |-> 0]
NoReplay == [entry |-> 0, added |-> FALSE]

JobInit ==
  /\ job = [j \in JobIds |-> NoJob]
  /\ running = [w \in JobWorkers |-> 0]
  /\ burying = {}
  /\ dlq = {}
  /\ replaying = [a \in DlqAdmins |-> NoReplay]
  /\ jobCrashes = 0
  /\ unburied = {}
  /\ replaysOverlap = {}

\* queue.add under the next id; a replay records the entry it came from.
AddJob(from) ==
  LET free == {j \in JobIds : job[j].state = "none"}
      id == CHOOSE j \in free : \A k \in free : j <= k
  IN /\ free # {}
     /\ job' = [job EXCEPT ![id] = [state |-> "waiting", made |-> 0, replays |-> from]]

EnqueueJob ==
  /\ AddJob(0)
  /\ UNCHANGED <<running, burying, dlq, replaying, jobCrashes, unburied, replaysOverlap>>

-----------------------------------------------------------------------------
(* A worker takes a job, its processor returns or throws.                  *)

TakeJob(w, j) ==
  /\ running[w] = 0
  /\ job[j].state = "waiting"
  /\ job' = [job EXCEPT ![j].state = "active"]
  /\ running' = [running EXCEPT ![w] = j]
  /\ UNCHANGED <<burying, dlq, replaying, jobCrashes, unburied, replaysOverlap>>

ProcessorReturns(w) ==
  /\ running[w] # 0
  /\ job' = [job EXCEPT ![running[w]].state = "completed"]
  /\ running' = [running EXCEPT ![w] = 0]
  /\ UNCHANGED <<burying, dlq, replaying, jobCrashes, unburied, replaysOverlap>>

\* The attempt is counted and the job delayed or failed; "failed" is emitted
\* for both, and the listener returns at once while attempts remain.
ProcessorThrows(w) ==
  LET j == running[w]
      exhausted == job[j].made + 1 >= JobAttempts
  IN /\ j # 0
     /\ job' = [job EXCEPT ![j].made = @ + 1,
                            ![j].state = IF exhausted THEN "failed" ELSE "delayed"]
     /\ running' = [running EXCEPT ![w] = 0]
     /\ burying' = IF exhausted THEN burying \cup {<<w, j>>} ELSE burying
     /\ UNCHANGED <<dlq, replaying, jobCrashes, unburied, replaysOverlap>>

BackoffEnds(j) ==
  /\ job[j].state = "delayed"
  /\ job' = [job EXCEPT ![j].state = "waiting"]
  /\ UNCHANGED <<running, burying, dlq, replaying, jobCrashes, unburied, replaysOverlap>>

\* attachDeadLetterQueue's listener.
Bury(w, j) ==
  /\ <<w, j>> \in burying
  /\ burying' = burying \ {<<w, j>>}
  /\ dlq' = dlq \cup {j}
  /\ UNCHANGED <<job, running, replaying, jobCrashes, unburied, replaysOverlap>>

\* The process dies. BullMQ returns its active job to the queue as stalled;
\* the failed events it had not handled are gone.
WorkerDies(w) ==
  LET gone == {e \in burying : e[1] = w}
  IN /\ jobCrashes < MaxJobCrashes
     /\ running[w] # 0 \/ gone # {}
     /\ jobCrashes' = jobCrashes + 1
     /\ job' = IF running[w] = 0 THEN job
               ELSE [job EXCEPT ![running[w]].state = "waiting"]
     /\ running' = [running EXCEPT ![w] = 0]
     /\ burying' = burying \ gone
     /\ unburied' = unburied \cup {e[2] : e \in gone}
     /\ UNCHANGED <<dlq, replaying, replaysOverlap>>

-----------------------------------------------------------------------------
(* POST /api/admin/dlq/:queue/:jobId/replay                                *)

ReplayFetch(a, e) ==
  /\ replaying[a] = NoReplay
  /\ e \in dlq
  /\ replaying' = [replaying EXCEPT ![a] = [entry |-> e, added |-> FALSE]]
  /\ replaysOverlap' = replaysOverlap \cup {f \in {e} : \E b \in DlqAdmins : replaying[b].entry = f}
  /\ UNCHANGED <<job, running, burying, dlq, jobCrashes, unburied>>

ReplayAdd(a) ==
  /\ replaying[a].entry # 0
  /\ ~replaying[a].added
  /\ AddJob(replaying[a].entry)
  /\ replaying' = [replaying EXCEPT ![a].added = TRUE]
  /\ UNCHANGED <<running, burying, dlq, jobCrashes, unburied, replaysOverlap>>

ReplayRemove(a) ==
  /\ replaying[a].added
  /\ dlq' = dlq \ {replaying[a].entry}
  /\ replaying' = [replaying EXCEPT ![a] = NoReplay]
  /\ UNCHANGED <<job, running, burying, jobCrashes, unburied, replaysOverlap>>

\* The request ends early: the API process dies or a call throws.
ReplayDies(a) ==
  /\ replaying[a] # NoReplay
  /\ jobCrashes < MaxJobCrashes
  /\ jobCrashes' = jobCrashes + 1
  /\ replaysOverlap' = IF replaying[a].added THEN replaysOverlap \cup {replaying[a].entry}
                   ELSE replaysOverlap
  /\ replaying' = [replaying EXCEPT ![a] = NoReplay]
  /\ UNCHANGED <<job, running, burying, dlq, unburied>>

JobNext ==
  \/ EnqueueJob
  \/ \E w \in JobWorkers :
       \/ \E j \in JobIds : TakeJob(w, j) \/ Bury(w, j)
       \/ ProcessorReturns(w) \/ ProcessorThrows(w) \/ WorkerDies(w)
  \/ \E j \in JobIds : BackoffEnds(j)
  \/ \E a \in DlqAdmins :
       \/ \E e \in JobIds : ReplayFetch(a, e)
       \/ ReplayAdd(a) \/ ReplayRemove(a) \/ ReplayDies(a)

-----------------------------------------------------------------------------

JobTypeOK ==
  /\ job \in [JobIds -> [state : {"none", "waiting", "active", "delayed", "completed", "failed"},
                         made : 0..JobAttempts, replays : {0} \cup JobIds]]
  /\ running \in [JobWorkers -> {0} \cup JobIds]
  /\ burying \subseteq (JobWorkers \X JobIds)
  /\ dlq \subseteq JobIds
  /\ jobCrashes \in 0..MaxJobCrashes

ReplaysOf(e) == {j \in JobIds : job[j].state # "none" /\ job[j].replays = e}

\* An exhausted job does not vanish into BullMQ's failed set: it is a dead
\* letter, about to become one, or was replayed, unless its worker's process
\* died before the listener ran. A job under way is held by one worker.
ExhaustedAreKept ==
  /\ \A j \in JobIds : job[j].state = "failed" =>
       \/ j \in dlq \cup unburied
       \/ \E w \in JobWorkers : <<w, j>> \in burying
       \/ ReplaysOf(j) # {}
  /\ \A j \in JobIds : job[j].state = "active" =>
       Cardinality({w \in JobWorkers : running[w] = j}) = 1

\* A dead letter is replayed at most once, as the route's comment says, except
\* when two replays held it at the same time or one died before its remove.
ReplayedOnce ==
  \A e \in JobIds : e \notin replaysOverlap => Cardinality(ReplaysOf(e)) <= 1

\* Once processes stop dying, every job added ends completed or failed, and
\* every exhausted job reaches the dead-letter queue or is lost with its process.
JobsSettle ==
  \A j \in JobIds :
    /\ []<>(job[j].state \in {"none", "completed", "failed"})
    /\ []<>(job[j].state = "failed" => j \in dlq \cup unburied \/ ReplaysOf(j) # {})

\* The workers index.ts starts pick waiting jobs, processors return or throw,
\* backoffs end.
JobFairness ==
  /\ \A w \in JobWorkers :
       /\ WF_jobVars(ProcessorReturns(w) \/ ProcessorThrows(w))
       /\ \A j \in JobIds : WF_jobVars(Bury(w, j))
  /\ \A j \in JobIds :
       /\ WF_jobVars(BackoffEnds(j))
       /\ SF_jobVars(\E w \in JobWorkers : TakeJob(w, j))

-----------------------------------------------------------------------------
(***************************************************************************)
(* JobHealth                                                               *)
(*                                                                         *)
(* Heartbeats of the background jobs: withHeartbeat pings before and after *)
(* every run, the watchdog classifies the rows and alerts, the alert       *)
(* service drops an alert of a type it sent within the deduplication       *)
(* window.                                                                 *)
(*                                                                         *)
(* Time is kept as ages: of a job's last ping (up to the point where the   *)
(* job is overdue) and of the last alert of a type. nextExpectedAt is      *)
(* always lastHeartbeat + intervalMs, so one age decides both comparisons. *)
(***************************************************************************)

CONSTANTS
  HbJobs,         \* job types
  HbWorkers,      \* worker processes, each running one job at a time
  HbDeadline,     \* intervalMs plus the grace period, in ticks
  AlertWindow,    \* the alert deduplication window, in ticks
  MaxLostPings    \* bound: heartbeat writes that fail

VARIABLES
  beat,           \* jobHeartbeat rows: status, failureCount, age of the last ping
  hbRun,          \* per worker: the job it runs, or none
  missedAlert,    \* job_missed_heartbeat: ticks until another may be sent, last job named
  repeatedSent,   \* job_repeated_failures was sent
  lostPings       \* heartbeat writes that failed

hbVars == <<beat, hbRun, missedAlert, repeatedSent, lostPings>>

NoRun == "none"
FAILURE_ALERT_THRESHOLD == 3

HbInit ==
  /\ beat = [j \in HbJobs |-> [status |-> "none", failureCount |-> 0, age |-> 0]]
  /\ hbRun = [w \in HbWorkers |-> NoRun]
  /\ missedAlert = [wait |-> 0, named |-> NoRun]
  /\ repeatedSent = FALSE
  /\ lostPings = 0

\* The upsert of ping: every ping but a failed one sets the count to zero.
Ping(j, status) ==
  [status |-> IF status = "completed" THEN "idle" ELSE status,
   failureCount |-> IF status = "failed" THEN beat[j].failureCount + 1 ELSE 0,
   age |-> 0]

\* The ping is written, or its error is logged and the run goes on.
PingOrLose(j, status) ==
  \/ /\ beat' = [beat EXCEPT ![j] = Ping(j, status)]
     /\ \E sent \in BOOLEAN :
          repeatedSent' = (repeatedSent \/
            (sent /\ Ping(j, status).failureCount > FAILURE_ALERT_THRESHOLD))
     /\ UNCHANGED lostPings
  \/ /\ lostPings < MaxLostPings
     /\ lostPings' = lostPings + 1
     /\ UNCHANGED <<beat, repeatedSent>>

\* withHeartbeat, around a processor that returns or throws.
RunStarts(w, j) ==
  /\ hbRun[w] = NoRun
  /\ hbRun' = [hbRun EXCEPT ![w] = j]
  /\ PingOrLose(j, "started")
  /\ UNCHANGED missedAlert

RunEnds(w, status) ==
  /\ hbRun[w] # NoRun
  /\ PingOrLose(hbRun[w], status)
  /\ hbRun' = [hbRun EXCEPT ![w] = NoRun]
  /\ UNCHANGED missedAlert

\* The process dies during the run: no ping.
RunDies(w) ==
  /\ hbRun[w] # NoRun
  /\ hbRun' = [hbRun EXCEPT ![w] = NoRun]
  /\ UNCHANGED <<beat, missedAlert, repeatedSent, lostPings>>

\* POST /health/jobs/:jobType/reset-failures
ResetFailures(j) ==
  /\ beat[j].status # "none"
  /\ beat' = [beat EXCEPT ![j].failureCount = 0, ![j].status = "idle"]
  /\ UNCHANGED <<hbRun, missedAlert, repeatedSent, lostPings>>

HbTick ==
  /\ beat' = [j \in HbJobs |->
       [beat[j] EXCEPT !.age = IF beat[j].status = "none" \/ @ > HbDeadline THEN @ ELSE @ + 1]]
  /\ missedAlert' = [missedAlert EXCEPT !.wait = IF @ = 0 THEN 0 ELSE @ - 1]
  /\ UNCHANGED <<hbRun, repeatedSent, lostPings>>

-----------------------------------------------------------------------------
(* checkAllJobHealth and watchdogCheck                                     *)

JobHealthOf(j) ==
  CASE beat[j].status = "none" -> "unknown"
    [] beat[j].status = "failed" \/ beat[j].failureCount > 0 -> "failed"
    [] beat[j].age > HbDeadline -> "failed"
    [] OTHER -> "healthy"

Overdue == {j \in HbJobs : JobHealthOf(j) = "failed"}

\* AlertService.dispatch for each job in turn: the first alert the webhook
\* accepts opens the window and the others are suppressed by it.
Dispatch(jobs) ==
  /\ missedAlert.wait = 0
  /\ \E j \in jobs : missedAlert' = [wait |-> AlertWindow, named |-> j]

\* processJobWatchdog, which nothing queues: it may run, and need not.
WatchdogCheck ==
  /\ Overdue # {}
  /\ Dispatch(Overdue)
  /\ UNCHANGED <<beat, hbRun, repeatedSent, lostPings>>

HbNext ==
  \/ \E w \in HbWorkers :
       \/ \E j \in HbJobs : RunStarts(w, j)
       \/ \E status \in {"completed", "failed"} : RunEnds(w, status)
       \/ RunDies(w)
  \/ \E j \in HbJobs : ResetFailures(j)
  \/ HbTick
  \/ WatchdogCheck

-----------------------------------------------------------------------------

HbTypeOK ==
  /\ beat \in [HbJobs -> [status : {"none", "started", "idle", "failed"},
                          failureCount : 0..(Cardinality(HbWorkers) + MaxLostPings),
                          age : 0..(HbDeadline + 1)]]
  /\ hbRun \in [HbWorkers -> HbJobs \cup {NoRun}]
  /\ missedAlert \in [wait : 0..AlertWindow, named : HbJobs \cup {NoRun}]
  /\ repeatedSent \in BOOLEAN
  /\ lostPings \in 0..MaxLostPings

-----------------------------------------------------------------------------
(***************************************************************************)
(* ServerProcess                                                           *)
(*                                                                         *)
(* One backend process from boot to exit: the startup check, the services  *)
(* that start after the server listens, the readiness probe behind the     *)
(* load balancer, and ShutdownOrchestrator's ordered steps, each under a   *)
(* drain timeout and all under a force-exit timer.                         *)
(*                                                                         *)
(* Startup goes on in the listen callback while a signal may already be    *)
(* running the shutdown.                                                   *)
(***************************************************************************)

CONSTANTS
  FlakyDeps,      \* dependencies that stop and resume answering
  ProbeFailures,  \* failed readiness probes that take the pod out of rotation
  MaxInFlight     \* bound: HTTP requests in flight

VARIABLES
  dep,            \* dependencies that answer
  boot,           \* how far startup has come
  up,             \* services running and connections open
  inFlight,       \* requests in flight
  busy,           \* services with a poll or a job in flight
  step,           \* the shutdown step awaited, 0 before a signal
  exit,           \* the exit code, or none
  rotation,       \* the load balancer's view: failed probes in a row, routed
  late            \* services that started after the step that stops them

procVars == <<dep, boot, up, inFlight, busy, step, exit, rotation, late>>

StartupDeps == {"database", "redis", "config", "adminSigningKey"}
ReadyDeps == {"database", "redis"}
HealthDeps == StartupDeps \cup {"indexer", "stellar", "sorobanRpc", "ipfs"}
OptionalDeps == {"redis", "ipfs"}

\* The steps of index.ts, in their order.
ShutdownSteps == <<"http-server", "event-listener", "reconciliation-worker",
                   "pii-worker", "queue-connections", "redis", "database">>
Workers == {"event-listener", "reconciliation-worker", "pii-worker"}
Connections == {"queue-connections", "redis", "database"}

Alive == boot # "down" /\ exit = "none"

ProcInit ==
  /\ dep = HealthDeps
  /\ boot = "down"
  /\ up = {}
  /\ inFlight = 0
  /\ busy = {}
  /\ step = 0
  /\ exit = "none"
  /\ rotation = [misses |-> 0, routed |-> FALSE]
  /\ late = {}

\* A dependency stops or resumes answering within its check's timeout.
DepFlips(d) ==
  /\ exit = "none"
  /\ dep' = IF d \in dep THEN dep \ {d} ELSE dep \cup {d}
  /\ UNCHANGED <<boot, up, inFlight, busy, step, exit, rotation, late>>

-----------------------------------------------------------------------------
(* bootstrap                                                               *)

\* performStartupCheck; the process exits when a critical dependency is down.
Bootstrap ==
  /\ boot = "down"
  /\ exit = "none"
  /\ IF StartupDeps \subseteq dep
     THEN /\ boot' = "listening"
          /\ up' = Connections \cup {"http-server", "event-listener"}
          /\ UNCHANGED exit
     ELSE /\ exit' = "1"
          /\ UNCHANGED <<boot, up>>
  /\ UNCHANGED <<dep, inFlight, busy, step, rotation, late>>

\* The step that stops a service has passed.
StepPassed(s) == \E i \in 1..Len(ShutdownSteps) : ShutdownSteps[i] = s /\ i < step

\* A worker is created in the listen callback, after what precedes it there.
WorkerStarts(s, from, to) ==
  /\ Alive
  /\ boot = from
  /\ boot' = to
  /\ \E enabled \in BOOLEAN :
       /\ up' = IF enabled THEN up \cup {s} ELSE up
       /\ late' = IF enabled /\ StepPassed(s) THEN late \cup {s} ELSE late
  /\ UNCHANGED <<dep, inFlight, busy, step, exit, rotation>>

StartReconciliationCron == WorkerStarts("reconciliation-worker", "listening", "reconciling")
StartPiiScanCron == WorkerStarts("pii-worker", "reconciling", "started")

-----------------------------------------------------------------------------
(* The work that a shutdown has to wait for                                *)

RequestArrives ==
  /\ Alive
  /\ "http-server" \in up
  /\ step = 0
  /\ inFlight < MaxInFlight
  /\ inFlight' = inFlight + 1
  /\ UNCHANGED <<dep, boot, up, busy, step, exit, rotation, late>>

RequestEnds ==
  /\ Alive
  /\ inFlight > 0
  /\ inFlight' = inFlight - 1
  /\ UNCHANGED <<dep, boot, up, busy, step, exit, rotation, late>>

AwaitedStep == IF step = 0 THEN "none" ELSE ShutdownSteps[step]

\* A worker stops taking work as soon as its step is awaited.
WorkBegins(s) ==
  /\ Alive
  /\ s \in up \cap Workers
  /\ AwaitedStep # s
  /\ busy' = busy \cup {s}
  /\ UNCHANGED <<dep, boot, up, inFlight, step, exit, rotation, late>>

WorkEnds(s) ==
  /\ Alive
  /\ s \in busy
  /\ busy' = busy \ {s}
  /\ UNCHANGED <<dep, boot, up, inFlight, step, exit, rotation, late>>

-----------------------------------------------------------------------------
(* ShutdownOrchestrator.shutdown                                           *)

\* A second signal finds shuttingDown set and returns.
Signal ==
  /\ Alive
  /\ step = 0
  /\ step' = 1
  /\ UNCHANGED <<dep, boot, up, inFlight, busy, exit, rotation, late>>

Drained(s) == IF s = "http-server" THEN inFlight = 0 ELSE s \notin busy

\* The awaited stop resolves; after the last one the process exits with 0.
StepStops ==
  /\ Alive
  /\ step > 0
  /\ Drained(ShutdownSteps[step])
  /\ up' = up \ {ShutdownSteps[step]}
  /\ IF step = Len(ShutdownSteps)
     THEN exit' = "0" /\ UNCHANGED step
     ELSE step' = step + 1 /\ UNCHANGED exit
  /\ UNCHANGED <<dep, boot, inFlight, busy, rotation, late>>

\* A stop throws, its drain timeout fires, or the force-exit timer does.
StepFails ==
  /\ Alive
  /\ step > 0
  /\ exit' = "1"
  /\ UNCHANGED <<dep, boot, up, inFlight, busy, step, rotation, late>>

-----------------------------------------------------------------------------
(* Probes                                                                  *)

\* GET /health and /health/detail
HealthStatus ==
  CASE ~(HealthDeps \ OptionalDeps \subseteq dep) -> "unhealthy"
    [] ~(OptionalDeps \subseteq dep) -> "degraded"
    [] OTHER -> "healthy"

\* GET /health/ready
ReadyProbe == step = 0 /\ ReadyDeps \subseteq dep

ReadinessProbe ==
  /\ Alive
  /\ LET ok == ReadyProbe /\ "http-server" \in up
         misses == IF ok THEN 0 ELSE rotation.misses + 1
     IN /\ rotation.misses < ProbeFailures \/ ok
        /\ rotation' = [misses |-> misses,
                        routed |-> ok \/ (rotation.routed /\ misses < ProbeFailures)]
  /\ UNCHANGED <<dep, boot, up, inFlight, busy, step, exit, late>>

ProcNext ==
  \/ \E d \in FlakyDeps : DepFlips(d)
  \/ Bootstrap \/ StartReconciliationCron \/ StartPiiScanCron
  \/ RequestArrives \/ RequestEnds
  \/ \E s \in Workers : WorkBegins(s) \/ WorkEnds(s)
  \/ Signal \/ StepStops \/ StepFails
  \/ ReadinessProbe

-----------------------------------------------------------------------------

ProcTypeOK ==
  /\ dep \subseteq HealthDeps
  /\ boot \in {"down", "listening", "reconciling", "started"}
  /\ up \subseteq Workers \cup Connections \cup {"http-server"}
  /\ inFlight \in 0..MaxInFlight
  /\ busy \subseteq Workers
  /\ step \in 0..Len(ShutdownSteps)
  /\ exit \in {"none", "0", "1"}
  /\ rotation \in [misses : 0..ProbeFailures, routed : BOOLEAN]
  /\ late \subseteq Workers

\* The database and Redis go away only when nothing uses them: no request, no
\* poll and no job is in flight, except in a worker that startup created after
\* its shutdown step had passed.
ConnectionsOutliveWork ==
  (boot # "down" /\ ~({"redis", "database"} \subseteq up)) =>
    /\ inFlight = 0
    /\ busy \subseteq late

\* A pod is taken out of rotation for its own database, Redis or shutdown, never
\* for a brownout of Stellar, Soroban RPC, IPFS or the indexer; and one that
\* leaves before its shutdown is one that GET /health does not call healthy.
ShedForCause ==
  [][rotation.routed /\ ~rotation'.routed =>
       step > 0 \/ (~(ReadyDeps \subseteq dep) /\ HealthStatus # "healthy")]_procVars

\* Once a signal arrives the process exits, whatever hangs.
ShutdownEnds == []<>(step > 0 => exit # "none")

\* Timers fire.
ProcFairness == WF_procVars(StepFails \/ StepStops)
=============================================================================
