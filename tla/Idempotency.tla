----------------------------- MODULE Idempotency -----------------------------
(***************************************************************************)
(* The idempotency middleware for one key of one route: a Redis lock taken *)
(* by the first request, a cached response written when a handler answers  *)
(* 2xx, replays for the others. The lock has a TTL and is deleted without  *)
(* asking who holds it; a client that disconnects releases the lock of a   *)
(* handler that is still running.                                          *)
(***************************************************************************)
EXTENDS Naturals, FiniteSets

CONSTANTS
  KeyedRequests,       \* requests that carry the key
  Altered         \* those of them whose body differs from the others'

VARIABLES
  idemCache,      \* the cached response: the request that produced it, or none
  idemLock,       \* whether the lock key exists
  req,            \* per request: where it is in the middleware
  lockReleased,       \* requests whose lockReleased flag is set
  lapses          \* times the key lost its protection: TTL, disconnect, Redis down

idemVars == <<idemCache, idemLock, req, lockReleased, lapses>>

NoResponse == "none"
SameBody(q, r) == (q \in Altered) <=> (r \in Altered)
RunningStates == {"running", "unguarded"}
ReqStates == RunningStates \cup
  {"new", "waiting", "committing", "ok", "failed", "crashed",
   "replayed", "conflict", "in_progress"}

IdemInit ==
  /\ idemCache = NoResponse
  /\ idemLock = FALSE
  /\ req = [r \in KeyedRequests |-> "new"]
  /\ lockReleased = {}
  /\ lapses = 0

\* Mutant: the acquire script tries the lock without looking at the cache.
IdemAcquireBlind(r) ==
  /\ req[r] = "new"
  /\ req' = [req EXCEPT ![r] = IF idemLock THEN "waiting" ELSE "running"]
  /\ idemLock' = TRUE
  /\ UNCHANGED <<idemCache, lockReleased, lapses>>

\* IDEMPOTENCY_ACQUIRE_SCRIPT and the branch on its answer.
IdemAcquire(r) ==
  /\ req[r] = "new"
  /\ \/ /\ idemCache # NoResponse
        /\ req' = [req EXCEPT ![r] =
             IF SameBody(idemCache, r) THEN "replayed" ELSE "conflict"]
        /\ UNCHANGED idemLock
     \/ /\ idemCache = NoResponse /\ ~idemLock
        /\ req' = [req EXCEPT ![r] = "running"]
        /\ idemLock' = TRUE
     \/ /\ idemCache = NoResponse /\ idemLock
        /\ req' = [req EXCEPT ![r] = "waiting"]
        /\ UNCHANGED idemLock
  /\ UNCHANGED <<idemCache, lockReleased, lapses>>

\* Redis fails: the request proceeds without protection.
IdemAcquireFails(r) ==
  /\ req[r] \in {"new", "waiting"}
  /\ req' = [req EXCEPT ![r] = "unguarded"]
  /\ lapses' = lapses + 1
  /\ UNCHANGED <<idemCache, idemLock, lockReleased>>

\* waitForCachedResponse: the replay does not compare bodies.
WaiterReplays(r) ==
  /\ req[r] = "waiting"
  /\ idemCache # NoResponse
  /\ req' = [req EXCEPT ![r] = "replayed"]
  /\ UNCHANGED <<idemCache, idemLock, lockReleased, lapses>>

WaiterGivesUp(r) ==
  /\ req[r] = "waiting"
  /\ req' = [req EXCEPT ![r] = "in_progress"]
  /\ UNCHANGED <<idemCache, idemLock, lockReleased, lapses>>

-----------------------------------------------------------------------------
(* The request that holds the lock.                                        *)

\* The handler answers 2xx: the commit is sent and "finish" must not DEL.
AnswerOk(r) ==
  /\ req[r] = "running"
  /\ req' = [req EXCEPT ![r] = "committing"]
  /\ lockReleased' = lockReleased \cup {r}
  /\ UNCHANGED <<idemCache, idemLock, lapses>>

\* IDEMPOTENCY_COMMIT_SCRIPT, or its failure followed by a DEL that may fail.
IdemCommit(r) ==
  /\ req[r] = "committing"
  /\ req' = [req EXCEPT ![r] = "ok"]
  /\ idemCache' = r
  /\ idemLock' = FALSE
  /\ UNCHANGED <<lockReleased, lapses>>

IdemCommitFails(r) ==
  /\ req[r] = "committing"
  /\ req' = [req EXCEPT ![r] = "ok"]
  /\ \E left \in BOOLEAN : idemLock' = (left /\ idemLock)
  /\ lapses' = lapses + 1
  /\ UNCHANGED <<idemCache, lockReleased>>

\* Any other status is not cached; "finish" deletes the lock key.
AnswerError(r) ==
  /\ req[r] = "running"
  /\ req' = [req EXCEPT ![r] = "failed"]
  /\ lockReleased' = lockReleased \cup {r}
  /\ idemLock' = IF r \in lockReleased THEN idemLock ELSE FALSE
  /\ UNCHANGED <<idemCache, lapses>>

\* "close" fires while the handler is still at work.
ClientDisconnects(r) ==
  /\ req[r] = "running"
  /\ r \notin lockReleased
  /\ lockReleased' = lockReleased \cup {r}
  /\ idemLock' = FALSE
  /\ lapses' = lapses + 1
  /\ UNCHANGED <<idemCache, req>>

\* Without protection the handler answers and nothing is cached.
AnswerUnguarded(r) ==
  /\ req[r] = "unguarded"
  /\ \E to \in {"ok", "failed"} : req' = [req EXCEPT ![r] = to]
  /\ UNCHANGED <<idemCache, idemLock, lockReleased, lapses>>

\* Mutant: the lock key is set without a TTL.
LockWithoutTtl ==
  /\ FALSE
  /\ UNCHANGED idemVars

\* The key's TTL runs out: at once after a crash, or under a slow handler.
LockExpires ==
  /\ idemLock
  /\ idemLock' = FALSE
  /\ lapses' = lapses + (IF \E r \in KeyedRequests : req[r] \in {"running", "committing", "crashed"}
                         THEN 1 ELSE 0)
  /\ UNCHANGED <<idemCache, req, lockReleased>>

CacheExpires ==
  /\ idemCache # NoResponse
  /\ idemCache' = NoResponse
  /\ lapses' = lapses + 1
  /\ UNCHANGED <<idemLock, req, lockReleased>>

ReplicaCrashes(r) ==
  /\ req[r] \in RunningStates \cup {"waiting", "committing"}
  /\ req' = [req EXCEPT ![r] = "crashed"]
  /\ UNCHANGED <<idemCache, idemLock, lockReleased, lapses>>

IdemNext ==
  \/ \E r \in KeyedRequests :
       \/ IdemAcquire(r) \/ IdemAcquireFails(r) \/ WaiterReplays(r) \/ WaiterGivesUp(r)
       \/ AnswerOk(r) \/ IdemCommit(r) \/ IdemCommitFails(r) \/ AnswerError(r)
       \/ AnswerUnguarded(r) \/ ClientDisconnects(r) \/ ReplicaCrashes(r)
  \/ LockExpires
  \/ CacheExpires

-----------------------------------------------------------------------------

IdemTypeOK ==
  /\ idemCache \in KeyedRequests \cup {NoResponse}
  /\ idemLock \in BOOLEAN
  /\ req \in [KeyedRequests -> ReqStates]
  /\ lockReleased \subseteq KeyedRequests
  /\ lapses \in Nat

\* Each time a key loses its protection (Redis does not answer, a client hangs
\* up on a handler at work, a handler outlives the lock, the record expires) one
\* more of its requests may succeed, and no more than that: the lock that is
\* deleted without asking who holds it never lets a second one in.
OneExecution ==
  Cardinality({r \in KeyedRequests : req[r] \in {"committing", "ok"}}) <= 1 + lapses

\* A replayed answer is the answer of a request that ran and succeeded; a
\* failed or unfinished attempt is never served to another request.
ReplaysARealAnswer ==
  \A r \in KeyedRequests :
    req[r] = "replayed" =>
      \E q \in KeyedRequests \ {r} : req[q] = "ok"

\* Every request that enters the middleware is answered (or its replica died),
\* and the lock a dead replica left behind goes away.
RequestsAnswered ==
  /\ \A r \in KeyedRequests :
       []<>(req[r] \notin {"running", "waiting", "committing", "unguarded"})
  /\ []<>~idemLock

\* Handlers return, the wait has a deadline, Redis expires keys.
IdemFairness ==
  /\ \A r \in KeyedRequests :
       /\ WF_idemVars(AnswerOk(r) \/ AnswerError(r) \/ AnswerUnguarded(r))
       /\ WF_idemVars(IdemCommit(r) \/ IdemCommitFails(r))
       /\ WF_idemVars(WaiterGivesUp(r) \/ WaiterReplays(r))
  /\ WF_idemVars(LockExpires)
=============================================================================
