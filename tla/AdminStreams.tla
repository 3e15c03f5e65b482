----------------------------- MODULE AdminStreams -----------------------------
(***************************************************************************)
(* Admin operations on one vesting stream: terminate, lock and unlock, the *)
(* cached read, and the reconciliation report. Every operation is a read,  *)
(* a check in memory and separate writes, so admins interleave between     *)
(* them; a process may die after any write. Suspend and resume validate    *)
(* and answer without writing (the routes are mocks).                      *)
(***************************************************************************)
EXTENDS Naturals, FiniteSets

CONSTANTS
  Admins,           \* admins with one request each at a time
  MaxAdminRequests  \* bound: requests started

VARIABLES
  stream,        \* the row: status, terminatedBy, lockedBy
  adminAudit,    \* AdminActionAudit rows as <<action, admin>>
  adminReq,      \* per admin: the request under way
  streamCache,   \* the cached status, or "none"
  reading,       \* a cache miss that has read the row and not yet filled
  adminRequests, \* requests started
  auditLost      \* a process died between a row write and its audit write

streamVars == <<stream, adminAudit, adminReq, streamCache, reading, adminRequests, auditLost>>

TERMINABLE_STATUSES == {"ACTIVE", "SUSPENDED"}
NoAdmin == "nobody"
NoAdminReq == [op |-> "none", at |-> "none", raced |-> FALSE]

StreamInit ==
  /\ stream = [status |-> "NONE", terminatedBy |-> NoAdmin, lockedBy |-> NoAdmin]
  /\ adminAudit = {}
  /\ adminReq = [a \in Admins |-> NoAdminReq]
  /\ streamCache = "none"
  /\ reading = "none"
  /\ adminRequests = 0
  /\ auditLost = FALSE

\* Streams are written by tooling outside the backend's services.
StreamAppears ==
  /\ stream.status = "NONE"
  /\ \E status \in {"ACTIVE", "SUSPENDED", "COMPLETED"} :
       stream' = [stream EXCEPT !.status = status]
  /\ UNCHANGED <<adminAudit, adminReq, streamCache, reading, adminRequests, auditLost>>

StreamFound == stream.status # "NONE"
StreamLocked == stream.lockedBy # NoAdmin

StreamAt(a, op, at) == adminReq[a].op = op /\ adminReq[a].at = at
StreamGoto(a, at) == adminReq' = [adminReq EXCEPT ![a].at = at]
StreamAnswer(a) == adminReq' = [adminReq EXCEPT ![a] = NoAdminReq]

StreamBegin(a, op) ==
  /\ adminReq[a] = NoAdminReq
  /\ adminRequests < MaxAdminRequests
  /\ adminRequests' = adminRequests + 1
  /\ adminReq' = [adminReq EXCEPT ![a] = [op |-> op, at |-> "checked", raced |-> FALSE]]
  /\ UNCHANGED <<stream, adminAudit, streamCache, reading, auditLost>>

-----------------------------------------------------------------------------
(* terminate: the route checks existence and lock, the service reads the   *)
(* row again for its status, then writes without a condition.              *)

\* Mutant: the route does not ask whether the stream is locked.
TerminateUnlocked(a) ==
  /\ StreamFound
  /\ StreamBegin(a, "TERMINATE")

\* getStreamOrThrow and assertNotLocked.
TerminateValidate(a) ==
  /\ StreamFound
  /\ ~StreamLocked
  /\ StreamBegin(a, "TERMINATE")

\* The service's own findUnique; a signing failure leaves the stream live.
TerminateRead(a) ==
  /\ StreamAt(a, "TERMINATE", "checked")
  /\ \/ /\ stream.status \in TERMINABLE_STATUSES
        /\ StreamGoto(a, "read")
     \/ StreamAnswer(a)
  /\ UNCHANGED <<stream, adminAudit, streamCache, reading, adminRequests, auditLost>>

TerminateWrite(a) ==
  /\ StreamAt(a, "TERMINATE", "read")
  /\ stream' = [stream EXCEPT !.status = "TERMINATED", !.terminatedBy = a]
  /\ StreamGoto(a, "written")
  /\ UNCHANGED <<adminAudit, streamCache, reading, adminRequests, auditLost>>

\* The audit row; then the best-effort cache invalidation.
WriteAudit(a) ==
  /\ adminReq[a].at = "written"
  /\ adminAudit' = adminAudit \cup {<<adminReq[a].op, a>>}
  /\ IF adminReq[a].op = "TERMINATE" THEN StreamGoto(a, "audited") ELSE StreamAnswer(a)
  /\ UNCHANGED <<stream, streamCache, reading, adminRequests, auditLost>>

InvalidateStreamCache(a) ==
  /\ StreamAt(a, "TERMINATE", "audited")
  /\ \E deleted \in BOOLEAN :
       streamCache' = IF deleted THEN "none" ELSE streamCache
  /\ StreamAnswer(a)
  /\ UNCHANGED <<stream, adminAudit, reading, adminRequests, auditLost>>

\* The process dies, or the audit insert fails: the row keeps what was written.
RequestDies(a) ==
  /\ adminReq[a] # NoAdminReq
  /\ auditLost' = (auditLost \/ adminReq[a].at = "written")
  /\ StreamAnswer(a)
  /\ UNCHANGED <<stream, adminAudit, streamCache, reading, adminRequests>>

-----------------------------------------------------------------------------
(* lock and unlock: a second lock of a locked stream answers without       *)
(* writing; two that both read it unlocked both write.                     *)

LockRead(a) ==
  /\ StreamFound
  /\ ~StreamLocked
  /\ StreamBegin(a, "LOCK")

LockWrite(a) ==
  /\ StreamAt(a, "LOCK", "checked")
  /\ stream' = [stream EXCEPT !.lockedBy = a]
  /\ adminReq' = [b \in Admins |->
       IF b = a THEN [adminReq[a] EXCEPT !.at = "written"]
       ELSE IF adminReq[b].op = "TERMINATE" THEN [adminReq[b] EXCEPT !.raced = TRUE]
       ELSE adminReq[b]]
  /\ UNCHANGED <<adminAudit, streamCache, reading, adminRequests, auditLost>>

UnlockRead(a) ==
  /\ StreamFound
  /\ StreamLocked
  /\ StreamBegin(a, "UNLOCK")

UnlockWrite(a) ==
  /\ StreamAt(a, "UNLOCK", "checked")
  /\ stream' = [stream EXCEPT !.lockedBy = NoAdmin]
  /\ StreamGoto(a, "written")
  /\ UNCHANGED <<adminAudit, streamCache, reading, adminRequests, auditLost>>

-----------------------------------------------------------------------------
(* The cached read: a miss reads the row and fills the cache afterwards.   *)

CacheMiss ==
  /\ StreamFound
  /\ streamCache = "none"
  /\ reading = "none"
  /\ reading' = stream.status
  /\ UNCHANGED <<stream, adminAudit, adminReq, streamCache, adminRequests, auditLost>>

CacheFill ==
  /\ reading # "none"
  /\ streamCache' = reading
  /\ reading' = "none"
  /\ UNCHANGED <<stream, adminAudit, adminReq, adminRequests, auditLost>>

StreamCacheExpires ==
  /\ streamCache # "none"
  /\ streamCache' = "none"
  /\ UNCHANGED <<stream, adminAudit, adminReq, reading, adminRequests, auditLost>>

StreamNext ==
  \/ StreamAppears
  \/ \E a \in Admins :
       \/ TerminateValidate(a) \/ TerminateRead(a) \/ TerminateWrite(a)
       \/ WriteAudit(a) \/ InvalidateStreamCache(a) \/ RequestDies(a)
       \/ LockRead(a) \/ LockWrite(a) \/ UnlockRead(a) \/ UnlockWrite(a)
  \/ CacheMiss \/ CacheFill \/ StreamCacheExpires

-----------------------------------------------------------------------------

StreamStatuses == {"NONE", "ACTIVE", "SUSPENDED", "COMPLETED", "TERMINATED"}

StreamTypeOK ==
  /\ stream \in [status : StreamStatuses, terminatedBy : Admins \cup {NoAdmin},
                 lockedBy : Admins \cup {NoAdmin}]
  /\ adminAudit \subseteq ({"TERMINATE", "LOCK", "UNLOCK"} \X Admins)
  /\ adminRequests \in 0..MaxAdminRequests

\* What StreamReconciliationService.reconcile reports about the status.
StatusMismatch ==
  LET hasTerminateAction == \E a \in Admins : <<"TERMINATE", a>> \in adminAudit
  IN (stream.status = "TERMINATED") # hasTerminateAction

\* Between requests, and unless a process died before its audit write, the
\* reconciliation report finds no status mismatch and the admin named on the
\* row is one whose termination was audited.
AuditExplainsRow ==
  (~auditLost /\ \A a \in Admins : adminReq[a] = NoAdminReq) =>
    /\ ~StatusMismatch
    /\ stream.status = "TERMINATED" => <<"TERMINATE", stream.terminatedBy>> \in adminAudit
    /\ StreamLocked => <<"LOCK", stream.lockedBy>> \in adminAudit

\* A termination lands on a locked stream only when the lock was taken after
\* the route had looked; and no operation revives a terminated stream.
LockStopsTermination ==
  [][/\ stream.status = "TERMINATED" => stream'.status = "TERMINATED"
     /\ \A a \in Admins :
          (/\ StreamLocked
           /\ adminReq[a].op = "TERMINATE"
           /\ adminReq[a].at = "read" /\ adminReq'[a].at = "written") => adminReq[a].raced]_streamVars

\* A read that was cached before the termination does not outlive its TTL.
StaleCacheHeals ==
  []<>(stream.status = "TERMINATED" => streamCache \notin TERMINABLE_STATUSES)

StreamFairness == WF_streamVars(CacheFill) /\ WF_streamVars(StreamCacheExpires)
=============================================================================
