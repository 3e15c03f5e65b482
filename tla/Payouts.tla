------------------------------- MODULE Payouts -------------------------------
(***************************************************************************)
(* The payout side of a milestone release: the schedule route rewrites the *)
(* milestones of one trade, the release route claims a payout intent and   *)
(* hands the caller an unsigned transaction, the client signs and submits  *)
(* it on its own, and reconciliation resolves old intents against the      *)
(* chain.                                                                  *)
(*                                                                         *)
(* A payout key is either a caller-supplied header or the digest of the    *)
(* payout itself; the digest is modelled by the pair it is taken of (the   *)
(* trade, the kind and the destination are fixed).                         *)
(***************************************************************************)
EXTENDS Naturals, Sequences, FiniteSets

CONSTANTS
  Milestones,     \* milestone indices of the trade
  PayoutAmounts,  \* amounts a schedule may give a milestone
  HeaderKeys,     \* Idempotency-Key headers callers send
  Schedulers,     \* concurrent schedule requests
  Releasers,      \* concurrent release requests
  Sweepers,       \* concurrent reconciliations
  MaxSchedules,   \* bound: schedule requests accepted
  MaxReleases,    \* bound: release requests accepted
  MaxRecords      \* bound: calls of recordSubmission

VARIABLES
  schedule,       \* escrowReleaseMilestone rows: index -> amount, or no row
  scheduling,     \* per schedule request: the creates still to run
  releasing,      \* per release request: what it read, and whether it claimed
  posted,         \* schedule requests, release requests and records so far
  intent,         \* payoutIntent rows by key
  tx,             \* the chain's view of the transaction handed out per key
  recorded,       \* history: the hashes ever recorded under a key
  sweep           \* per reconciliation: the intents it read and has yet to visit

payVars == <<schedule, scheduling, releasing, posted, intent, tx, recorded, sweep>>

NoMilestone == 0
NoHash == <<>>
NoIntent == [status |-> "NONE", of |-> <<>>, txHash |-> NoHash, fresh |-> FALSE]
NoRelease == [step |-> "idle", key |-> <<>>, of |-> <<>>]

\* derivePayoutIdempotencyKey: a digest of milestone and amount.
DerivedKey(m, a) == <<m, a>>
PayoutKeys == HeaderKeys \cup (Milestones \X PayoutAmounts)
UNRESOLVED_STATUSES == {"PENDING", "SUBMITTED"}
TERMINAL_STATUSES == {"CONFIRMED"}

PayInit ==
  /\ schedule = [m \in Milestones |-> NoMilestone]
  /\ scheduling = [s \in Schedulers |-> <<>>]
  /\ releasing = [c \in Releasers |-> NoRelease]
  /\ posted = [schedules |-> 0, releases |-> 0, records |-> 0]
  /\ intent = [k \in PayoutKeys |-> NoIntent]
  /\ tx = [k \in PayoutKeys |-> "none"]
  /\ recorded = [k \in PayoutKeys |-> {}]
  /\ sweep = [w \in Sweepers |-> {}]

-----------------------------------------------------------------------------
(* POST /:id/schedule: deleteMany, then one create per milestone. The      *)
(* statements are separate, so other requests run in between.              *)

\* Schedules of one or two milestones, the same index twice included.
PostedSchedules ==
  LET Rows == Milestones \X PayoutAmounts IN {<<r>> : r \in Rows} \cup {<<q, r>> : q \in Rows, r \in Rows}

ReplaceSchedule(s) ==
  /\ scheduling[s] = <<>>
  /\ posted.schedules < MaxSchedules
  /\ posted' = [posted EXCEPT !.schedules = @ + 1]
  /\ \E rows \in PostedSchedules : scheduling' = [scheduling EXCEPT ![s] = rows]
  /\ schedule' = [m \in Milestones |-> NoMilestone]
  /\ UNCHANGED <<releasing, intent, tx, recorded, sweep>>

\* A create that meets the unique (tradeId, milestoneIndex) throws: the
\* request ends and the rows already written stay.
CreateMilestone(s) ==
  /\ scheduling[s] # <<>>
  /\ LET row == Head(scheduling[s])
         clash == schedule[row[1]] # NoMilestone
     IN /\ schedule' = IF clash THEN schedule
                       ELSE [schedule EXCEPT ![row[1]] = row[2]]
        /\ scheduling' = [scheduling EXCEPT
                            ![s] = IF clash THEN <<>> ELSE Tail(@)]
  /\ UNCHANGED <<releasing, posted, intent, tx, recorded, sweep>>

-----------------------------------------------------------------------------
(* POST /:id/release/milestone: the route reads the schedule, claims the   *)
(* payout under its unique key, and only the winner of the insert builds a *)
(* transaction. Each is an await of its own. Building may fail, and the    *)
(* response may be lost; both leave a PENDING intent.                      *)

ReleaseKey(m, h) == IF h = "absent" THEN DerivedKey(m, schedule[m]) ELSE h

\* Mutant: the milestone is not looked up before it is released.
AnyMilestone(m) == TRUE

\* The route answers 400 for a milestone without a row.
Scheduled(m) == schedule[m] # NoMilestone

ReleaseRead(c, m, h) ==
  /\ releasing[c].step = "idle"
  /\ posted.releases < MaxReleases
  /\ posted' = [posted EXCEPT !.releases = @ + 1]
  /\ Scheduled(m)
  /\ releasing' = [releasing EXCEPT ![c] = [step |-> "read", key |-> ReleaseKey(m, h),
                                            of |-> <<m, schedule[m]>>]]
  /\ UNCHANGED <<schedule, scheduling, intent, tx, recorded, sweep>>

\* The row claim() inserts; every write touches updatedAt.
PendingIntent(of) == [status |-> "PENDING", of |-> of, txHash |-> NoHash, fresh |-> TRUE]

\* Mutant: only a terminal intent counts as a duplicate.
UnsettledFree(k) == intent[k].status \notin TERMINAL_STATUSES

\* The unique index on idempotencyKey admits one row, whatever became of it.
ClaimFree(k) == intent[k].status = "NONE"

Claim(c) ==
  LET k == releasing[c].key
  IN /\ releasing[c].step = "read"
     /\ ClaimFree(k)
     /\ intent' = [intent EXCEPT ![k] = PendingIntent(releasing[c].of)]
     /\ releasing' = [releasing EXCEPT ![c].step = "claimed"]
     /\ UNCHANGED <<schedule, scheduling, posted, tx, recorded, sweep>>

\* A key that exists answers 409 whatever its status, FAILED included; the
\* counted attempt touches updatedAt.
HandleExisting(c) ==
  LET k == releasing[c].key
  IN /\ releasing[c].step = "read"
     /\ ~ClaimFree(k)
     /\ intent' = [intent EXCEPT ![k].fresh = TRUE]
     /\ releasing' = [releasing EXCEPT ![c] = NoRelease]
     /\ UNCHANGED <<schedule, scheduling, posted, tx, recorded, sweep>>

BuildReleaseMilestoneTx(c) ==
  /\ releasing[c].step = "claimed"
  /\ \E built \in BOOLEAN :
       tx' = IF built THEN [tx EXCEPT ![releasing[c].key] = "issued"] ELSE tx
  /\ releasing' = [releasing EXCEPT ![c] = NoRelease]
  /\ UNCHANGED <<schedule, scheduling, posted, intent, recorded, sweep>>

\* olderThanMs passes without a write to the row.
IntentAges(k) ==
  /\ intent[k].fresh
  /\ intent' = [intent EXCEPT ![k].fresh = FALSE]
  /\ UNCHANGED <<schedule, scheduling, releasing, posted, tx, recorded, sweep>>

\* The wallet signs and submits the transaction; the chain settles it.
ClientSubmits(k) ==
  /\ tx[k] = "issued"
  /\ tx' = [tx EXCEPT ![k] = "submitted"]
  /\ UNCHANGED <<schedule, scheduling, releasing, posted, intent, recorded, sweep>>

ChainSettles(k) ==
  /\ tx[k] = "submitted"
  /\ \E outcome \in {"applied", "rejected"} : tx' = [tx EXCEPT ![k] = outcome]
  /\ UNCHANGED <<schedule, scheduling, releasing, posted, intent, recorded, sweep>>

-----------------------------------------------------------------------------
(* The service's own record of a submission, and reconciliation.           *)

\* The update asks neither for the row's status nor whose transaction the hash
\* is of: a hash stands for the key its transaction was handed out under.
RecordSubmission(k, hash) ==
  /\ posted.records < MaxRecords
  /\ posted' = [posted EXCEPT !.records = @ + 1]
  /\ intent[k].status # "NONE"
  /\ tx[hash] # "none"
  /\ intent' = [intent EXCEPT ![k] = [@ EXCEPT !.status = "SUBMITTED", !.txHash = hash, !.fresh = TRUE]]
  /\ recorded' = [recorded EXCEPT ![k] = @ \cup {hash}]
  /\ UNCHANGED <<schedule, scheduling, releasing, tx, sweep>>

\* Mutant: confirm an intent whose transaction the chain does not know yet.
ResolvedEager(i) ==
  CASE i.txHash = NoHash -> "FAILED"
    [] i.txHash # NoHash /\ tx[i.txHash] = "rejected" -> "FAILED"
    [] OTHER -> "CONFIRMED"

\* What reconcile does with an intent it read, given what lookup answers for
\* the hash it read.
Resolved(i) ==
  CASE i.txHash = NoHash -> "FAILED"
    [] i.txHash # NoHash /\ tx[i.txHash] = "applied" -> "CONFIRMED"
    [] i.txHash # NoHash /\ tx[i.txHash] = "rejected" -> "FAILED"
    [] OTHER -> "LEFT"

\* confirm and fail.
RecordOutcome(i, to) == [i EXCEPT !.status = to, !.fresh = TRUE]

\* findUnresolved: the unresolved rows no one has touched for olderThanMs.
ReconcileRead(w) ==
  /\ sweep[w] = {}
  /\ LET old == {k \in PayoutKeys :
                   intent[k].status \in UNRESOLVED_STATUSES /\ ~intent[k].fresh}
     IN /\ old # {}
        /\ sweep' = [sweep EXCEPT ![w] = {[key |-> k, row |-> intent[k]] : k \in old}]
  /\ UNCHANGED <<schedule, scheduling, releasing, posted, intent, tx, recorded>>

\* The row that was read decides, the write is unconditional.
ReconcileWrite(w) ==
  /\ \E read \in sweep[w] :
       LET to == Resolved(read.row)
       IN /\ intent' = IF to = "LEFT" THEN intent
                       ELSE [intent EXCEPT ![read.key] = RecordOutcome(@, to)]
          /\ sweep' = [sweep EXCEPT ![w] = @ \ {read}]
  /\ UNCHANGED <<schedule, scheduling, releasing, posted, tx, recorded>>

PayNext ==
  \/ \E s \in Schedulers : ReplaceSchedule(s) \/ CreateMilestone(s)
  \/ \E c \in Releasers :
       \/ \E m \in Milestones, h \in HeaderKeys \cup {"absent"} : ReleaseRead(c, m, h)
       \/ Claim(c) \/ HandleExisting(c) \/ BuildReleaseMilestoneTx(c)
  \/ \E k \in PayoutKeys :
       \/ ClientSubmits(k) \/ ChainSettles(k) \/ IntentAges(k)
       \/ \E hash \in PayoutKeys : RecordSubmission(k, hash)
  \/ \E w \in Sweepers : ReconcileRead(w) \/ ReconcileWrite(w)

PaySpec == PayInit /\ [][PayNext]_payVars

-----------------------------------------------------------------------------

PayRows == Milestones \X PayoutAmounts
PayIntent == [status : {"NONE", "PENDING", "SUBMITTED", "CONFIRMED", "FAILED"},
              of : {<<>>} \cup PayRows, txHash : {NoHash} \cup PayoutKeys, fresh : BOOLEAN]
PayRelease == [step : {"read", "claimed"}, key : PayoutKeys, of : PayRows]
TxStates == {"none", "issued", "submitted", "applied", "rejected"}

PayTypeOK ==
  /\ schedule \in [Milestones -> PayoutAmounts \cup {NoMilestone}]
  /\ releasing \in [Releasers -> {NoRelease} \cup PayRelease]
  /\ posted \in [schedules : 0..MaxSchedules, releases : 0..MaxReleases, records : 0..MaxRecords]
  /\ intent \in [PayoutKeys -> PayIntent]
  /\ tx \in [PayoutKeys -> TxStates]
  /\ recorded \in [PayoutKeys -> SUBSET PayoutKeys]

\* An intent ends CONFIRMED only when the chain applied a transaction whose
\* hash was recorded under its key, whatever reconciliations ran on stale
\* reads and whatever hashes were recorded over one another.
ConfirmedOnChain ==
  \A k \in PayoutKeys :
    intent[k].status = "CONFIRMED" => \E hash \in recorded[k] : tx[hash] = "applied"

\* What claim, recordSubmission, confirm, fail and reconcile may do to a row
\* that exists, and what whoever builds a transaction finds under the key.
KeysKept ==
  /\ \A k \in PayoutKeys :
       intent[k].status # "NONE" => intent'[k].of = intent[k].of /\ intent'[k].status # "NONE"
  /\ \A c \in Releasers :
       releasing[c].step = "claimed" /\ releasing'[c].step = "idle" =>
         tx[releasing[c].key] = "none"

\* A key answers for one payout, and for one transaction, for good: claim()
\* rebinds no intent to another amount when the schedule is rewritten between
\* two claims of a header key, and never gives two callers a transaction, not
\* even after reconcile() failed the first.
KeyBoundOnce == [][KeysKept]_payVars

\* "Never reached submission - nothing can have moved on-chain": an intent that
\* reconcile() fails for want of a hash has no applied transaction. It does not
\* hold: the client submits what the release route handed it, and no route
\* records the hash.
FailedMovedNothing ==
  \A k \in PayoutKeys :
    intent[k].status = "FAILED" /\ intent[k].txHash = NoHash => tx[k] # "applied"
=============================================================================
