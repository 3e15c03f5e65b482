------------------------------ MODULE ChainSync ------------------------------
(***************************************************************************)
(* The chain, the listeners and the writers of the trade tables together,  *)
(* and what the backend's copy of the contract's state may be relied on    *)
(* for.                                                                    *)
(***************************************************************************)
EXTENDS EventListener

\* A trade nobody has heard of, or one that was funded before the listeners'
\* horizon: its row and the contract agree.
Histories == {[row |-> NoRow, status |-> "NONE"],
              [row |-> NewTrade("FUNDED", 2), status |-> "FUNDED"]}

SyncInit ==
  /\ \E h \in [TradeIds -> Histories] :
       /\ tradeRow = [t \in TradeIds |-> h[t].row]
       /\ contract = [t \in TradeIds |-> h[t].status]
  /\ dispute = [t \in TradeIds |-> NoRow]
  /\ sweeping = {} /\ batching = NoRow
  /\ opening = {} /\ ruling = NoRow /\ purging = {} /\ overridden = {} /\ erased = {}
  /\ requests = 0
  /\ chain = <<>>
  /\ pc = [i \in Listeners |-> "idle"]
  /\ cursor = [i \in Listeners |-> 0]
  /\ cache = [i \in Listeners |-> {}]
  /\ page = [i \in Listeners |-> <<>>]
  /\ held = [i \in Listeners |-> Idle]
  /\ outbox = [e \in Events |-> NoOutbox]
  /\ processed = {}
  /\ applied = [e \in Events |-> 0]
  /\ crashes = 0

\* What happened before the listeners' horizon.
SyncStart ==
  /\ \E h \in [TradeIds -> Histories] :
       /\ tradeRow' = [t \in TradeIds |-> h[t].row]
       /\ contract' = [t \in TradeIds |-> h[t].status]
  /\ UNCHANGED <<dispute, requestVars, overridden, erased, requests>>
  /\ UNCHANGED <<chain, memoryVars, outbox, processed, applied, crashes>>

SyncNext == \/ StoreNext /\ UNCHANGED listenerVars
            \/ ListenerNext

SyncSpec == SyncInit /\ [][SyncNext]_syncVars

Loop(i) == Start(i) \/ Poll(i) \/ Take(i) \/ Begin(i)
AttemptSettles(i) == Commit(i) \/ UniqueViolation(i) \/ RecordOutboxFailure(i)

SyncTypeOK == StoreTypeOK /\ ListenerTypeOK

-----------------------------------------------------------------------------
\* However many replicas take an event, and whatever crashes, retries and
\* replays happen to it, its handlers' writes are committed at most once: the
\* ProcessedEvent row commits with them.
EffectsOnce == \A e \in Events : applied[e] <= 1

\* The in-memory cache never hides an event the database has not settled: a
\* key in any replica's cache has a ProcessedEvent, or was reported processed
\* by a unique-constraint error that only a rival dispute insert can raise. That
\* dispute is still there, unless its trade was erased since.
CacheIsDurable ==
  \A i \in Listeners : \A e \in cache[i] :
    e \notin processed =>
      /\ chain[e].type = "DisputeInitiated"
      /\ dispute[chain[e].trade] # NoRow \/ chain[e].trade \in erased

\* Together: an event is applied once, and the cache that lets a replica skip it
\* is never ahead of the database (EventListenerService.processEvent).
AppliedOnce == EffectsOnce /\ CacheIsDurable

\* The cursor passes a decodable event without an outbox row ever having been
\* made for it only when the event shares its ledger with one that was taken:
\* the page ended inside the ledger, or a restart took the ledger as done.
UnseenOnlyInSharedLedgers ==
  \A i \in Listeners : \A e \in Emitted :
    (LedgerOf(e) <= cursor[i] /\ Decoded(e) /\ outbox[e].status = "NONE")
      => \E f \in Emitted : /\ f # e /\ LedgerOf(f) = LedgerOf(e)
                            /\ outbox[f].status # "NONE"

\* The edges of the documented state machine, with cancellation and expiry.
Forward ==
  [PENDING_SIGNATURE |-> {"CREATED", "CANCELLED", "EXPIRED"},
   CREATED           |-> {"FUNDED", "CANCELLED", "EXPIRED"},
   FUNDED            |-> {"DELIVERED", "DISPUTED", "CANCELLED", "EXPIRED"},
   DELIVERED         |-> {"COMPLETED", "DISPUTED", "CANCELLED"},
   DISPUTED          |-> {"COMPLETED", "CANCELLED"},
   COMPLETED         |-> {},
   CANCELLED         |-> {},
   EXPIRED           |-> {}]

\* A transaction that found no row upserts without a version guard.
BlindUpsert(t) ==
  \E i \in Listeners : /\ pc[i] = "tx" /\ pc'[i] # "tx"
                       /\ chain[Head(page[i])].trade = t
                       /\ held[i].trade = NoRow

\* The batch writes by trade and version what it validated against a row that
\* was deleted since: a row made anew may have come to the same version.
OrphanBatch(t) ==
  batching # NoRow /\ batching.trade = t /\ batching.orphan /\ batching' = NoRow

\* A user's data is erased, this trade with it: the row and its dispute go
\* together.
ErasedNow(t) == tradeRow'[t] = NoRow /\ dispute'[t] = NoRow /\ t \in erased'

\* A trade row only moves forward, whichever of the handlers, the sweep and the
\* batch wins the races for it: a terminal status is never left and no write
\* reuses a version. The exceptions are a row that appears under a transaction
\* that had found none, an erasure, and a batch validated before one.
RowsMoveForward ==
  [][\A t \in TradeIds : (tradeRow[t] # NoRow /\ tradeRow'[t] # tradeRow[t]) =>
       \/ BlindUpsert(t) \/ OrphanBatch(t) \/ ErasedNow(t)
       \/ /\ tradeRow'[t].version > tradeRow[t].version
          /\ tradeRow'[t].status \in Forward[tradeRow[t].status]]_syncVars

EndedStatuses == {"RESOLVED", "CLOSED"}

\* A dispute that has ended stays ended and keeps its version, whichever of
\* the mediator's transition and the chain event comes second; it goes only
\* with its trade, when a party's data is erased.
EndedDisputesStay ==
  [][\A t \in TradeIds :
       (dispute[t] # NoRow /\ dispute[t].status \in EndedStatuses) =>
         \/ ErasedNow(t)
         \/ /\ dispute'[t] # NoRow
            /\ dispute'[t].status = dispute[t].status
            /\ dispute'[t].version = dispute[t].version]_syncVars

\* The retention purge clears by id what an earlier read selected; even so it
\* never clears the reason of a case that is still live, nor that of a case
\* opened anew on an erased trade.
ReasonKeptWhileLive ==
  \A t \in TradeIds : (dispute[t] # NoRow /\ ~dispute[t].reason) => dispute[t].status \in EndedStatuses

\* A trade that the listeners have marked DISPUTED has its dispute row, even
\* when the dispute endpoint and the event race to insert it.
DisputedHasCase ==
  \A t \in TradeIds \ (overridden \cup erased) :
    (tradeRow[t] # NoRow /\ tradeRow[t].status = "DISPUTED") => dispute[t] # NoRow

\* No dispute outlives its trade: an erasure that races a dispute request or a
\* DisputeInitiated event leaves no case of a trade that is gone.
CasesHaveTrades ==
  \A t \in TradeIds : dispute[t] # NoRow => tradeRow[t] # NoRow

\* Together: whatever listeners, endpoints, sweep, batch, purge and erasure race
\* for, the trade and dispute tables only advance or lose a trade with all that
\* hangs on it, and a disputed trade keeps its case (eventHandlers.ts,
\* dispute.service.ts, privacy.service.ts, the jobs).
TablesOnlyAdvance ==
  /\ RowsMoveForward /\ EndedDisputesStay
  /\ [](ReasonKeptWhileLive /\ DisputedHasCase /\ CasesHaveTrades)

\* The next page of a replica holds only events it passes over without moving
\* its cursor: it will fetch this page for ever.
Stalled(i) ==
  LET ready == {e \in Emitted : LedgerOf(e) > cursor[i]}
      passed == {e \in ready : \/ ~Decoded(e)
                               \/ e \in cache[i] \cup processed
                               \/ outbox[e].status \in {"PROCESSED", "DEAD_LETTER"}}
  IN Cardinality({e \in passed : \A f \in ready \ passed : e < f}) >= PageLimit

\* A failed event is attempted again until it is settled, unless every replica
\* has moved its cursor past the event's ledger or stalled before it.
RetriedUntilPassed ==
  \A e \in Events :
    []<>(outbox[e].status = "RETRYING" =>
           \A i \in Listeners : cursor[i] >= LedgerOf(e) \/ Stalled(i))
=============================================================================
