---------------------------- MODULE ChainSyncSteps --------------------------
(***************************************************************************)
(* The copy of the contract's state: its invariant, and the steps that     *)
(* keep it: those of the requests, the sweep and the retention job on the  *)
(* tables, and those of the listeners that leave the cache of processed    *)
(* events alone.                                                           *)
(***************************************************************************)
EXTENDS ChainSync, TLAPS

\* Most leaves are first-order and go to Zenon; a leaf with arithmetic, records or
\* EXCEPT in it names SMT.
USE Zenon

EventTypes == {"TradeCreated", "TradeFunded", "DeliveryConfirmed", "FundsReleased",
               "DisputeInitiated", "DisputeResolved", "StreamClawback", "Cancelled"}
ContractStatus == {"NONE", "CREATED", "FUNDED", "DELIVERED", "DISPUTED", "COMPLETED",
                   "CANCELLED"}
ChainEvent == [ledger : Nat \ {0}, type : EventTypes, trade : TradeIds]

\* The log is in ledger order.
ChainOK ==
  /\ chain \in Seq(ChainEvent)
  /\ Len(chain) <= MaxEvents
  /\ contract \in [TradeIds -> ContractStatus]
  /\ \A d, e \in Emitted : d <= e => LedgerOf(d) <= LedgerOf(e)

\* EventNames: the events with a status are the first six, the ones the
\* listener decodes the first seven.
LEMMA EventNames ==
  /\ TradeEvents = {"TradeCreated", "TradeFunded", "DeliveryConfirmed", "FundsReleased",
                    "DisputeInitiated", "DisputeResolved"}
  /\ Decodable \subseteq EventTypes
BY DEF TradeEvents, EVENT_TO_STATUS, Decodable, EventTypes

\* FollowTypes: what the contract emits next has a name and leads to a status.
LEMMA FollowTypes ==
  ASSUME NEW s \in ContractStatus, NEW f \in Follows[s]
  PROVE  f[1] \in EventTypes /\ f[2] \in ContractStatus
BY SMT DEF ContractStatus, Follows, EventTypes

-----------------------------------------------------------------------------
(***************************************************************************)
(* The tables. TradeMoves and CaseMoves are all that can happen to a row   *)
(* in one step, whoever takes it.                                          *)
(***************************************************************************)
TradeTable == [TradeIds -> TradeRow \cup {NoRow}]
CaseTable  == [TradeIds -> DisputeRow \cup {NoRow}]

Moved(t, unguarded) ==
  /\ tradeRow[t] \in TradeRow /\ tradeRow'[t] \in TradeRow
  /\ tradeRow'[t].version > tradeRow[t].version
  /\ unguarded \/ tradeRow'[t].status \in Forward[tradeRow[t].status]
  /\ tradeRow'[t].status = "DISPUTED" => dispute'[t] # NoRow \/ t \in overridden' \cup erased'

TradeMoves(t, unguarded) ==
  \/ tradeRow'[t] = tradeRow[t]
  \/ tradeRow[t] = NoRow /\ tradeRow'[t] \in TradeRow /\ tradeRow'[t].status # "DISPUTED"
  \/ Moved(t, unguarded)

CaseMoves(t) ==
  \/ dispute'[t] = dispute[t]
  \/ dispute[t] = NoRow /\ dispute'[t] = NewDispute /\ tradeRow'[t] # NoRow
  \/ /\ dispute[t] \in DisputeRow /\ dispute'[t] \in DisputeRow
     /\ dispute[t].status \notin EndedStatuses
     /\ dispute'[t].reason = dispute[t].reason
  \/ /\ dispute[t] \in DisputeRow /\ dispute'[t] \in DisputeRow
     /\ dispute[t].status \in EndedStatuses
     /\ dispute'[t].status = dispute[t].status /\ dispute'[t].version = dispute[t].version

TablesStay == tradeRow' = tradeRow /\ dispute' = dispute

\* A case was opened on the trade, though an erasure may have deleted it.
Cased(t) == dispute[t] # NoRow \/ t \in erased

\* BumpedRow: what a version-guarded update leaves of a row.
LEMMA BumpedRow ==
  /\ \A r \in TradeRow, s \in TradeStatus :
       /\ Bumped(r, s) \in TradeRow
       /\ Bumped(r, s).status = s /\ Bumped(r, s).version = r.version + 1
  /\ \A r \in DisputeRow, s \in DisputeStatus :
       /\ Bumped(r, s) \in DisputeRow
       /\ Bumped(r, s).status = s /\ Bumped(r, s).version = r.version + 1
       /\ Bumped(r, s).reason = r.reason
<1>1. ASSUME NEW r \in TradeRow, NEW s \in TradeStatus
      PROVE  /\ Bumped(r, s) \in TradeRow
             /\ Bumped(r, s).status = s /\ Bumped(r, s).version = r.version + 1
  <2>1. PICK v \in Nat : v = r.version + 1
    BY SMT DEF TradeRow
  <2>2. Bumped(r, s) = [r EXCEPT !.status = s, !.version = v]
    BY <2>1 DEF Bumped, TradeRow
  <2>3. QED
    BY <2>1, <2>2 DEF TradeRow
<1>2. ASSUME NEW r \in DisputeRow, NEW s \in DisputeStatus
      PROVE  /\ Bumped(r, s) \in DisputeRow
             /\ Bumped(r, s).status = s /\ Bumped(r, s).version = r.version + 1
             /\ Bumped(r, s).reason = r.reason
  <2>1. PICK v \in Nat : v = r.version + 1
    BY SMT DEF DisputeRow
  <2>2. Bumped(r, s) = [r EXCEPT !.status = s, !.version = v]
    BY <2>1 DEF Bumped, DisputeRow
  <2>3. QED
    BY <2>1, <2>2 DEF DisputeRow
<1>3. QED
  BY <1>1, <1>2

\* FreshRows: the rows inserted are rows.
LEMMA FreshRows ==
  /\ \A s \in TradeStatus, v \in Nat : NewTrade(s, v) \in TradeRow /\ NewTrade(s, v).status = s
  /\ NewDispute \in DisputeRow /\ NewDispute.reason /\ NewDispute.status = "OPEN"
BY DEF NewTrade, TradeRow, NewDispute, DisputeRow, DisputeStatus

\* EventEdges: an event's handler follows an edge of the state machine, and
\* only DisputeInitiated leads to DISPUTED.
LEMMA EventEdges ==
  ASSUME NEW type \in TradeEvents
  PROVE  /\ EVENT_TO_STATUS[type] \in TradeStatus
         /\ EVENT_TO_STATUS[type] = "DISPUTED" => type = "DisputeInitiated"
         /\ \A s \in VALID_PREDECESSORS[type] : /\ s \in TradeStatus
                                                /\ EVENT_TO_STATUS[type] \in Forward[s]
BY EventNames, SMT DEF EVENT_TO_STATUS, VALID_PREDECESSORS, TradeStatus, Forward

\* BatchEdges: so does the admin batch.
LEMMA BatchEdges ==
  ASSUME NEW s \in TradeStatus
  PROVE  BATCH_TRANSITIONS[s] \subseteq Forward[s]
BY SMT DEF BATCH_TRANSITIONS, TradeStatus, Forward

\* SweepEdges: and the expiry sweep.
LEMMA SweepEdges ==
  ASSUME NEW s \in EXPIRABLE_STATUSES
  PROVE  s \in TradeStatus /\ "EXPIRED" \in Forward[s] /\ "EXPIRED" \in TradeStatus
BY SMT DEF EXPIRABLE_STATUSES, TradeStatus, Forward

\* RulingEdges: a mediator's transition starts from a live dispute.
LEMMA RulingEdges ==
  ASSUME NEW s \in DisputeStatus, NEW x \in VALID_TRANSITIONS[s]
  PROVE  s \notin EndedStatuses /\ x \in DisputeStatus
BY SMT DEF VALID_TRANSITIONS, DisputeStatus, EndedStatuses

\* TransitionMoves: applyStatusTransition takes the row along an edge, inserts
\* it, or updates without a guard a row it had not found.
LEMMA TransitionMoves ==
  ASSUME tradeRow \in TradeTable, NEW t \in TradeIds, NEW type \in TradeEvents,
         NEW seen \in TradeRow \cup {NoRow}, ApplyStatusTransition(t, type, seen),
         type = "DisputeInitiated" => Cased(t)'
  PROVE  /\ tradeRow' \in TradeTable
         /\ \A u \in TradeIds : TradeMoves(u, u = t /\ seen = NoRow)
<1> DEFINE status == EVENT_TO_STATUS[type]
<1>1. status \in TradeStatus /\ (status = "DISPUTED" => Cased(t)')
  BY EventEdges
<1>2. CASE seen = NoRow /\ tradeRow[t] = NoRow
  <2>1. type = "TradeCreated" /\ tradeRow' = [tradeRow EXCEPT ![t] = NewTrade(status, 1)]
    BY <1>2 DEF ApplyStatusTransition
  <2>2. NewTrade(status, 1) \in TradeRow /\ NewTrade(status, 1).status = status
    BY <1>1, FreshRows
  <2>3. status # "DISPUTED"
    BY <2>1, EventEdges
  <2> HIDE DEF status
  <2>4. QED
    BY <1>2, <2>1, <2>2, <2>3 DEF TradeTable, TradeMoves
<1>3. CASE tradeRow[t] # NoRow /\ tradeRow' = [tradeRow EXCEPT ![t] = Bumped(@, status)]
           /\ (seen = NoRow \/ status \in Forward[tradeRow[t].status])
  <2>1. tradeRow[t] \in TradeRow
    BY <1>3 DEF TradeTable
  <2> HIDE DEF status
  <2>2. PICK r : r = Bumped(tradeRow[t], status)
    OBVIOUS
  <2>3. r \in TradeRow /\ r.status = status /\ r.version = tradeRow[t].version + 1
    BY <1>1, <2>1, <2>2, BumpedRow
  <2>4. tradeRow[t].version \in Nat
    BY <2>1 DEF TradeRow
  <2>5. tradeRow' = [tradeRow EXCEPT ![t] = r]
    BY <1>3, <2>2
  <2>6. r.version > tradeRow[t].version
    BY <2>3, <2>4, SMT
  <2>7. tradeRow'[t] = r /\ tradeRow' \in TradeTable
        /\ \A u \in TradeIds \ {t} : tradeRow'[u] = tradeRow[u]
    BY <2>3, <2>5 DEF TradeTable
  <2>8. QED
    BY <1>1, <1>3, <2>1, <2>3, <2>6, <2>7 DEF TradeMoves, Moved, Cased
<1>4. CASE tradeRow' = tradeRow
  BY <1>4 DEF TradeMoves
<1>5. QED
  <2>1. CASE seen = NoRow
    BY <1>2, <1>3, <2>1 DEF ApplyStatusTransition
  <2>2. CASE seen # NoRow /\ seen.status \in VALID_PREDECESSORS[type] /\ tradeRow' # tradeRow
    <3>1. tradeRow[t] # NoRow /\ tradeRow[t].status = seen.status
          /\ tradeRow' = [tradeRow EXCEPT ![t] = Bumped(@, status)]
      BY <2>2 DEF ApplyStatusTransition, Unmoved
    <3>2. status \in Forward[seen.status]
      BY <2>2, EventEdges
    <3>3. QED
      BY <1>3, <3>1, <3>2
  <2>3. QED
    BY <1>4, <2>1, <2>2 DEF ApplyStatusTransition

\* CaseFromEvent: a dispute event inserts a missing dispute or resolves an open
\* one, and leaves the trade with a dispute if it was the first kind.
LEMMA CaseFromEvent ==
  ASSUME dispute \in CaseTable, NEW t \in TradeIds, NEW type \in DisputeEvents,
         NEW seen \in DisputeRow \cup {NoRow}, seen # NoRow => Cased(t), erased' = erased,
         ~DuplicateDispute(t, type, seen), SyncDisputeFromEvent(t, type, seen)
  PROVE  /\ dispute' \in CaseTable
         /\ \A u \in TradeIds : CaseMoves(u)
         /\ type = "DisputeInitiated" => Cased(t)'
<1>1. CASE type = "DisputeInitiated" /\ seen = NoRow
  <2>1. /\ dispute[t] = NoRow /\ dispute' = [dispute EXCEPT ![t] = NewDispute]
        /\ tradeRow'[t] # NoRow
    BY <1>1 DEF DuplicateDispute, SyncDisputeFromEvent
  <2>2. QED
    BY <2>1, FreshRows, NoRowIsNoRow DEF CaseTable, CaseMoves, Cased
<1>2. CASE (type = "DisputeInitiated") <=> (seen # NoRow)
  <2>1. dispute' = dispute
    BY <1>2 DEF SyncDisputeFromEvent, DisputeEvents
  <2>2. QED
    BY <1>2, <2>1 DEF CaseMoves, Cased
<1>3. CASE type = "DisputeResolved" /\ seen # NoRow
  <2>1. dispute' = [dispute EXCEPT ![t] = IF @ # NoRow /\ @.status = "OPEN"
                                          THEN Bumped(@, "RESOLVED") ELSE @]
    BY <1>3 DEF SyncDisputeFromEvent
  <2>2. CASE dispute[t] # NoRow /\ dispute[t].status = "OPEN"
    <3>1. dispute[t] \in DisputeRow
      BY <2>2 DEF CaseTable
    <3>2. PICK r \in DisputeRow : r = Bumped(dispute[t], "RESOLVED") /\ r.reason = dispute[t].reason
      BY <3>1, BumpedRow DEF DisputeStatus
    <3>3. dispute' = [dispute EXCEPT ![t] = r]
      BY <2>1, <2>2, <3>2
    <3>4. dispute[t].status \notin EndedStatuses
      BY <2>2 DEF EndedStatuses
    <3>5. QED
      BY <1>3, <3>1, <3>2, <3>3, <3>4 DEF CaseTable, CaseMoves
  <2>3. CASE ~(dispute[t] # NoRow /\ dispute[t].status = "OPEN")
    <3>1. dispute' = dispute
      BY <2>1, <2>3 DEF CaseTable
    <3>2. QED
      BY <1>3, <3>1 DEF CaseMoves
  <2>4. QED
    BY <2>2, <2>3
<1>4. QED
  BY <1>1, <1>2, <1>3 DEF DisputeEvents

\* DispatchMoves: and so does the dispatch of any event.
LEMMA DispatchMoves ==
  ASSUME tradeRow \in TradeTable, dispute \in CaseTable,
         NEW t \in TradeIds, NEW type \in EventTypes,
         NEW seen \in TradeRow \cup {NoRow}, NEW seenDispute \in DisputeRow \cup {NoRow},
         seenDispute # NoRow => Cased(t), erased' = erased,
         DispatchEvent(t, type, seen, seenDispute)
  PROVE  /\ tradeRow' \in TradeTable /\ dispute' \in CaseTable
         /\ \A u \in TradeIds : TradeMoves(u, u = t /\ seen = NoRow) /\ CaseMoves(u)
<1>1. CASE HandleStatusEvent(t, type, seen)
  <2>1. type \in TradeEvents /\ type # "DisputeInitiated" /\ dispute' = dispute
        /\ ApplyStatusTransition(t, type, seen)
    BY <1>1 DEF HandleStatusEvent, DisputeEvents
  <2>2. QED
    BY <2>1, TransitionMoves DEF CaseMoves
<1>2. CASE HandleDisputeEvent(t, type, seen, seenDispute)
  <2>1. /\ type \in DisputeEvents /\ type \in TradeEvents
        /\ ApplyStatusTransition(t, type, seen)
        /\ ~DuplicateDispute(t, type, seenDispute)
        /\ SyncDisputeFromEvent(t, type, seenDispute)
    BY <1>2, EventNames DEF HandleDisputeEvent, DisputeEvents
  <2>2. /\ dispute' \in CaseTable /\ \A u \in TradeIds : CaseMoves(u)
        /\ type = "DisputeInitiated" => Cased(t)'
    BY <2>1, CaseFromEvent
  <2>3. QED
    BY <2>1, <2>2, TransitionMoves
<1>3. CASE HandleStreamClawback(type)
  BY <1>3 DEF HandleStreamClawback, TradeMoves, CaseMoves
<1>4. QED
  BY <1>1, <1>2, <1>3 DEF DispatchEvent

-----------------------------------------------------------------------------
\* While the row the batch validated stands and has not moved, its target is an
\* edge.
Batched ==
  (batching # NoRow /\ ~batching.orphan) =>
    LET row == tradeRow[batching.trade] IN
    /\ row \in TradeRow
    /\ batching.version <= row.version
    /\ batching.version = row.version => batching.target \in BATCH_TRANSITIONS[row.status]

Ruled == ruling # NoRow => ruling.target \in VALID_TRANSITIONS[ruling.row.status]

\* What the purge selected has ended.
Purged == \A t \in purging : dispute[t] \in DisputeRow /\ dispute[t].status \in EndedStatuses

StoreInv ==
  /\ StoreTypeOK /\ Batched /\ Ruled /\ Purged
  /\ ReasonKeptWhileLive /\ DisputedHasCase /\ CasesHaveTrades

Unguarded(t) == BlindUpsert(t) \/ OrphanBatch(t)

\* What a writer other than the erasure does to the tables.
TablesStep ==
  /\ tradeRow' \in TradeTable /\ dispute' \in CaseTable
  /\ overridden \subseteq overridden' /\ erased' = erased
  /\ \A t \in TradeIds : TradeMoves(t, Unguarded(t)) /\ CaseMoves(t)

\* What an erasure does to them.
ErasureStep ==
  /\ tradeRow' \in TradeTable /\ dispute' \in CaseTable
  /\ overridden' = overridden /\ erased \subseteq erased'
  /\ \A t \in TradeIds : \/ tradeRow'[t] = tradeRow[t] /\ dispute'[t] = dispute[t]
                         \/ ErasedNow(t)

\* StayIsStep: leaving the tables alone is one.
LEMMA StayIsStep ==
  ASSUME StoreTypeOK, TablesStay, UNCHANGED <<overridden, erased>>
  PROVE  TablesStep
BY DEF StoreTypeOK, TablesStay, TablesStep, TradeTable, CaseTable, TradeMoves, CaseMoves

\* BatchedKept: no step moves the row under the batch without its version.
LEMMA BatchedKept ==
  ASSUME StoreTypeOK, TablesStep, Batched, batching' \in {batching, NoRow}
  PROVE  Batched'
<1> SUFFICES ASSUME batching' # NoRow, ~batching'.orphan
             PROVE  Batched'
  BY DEF Batched
<1> DEFINE t == batching.trade
<1>1. batching' = batching /\ batching # NoRow /\ t \in TradeIds /\ batching.version \in Nat
  BY DEF StoreTypeOK
<1>2. /\ tradeRow[t] \in TradeRow /\ batching.version <= tradeRow[t].version
      /\ batching.version = tradeRow[t].version
           => batching.target \in BATCH_TRANSITIONS[tradeRow[t].status]
  BY <1>1 DEF Batched
<1>3. TradeMoves(t, Unguarded(t))
  BY <1>1 DEF TablesStep
<1>4. CASE tradeRow'[t] = tradeRow[t]
  BY <1>1, <1>2, <1>4 DEF Batched
<1>5. CASE Moved(t, Unguarded(t))
  <2>1. /\ tradeRow'[t] \in TradeRow /\ tradeRow'[t].version \in Nat /\ tradeRow[t].version \in Nat
        /\ tradeRow'[t].version > tradeRow[t].version
    BY <1>5 DEF Moved, TradeRow
  <2>2. QED
    BY <1>1, <1>2, <2>1, SMT DEF Batched
<1>6. QED
  BY <1>2, <1>3, <1>4, <1>5, NoRowIsNoRow DEF TradeMoves

\* PurgedKept: what has ended stays ended.
LEMMA PurgedKept ==
  ASSUME TablesStep, Purged, purging \subseteq TradeIds, purging' \subseteq purging
  PROVE  Purged'
<1> SUFFICES ASSUME NEW t \in purging'
             PROVE  dispute'[t] \in DisputeRow /\ dispute'[t].status \in EndedStatuses
  BY DEF Purged
<1>1. dispute[t] \in DisputeRow /\ dispute[t].status \in EndedStatuses /\ CaseMoves(t)
  BY DEF Purged, TablesStep
<1>2. QED
  BY <1>1, NoRowIsNoRow DEF CaseMoves

\* CasesKept: what the tables promise of disputes survives every such step.
LEMMA CasesKept ==
  ASSUME StoreTypeOK, TablesStep, ReasonKeptWhileLive, DisputedHasCase, CasesHaveTrades
  PROVE  ReasonKeptWhileLive' /\ DisputedHasCase' /\ CasesHaveTrades'
<1>1. ASSUME NEW t \in TradeIds, dispute'[t] # NoRow, ~dispute'[t].reason
      PROVE  dispute'[t].status \in EndedStatuses
  <2>1. CaseMoves(t)
    BY DEF TablesStep
  <2>2. dispute[t] # NoRow /\ ~dispute[t].reason => dispute[t].status \in EndedStatuses
    BY DEF ReasonKeptWhileLive
  <2>3. QED
    BY <1>1, <2>1, <2>2, FreshRows, NoRowIsNoRow DEF CaseMoves
<1>2. ASSUME NEW t \in TradeIds, t \notin overridden' \cup erased', tradeRow'[t] # NoRow,
             tradeRow'[t].status = "DISPUTED"
      PROVE  dispute'[t] # NoRow
  <2>1. TradeMoves(t, Unguarded(t)) /\ CaseMoves(t) /\ t \notin overridden \cup erased
    BY <1>2 DEF TablesStep
  <2>2. CASE Moved(t, Unguarded(t))
    BY <1>2, <2>2 DEF Moved
  <2>3. CASE tradeRow'[t] = tradeRow[t]
    <3>1. dispute[t] # NoRow
      BY <1>2, <2>1, <2>3 DEF DisputedHasCase
    <3>2. QED
      BY <2>1, <3>1, NoRowIsNoRow DEF CaseMoves
  <2>4. QED
    BY <1>2, <2>1, <2>2, <2>3 DEF TradeMoves
<1>3. ASSUME NEW t \in TradeIds, dispute'[t] # NoRow
      PROVE  tradeRow'[t] # NoRow
  <2>1. TradeMoves(t, Unguarded(t)) /\ CaseMoves(t)
    BY DEF TablesStep
  <2>2. CASE dispute[t] = NoRow
    BY <1>3, <2>1, <2>2, NoRowIsNoRow DEF CaseMoves
  <2>3. CASE tradeRow[t] # NoRow
    BY <2>1, <2>3, NoRowIsNoRow DEF TradeMoves, Moved
  <2>4. QED
    BY <2>2, <2>3 DEF CasesHaveTrades
<1>4. QED
  BY <1>1, <1>2, <1>3 DEF ReasonKeptWhileLive, DisputedHasCase, CasesHaveTrades

-----------------------------------------------------------------------------
\* The variables of the requests under way, as StoreTypeOK has them.
RequestsOK ==
  /\ sweeping \subseteq TradeIds \X TradeRow
  /\ batching \in [trade : TradeIds, version : Nat, target : TradeStatus,
                  orphan : BOOLEAN] \cup {NoRow}
  /\ opening \subseteq TradeIds
  /\ ruling \in [trade : TradeIds, row : DisputeRow, target : DisputeStatus] \cup {NoRow}
  /\ purging \subseteq TradeIds
  /\ overridden \subseteq TradeIds /\ erased \subseteq TradeIds
  /\ requests \in 0..MaxRequests

\* StoreTypes: StoreTypeOK by tables and requests.
LEMMA StoreTypes ==
  StoreTypeOK <=> tradeRow \in TradeTable /\ dispute \in CaseTable /\ RequestsOK
BY DEF StoreTypeOK, TradeTable, CaseTable, RequestsOK

\* StartedOK: the bound on requests is kept.
LEMMA StartedOK ==
  ASSUME requests \in 0..MaxRequests, Started
  PROVE  requests' \in 0..MaxRequests
BY RequestBound, SMT DEF Started

\* WriteKeeps: a step that moves the tables as they may move, and takes up no
\* new request, keeps the invariant.
LEMMA WriteKeeps ==
  ASSUME StoreInv, TablesStep, RequestsOK',
         batching' \in {batching, NoRow}, ruling' \in {ruling, NoRow}, purging' \subseteq purging
  PROVE  StoreInv'
<1>1. /\ StoreTypeOK /\ Batched /\ Ruled /\ Purged
      /\ ReasonKeptWhileLive /\ DisputedHasCase /\ CasesHaveTrades
  BY DEF StoreInv
<1>2. StoreTypeOK'
  BY StoreTypes DEF TablesStep, StoreTypeOK, TradeTable, CaseTable, RequestsOK
<1>3. Batched'
  BY <1>1, BatchedKept
<1>4. Ruled'
  BY <1>1 DEF Ruled
<1>5. Purged'
  BY <1>1, PurgedKept DEF StoreTypeOK
<1>6. ReasonKeptWhileLive' /\ DisputedHasCase' /\ CasesHaveTrades'
  BY <1>1, CasesKept
<1>7. QED
  BY <1>2, <1>3, <1>4, <1>5, <1>6 DEF StoreInv

\* ReadKeeps: a request that only reads keeps the invariant, if what it
\* remembers is true of the rows.
LEMMA ReadKeeps ==
  ASSUME StoreInv, TablesStay, RequestsOK', UNCHANGED <<overridden, erased>>,
         Batched', Ruled', Purged'
  PROVE  StoreInv'
<1>1. StoreTypeOK /\ ReasonKeptWhileLive /\ DisputedHasCase /\ CasesHaveTrades
  BY DEF StoreInv
<1>2. StoreTypeOK'
  BY <1>1 DEF TablesStay, StoreTypeOK, RequestsOK
<1>3. ReasonKeptWhileLive' /\ DisputedHasCase' /\ CasesHaveTrades'
  BY <1>1 DEF TablesStay, ReasonKeptWhileLive, DisputedHasCase, CasesHaveTrades
<1>4. QED
  BY <1>2, <1>3 DEF StoreInv

\* StartsKeep: reading for the sweep, the batch, the dispute endpoint, the
\* mediator and the purge.
LEMMA StartsKeep ==
  ASSUME StoreInv,
         \/ SweepRead \/ PurgeRead
         \/ \E t \in TradeIds : DisputeCheck(t)
         \/ \E t \in TradeIds, s \in TradeStatus : BatchRead(t, s)
         \/ \E t \in TradeIds, s \in DisputeStatus : RulingRead(t, s)
  PROVE  TablesStay /\ UNCHANGED <<overridden, erased>> /\ StoreInv'
<1>1. StoreTypeOK /\ Batched /\ Ruled /\ Purged
  BY DEF StoreInv
<1>2. RequestsOK /\ requests \in 0..MaxRequests
  BY <1>1, StoreTypes DEF RequestsOK
<1>3. CASE SweepRead
  <2>1. TablesStay /\ UNCHANGED <<batching, opening, ruling, purging, overridden, erased>>
    BY <1>3 DEF SweepRead, TablesStay
  <2>2. sweeping' \subseteq TradeIds \X TradeRow
    <3>1. PICK stale \in SUBSET {t \in TradeIds : tradeRow[t] # NoRow} :
            sweeping' = {<<t, tradeRow[t]>> : t \in stale}
      BY <1>3 DEF SweepRead
    <3>2. \A t \in stale : t \in TradeIds /\ tradeRow[t] \in TradeRow
      BY <1>1 DEF StoreTypeOK
    <3>3. QED
      BY <3>1, <3>2, SMT
  <2>3. requests' \in 0..MaxRequests
    BY <1>2, <1>3, StartedOK DEF SweepRead
  <2>4. RequestsOK'
    BY <1>2, <2>1, <2>2, <2>3 DEF RequestsOK
  <2>5. Batched' /\ Ruled' /\ Purged'
    BY <1>1, <2>1 DEF TablesStay, Batched, Ruled, Purged
  <2>6. QED
    BY <2>1, <2>4, <2>5, ReadKeeps
<1>4. CASE PurgeRead
  <2>1. TablesStay /\ UNCHANGED <<sweeping, batching, opening, ruling, overridden, erased>>
    BY <1>4 DEF PurgeRead, TablesStay
  <2>2. \A t \in purging' : /\ t \in TradeIds /\ dispute[t] # NoRow
                            /\ dispute[t].status \in EndedStatuses
    BY <1>4 DEF PurgeRead, COMPLETED_DISPUTE_STATUSES, EndedStatuses
  <2>3. requests' \in 0..MaxRequests
    BY <1>2, <1>4, StartedOK DEF PurgeRead
  <2>4. RequestsOK'
    BY <1>2, <2>1, <2>2, <2>3 DEF RequestsOK
  <2>5. Purged'
    BY <1>1, <2>1, <2>2 DEF TablesStay, Purged, StoreTypeOK
  <2>6. Batched' /\ Ruled'
    BY <1>1, <2>1 DEF TablesStay, Batched, Ruled
  <2>7. QED
    BY <2>1, <2>4, <2>5, <2>6, ReadKeeps
<1>5. ASSUME NEW t \in TradeIds, DisputeCheck(t)
      PROVE  TablesStay /\ UNCHANGED <<overridden, erased>> /\ StoreInv'
  <2>1. /\ TablesStay /\ UNCHANGED <<sweeping, batching, ruling, purging, overridden, erased>>
        /\ opening' = opening \cup {t}
    BY <1>5 DEF DisputeCheck, TablesStay
  <2>2. requests' \in 0..MaxRequests
    BY <1>2, <1>5, StartedOK DEF DisputeCheck
  <2>3. RequestsOK'
    BY <1>2, <2>1, <2>2 DEF RequestsOK
  <2>4. Batched' /\ Ruled' /\ Purged'
    BY <1>1, <2>1 DEF TablesStay, Batched, Ruled, Purged
  <2>5. QED
    BY <2>1, <2>3, <2>4, ReadKeeps
<1>6. ASSUME NEW t \in TradeIds, NEW s \in TradeStatus, BatchRead(t, s)
      PROVE  TablesStay /\ UNCHANGED <<overridden, erased>> /\ StoreInv'
  <2>1. TablesStay /\ UNCHANGED <<sweeping, opening, ruling, purging, overridden, erased>>
    BY <1>6 DEF BatchRead, TablesStay
  <2>2. /\ tradeRow[t] \in TradeRow /\ s \in BATCH_TRANSITIONS[tradeRow[t].status]
        /\ batching' = [trade |-> t, version |-> tradeRow[t].version, target |-> s,
                        orphan |-> FALSE]
    BY <1>1, <1>6 DEF BatchRead, StoreTypeOK
  <2>3. tradeRow[t].version \in Nat
    BY <2>2 DEF TradeRow
  <2>4. requests' \in 0..MaxRequests
    BY <1>2, <1>6, StartedOK DEF BatchRead
  <2>5. RequestsOK'
    BY <1>2, <2>1, <2>2, <2>3, <2>4 DEF RequestsOK
  <2>6. Batched'
    BY <2>1, <2>2, <2>3, SMT DEF TablesStay, Batched
  <2>7. Ruled' /\ Purged'
    BY <1>1, <2>1 DEF TablesStay, Ruled, Purged
  <2>8. QED
    BY <2>1, <2>5, <2>6, <2>7, ReadKeeps
<1>7. ASSUME NEW t \in TradeIds, NEW s \in DisputeStatus, RulingRead(t, s)
      PROVE  TablesStay /\ UNCHANGED <<overridden, erased>> /\ StoreInv'
  <2>1. TablesStay /\ UNCHANGED <<sweeping, batching, opening, purging, overridden, erased>>
    BY <1>7 DEF RulingRead, TablesStay
  <2>2. /\ dispute[t] \in DisputeRow /\ s \in VALID_TRANSITIONS[dispute[t].status]
        /\ ruling' = [trade |-> t, row |-> dispute[t], target |-> s]
    BY <1>1, <1>7 DEF RulingRead, StoreTypeOK
  <2>3. requests' \in 0..MaxRequests
    BY <1>2, <1>7, StartedOK DEF RulingRead
  <2>4. RequestsOK'
    BY <1>2, <2>1, <2>2, <2>3 DEF RequestsOK
  <2>5. Batched' /\ Ruled' /\ Purged'
    BY <1>1, <2>1, <2>2 DEF TablesStay, Batched, Ruled, Purged
  <2>6. QED
    BY <2>1, <2>4, <2>5, ReadKeeps
<1>8. QED
  BY <1>3, <1>4, <1>5, <1>6, <1>7

\* OneTrade: a step that changes one trade row as it may change, and no
\* dispute, is a step of the tables.
LEMMA OneTrade ==
  ASSUME StoreTypeOK, NEW t \in TradeIds, NEW row \in TradeRow,
         tradeRow' = [tradeRow EXCEPT ![t] = row], dispute' = dispute,
         overridden \subseteq overridden', erased' = erased, TradeMoves(t, OrphanBatch(t))
  PROVE  TablesStep
<1>1. tradeRow' \in TradeTable /\ dispute' \in CaseTable
      /\ \A u \in TradeIds \ {t} : tradeRow'[u] = tradeRow[u]
  BY DEF StoreTypeOK, TradeTable, CaseTable
<1>2. \A u \in TradeIds : TradeMoves(u, Unguarded(u)) /\ CaseMoves(u)
  BY <1>1 DEF TradeMoves, Moved, CaseMoves, Unguarded
<1>3. QED
  BY <1>1, <1>2 DEF TablesStep

\* OneCase: the same of one dispute.
LEMMA OneCase ==
  ASSUME StoreTypeOK, NEW t \in TradeIds, NEW row \in DisputeRow,
         dispute' = [dispute EXCEPT ![t] = row], tradeRow' = tradeRow,
         UNCHANGED <<overridden, erased>>, CaseMoves(t)
  PROVE  TablesStep
<1>1. tradeRow' \in TradeTable /\ dispute' \in CaseTable
      /\ \A u \in TradeIds \ {t} : dispute'[u] = dispute[u]
  BY DEF StoreTypeOK, TradeTable, CaseTable
<1>2. \A u \in TradeIds : TradeMoves(u, Unguarded(u)) /\ CaseMoves(u)
  BY <1>1 DEF TradeMoves, CaseMoves
<1>3. QED
  BY <1>1, <1>2 DEF TablesStep

\* CreateMoves: POST /trades inserts a row that was not there.
LEMMA CreateMoves ==
  ASSUME StoreTypeOK, NEW t \in TradeIds, CreatePendingTrade(t)
  PROVE  TablesStep
<1>1. PICK row : row = NewTrade("PENDING_SIGNATURE", 0)
  OBVIOUS
<1>2. row \in TradeRow /\ row.status # "DISPUTED"
  BY <1>1, FreshRows DEF TradeStatus
<1>3. /\ tradeRow[t] = NoRow /\ tradeRow' = [tradeRow EXCEPT ![t] = row]
      /\ dispute' = dispute /\ UNCHANGED <<overridden, erased>>
  BY <1>1 DEF CreatePendingTrade
<1>4. tradeRow'[t] = row
  BY <1>3 DEF StoreTypeOK
<1>5. TradeMoves(t, OrphanBatch(t))
  BY <1>2, <1>3, <1>4 DEF TradeMoves
<1>6. QED
  BY <1>2, <1>3, <1>5, OneTrade

\* SweepMoves: the sweep expires a row that may expire and has its version.
LEMMA SweepMoves ==
  ASSUME StoreTypeOK, SweepWrite
  PROVE  TablesStep
<1>1. PICK x \in sweeping :
        LET t == x[1]
            hit == /\ tradeRow[t] # NoRow
                   /\ tradeRow[t].version = x[2].version
                   /\ tradeRow[t].status \in EXPIRABLE_STATUSES IN
        tradeRow' = IF hit THEN [tradeRow EXCEPT ![t] = [Bumped(@, "EXPIRED") EXCEPT !.expired = TRUE]]
                           ELSE tradeRow
  BY DEF SweepWrite
<1>2. PICK t \in TradeIds : t = x[1]
  BY DEF StoreTypeOK
<1>3. dispute' = dispute /\ UNCHANGED <<overridden, erased>>
  BY DEF SweepWrite
<1>4. CASE tradeRow' = tradeRow
  BY <1>3, <1>4, StayIsStep DEF TablesStay
<1>5. CASE tradeRow' # tradeRow
  <2>1. /\ tradeRow[t] \in TradeRow /\ tradeRow[t].status \in EXPIRABLE_STATUSES
        /\ tradeRow' = [tradeRow EXCEPT ![t] = [Bumped(@, "EXPIRED") EXCEPT !.expired = TRUE]]
    BY <1>1, <1>2, <1>5 DEF StoreTypeOK
  <2>2. PICK b \in TradeRow : /\ b = Bumped(tradeRow[t], "EXPIRED")
                              /\ b.status = "EXPIRED" /\ b.version = tradeRow[t].version + 1
    BY <2>1, BumpedRow, SweepEdges, SMT
  <2>3. PICK row \in TradeRow : /\ row = [b EXCEPT !.expired = TRUE]
                                /\ row.status = "EXPIRED" /\ row.version = tradeRow[t].version + 1
    <3>1. PICK row : row = [b EXCEPT !.expired = TRUE]
      OBVIOUS
    <3>2. row \in TradeRow /\ row.status = b.status /\ row.version = b.version
      BY <3>1 DEF TradeRow
    <3>3. QED
      BY <2>2, <3>1, <3>2
  <2>4. tradeRow' = [tradeRow EXCEPT ![t] = row] /\ tradeRow'[t] = row
    BY <2>1, <2>2, <2>3 DEF StoreTypeOK
  <2>5. tradeRow[t].version \in Nat /\ "EXPIRED" \in Forward[tradeRow[t].status]
    BY <2>1, SweepEdges DEF TradeRow
  <2>6. tradeRow[t].version + 1 > tradeRow[t].version
    BY <2>5, SMT
  <2>7. Moved(t, OrphanBatch(t))
    BY <2>1, <2>3, <2>4, <2>5, <2>6 DEF Moved
  <2>8. QED
    BY <1>3, <2>4, <2>7, OneTrade DEF TradeMoves
<1>6. QED
  BY <1>4, <1>5

\* BatchMoves: the batch follows the edge it validated, if the row it read stands
\* and the version is still the one it read, and marks the trade as overridden.
LEMMA BatchMoves ==
  ASSUME StoreInv, BatchWrite
  PROVE  TablesStep /\ overridden' \subseteq TradeIds
<1> DEFINE t == batching.trade
<1>1. StoreTypeOK /\ Batched /\ batching # NoRow /\ UNCHANGED <<dispute, erased>>
  BY DEF StoreInv, BatchWrite
<1>2. t \in TradeIds /\ batching.version \in Nat /\ batching.target \in TradeStatus
  BY <1>1 DEF StoreTypeOK
<1>3. CASE ~BatchHit(t)
  <2>1. tradeRow' = tradeRow /\ UNCHANGED <<overridden, erased>>
    BY <1>1, <1>3 DEF BatchWrite
  <2>2. QED
    BY <1>1, <2>1, StayIsStep DEF TablesStay, StoreTypeOK
<1>4. CASE BatchHit(t)
  <2>1. /\ tradeRow' = [tradeRow EXCEPT ![t] = Bumped(@, batching.target)]
        /\ overridden' = overridden \cup {t}
    BY <1>4 DEF BatchWrite
  <2>2. /\ tradeRow[t] \in TradeRow
        /\ batching.orphan \/ batching.target \in BATCH_TRANSITIONS[tradeRow[t].status]
    BY <1>1, <1>2, <1>4 DEF Batched, BatchHit, StoreTypeOK
  <2>3. PICK row \in TradeRow : /\ row = Bumped(tradeRow[t], batching.target)
                                /\ row.status = batching.target
                                /\ row.version = tradeRow[t].version + 1
    BY <1>2, <2>2, BumpedRow, SMT
  <2>4. tradeRow' = [tradeRow EXCEPT ![t] = row] /\ tradeRow'[t] = row
    BY <1>1, <1>2, <2>1, <2>3 DEF StoreTypeOK
  <2>5. tradeRow[t].version \in Nat /\ tradeRow[t].status \in TradeStatus
    BY <2>2 DEF TradeRow
  <2>6. OrphanBatch(t) \/ row.status \in Forward[tradeRow[t].status]
    BY <1>1, <2>2, <2>3, <2>5, BatchEdges DEF OrphanBatch, BatchWrite
  <2>7. row.version > tradeRow[t].version
    BY <2>3, <2>5, SMT
  <2>8. Moved(t, OrphanBatch(t))
    BY <2>1, <2>2, <2>3, <2>4, <2>6, <2>7 DEF Moved
  <2>9. overridden \subseteq overridden' /\ overridden' \subseteq TradeIds
    BY <1>1, <1>2, <2>1 DEF StoreTypeOK
  <2>10. TablesStep
    BY <1>1, <1>2, <2>4, <2>8, <2>9, OneTrade DEF TradeMoves
  <2>11. QED
    BY <2>9, <2>10
<1>5. QED
  BY <1>3, <1>4

\* InsertMoves: the dispute endpoint inserts a dispute that was not there.
LEMMA InsertMoves ==
  ASSUME StoreTypeOK, NEW t \in TradeIds, DisputeInsert(t)
  PROVE  TablesStep
<1>1. tradeRow' = tradeRow /\ UNCHANGED <<overridden, erased>>
  BY DEF DisputeInsert
<1>2. CASE dispute' = dispute
  BY <1>1, <1>2, StayIsStep DEF TablesStay
<1>3. CASE tradeRow[t] # NoRow /\ dispute[t] = NoRow /\ dispute' = [dispute EXCEPT ![t] = NewDispute]
  <2>1. dispute'[t] = NewDispute
    BY <1>3 DEF StoreTypeOK
  <2>2. CaseMoves(t)
    BY <1>1, <1>3, <2>1 DEF CaseMoves
  <2>3. QED
    BY <1>1, <1>3, <2>2, FreshRows, OneCase
<1>4. QED
  BY <1>2, <1>3 DEF DisputeInsert

\* RulingMoves: the mediator moves a dispute that is still as it was read.
LEMMA RulingMoves ==
  ASSUME StoreInv, RulingWrite
  PROVE  TablesStep
<1> DEFINE t == ruling.trade
<1>1. /\ StoreTypeOK /\ Ruled /\ ruling # NoRow
      /\ tradeRow' = tradeRow /\ UNCHANGED <<overridden, erased>>
  BY DEF StoreInv, RulingWrite
<1>2. t \in TradeIds /\ ruling.row \in DisputeRow /\ ruling.target \in DisputeStatus
  BY <1>1 DEF StoreTypeOK
<1>3. CASE ~Unmoved(dispute[t], ruling.row)
  <2>1. dispute' = dispute
    BY <1>3 DEF RulingWrite
  <2>2. QED
    BY <1>1, <2>1, StayIsStep DEF TablesStay
<1>4. CASE Unmoved(dispute[t], ruling.row)
  <2>1. dispute' = [dispute EXCEPT ![t] = Bumped(@, ruling.target)]
    BY <1>4 DEF RulingWrite
  <2>2. dispute[t] \in DisputeRow /\ dispute[t].status = ruling.row.status
    BY <1>1, <1>2, <1>4 DEF Unmoved, StoreTypeOK
  <2>3. dispute[t].status \notin EndedStatuses
    <3>1. ruling.row.status \in DisputeStatus
      BY <1>2 DEF DisputeRow
    <3>2. QED
      BY <1>1, <2>2, <3>1, RulingEdges DEF Ruled
  <2>4. PICK row \in DisputeRow : /\ row = Bumped(dispute[t], ruling.target)
                                  /\ row.reason = dispute[t].reason
    BY <1>2, <2>2, BumpedRow
  <2>5. dispute' = [dispute EXCEPT ![t] = row] /\ dispute'[t] = row
    BY <1>1, <1>2, <2>1, <2>4 DEF StoreTypeOK
  <2>6. CaseMoves(t)
    BY <2>2, <2>3, <2>4, <2>5 DEF CaseMoves
  <2>7. QED
    BY <1>1, <1>2, <2>4, <2>5, <2>6, OneCase
<1>5. QED
  BY <1>3, <1>4

\* PurgeMoves: the purge clears the reason of disputes that have ended.
LEMMA PurgeMoves ==
  ASSUME StoreInv, PurgeWrite
  PROVE  TablesStep
<1>1. /\ StoreTypeOK /\ Purged /\ tradeRow' = tradeRow /\ UNCHANGED <<overridden, erased>>
      /\ dispute' = [t \in TradeIds |-> IF t \in purging
                                        THEN [dispute[t] EXCEPT !.reason = FALSE]
                                        ELSE dispute[t]]
  BY DEF StoreInv, PurgeWrite
<1>2. ASSUME NEW t \in TradeIds
      PROVE  dispute'[t] \in DisputeRow \cup {NoRow} /\ CaseMoves(t)
  <2>1. CASE t \notin purging
    BY <1>1, <2>1 DEF CaseMoves, StoreTypeOK
  <2>2. CASE t \in purging
    <3>1. dispute[t] \in DisputeRow /\ dispute[t].status \in EndedStatuses
      BY <1>1, <2>2 DEF Purged
    <3>2. PICK row : row = [dispute[t] EXCEPT !.reason = FALSE]
      OBVIOUS
    <3>3. row \in DisputeRow /\ row.status = dispute[t].status /\ row.version = dispute[t].version
      BY <3>1, <3>2 DEF DisputeRow
    <3>4. dispute'[t] = row
      BY <1>1, <2>2, <3>2
    <3>5. QED
      BY <3>1, <3>3, <3>4 DEF CaseMoves
  <2>3. QED
    BY <2>1, <2>2
<1>3. dispute' \in CaseTable
  BY <1>1, <1>2 DEF CaseTable
<1>4. QED
  BY <1>1, <1>2, <1>3 DEF TablesStep, TradeMoves, StoreTypeOK, TradeTable

\* ErasureMoves: an erasure takes a trade and its dispute together, or neither.
LEMMA ErasureMoves ==
  ASSUME StoreTypeOK, NEW gone \in SUBSET TradeIds, EraseUserData(gone)
  PROVE  ErasureStep
<1>1. /\ tradeRow' = [t \in TradeIds |-> IF t \in gone THEN NoRow ELSE tradeRow[t]]
      /\ dispute' = [t \in TradeIds |-> IF t \in gone THEN NoRow ELSE dispute[t]]
      /\ erased' = erased \cup gone /\ overridden' = overridden
  BY DEF EraseUserData
<1>2. tradeRow' \in TradeTable /\ dispute' \in CaseTable
  BY <1>1 DEF StoreTypeOK, TradeTable, CaseTable
<1>3. QED
  BY <1>1, <1>2 DEF ErasureStep, ErasedNow

\* ErasureKeeps: what is left of the tables and of the requests under way is as
\* it was, so an erasure keeps the invariant.
LEMMA ErasureKeeps ==
  ASSUME StoreInv, NEW gone \in SUBSET TradeIds, EraseUserData(gone)
  PROVE  ErasureStep /\ StoreInv'
<1>1. /\ StoreTypeOK /\ Batched /\ Ruled /\ Purged /\ RequestsOK
      /\ ReasonKeptWhileLive /\ DisputedHasCase /\ CasesHaveTrades
  BY StoreTypes DEF StoreInv
<1>2. ErasureStep
  BY <1>1, ErasureMoves
<1>3. /\ \A t \in TradeIds : t \in gone => tradeRow'[t] = NoRow /\ dispute'[t] = NoRow
      /\ \A t \in TradeIds : t \notin gone => tradeRow'[t] = tradeRow[t] /\ dispute'[t] = dispute[t]
  BY DEF EraseUserData
<1>4. /\ sweeping' \subseteq sweeping /\ purging' = purging \ gone
      /\ ruling' \in {ruling, NoRow} /\ erased' = erased \cup gone
      /\ UNCHANGED <<opening, overridden>>
  BY DEF EraseUserData
<1>5. /\ Batched'
      /\ batching' \in [trade : TradeIds, version : Nat, target : TradeStatus, orphan : BOOLEAN]
                        \cup {NoRow}
  <2>1. CASE batching = NoRow \/ batching.trade \notin gone
    <3>1. batching' = batching
      BY <2>1 DEF EraseUserData
    <3>2. Batched'
      BY <1>1, <1>3, <2>1, <3>1 DEF Batched, StoreTypeOK
    <3>3. QED
      BY <1>1, <3>1, <3>2 DEF RequestsOK
  <2>2. CASE ~(batching = NoRow \/ batching.trade \notin gone)
    <3>1. batching' = [batching EXCEPT !.orphan = TRUE]
      BY <2>2 DEF EraseUserData
    <3>2. batching' \in [trade : TradeIds, version : Nat, target : TradeStatus, orphan : BOOLEAN]
          /\ batching'.orphan
      BY <1>1, <2>2, <3>1 DEF RequestsOK
    <3>3. QED
      BY <3>2 DEF Batched
  <2>3. QED
    BY <2>1, <2>2
<1>6. requests' \in 0..MaxRequests
  BY <1>1, StartedOK DEF EraseUserData, RequestsOK
<1>7. RequestsOK'
  BY <1>1, <1>4, <1>5, <1>6 DEF RequestsOK
<1>8. StoreTypeOK'
  BY <1>2, <1>7 DEF ErasureStep, StoreTypeOK, TradeTable, CaseTable, RequestsOK
<1>9. Ruled' /\ Purged'
  BY <1>1, <1>3, <1>4 DEF Ruled, Purged, StoreTypeOK
<1>10. ReasonKeptWhileLive' /\ DisputedHasCase' /\ CasesHaveTrades'
  BY <1>1, <1>3, <1>4 DEF ReasonKeptWhileLive, DisputedHasCase, CasesHaveTrades
<1>11. QED
  BY <1>2, <1>5, <1>8, <1>9, <1>10 DEF StoreInv

\* StoreStep: no request or job moves the tables otherwise, and all of them
\* keep the invariant.
LEMMA StoreStep ==
  ASSUME StoreInv, StoreNext
  PROVE  (TablesStep \/ ErasureStep) /\ StoreInv'
<1>1. StoreTypeOK /\ RequestsOK
  BY StoreTypes DEF StoreInv
<1>2. ASSUME NEW t \in TradeIds, CreatePendingTrade(t)
      PROVE  TablesStep /\ StoreInv'
  <2>1. UNCHANGED <<sweeping, batching, opening, ruling, purging, overridden, erased>>
        /\ requests' \in 0..MaxRequests
    BY <1>1, <1>2, StartedOK DEF CreatePendingTrade, requestVars, RequestsOK
  <2>2. RequestsOK'
    BY <1>1, <2>1 DEF RequestsOK
  <2>3. TablesStep
    BY <1>1, <1>2, CreateMoves
  <2>4. QED
    BY <2>1, <2>2, <2>3, WriteKeeps
<1>3. ASSUME NEW t \in TradeIds, DisputeInsert(t)
      PROVE  TablesStep /\ StoreInv'
  <2>1. UNCHANGED <<sweeping, batching, ruling, purging, overridden, erased, requests>>
        /\ opening' \subseteq opening
    BY <1>3 DEF DisputeInsert
  <2>2. RequestsOK'
    BY <1>1, <2>1 DEF RequestsOK
  <2>3. TablesStep
    BY <1>1, <1>3, InsertMoves
  <2>4. QED
    BY <2>1, <2>2, <2>3, WriteKeeps
<1>4. CASE SweepWrite
  <2>1. UNCHANGED <<batching, opening, ruling, purging, overridden, erased, requests>>
        /\ sweeping' \subseteq sweeping
    BY <1>4 DEF SweepWrite
  <2>2. RequestsOK'
    BY <1>1, <2>1 DEF RequestsOK
  <2>3. QED
    BY <1>1, <1>4, <2>1, <2>2, SweepMoves, WriteKeeps
<1>5. CASE BatchWrite
  <2>1. UNCHANGED <<sweeping, opening, ruling, purging, erased, requests>> /\ batching' = NoRow
    BY <1>5 DEF BatchWrite
  <2>2. TablesStep /\ overridden' \subseteq TradeIds
    BY <1>5, BatchMoves
  <2>3. RequestsOK'
    BY <1>1, <2>1, <2>2 DEF RequestsOK
  <2>4. QED
    BY <2>1, <2>2, <2>3, WriteKeeps
<1>6. CASE RulingWrite
  <2>1. UNCHANGED <<sweeping, batching, opening, purging, overridden, erased, requests>> /\ ruling' = NoRow
    BY <1>6 DEF RulingWrite
  <2>2. RequestsOK'
    BY <1>1, <2>1 DEF RequestsOK
  <2>3. QED
    BY <1>6, <2>1, <2>2, RulingMoves, WriteKeeps
<1>7. CASE PurgeWrite
  <2>1. UNCHANGED <<sweeping, batching, opening, ruling, overridden, erased, requests>> /\ purging' = {}
    BY <1>7 DEF PurgeWrite
  <2>2. RequestsOK'
    BY <1>1, <2>1 DEF RequestsOK
  <2>3. QED
    BY <1>7, <2>1, <2>2, PurgeMoves, WriteKeeps
<1>8. QED
  BY <1>1, <1>2, <1>3, <1>4, <1>5, <1>6, <1>7, StartsKeep, StayIsStep, ErasureKeeps DEF StoreNext

-----------------------------------------------------------------------------
(***************************************************************************)
(* The listeners. Settled, Seen and SeenTo only ever become true; LoopOK   *)
(* is what holds of one replica, DurableOK of the database.                *)
(***************************************************************************)
Busy == {"page", "attempt", "tx"}
OutboxRow == [status : OutboxStatus, attempts : Nat, due : BOOLEAN]
HeldRow == [attempts : Nat, trade : TradeRow \cup {NoRow}, dispute : DisputeRow \cup {NoRow}]

\* n positions of the log from h on.
Run(h, n) == [k \in 1..n |-> h + k - 1]

Seen(e) == outbox[e].status # "NONE"

\* The database has settled the event, or a rival dispute insert stands in its
\* way.
Settled(e) ==
  \/ e \in processed
  \/ chain[e].type = "DisputeInitiated" /\ Cased(chain[e].trade)

\* Up to ledger l every event that counts was taken, save beside one that was.
SeenTo(l) ==
  /\ l = 0 \/ \E f \in Emitted : LedgerOf(f) = l /\ Seen(f)
  /\ \A e \in Emitted : (LedgerOf(e) <= l /\ Decoded(e) /\ ~Seen(e)) =>
       \E f \in Emitted : f # e /\ LedgerOf(f) = LedgerOf(e) /\ Seen(f)

\* What comes before position h needs no attempt by i any more.
PassedTo(i, h) ==
  \A e \in 1..(h - 1) : LedgerOf(e) <= cursor[i] \/ ~Decoded(e) \/ Seen(e)

PageOK(i) ==
  \E h \in 1..(MaxEvents + 1), n \in 0..MaxEvents :
    /\ page[i] = Run(h, n) /\ h + n - 1 <= Len(chain)
    /\ (n # 0) <=> (pc[i] \in Busy)
    /\ n # 0 => PassedTo(i, h)

AttemptOK(i) ==
  /\ pc[i] \in {"attempt", "tx"} => Seen(Head(page[i]))
  /\ (pc[i] = "tx" /\ held[i].dispute # NoRow) => Cased(chain[Head(page[i])].trade)

CacheOK(i) == cache[i] \subseteq Emitted /\ \A e \in cache[i] : Settled(e) /\ Seen(e)

LoopOK(i) == PageOK(i) /\ AttemptOK(i) /\ CacheOK(i) /\ SeenTo(cursor[i])

DurableOK ==
  /\ processed \subseteq Emitted
  /\ \A e \in processed : Seen(e) /\ SeenTo(LedgerOf(e))
  /\ \A e \in Events : outbox[e].status = "PROCESSED" => e \in Emitted /\ Settled(e)
  /\ applied = [e \in Events |-> IF e \in processed THEN 1 ELSE 0]

MemoryOK ==
  /\ pc \in [Listeners -> Busy \cup {"down", "idle"}]
  /\ cursor \in [Listeners -> Nat]
  /\ cache \in [Listeners -> SUBSET Events]
  /\ page \in [Listeners -> Seq(Nat)]
  /\ held \in [Listeners -> HeldRow]
  /\ outbox \in [Events -> OutboxRow]

ListenerInv == ChainOK /\ MemoryOK /\ DurableOK /\ \A i \in Listeners : LoopOK(i)

SyncInv == StoreInv /\ ListenerInv

\* SeqIsFunction: a page is a function on its positions.
LEMMA SeqIsFunction ==
  ASSUME NEW S, NEW s \in Seq(S)
  PROVE  s \in [1..Len(s) -> S]
BY SMT

\* RunFacts: the head of a run is its first position, its tail the run after it.
LEMMA RunFacts ==
  ASSUME NEW h \in Nat \ {0}, NEW n \in Nat
  PROVE  /\ Run(h, n) \in Seq(Nat) /\ Len(Run(h, n)) = n
         /\ Run(h, n) = <<>> <=> n = 0
         /\ n # 0 => Head(Run(h, n)) = h /\ Tail(Run(h, n)) = Run(h + 1, n - 1)
<1>1. Run(h, n) \in Seq(Nat) /\ Len(Run(h, n)) = n
  BY SMT DEF Run
<1>2. Run(h, n) = <<>> <=> n = 0
  BY <1>1, SMT
<1>3. ASSUME n # 0
      PROVE  Head(Run(h, n)) = h /\ Tail(Run(h, n)) = Run(h + 1, n - 1)
  <2>1. Head(Run(h, n)) = h
    BY <1>3, SMT DEF Run
  <2>2. PICK s \in Seq(Nat) : s = Run(h, n) /\ Len(s) = n /\ s # <<>>
    BY <1>1, <1>2, <1>3
  <2>3. Tail(s) \in Seq(Nat) /\ Len(Tail(s)) = n - 1
    BY <1>3, <2>2, SMT
  <2>4. \A k \in 1..(n - 1) : Tail(s)[k] = s[k + 1]
    BY <1>3, <2>2, SMT
  <2>5. \A k \in 1..(n - 1) : s[k + 1] = (h + 1) + k - 1
    BY <1>3, <2>2, SMT DEF Run
  <2>6. PICK T \in Seq(Nat) : T = Tail(s) /\ Len(T) = n - 1
    BY <2>3
  <2>7. T \in [1..(n - 1) -> Nat]
    <3>1. T \in [1..Len(T) -> Nat]
      BY SeqIsFunction
    <3>2. QED
      BY <2>6, <3>1
  <2>8. T = Run(h + 1, n - 1)
    BY <2>4, <2>5, <2>6, <2>7 DEF Run
  <2>9. QED
    BY <2>1, <2>2, <2>6, <2>8
<1>4. QED
  BY <1>1, <1>2, <1>3

\* AtHead: a busy loop stands at an event of the log.
LEMMA AtHead ==
  ASSUME ChainOK, NEW i \in Listeners, PageOK(i), pc[i] \in Busy
  PROVE  \E h \in Emitted, n \in 1..MaxEvents :
           /\ page[i] = Run(h, n) /\ h + n - 1 <= Len(chain) /\ PassedTo(i, h)
           /\ Head(page[i]) = h /\ Tail(page[i]) = Run(h + 1, n - 1) /\ Len(page[i]) = n
           /\ page[i] # <<>> /\ h \in Events
<1>1. PICK h \in 1..(MaxEvents + 1), n \in 0..MaxEvents :
        page[i] = Run(h, n) /\ h + n - 1 <= Len(chain) /\ n # 0 /\ PassedTo(i, h)
  BY DEF PageOK
<1>2. h \in Nat \ {0} /\ n \in Nat /\ n \in 1..MaxEvents
  BY <1>1, ListenerBounds, SMT
<1>3. h \in Emitted /\ h \in Events
  <2>1. Len(chain) \in Nat /\ Len(chain) <= MaxEvents
    BY SMT DEF ChainOK
  <2>2. h <= Len(chain)
    BY <1>1, <1>2, <2>1, SMT
  <2>3. QED
    BY <1>2, <2>1, <2>2, ListenerBounds, SMT DEF Emitted, Events
<1>4. Head(page[i]) = h /\ Tail(page[i]) = Run(h + 1, n - 1) /\ Len(page[i]) = n /\ page[i] # <<>>
  <2>1. Head(Run(h, n)) = h /\ Tail(Run(h, n)) = Run(h + 1, n - 1) /\ Len(Run(h, n)) = n
    BY <1>1, <1>2, RunFacts
  <2>2. Run(h, n) # <<>>
    BY <1>1, <1>2, RunFacts
  <2>3. QED
    BY <1>1, <2>1, <2>2
<1>5. QED
  BY <1>1, <1>2, <1>3, <1>4

\* EmittedAreEvents: the log fits its bound.
LEMMA EmittedAreEvents ==
  ASSUME ChainOK
  PROVE  Emitted \subseteq Events /\ Len(chain) \in Nat
         /\ \A e \in Emitted : chain[e].trade \in TradeIds /\ LedgerOf(e) \in Nat \ {0}
                              /\ chain[e].type \in EventTypes
<1>1. Len(chain) \in Nat /\ Len(chain) <= MaxEvents
  BY SMT DEF ChainOK
<1>2. Emitted \subseteq Events
  BY <1>1, ListenerBounds, SMT DEF Emitted, Events
<1>3. \A e \in Emitted : chain[e] \in ChainEvent
  BY SMT DEF ChainOK, Emitted
<1>4. QED
  BY <1>1, <1>2, <1>3 DEF ChainEvent, LedgerOf

\* What any step but an emission does to the world the replicas share.
Onward ==
  /\ chain' = chain
  /\ processed \subseteq processed'
  /\ \A e \in Events : Seen(e) => Seen(e)'
  /\ \A t \in TradeIds : Cased(t) => Cased(t)'

\* SettledStays: what the database has settled stays settled.
LEMMA SettledStays ==
  ASSUME ChainOK, Onward, NEW e \in Emitted, Settled(e)
  PROVE  Settled(e)'
<1>1. chain[e].trade \in TradeIds
  BY EmittedAreEvents
<1>2. QED
  BY <1>1 DEF Onward, Settled

\* SeenToStays: what was seen up to a ledger stays seen.
LEMMA SeenToStays ==
  ASSUME ChainOK, Onward, NEW l, SeenTo(l)
  PROVE  SeenTo(l)'
<1>1. chain' = chain /\ Emitted' = Emitted /\ Emitted \subseteq Events
  BY EmittedAreEvents DEF Onward, Emitted
<1>2. \A e \in Emitted : Seen(e) => Seen(e)'
  BY <1>1 DEF Onward
<1>3. \A e : (LedgerOf(e)' = LedgerOf(e)) /\ (Decoded(e)' <=> Decoded(e))
  BY <1>1 DEF LedgerOf, Decoded
<1>4. l = 0 \/ \E f \in Emitted : LedgerOf(f)' = l /\ Seen(f)'
  BY <1>2, <1>3 DEF SeenTo
<1>5. ASSUME NEW e \in Emitted, LedgerOf(e)' <= l, Decoded(e)', ~Seen(e)'
      PROVE  \E f \in Emitted : f # e /\ LedgerOf(f)' = LedgerOf(e)' /\ Seen(f)'
  <2>1. LedgerOf(e) <= l /\ Decoded(e) /\ ~Seen(e)
    BY <1>2, <1>3, <1>5
  <2>2. PICK f \in Emitted : f # e /\ LedgerOf(f) = LedgerOf(e) /\ Seen(f)
    BY <2>1 DEF SeenTo
  <2>3. QED
    BY <1>2, <1>3, <2>2
<1>6. QED
  BY <1>1, <1>4, <1>5 DEF SeenTo

\* PassedStays: and what a loop has passed stays passed.
LEMMA PassedStays ==
  ASSUME ChainOK, Onward, NEW i \in Listeners, cursor[i] \in Nat, cursor'[i] \in Nat,
         cursor[i] <= cursor'[i], NEW h \in Nat, h <= Len(chain) + 1, PassedTo(i, h)
  PROVE  PassedTo(i, h)'
<1> SUFFICES ASSUME NEW e \in 1..(h - 1)
             PROVE  LedgerOf(e)' <= cursor'[i] \/ ~Decoded(e)' \/ Seen(e)'
  BY DEF PassedTo
<1>1. e \in Emitted /\ e \in Events /\ LedgerOf(e) \in Nat
  <2>1. Len(chain) \in Nat
    BY EmittedAreEvents
  <2>2. e \in 1..Len(chain)
    BY <2>1, SMT
  <2>3. QED
    BY <2>2, EmittedAreEvents DEF Emitted
<1>2. LedgerOf(e) <= cursor[i] \/ ~Decoded(e) \/ Seen(e)
  BY DEF PassedTo
<1>3. (LedgerOf(e)' = LedgerOf(e)) /\ (Decoded(e)' <=> Decoded(e)) /\ (Seen(e) => Seen(e)')
  BY <1>1 DEF Onward, LedgerOf, Decoded
<1>4. CASE LedgerOf(e) <= cursor[i]
  BY <1>1, <1>3, <1>4, SMT
<1>5. QED
  BY <1>2, <1>3, <1>4

\* LoopStays: a step of another actor disturbs nothing of a replica.
LEMMA LoopStays ==
  ASSUME ChainOK, MemoryOK, Onward, NEW i \in Listeners, LoopOK(i),
         pc'[i] = pc[i], page'[i] = page[i], cursor'[i] = cursor[i], cache'[i] = cache[i],
         held'[i] = held[i]
  PROVE  LoopOK(i)'
<1>1. cursor[i] \in Nat /\ Len(chain) \in Nat /\ chain' = chain /\ Emitted' = Emitted
  BY EmittedAreEvents DEF MemoryOK, Onward, Emitted
<1>2. PageOK(i)'
  <2>1. PICK h \in 1..(MaxEvents + 1), n \in 0..MaxEvents :
          /\ page[i] = Run(h, n) /\ h + n - 1 <= Len(chain)
          /\ (n # 0) <=> (pc[i] \in Busy)
          /\ n # 0 => PassedTo(i, h)
    BY DEF LoopOK, PageOK
  <2>2. ASSUME n # 0
        PROVE  PassedTo(i, h)'
    <3>1. h \in Nat /\ n \in Nat /\ cursor[i] <= cursor[i]
      BY <1>1, ListenerBounds, SMT
    <3>2. h <= Len(chain) + 1
      BY <1>1, <2>1, <3>1, <2>2, SMT
    <3>3. QED
      BY <1>1, <2>1, <2>2, <3>1, <3>2, PassedStays
  <2>3. QED
    BY <1>1, <2>1, <2>2 DEF PageOK, Run
<1>3. AttemptOK(i)'
  <2>1. CASE pc[i] \notin {"attempt", "tx"}
    BY <2>1 DEF AttemptOK
  <2>2. CASE pc[i] \in {"attempt", "tx"}
    <3>1. PICK h \in Emitted : h = Head(page[i]) /\ h \in Events
      BY <2>2, AtHead DEF LoopOK, Busy
    <3>2. Seen(h)' /\ chain[h].trade \in TradeIds
      BY <2>2, <3>1, EmittedAreEvents DEF LoopOK, AttemptOK, Onward
    <3>3. pc[i] = "tx" /\ held[i].dispute # NoRow => Cased(chain[h].trade)'
      BY <3>1, <3>2 DEF LoopOK, AttemptOK, Onward
    <3>4. QED
      BY <1>1, <3>1, <3>2, <3>3 DEF AttemptOK, Seen, Cased
  <2>3. QED
    BY <2>1, <2>2
<1>4. CacheOK(i)'
  <2>1. \A e \in cache[i] : e \in Emitted /\ Settled(e) /\ Seen(e)
    BY DEF LoopOK, CacheOK
  <2>2. \A e \in cache[i] : Settled(e)' /\ Seen(e)'
    BY <2>1, SettledStays, EmittedAreEvents DEF Onward
  <2>3. QED
    BY <1>1, <2>1, <2>2 DEF CacheOK
<1>5. SeenTo(cursor[i])'
  <2>1. PICK l \in Nat : l = cursor[i]
    BY <1>1
  <2>2. SeenTo(l)
    BY <2>1 DEF LoopOK
  <2>3. SeenTo(l)'
    BY <2>2, SeenToStays
  <2>4. QED
    BY <2>1, <2>3 DEF SeenTo
<1>6. QED
  BY <1>2, <1>3, <1>4, <1>5 DEF LoopOK

\* DurableStays: the database keeps its promises while it processes nothing new.
LEMMA DurableStays ==
  ASSUME ChainOK, Onward, DurableOK, processed' = processed, applied' = applied,
         \A e \in Events : outbox'[e].status = "PROCESSED" =>
           outbox[e].status = "PROCESSED" \/ (e \in Emitted /\ Settled(e))
  PROVE  DurableOK'
<1>1. chain' = chain /\ Emitted' = Emitted /\ Emitted \subseteq Events
  BY EmittedAreEvents DEF Onward, Emitted
<1>2. ASSUME NEW e \in processed
      PROVE  Seen(e)' /\ SeenTo(LedgerOf(e))'
  <2>1. Seen(e)'
    BY <1>1 DEF DurableOK, Onward
  <2>2. PICK l : l = LedgerOf(e)
    OBVIOUS
  <2>3. SeenTo(l)'
    BY <2>2, SeenToStays DEF DurableOK
  <2>4. LedgerOf(e)' = l
    BY <1>1, <2>2 DEF LedgerOf
  <2>5. QED
    BY <2>1, <2>3, <2>4 DEF SeenTo
<1>3. ASSUME NEW e \in Events, outbox'[e].status = "PROCESSED"
      PROVE  e \in Emitted /\ Settled(e)'
  BY <1>3, SettledStays DEF DurableOK
<1>4. QED
  BY <1>1, <1>2, <1>3 DEF DurableOK

-----------------------------------------------------------------------------
\* NextKeepsPage: the loop may go on to the next event once it has passed this.
LEMMA NextKeepsPage ==
  ASSUME ChainOK, MemoryOK, Onward, NEW i \in Listeners, PageOK(i), pc[i] \in Busy,
         NextEvent(i), cursor'[i] \in Nat, cursor[i] <= cursor'[i],
         NEW h \in Emitted, h = Head(page[i]),
         LedgerOf(h) <= cursor'[i] \/ ~Decoded(h) \/ Seen(h)'
  PROVE  /\ PageOK(i)' /\ AttemptOK(i)'
         /\ pc'[i] \in {"idle", "page"} /\ page'[i] \in Seq(Nat) /\ held'[i] = Idle
<1>1. PICK n \in 1..MaxEvents :
        /\ h + n - 1 <= Len(chain) /\ PassedTo(i, h)
        /\ Tail(page[i]) = Run(h + 1, n - 1) /\ Len(page[i]) = n /\ h \in Events
  BY AtHead
<1>2. page'[i] = Run(h + 1, n - 1) /\ pc'[i] = (IF n = 1 THEN "idle" ELSE "page") /\ held'[i] = Idle
  BY <1>1 DEF NextEvent, MemoryOK
<1>3. cursor[i] \in Nat /\ Len(chain) \in Nat /\ h \in Nat /\ h <= Len(chain)
  BY EmittedAreEvents, SMT DEF MemoryOK, Emitted
<1>4. PassedTo(i, h)'
  <2>1. h <= Len(chain) + 1
    BY <1>3, SMT
  <2>2. QED
    BY <1>1, <1>3, <2>1, PassedStays
<1>5. PassedTo(i, h + 1)'
  <2>1. LedgerOf(h)' = LedgerOf(h) /\ (Decoded(h)' <=> Decoded(h))
    BY DEF Onward, LedgerOf, Decoded
  <2>2. ASSUME NEW e \in 1..h
        PROVE  LedgerOf(e)' <= cursor'[i] \/ ~Decoded(e)' \/ Seen(e)'
    <3>1. CASE e = h
      BY <2>1, <3>1
    <3>2. CASE e # h
      <4>1. e \in 1..(h - 1)
        BY <1>3, <3>2, SMTT(30)
      <4>2. QED
        BY <1>4, <4>1 DEF PassedTo
    <3>3. QED
      BY <3>1, <3>2
  <2>3. (h + 1) - 1 = h
    BY <1>3, SMT
  <2>4. QED
    BY <2>2, <2>3 DEF PassedTo
<1>6. h + 1 \in 1..(MaxEvents + 1) /\ n - 1 \in 0..MaxEvents
  <2>1. h \in 1..MaxEvents
    BY <1>1 DEF Events
  <2>2. QED
    BY <2>1, ListenerBounds, SMT
<1>7. (h + 1) + (n - 1) - 1 <= Len(chain)
  BY <1>1, <1>3, SMTT(30)
<1>8. (n - 1 # 0) <=> (pc'[i] \in Busy)
  BY <1>1, <1>2, SMTT(30) DEF Busy
<1>9. PageOK(i)'
  <2>1. PICK g \in 1..(MaxEvents + 1), m \in 0..MaxEvents : g = h + 1 /\ m = n - 1
    BY <1>6
  <2>2. Len(chain') = Len(chain)
    BY DEF Onward
  <2>3. PassedTo(i, g)'
    BY <1>5, <2>1
  <2>4. QED
    BY <1>2, <1>7, <1>8, <2>1, <2>2, <2>3 DEF PageOK, Run
<1>10. page'[i] \in Seq(Nat)
  <2>1. h + 1 \in Nat \ {0} /\ n - 1 \in Nat
    BY <1>1, <1>3, SMTT(30)
  <2>2. Run(h + 1, n - 1) \in Seq(Nat)
    BY <2>1, RunFacts
  <2>3. QED
    BY <1>2, <2>2
<1>11. AttemptOK(i)'
  BY <1>2 DEF AttemptOK
<1>12. QED
  BY <1>2, <1>9, <1>10, <1>11

\* AdvanceSees: when the cursor moves to the head's ledger, whatever it moves
\* past was on the page before the head, or shares the head's ledger.
LEMMA AdvanceSees ==
  ASSUME ChainOK, MemoryOK, Onward, NEW i \in Listeners, PageOK(i), pc[i] \in Busy,
         SeenTo(cursor[i]), NEW h \in Emitted, h = Head(page[i]), Seen(h)',
         NEW l, l = IF LedgerOf(h) > cursor[i] THEN LedgerOf(h) ELSE cursor[i]
  PROVE  SeenTo(l)'
<1>1. PassedTo(i, h)
  BY AtHead
<1>2. PICK c \in Nat : c = cursor[i]
  BY DEF MemoryOK
<1>3. SeenTo(c)'
  BY <1>2, SeenToStays
<1>4. /\ chain' = chain /\ Emitted' = Emitted /\ Emitted \subseteq Events /\ h \in Nat
      /\ \A e \in Emitted : LedgerOf(e) \in Nat /\ e \in Nat
  BY EmittedAreEvents, SMT DEF Onward, Emitted
<1>5. \A e : (LedgerOf(e)' = LedgerOf(e)) /\ (Decoded(e)' <=> Decoded(e))
  BY <1>4 DEF LedgerOf, Decoded
<1>6. CASE ~(LedgerOf(h) > c)
  BY <1>2, <1>3, <1>6
<1>7. CASE LedgerOf(h) > c
  <2>1. l = LedgerOf(h)
    BY <1>2, <1>7
  <2>2. ASSUME NEW e \in Emitted, LedgerOf(e) <= l, Decoded(e), ~Seen(e)'
        PROVE  \E f \in Emitted : f # e /\ LedgerOf(f) = LedgerOf(e) /\ Seen(f)'
    <3>1. CASE e < h
      <4>1. ~Seen(e)
        BY <1>4, <2>2 DEF Onward
      <4>2. LedgerOf(e) <= c
        <5>1. e \in 1..(h - 1)
          BY <1>4, <3>1, SMT DEF Emitted
        <5>2. QED
          BY <1>1, <1>2, <2>2, <4>1, <5>1 DEF PassedTo
      <4>3. PICK f \in Emitted : f # e /\ LedgerOf(f)' = LedgerOf(e)' /\ Seen(f)'
        BY <1>3, <1>4, <1>5, <2>2, <4>2 DEF SeenTo
      <4>4. QED
        BY <1>5, <4>3
    <3>2. CASE h < e
      <4>1. LedgerOf(h) <= LedgerOf(e)
        BY <1>4, <3>2, SMT DEF ChainOK
      <4>2. LedgerOf(h) = LedgerOf(e) /\ h # e
        BY <1>4, <2>1, <2>2, <3>2, <4>1, SMT
      <4>3. QED
        BY <4>2
    <3>3. e # h
      BY <2>2 DEF Seen
    <3>4. e \in Nat /\ h \in Nat
      BY <1>4
    <3>5. e < h \/ h < e
      BY <3>3, <3>4, SMT
    <3>6. QED
      BY <3>1, <3>2, <3>5
  <2>3. \E f \in Emitted : LedgerOf(f) = l /\ Seen(f)'
    BY <2>1
  <2>4. QED
    BY <1>4, <1>5, <2>2, <2>3 DEF SeenTo
<1>8. QED
  BY <1>6, <1>7

-----------------------------------------------------------------------------
\* The other replicas keep what they have in memory.
Alone(i) ==
  \A j \in Listeners \ {i} :
    /\ pc'[j] = pc[j] /\ page'[j] = page[j] /\ cursor'[j] = cursor[j]
    /\ cache'[j] = cache[j] /\ held'[j] = held[j]

\* Turn: a step of one replica keeps the invariant if it keeps that replica's
\* part of it and the database's.
LEMMA Turn ==
  ASSUME ListenerInv, Onward, contract' = contract, NEW i \in Listeners, Alone(i),
         MemoryOK', DurableOK', LoopOK(i)'
  PROVE  ListenerInv'
<1>1. ChainOK /\ MemoryOK /\ \A j \in Listeners : LoopOK(j)
  BY DEF ListenerInv
<1>2. ChainOK'
  BY <1>1 DEF ChainOK, Onward, Emitted, LedgerOf
<1>3. ASSUME NEW j \in Listeners
      PROVE  LoopOK(j)'
  <2>1. CASE j = i
    BY <2>1
  <2>2. CASE j # i
    BY <1>1, <2>2, LoopStays DEF Alone
  <2>3. QED
    BY <2>1, <2>2
<1>4. QED
  BY <1>2, <1>3 DEF ListenerInv

\* StillWorld: a step that writes no table goes onward.
LEMMA StillWorld ==
  ASSUME chain' = chain, processed' = processed, outbox' = outbox, UNCHANGED <<dispute, erased>>
  PROVE  Onward
BY DEF Onward, Seen, Cased

\* NoLedger: before the first ledger there is nothing to see.
LEMMA NoLedger ==
  ASSUME ChainOK
  PROVE  SeenTo(0)
BY EmittedAreEvents, SMT DEF SeenTo

\* DropKeeps: a crash or an aborted poll leaves nothing that needs a promise.
LEMMA DropKeeps ==
  ASSUME ListenerInv, NEW i \in Listeners, Crash(i) \/ AbortPoll(i)
  PROVE  ListenerInv'
<1>1. ChainOK /\ MemoryOK /\ DurableOK /\ LoopOK(i)
  BY DEF ListenerInv
<1>2. /\ UNCHANGED <<chain, contract, outbox, processed, applied, dispute, erased>>
      /\ page' = [page EXCEPT ![i] = <<>>] /\ held' = [held EXCEPT ![i] = Idle]
  BY DEF Crash, AbortPoll, storeVars
<1>3. PICK p \in {"down", "idle"} : pc' = [pc EXCEPT ![i] = p]
  BY DEF Crash, AbortPoll
<1>4. PICK l \in {cursor[i], 0} : cursor' = [cursor EXCEPT ![i] = l]
  BY <1>1 DEF Crash, AbortPoll, MemoryOK
<1>5. PICK c \in {cache[i], {}} : cache' = [cache EXCEPT ![i] = c]
  BY <1>1 DEF Crash, AbortPoll, MemoryOK
<1>6. Onward /\ Emitted' = Emitted
  BY <1>2, StillWorld DEF Emitted
<1>7. Idle \in HeldRow
  BY DEF Idle, HeldRow
<1>8. MemoryOK' /\ Alone(i)
  BY <1>1, <1>2, <1>3, <1>4, <1>5, <1>7, SMT DEF MemoryOK, Alone
<1>9. DurableOK'
  BY <1>1, <1>2, <1>6, DurableStays
<1>10. LoopOK(i)'
  <2>1. pc'[i] = p /\ cursor'[i] = l /\ cache'[i] = c /\ page'[i] = <<>>
    BY <1>1, <1>2, <1>3, <1>4, <1>5 DEF MemoryOK
  <2>2. PageOK(i)'
    <3>1. 1 \in 1..(MaxEvents + 1) /\ 0 \in 0..MaxEvents /\ Run(1, 0) = <<>>
      <4>1. 1 \in 1..(MaxEvents + 1) /\ 0 \in 0..MaxEvents /\ 1 \in Nat \ {0} /\ 0 \in Nat
        BY ListenerBounds, SMT
      <4>2. Run(1, 0) = <<>>
        BY <4>1, RunFacts
      <4>3. QED
        BY <4>1, <4>2
    <3>2. p \notin Busy /\ 1 + 0 - 1 <= Len(chain')
      BY <1>1, <1>2, EmittedAreEvents, SMTT(30) DEF Busy
    <3>3. QED
      BY <2>1, <3>1, <3>2 DEF PageOK, Run
  <2>3. AttemptOK(i)'
    BY <2>1 DEF AttemptOK
  <2>4. CacheOK(i)'
    BY <1>1, <1>2, <1>6, <2>1 DEF LoopOK, CacheOK, Settled, Seen, Cased
  <2>5. SeenTo(cursor[i])'
    <3>1. SeenTo(l)
      BY <1>1, NoLedger DEF LoopOK
    <3>2. SeenTo(l)'
      BY <1>1, <1>6, <3>1, SeenToStays
    <3>3. QED
      BY <2>1, <3>2 DEF SeenTo
  <2>6. QED
    BY <2>2, <2>3, <2>4, <2>5 DEF LoopOK
<1>11. QED
  BY <1>2, <1>6, <1>8, <1>9, <1>10, Turn

\* CacheStays: a cache with one settled event more is still durable.
LEMMA CacheStays ==
  ASSUME ChainOK, Onward, NEW i \in Listeners, CacheOK(i), NEW h \in Emitted,
         cache'[i] \subseteq cache[i] \cup {h},
         h \in cache'[i] => Settled(h)' /\ Seen(h)'
  PROVE  CacheOK(i)'
<1>1. Emitted' = Emitted /\ Emitted \subseteq Events
  BY EmittedAreEvents DEF Onward, Emitted
<1>2. \A e \in cache[i] : e \in Emitted /\ Settled(e) /\ Seen(e)
  BY DEF CacheOK
<1>3. ASSUME NEW e \in cache'[i]
      PROVE  e \in Emitted /\ Settled(e)' /\ Seen(e)'
  <2>1. CASE e \in cache[i]
    BY <1>1, <1>2, <2>1, SettledStays DEF Onward
  <2>2. CASE e = h
    BY <2>2 DEF Settled, Seen, Cased
  <2>3. QED
    BY <2>1, <2>2
<1>4. QED
  BY <1>1, <1>3 DEF CacheOK

\* PassOver: the loop goes on without moving its cursor.
LEMMA PassOver ==
  ASSUME ListenerInv, Onward, contract' = contract, DurableOK',
         outbox' \in [Events -> OutboxRow],
         NEW i \in Listeners, pc[i] \in Busy, NextEvent(i), cursor' = cursor,
         NEW h \in Emitted, h = Head(page[i]), ~Decoded(h) \/ Seen(h)',
         NEW c \in SUBSET (cache[i] \cup {h}), cache' = [cache EXCEPT ![i] = c],
         h \in c => Settled(h)' /\ Seen(h)'
  PROVE  ListenerInv'
<1>1. ChainOK /\ MemoryOK /\ DurableOK /\ LoopOK(i)
  BY DEF ListenerInv
<1>2. cursor[i] \in Nat /\ cursor'[i] = cursor[i] /\ cache'[i] = c /\ cache[i] \subseteq Emitted
      /\ Emitted \subseteq Events
  BY <1>1, EmittedAreEvents DEF MemoryOK, LoopOK, CacheOK
<1>3. cursor[i] <= cursor'[i]
  BY <1>2, SMTT(30)
<1>4. /\ PageOK(i)' /\ AttemptOK(i)'
      /\ pc'[i] \in {"idle", "page"} /\ page'[i] \in Seq(Nat) /\ held'[i] = Idle
  BY <1>1, <1>2, <1>3, NextKeepsPage DEF LoopOK
<1>5. MemoryOK' /\ Alone(i)
  <2>1. Idle \in HeldRow /\ c \subseteq Events
    BY <1>2 DEF Idle, HeldRow
  <2>2. pc' \in [Listeners -> Busy \cup {"down", "idle"}] /\ page' \in [Listeners -> Seq(Nat)]
        /\ held' \in [Listeners -> HeldRow]
    BY <1>1, <1>4, <2>1 DEF MemoryOK, NextEvent, Busy
  <2>3. QED
    BY <1>1, <2>1, <2>2 DEF MemoryOK, Alone, NextEvent
<1>6. CacheOK(i)'
  BY <1>1, <1>2, CacheStays DEF LoopOK
<1>7. SeenTo(cursor[i])'
  <2>1. PICK l \in Nat : l = cursor[i]
    BY <1>2
  <2>2. SeenTo(l)'
    BY <1>1, <2>1, SeenToStays DEF LoopOK
  <2>3. QED
    BY <1>2, <2>1, <2>2 DEF SeenTo
<1>8. QED
  BY <1>4, <1>5, <1>6, <1>7, Turn DEF LoopOK

\* HeadSees: up to the ledger of the event a loop is at, every other event was
\* taken or shares its ledger.
LEMMA HeadSees ==
  ASSUME ChainOK, MemoryOK, Onward, NEW i \in Listeners, PageOK(i), pc[i] \in Busy,
         SeenTo(cursor[i]), NEW h \in Emitted, h = Head(page[i]), Seen(h)'
  PROVE  SeenTo(LedgerOf(h))'
<1>1. PICK l, k : /\ l = (IF LedgerOf(h) > cursor[i] THEN LedgerOf(h) ELSE cursor[i])
                  /\ k = LedgerOf(h)
  OBVIOUS
<1>2. SeenTo(l)'
  BY <1>1, AdvanceSees
<1>3. k \in Nat /\ l \in Nat /\ k <= l /\ LedgerOf(h)' = k /\ Emitted' = Emitted
  <2>1. cursor[i] \in Nat /\ LedgerOf(h) \in Nat
    BY EmittedAreEvents DEF MemoryOK
  <2>2. LedgerOf(h)' = k /\ Emitted' = Emitted
    BY <1>1 DEF Onward, LedgerOf, Emitted
  <2>3. QED
    BY <1>1, <2>1, <2>2, SMTT(30)
<1>4. \A e \in Emitted : LedgerOf(e)' \in Nat
  BY EmittedAreEvents DEF Onward, LedgerOf
<1>5. \A e \in Emitted : LedgerOf(e)' <= k => LedgerOf(e)' <= l
  BY <1>3, <1>4, SMTT(30)
<1>6. QED
  BY <1>2, <1>3, <1>5 DEF SeenTo

-----------------------------------------------------------------------------
\* PollKeeps: a page starts at the first event after the cursor.
LEMMA PollKeeps ==
  ASSUME ListenerInv, NEW i \in Listeners, Poll(i)
  PROVE  ListenerInv'
<1>1. ChainOK /\ MemoryOK /\ DurableOK /\ LoopOK(i)
  BY DEF ListenerInv
<1>2. /\ UNCHANGED <<chain, contract, cursor, cache, held, outbox, processed, applied, dispute, erased>>
      /\ pc' = [pc EXCEPT ![i] = "page"]
  BY DEF Poll, storeVars
<1>3. PICK h, n :
        /\ h \in Emitted
        /\ n = (IF Len(chain) - h + 1 > PageLimit THEN PageLimit ELSE Len(chain) - h + 1)
        /\ \A e \in 1..(h - 1) : ~FromCursor(i, e)
        /\ page' = [page EXCEPT ![i] = Run(h, n)]
  BY DEF Poll, Run
<1>4. Onward /\ Emitted' = Emitted
  BY <1>2, StillWorld DEF Emitted
<1>5. /\ Len(chain) \in Nat /\ Len(chain) <= MaxEvents /\ h \in 1..Len(chain) /\ cursor[i] \in Nat
      /\ Emitted \subseteq Events
  <2>1. Len(chain) \in Nat /\ Emitted \subseteq Events
    BY <1>1, EmittedAreEvents
  <2>2. Len(chain) <= MaxEvents /\ cursor[i] \in Nat
    BY <1>1 DEF ChainOK, MemoryOK
  <2>3. QED
    BY <1>3, <2>1, <2>2 DEF Emitted
<1>6. n \in 1..MaxEvents /\ h + n - 1 <= Len(chain) /\ h \in 1..(MaxEvents + 1)
  BY <1>3, <1>5, ListenerBounds, SMT
<1>7. pc'[i] = "page" /\ page'[i] = Run(h, n) /\ cursor'[i] = cursor[i] /\ cache'[i] = cache[i]
  BY <1>1, <1>2, <1>3 DEF MemoryOK
<1>8. Run(h, n) \in Seq(Nat)
  <2>1. h \in Nat \ {0} /\ n \in Nat
    BY <1>5, <1>6, ListenerBounds, SMT
  <2>2. QED
    BY <2>1, RunFacts
<1>9. MemoryOK' /\ Alone(i)
  BY <1>1, <1>2, <1>3, <1>8 DEF MemoryOK, Alone, Busy
<1>10. DurableOK'
  BY <1>1, <1>2, <1>4, DurableStays
<1>11. PageOK(i)'
  <2>1. PassedTo(i, h)'
    <3>1. ASSUME NEW e \in 1..(h - 1)
          PROVE  LedgerOf(e)' <= cursor'[i]
      <4>1. e \in Emitted /\ ~(LedgerOf(e) > cursor[i])
        BY <1>3, <1>5, SMT DEF FromCursor, Emitted
      <4>2. LedgerOf(e) \in Nat /\ LedgerOf(e)' = LedgerOf(e)
        BY <1>1, <1>2, <4>1, EmittedAreEvents DEF LedgerOf
      <4>3. QED
        BY <1>5, <1>7, <4>1, <4>2, SMT
    <3>2. QED
      BY <3>1 DEF PassedTo
  <2>2. n \in 0..MaxEvents /\ n # 0 /\ pc'[i] \in Busy
    BY <1>6, <1>7, ListenerBounds, SMT DEF Busy
  <2>3. QED
    BY <1>2, <1>6, <1>7, <2>1, <2>2 DEF PageOK, Run
<1>12. AttemptOK(i)'
  BY <1>7 DEF AttemptOK
<1>13. CacheOK(i)'
  BY <1>1, <1>2, <1>4, <1>7 DEF LoopOK, CacheOK, Settled, Seen, Cased
<1>14. SeenTo(cursor[i])'
  <2>1. PICK l \in Nat : l = cursor[i]
    BY <1>5
  <2>2. SeenTo(l)'
    BY <1>1, <1>4, <2>1, SeenToStays DEF LoopOK
  <2>3. QED
    BY <1>7, <2>1, <2>2 DEF SeenTo
<1>15. QED
  BY <1>2, <1>4, <1>9, <1>10, <1>11, <1>12, <1>13, <1>14, Turn DEF LoopOK

\* StaysAtHead: a loop that goes on with the event it is at keeps its promises.
LEMMA StaysAtHead ==
  ASSUME ChainOK, MemoryOK, Onward, NEW i \in Listeners, LoopOK(i), pc[i] \in Busy,
         pc'[i] \in {"attempt", "tx"}, page'[i] = page[i], cursor'[i] = cursor[i],
         cache'[i] = cache[i], NEW h \in Emitted, h = Head(page[i]), Seen(h)',
         (pc'[i] = "tx" /\ held'[i].dispute # NoRow) => Cased(chain[h].trade)'
  PROVE  LoopOK(i)'
<1>0. PageOK(i)
  BY DEF LoopOK
<1>1. PICK n \in 1..MaxEvents : /\ page[i] = Run(h, n) /\ h + n - 1 <= Len(chain)
                                /\ PassedTo(i, h) /\ h \in Events
  BY <1>0, AtHead
<1>2. cursor[i] \in Nat /\ Len(chain) \in Nat /\ h \in Nat /\ h <= Len(chain) /\ chain' = chain
  <2>1. cursor[i] \in Nat /\ chain' = chain
    BY DEF MemoryOK, Onward
  <2>2. Len(chain) \in Nat
    BY EmittedAreEvents
  <2>3. QED
    BY <2>1, <2>2, SMTT(30) DEF Emitted
<1>3. PassedTo(i, h)'
  <2>1. cursor'[i] \in Nat /\ cursor[i] <= cursor'[i] /\ h <= Len(chain) + 1
    BY <1>2, SMTT(30)
  <2>2. QED
    BY <1>1, <1>2, <2>1, PassedStays
<1>4. PageOK(i)'
  <2>1. h \in 1..(MaxEvents + 1) /\ n \in 0..MaxEvents /\ n # 0 /\ pc'[i] \in Busy
    <3>1. h \in 1..MaxEvents /\ pc'[i] \in Busy
      BY <1>1 DEF Events, Busy
    <3>2. h \in 1..(MaxEvents + 1) /\ n \in 0..MaxEvents /\ n # 0
      BY <3>1, ListenerBounds, SMTT(30)
    <3>3. QED
      BY <3>1, <3>2
  <2>2. QED
    BY <1>1, <1>2, <1>3, <2>1 DEF PageOK, Run
<1>5. AttemptOK(i)'
  BY <1>2 DEF AttemptOK, Seen
<1>6. CacheOK(i)'
  <2>1. cache'[i] \subseteq cache[i] \cup {h} /\ (h \in cache'[i] => Settled(h)')
    BY SettledStays DEF LoopOK, CacheOK
  <2>2. QED
    BY <2>1, CacheStays DEF LoopOK
<1>7. SeenTo(cursor[i])'
  <2>1. PICK l \in Nat : l = cursor[i]
    BY <1>2
  <2>2. SeenTo(l)'
    BY <2>1, SeenToStays DEF LoopOK
  <2>3. QED
    BY <2>1, <2>2 DEF SeenTo
<1>8. QED
  BY <1>4, <1>5, <1>6, <1>7 DEF LoopOK

\* RowUpdates: an outbox row that is written stays seen, and the others stay.
LEMMA RowUpdates ==
  ASSUME MemoryOK, NEW e \in Events, NEW row \in OutboxRow, row.status # "NONE",
         outbox' = [outbox EXCEPT ![e] = row]
  PROVE  /\ outbox' \in [Events -> OutboxRow] /\ outbox'[e] = row /\ Seen(e)'
         /\ \A f \in Events : Seen(f) => Seen(f)'
         /\ \A f \in Events \ {e} : outbox'[f] = outbox[f]
<1>1. outbox' \in [Events -> OutboxRow] /\ outbox'[e] = row
      /\ \A f \in Events \ {e} : outbox'[f] = outbox[f]
  BY DEF MemoryOK
<1>2. QED
  BY <1>1 DEF Seen

\* EnsuredRow: the row ensureOutboxRecord leaves.
LEMMA EnsuredRow ==
  ASSUME MemoryOK, NEW e \in Events
  PROVE  /\ EnsureOutboxRecord(e) \in OutboxRow /\ EnsureOutboxRecord(e).status # "NONE"
         /\ EnsureOutboxRecord(e).status = "PROCESSED" => outbox[e].status = "PROCESSED"
         /\ EnsureOutboxRecord(e).attempts \in Nat
<1>1. outbox[e] \in OutboxRow
  BY DEF MemoryOK
<1>2. CASE outbox[e].status # "NONE"
  BY <1>1, <1>2 DEF EnsureOutboxRecord, OutboxRow
<1>3. CASE outbox[e].status = "NONE"
  <2>1. EnsureOutboxRecord(e) = [status |-> "PENDING", attempts |-> 0, due |-> TRUE]
    BY <1>3 DEF EnsureOutboxRecord, NoOutbox
  <2>2. QED
    BY <2>1, SMTT(30) DEF OutboxRow, OutboxStatus
<1>4. QED
  BY <1>2, <1>3

\* TakeKeeps: what processEvent passes over needs no attempt, and what it
\* attempts has its outbox row.
LEMMA TakeKeeps ==
  ASSUME ListenerInv, NEW i \in Listeners, Take(i)
  PROVE  ListenerInv'
<1>1. ChainOK /\ MemoryOK /\ DurableOK /\ LoopOK(i) /\ PageOK(i) /\ CacheOK(i)
  BY DEF ListenerInv, LoopOK
<1>2. /\ UNCHANGED <<chain, contract, cursor, processed, applied, dispute, erased>> /\ pc[i] = "page"
  BY DEF Take, storeVars
<1>3. pc[i] \in Busy
  BY <1>2 DEF Busy
<1>4. PICK h \in Emitted : h = Head(page[i]) /\ h \in Events
  BY <1>1, <1>3, AtHead
<1>5. Emitted' = Emitted /\ Emitted \subseteq Events /\ cache[i] \in SUBSET (cache[i] \cup {h})
  BY <1>1, <1>2, EmittedAreEvents DEF Emitted
<1>6. CASE (~Decoded(h) \/ h \in cache[i]) /\ NextEvent(i) /\ UNCHANGED <<cache, outbox>>
  <2>1. Onward
    BY <1>2, <1>6, StillWorld
  <2>2. DurableOK' /\ outbox' \in [Events -> OutboxRow]
    BY <1>1, <1>2, <1>6, <2>1, DurableStays DEF MemoryOK
  <2>3. cache' = [cache EXCEPT ![i] = cache[i]]
    BY <1>1, <1>6 DEF MemoryOK
  <2>4. h \in cache[i] => Seen(h)' /\ Settled(h)'
    BY <1>1, <1>2, <1>6 DEF CacheOK, Seen, Settled, Cased
  <2>5. QED
    BY <1>2, <1>3, <1>4, <1>5, <1>6, <2>1, <2>2, <2>3, <2>4, PassOver
<1>7. CASE h \in processed /\ cache' = [cache EXCEPT ![i] = @ \cup {h}] /\ NextEvent(i)
           /\ UNCHANGED outbox
  <2>1. Onward
    BY <1>2, <1>7, StillWorld
  <2>2. DurableOK' /\ outbox' \in [Events -> OutboxRow]
    BY <1>1, <1>2, <1>7, <2>1, DurableStays DEF MemoryOK
  <2>3. Seen(h)' /\ Settled(h)'
    BY <1>1, <1>2, <1>7 DEF DurableOK, Seen, Settled, Cased
  <2>4. PICK c \in SUBSET (cache[i] \cup {h}) : cache' = [cache EXCEPT ![i] = c]
    BY <1>7
  <2>5. QED
    BY <1>2, <1>3, <1>4, <1>7, <2>1, <2>2, <2>3, <2>4, PassOver
<1>8. CASE /\ outbox' = [outbox EXCEPT ![h] = EnsureOutboxRecord(h)] /\ UNCHANGED cache
           /\ Decoded(h) /\ h \notin cache[i]
  <2>1. PICK row \in OutboxRow : /\ row = EnsureOutboxRecord(h) /\ row.status # "NONE"
                                 /\ row.status = "PROCESSED" => outbox[h].status = "PROCESSED"
                                 /\ row.attempts \in Nat
    BY <1>1, <1>4, EnsuredRow
  <2>2. /\ outbox' \in [Events -> OutboxRow] /\ outbox'[h] = row /\ Seen(h)'
        /\ \A f \in Events : Seen(f) => Seen(f)'
        /\ \A f \in Events \ {h} : outbox'[f] = outbox[f]
    BY <1>1, <1>4, <1>8, <2>1, RowUpdates
  <2>3. Onward
    BY <1>2, <2>2 DEF Onward, Cased
  <2>4. DurableOK'
    <3>1. \A f \in Events : outbox'[f].status = "PROCESSED" => outbox[f].status = "PROCESSED"
      BY <2>1, <2>2
    <3>2. QED
      BY <1>1, <1>2, <2>3, <3>1, DurableStays
  <2>5. CASE NextEvent(i)
    <3>1. cache' = [cache EXCEPT ![i] = cache[i]]
      BY <1>1, <1>8 DEF MemoryOK
    <3>2. QED
      BY <1>2, <1>3, <1>4, <1>5, <1>8, <2>2, <2>3, <2>4, <2>5, <3>1, PassOver
  <2>6. CASE /\ held' = [held EXCEPT ![i] = [Idle EXCEPT !.attempts = row.attempts]]
             /\ pc' = [pc EXCEPT ![i] = "attempt"] /\ UNCHANGED page
    <3>1. [Idle EXCEPT !.attempts = row.attempts] \in HeldRow
      BY <2>1 DEF Idle, HeldRow
    <3>2. MemoryOK' /\ Alone(i)
      BY <1>1, <1>2, <1>8, <2>2, <2>6, <3>1 DEF MemoryOK, Alone, Busy
    <3>3. /\ pc'[i] = "attempt" /\ page'[i] = page[i] /\ cursor'[i] = cursor[i]
          /\ cache'[i] = cache[i]
      BY <1>1, <1>2, <1>8, <2>6 DEF MemoryOK
    <3>4. LoopOK(i)'
      BY <1>1, <1>2, <1>3, <1>4, <2>2, <2>3, <3>3, StaysAtHead
    <3>5. QED
      BY <1>2, <2>3, <2>4, <3>2, <3>4, Turn
  <2>7. QED
    BY <1>4, <1>8, <2>1, <2>5, <2>6 DEF Take
<1>9. QED
  BY <1>4, <1>6, <1>7, <1>8 DEF Take

\* AttemptAt: an attempt is at an event of the log that has its outbox row.
LEMMA AttemptAt ==
  ASSUME ListenerInv, NEW i \in Listeners, pc[i] \in {"attempt", "tx"}
  PROVE  /\ ChainOK /\ MemoryOK /\ DurableOK /\ LoopOK(i) /\ PageOK(i) /\ SeenTo(cursor[i])
         /\ pc[i] \in Busy
         /\ \E h \in Emitted : /\ h = Head(page[i]) /\ h \in Events /\ Seen(h)
                               /\ outbox[h] \in OutboxRow /\ outbox[h].attempts \in Nat
                               /\ chain[h].trade \in TradeIds /\ chain[h].type \in EventTypes
<1>1. /\ ChainOK /\ MemoryOK /\ DurableOK /\ LoopOK(i) /\ PageOK(i) /\ SeenTo(cursor[i])
      /\ AttemptOK(i)
  BY DEF ListenerInv, LoopOK
<1>2. pc[i] \in Busy
  BY DEF Busy
<1>3. PICK h \in Emitted : h = Head(page[i]) /\ h \in Events
  BY <1>1, <1>2, AtHead
<1>4. Seen(h)
  BY <1>1, <1>3 DEF AttemptOK
<1>5. outbox[h] \in OutboxRow
  BY <1>1, <1>3 DEF MemoryOK
<1>6. outbox[h].attempts \in Nat
  BY <1>5 DEF OutboxRow
<1>7. chain[h].trade \in TradeIds /\ chain[h].type \in EventTypes
  BY <1>1, EmittedAreEvents
<1>8. QED
  BY <1>1, <1>2, <1>3, <1>4, <1>5, <1>6, <1>7

\* FailureKeeps: a failed attempt leaves a row that says so.
LEMMA FailureKeeps ==
  ASSUME ListenerInv, NEW i \in Listeners, RecordOutboxFailure(i)
  PROVE  ListenerInv'
<1>1. pc[i] = "tx" /\ UNCHANGED <<chain, contract, cursor, processed, applied, dispute, erased>>
      /\ NextEvent(i)
  BY DEF RecordOutboxFailure, storeVars
<1>2. ChainOK /\ MemoryOK /\ DurableOK /\ LoopOK(i) /\ pc[i] \in Busy
  BY <1>1, AttemptAt
<1>3. PICK h \in Emitted : h = Head(page[i]) /\ h \in Events /\ Seen(h)
  BY <1>1, AttemptAt
<1>4. held[i].attempts \in Nat
  BY <1>2 DEF MemoryOK, HeldRow
<1>5. PICK n \in Nat : n = held[i].attempts + 1
  BY <1>4, SMT
<1>6. PICK row : row = [status |-> IF n < MaxAttempts THEN "RETRYING" ELSE "DEAD_LETTER",
                        attempts |-> n, due |-> ~(n < MaxAttempts)]
  OBVIOUS
<1>7. row \in OutboxRow /\ row.status \in {"RETRYING", "DEAD_LETTER"}
  BY <1>5, <1>6 DEF OutboxRow, OutboxStatus
<1>8. outbox' = [outbox EXCEPT ![h] = row] /\ cache' = cache
  BY <1>3, <1>5, <1>6 DEF RecordOutboxFailure, CacheAfterFailure
<1>9. /\ outbox' \in [Events -> OutboxRow] /\ Seen(h)' /\ outbox'[h] = row
      /\ \A f \in Events : Seen(f) => Seen(f)'
      /\ \A f \in Events \ {h} : outbox'[f] = outbox[f]
  <2>1. row.status # "NONE"
    BY <1>7
  <2>2. QED
    BY <1>2, <1>3, <1>7, <1>8, <2>1, RowUpdates
<1>10. Onward
  BY <1>1, <1>9 DEF Onward, Cased
<1>11. DurableOK'
  <2>1. \A e \in Events : outbox'[e].status = "PROCESSED" => outbox[e].status = "PROCESSED"
    BY <1>7, <1>9
  <2>2. QED
    BY <1>1, <1>2, <1>10, <2>1, DurableStays
<1>12. cache' = [cache EXCEPT ![i] = cache[i]] /\ cache[i] \in SUBSET (cache[i] \cup {h})
  BY <1>2, <1>8 DEF MemoryOK
<1>13. h \in cache[i] => Settled(h)'
  BY <1>2, <1>10, SettledStays DEF LoopOK, CacheOK
<1>14. QED
  BY <1>1, <1>2, <1>3, <1>9, <1>10, <1>11, <1>12, <1>13, PassOver

\* CasesStand: a step of the tables deletes no dispute, and an erasure is
\* remembered.
LEMMA CasesStand ==
  ASSUME \/ erased' = erased /\ \A t \in TradeIds : CaseMoves(t)
         \/ ErasureStep
  PROVE  \A t \in TradeIds : Cased(t) => Cased(t)'
BY NoRowIsNoRow DEF CaseMoves, Cased, ErasureStep, ErasedNow

\* WorldKeeps: a step that touches no replica's memory and processes nothing
\* keeps the invariant.
LEMMA WorldKeeps ==
  ASSUME ListenerInv, Onward, UNCHANGED <<contract, memoryVars, processed, applied>>,
         outbox' \in [Events -> OutboxRow],
         \A e \in Events : outbox'[e].status = "PROCESSED" => outbox[e].status = "PROCESSED"
  PROVE  ListenerInv'
<1>1. ChainOK /\ MemoryOK /\ DurableOK /\ \A j \in Listeners : LoopOK(j)
  BY DEF ListenerInv
<1>2. UNCHANGED <<contract, pc, cursor, cache, page, held, processed, applied>>
  BY DEF memoryVars
<1>3. ChainOK'
  BY <1>1, <1>2 DEF ChainOK, Onward, Emitted, LedgerOf
<1>4. MemoryOK'
  BY <1>1, <1>2 DEF MemoryOK
<1>5. DurableOK'
  BY <1>1, <1>2, DurableStays
<1>6. \A j \in Listeners : LoopOK(j)'
  BY <1>1, <1>2, LoopStays
<1>7. QED
  BY <1>3, <1>4, <1>5, <1>6 DEF ListenerInv

\* BackoffKeeps: time passing changes no status.
LEMMA BackoffKeeps ==
  ASSUME ListenerInv, NEW e \in Events, BackoffElapses(e)
  PROVE  ListenerInv'
<1>1. UNCHANGED <<chain, contract, memoryVars, processed, applied, dispute, erased>>
  BY DEF BackoffElapses, storeVars
<1>2. MemoryOK /\ outbox[e] \in OutboxRow
  BY DEF ListenerInv, MemoryOK
<1>3. PICK row : row = [outbox[e] EXCEPT !.due = TRUE]
  OBVIOUS
<1>4. row \in OutboxRow /\ row.status = outbox[e].status
  BY <1>2, <1>3 DEF OutboxRow
<1>5. outbox' = [outbox EXCEPT ![e] = row]
  BY <1>2, <1>3 DEF BackoffElapses, MemoryOK
<1>6. outbox' \in [Events -> OutboxRow] /\ \A f \in Events : outbox'[f].status = outbox[f].status
  BY <1>2, <1>4, <1>5 DEF MemoryOK
<1>7. Onward
  BY <1>1, <1>6 DEF Onward, Seen, Cased
<1>8. QED
  BY <1>1, <1>6, <1>7, WorldKeeps

\* ReplayKeeps: a replayed row is pending again, and what was processed stays
\* processed.
LEMMA ReplayKeeps ==
  ASSUME ListenerInv, NEW e \in Events, Replay(e)
  PROVE  ListenerInv'
<1>1. UNCHANGED <<chain, contract, memoryVars, processed, applied, dispute, erased>>
  BY DEF Replay
<1>2. MemoryOK
  BY DEF ListenerInv
<1>3. PICK row : row = [NoOutbox EXCEPT !.status = "PENDING"]
  OBVIOUS
<1>4. row \in OutboxRow /\ row.status = "PENDING"
  BY <1>3 DEF OutboxRow, OutboxStatus, NoOutbox
<1>5. outbox' = [outbox EXCEPT ![e] = row]
  BY <1>3 DEF Replay
<1>6. /\ outbox' \in [Events -> OutboxRow] /\ outbox'[e] = row
      /\ \A f \in Events : Seen(f) => Seen(f)'
      /\ \A f \in Events \ {e} : outbox'[f] = outbox[f]
  <2>1. row.status # "NONE"
    BY <1>4
  <2>2. QED
    BY <1>2, <1>4, <1>5, <2>1, RowUpdates
<1>7. Onward
  BY <1>1, <1>6 DEF Onward, Cased
<1>8. \A f \in Events : outbox'[f].status = "PROCESSED" => outbox[f].status = "PROCESSED"
  BY <1>4, <1>6
<1>9. QED
  BY <1>1, <1>6, <1>7, <1>8, WorldKeeps

-----------------------------------------------------------------------------
\* EmitExtends: a new event goes to the end of the log, in the last ledger or a
\* later one.
LEMMA EmitExtends ==
  ASSUME ChainOK, NEW t \in TradeIds, Emit(t), NEW n \in Nat, n = Len(chain) + 1
  PROVE  /\ ChainOK' /\ Len(chain') = n /\ Emitted' = Emitted \cup {n} /\ n \notin Emitted
         /\ \A e \in Emitted : chain'[e] = chain[e]
         /\ LedgerOf(n)' \in Nat \ {0}
         /\ \A e \in Emitted : LedgerOf(e) <= LedgerOf(n)'
<1>1. PICK f \in Follows[contract[t]], step \in {0, 1} :
        /\ chain' = Append(chain,
             [ledger |-> IF chain = <<>> THEN 1 ELSE chain[Len(chain)].ledger + step,
              type |-> f[1], trade |-> t])
        /\ contract' = [contract EXCEPT ![t] = f[2]]
  BY DEF Emit
<1>2. contract[t] \in ContractStatus /\ Len(chain) \in Nat /\ chain \in Seq(ChainEvent)
      /\ Len(chain) < MaxEvents
  BY SMTT(30) DEF ChainOK, Emit
<1>3. f[1] \in EventTypes /\ f[2] \in ContractStatus
  BY <1>1, <1>2, FollowTypes
<1>4. PICK l : l = (IF chain = <<>> THEN 1 ELSE chain[Len(chain)].ledger + step)
  OBVIOUS
<1>5. n \in Nat \ {0} /\ Len(chain) = n - 1
  BY <1>2, SMTT(30)
<1>6. Emitted = 1..(n - 1) /\ \A e \in Emitted : LedgerOf(e) \in Nat \ {0}
  BY <1>2, <1>5, EmittedAreEvents DEF Emitted
<1>7. l \in Nat \ {0} /\ \A e \in Emitted : LedgerOf(e) <= l
  <2>1. CASE chain = <<>>
    <3>1. Emitted = {} /\ l = 1
      BY <1>4, <2>1, SMTT(30) DEF Emitted
    <3>2. QED
      BY <3>1, SMTT(30)
  <2>2. CASE chain # <<>>
    <3>1. PICK m \in Nat \ {0} : m = Len(chain)
      BY <1>2, <2>2, SMT
    <3>2. m \in Emitted /\ \A e \in Emitted : e <= m
      BY <3>1, SMT DEF Emitted
    <3>3. \A e \in Emitted : LedgerOf(e) <= LedgerOf(m)
      BY <3>2 DEF ChainOK
    <3>4. l = LedgerOf(m) + step
      BY <1>4, <2>2, <3>1 DEF LedgerOf
    <3>5. LedgerOf(m) \in Nat \ {0}
      BY <1>6, <3>2
    <3>6. QED
      BY <1>6, <3>3, <3>4, <3>5, SMTT(30)
  <2>3. QED
    BY <2>1, <2>2
<1>8. PICK x \in ChainEvent : x = [ledger |-> l, type |-> f[1], trade |-> t] /\ x.ledger = l
  <2>1. PICK ty \in EventTypes : ty = f[1]
    BY <1>3
  <2>2. [ledger |-> l, type |-> ty, trade |-> t] \in ChainEvent
    BY <1>7 DEF ChainEvent
  <2>3. QED
    BY <2>1, <2>2
<1>9. chain' = Append(chain, x)
  BY <1>1, <1>4, <1>8
<1>10. /\ chain' \in Seq(ChainEvent) /\ Len(chain') = n /\ chain'[n] = x
       /\ \A e \in 1..(n - 1) : chain'[e] = chain[e]
  BY <1>2, <1>5, <1>9, SMT
<1>11. Emitted' = 1..n /\ Emitted' = Emitted \cup {n} /\ n \notin Emitted
  BY <1>5, <1>6, <1>10, SMT DEF Emitted
<1>12. LedgerOf(n)' = l /\ \A e \in Emitted : LedgerOf(e)' = LedgerOf(e)
  BY <1>6, <1>8, <1>10 DEF LedgerOf
<1>13. ASSUME NEW d \in Emitted', NEW e \in Emitted', d <= e
       PROVE  LedgerOf(d)' <= LedgerOf(e)'
  <2>1. CASE e \in Emitted
    <3>1. d \in Emitted
      BY <1>6, <1>11, <1>13, <2>1, SMT
    <3>2. QED
      BY <1>12, <1>13, <2>1, <3>1 DEF ChainOK
  <2>2. CASE e = n /\ d \in Emitted
    <3>1. LedgerOf(d)' <= l
      BY <1>7, <1>12, <2>2
    <3>2. QED
      BY <1>12, <2>2, <3>1 DEF LedgerOf
  <2>3. CASE e = n /\ d = n
    <3>1. l <= l
      BY <1>7, SMT
    <3>2. QED
      BY <1>12, <2>3, <3>1 DEF LedgerOf
  <2>4. QED
    BY <1>11, <2>1, <2>2, <2>3
<1>14. ChainOK'
  <2>1. contract' \in [TradeIds -> ContractStatus]
    BY <1>1, <1>3 DEF ChainOK
  <2>2. Len(chain') <= MaxEvents
    BY <1>2, <1>5, <1>10, ListenerBounds, SMT
  <2>3. QED
    BY <1>10, <1>13, <2>1, <2>2 DEF ChainOK
<1>15. QED
  BY <1>6, <1>7, <1>10, <1>11, <1>12, <1>14

\* EmitSees: the new event is after every ledger that was seen, or beside the
\* event that was taken there.
LEMMA EmitSees ==
  ASSUME ChainOK, NEW t \in TradeIds, Emit(t), NEW l \in Nat, SeenTo(l)
  PROVE  SeenTo(l)'
<1>1. PICK n \in Nat : n = Len(chain) + 1
  BY EmittedAreEvents, SMT
<1>2. PICK k : k = LedgerOf(n)'
  OBVIOUS
<1>3. /\ Emitted' = Emitted \cup {n} /\ n \notin Emitted /\ k \in Nat \ {0}
      /\ \A e \in Emitted : chain'[e] = chain[e] /\ LedgerOf(e) <= k /\ LedgerOf(e) \in Nat
  <2>1. \A e \in Emitted : LedgerOf(e) \in Nat
    BY EmittedAreEvents
  <2>2. QED
    BY <1>1, <1>2, <2>1, EmitExtends
<1>4. \A e \in Emitted : /\ LedgerOf(e)' = LedgerOf(e) /\ (Decoded(e)' <=> Decoded(e))
                         /\ (Seen(e)' <=> Seen(e))
  BY <1>3 DEF LedgerOf, Decoded, Seen, Emit
<1>5. l = 0 \/ \E f \in Emitted : LedgerOf(f)' = l /\ Seen(f)'
  BY <1>4 DEF SeenTo
<1>6. ASSUME NEW e \in Emitted', LedgerOf(e)' <= l, Decoded(e)', ~Seen(e)'
      PROVE  \E f \in Emitted' : f # e /\ LedgerOf(f)' = LedgerOf(e)' /\ Seen(f)'
  <2>1. CASE e \in Emitted
    <3>1. PICK f \in Emitted : f # e /\ LedgerOf(f) = LedgerOf(e) /\ Seen(f)
      BY <1>4, <1>6, <2>1 DEF SeenTo
    <3>2. QED
      BY <1>3, <1>4, <2>1, <3>1
  <2>2. CASE e = n
    <3>1. LedgerOf(e)' = k /\ k <= l
      BY <1>2, <1>6, <2>2 DEF LedgerOf
    <3>2. l # 0
      BY <1>3, <3>1, SMT
    <3>3. PICK f \in Emitted : LedgerOf(f)' = l /\ Seen(f)'
      BY <1>5, <3>2
    <3>4. l <= k
      BY <1>3, <1>4, <3>3
    <3>5. k = l
      BY <1>3, <3>1, <3>4, SMT
    <3>6. f \in Emitted' /\ f # e
      BY <1>3, <2>2, <3>3
    <3>7. QED
      BY <3>1, <3>3, <3>5, <3>6
  <2>3. QED
    BY <1>3, <2>1, <2>2
<1>7. l = 0 \/ \E f \in Emitted' : LedgerOf(f)' = l /\ Seen(f)'
  BY <1>3, <1>5
<1>8. QED
  BY <1>6, <1>7 DEF SeenTo

\* EmitKeeps: an emission disturbs neither replicas nor database.
LEMMA EmitKeeps ==
  ASSUME ListenerInv, NEW t \in TradeIds, Emit(t)
  PROVE  ListenerInv'
<1>1. ChainOK /\ MemoryOK /\ DurableOK /\ \A i \in Listeners : LoopOK(i)
  BY DEF ListenerInv
<1>2. UNCHANGED <<pc, cursor, cache, page, held, outbox, processed, applied, dispute, erased>>
  BY DEF Emit, memoryVars, storeVars
<1>3. /\ ChainOK' /\ Emitted \subseteq Emitted' /\ Len(chain') = Len(chain) + 1
      /\ \A e \in Emitted : chain'[e] = chain[e]
  <2>1. PICK n \in Nat : n = Len(chain) + 1
    BY <1>1, EmittedAreEvents, SMT
  <2>2. QED
    BY <1>1, <2>1, EmitExtends
<1>4. /\ Len(chain) \in Nat /\ Emitted \subseteq Events
      /\ \A e \in Emitted : LedgerOf(e) \in Nat \ {0}
  BY <1>1, EmittedAreEvents
<1>5. \A e \in Emitted : /\ LedgerOf(e)' = LedgerOf(e) /\ (Decoded(e)' <=> Decoded(e))
                         /\ (Seen(e)' <=> Seen(e)) /\ (Settled(e)' <=> Settled(e))
  BY <1>2, <1>3 DEF LedgerOf, Decoded, Seen, Settled, Cased
<1>6. MemoryOK'
  BY <1>1, <1>2 DEF MemoryOK
<1>7. DurableOK'
  <2>1. ASSUME NEW e \in processed
        PROVE  Seen(e)' /\ SeenTo(LedgerOf(e))'
    <3>1. e \in Emitted /\ Seen(e) /\ SeenTo(LedgerOf(e))
      BY <1>1 DEF DurableOK
    <3>2. PICK l \in Nat : l = LedgerOf(e)
      BY <1>4, <3>1
    <3>3. SeenTo(l)'
      BY <1>1, <3>1, <3>2, EmitSees
    <3>4. LedgerOf(e)' = l
      BY <1>5, <3>1, <3>2
    <3>5. Seen(e)'
      BY <1>5, <3>1
    <3>6. QED
      BY <3>3, <3>4, <3>5 DEF SeenTo
  <2>2. processed \subseteq Emitted'
    BY <1>1, <1>3 DEF DurableOK
  <2>3. ASSUME NEW e \in Events, outbox[e].status = "PROCESSED"
        PROVE  e \in Emitted' /\ Settled(e)'
    BY <1>1, <1>3, <1>5, <2>3 DEF DurableOK
  <2>4. QED
    BY <1>1, <1>2, <2>1, <2>2, <2>3 DEF DurableOK
<1>8. ASSUME NEW i \in Listeners
      PROVE  LoopOK(i)'
  <2>1. LoopOK(i) /\ cursor[i] \in Nat
    BY <1>1 DEF MemoryOK
  <2>2. PageOK(i)'
    <3>1. PICK h \in 1..(MaxEvents + 1), n \in 0..MaxEvents :
            /\ page[i] = Run(h, n) /\ h + n - 1 <= Len(chain)
            /\ (n # 0) <=> (pc[i] \in Busy)
            /\ n # 0 => PassedTo(i, h)
      BY <2>1 DEF LoopOK, PageOK
    <3>2. h \in Nat /\ n \in Nat /\ (n # 0 => h <= Len(chain)) /\ h + n - 1 <= Len(chain) + 1
      BY <1>4, <3>1, ListenerBounds, SMT
    <3>3. n # 0 => \A e \in 1..(h - 1) : e \in Emitted
      BY <1>4, <3>2, SMT DEF Emitted
    <3>4. n # 0 => PassedTo(i, h)'
      BY <1>2, <1>5, <3>1, <3>3 DEF PassedTo
    <3>5. QED
      BY <1>2, <1>3, <3>1, <3>2, <3>4 DEF PageOK, Run
  <2>3. AttemptOK(i)'
    <3>1. CASE pc[i] \notin {"attempt", "tx"}
      BY <1>2, <3>1 DEF AttemptOK
    <3>2. CASE pc[i] \in {"attempt", "tx"}
      <4>1. PICK h \in Emitted : h = Head(page[i])
        BY <1>1, <2>1, <3>2, AtHead DEF LoopOK, Busy
      <4>2. Seen(h)
        BY <2>1, <3>2, <4>1 DEF LoopOK, AttemptOK
      <4>3. pc[i] = "tx" /\ held[i].dispute # NoRow => Cased(chain[h].trade)
        BY <2>1, <4>1 DEF LoopOK, AttemptOK
      <4>4. QED
        BY <1>2, <1>3, <4>1, <4>2, <4>3 DEF AttemptOK, Seen, Cased
    <3>3. QED
      BY <3>1, <3>2
  <2>4. CacheOK(i)'
    BY <1>2, <1>3, <1>5, <2>1 DEF LoopOK, CacheOK
  <2>5. SeenTo(cursor[i])'
    <3>1. PICK l \in Nat : l = cursor[i]
      BY <2>1
    <3>2. SeenTo(l)'
      BY <1>1, <2>1, <3>1, EmitSees DEF LoopOK
    <3>3. QED
      BY <1>2, <3>1, <3>2 DEF SeenTo
  <2>6. QED
    BY <2>2, <2>3, <2>4, <2>5 DEF LoopOK
<1>9. QED
  BY <1>3, <1>6, <1>7, <1>8 DEF ListenerInv

-----------------------------------------------------------------------------
\* StartsTyped: rows and contract start in agreement, and nothing has happened.
LEMMA StartsTyped ==
  ASSUME SyncInit
  PROVE  StoreInv /\ contract \in [TradeIds -> ContractStatus]
<1>1. PICK h \in [TradeIds -> Histories] :
        tradeRow = [t \in TradeIds |-> h[t].row] /\ contract = [t \in TradeIds |-> h[t].status]
  BY DEF SyncInit
<1>2. ASSUME NEW t \in TradeIds
      PROVE  /\ tradeRow[t] \in TradeRow \cup {NoRow} /\ contract[t] \in ContractStatus
             /\ tradeRow[t] # NoRow => tradeRow[t].status # "DISPUTED"
  <2>1. h[t] \in Histories /\ tradeRow[t] = h[t].row /\ contract[t] = h[t].status
    BY <1>1
  <2>2. CASE h[t] = [row |-> NoRow, status |-> "NONE"]
    BY <2>1, <2>2, SMTT(30) DEF ContractStatus
  <2>3. CASE h[t] = [row |-> NewTrade("FUNDED", 2), status |-> "FUNDED"]
    <3>1. tradeRow[t] = NewTrade("FUNDED", 2) /\ contract[t] = "FUNDED"
      BY <2>1, <2>3, SMT
    <3>2. QED
      BY <3>1, SMT DEF ContractStatus, NewTrade, TradeRow, TradeStatus
  <2>4. QED
    BY <2>1, <2>2, <2>3 DEF Histories
<1>3. /\ dispute = [t \in TradeIds |-> NoRow] /\ sweeping = {} /\ batching = NoRow /\ opening = {}
      /\ ruling = NoRow /\ purging = {} /\ overridden = {} /\ erased = {} /\ requests = 0
  BY DEF SyncInit
<1>4. tradeRow \in TradeTable /\ contract \in [TradeIds -> ContractStatus]
  BY <1>1, <1>2 DEF TradeTable
<1>5. dispute \in CaseTable
  BY <1>3 DEF CaseTable
<1>6. RequestsOK
  BY <1>3, RequestBound, SMTT(30) DEF RequestsOK
<1>7. StoreTypeOK
  BY <1>4, <1>5, <1>6, StoreTypes
<1>8. Batched /\ Ruled /\ Purged
  BY <1>3 DEF Batched, Ruled, Purged
<1>9. ReasonKeptWhileLive /\ DisputedHasCase /\ CasesHaveTrades
  BY <1>2, <1>3 DEF ReasonKeptWhileLive, DisputedHasCase, CasesHaveTrades
<1>10. QED
  BY <1>4, <1>7, <1>8, <1>9 DEF StoreInv

\* SyncStarts: the invariant holds at first.
LEMMA SyncStarts == SyncInit => SyncInv
<1> SUFFICES ASSUME SyncInit
             PROVE  SyncInv
  OBVIOUS
<1>1. /\ chain = <<>> /\ pc = [i \in Listeners |-> "idle"] /\ cursor = [i \in Listeners |-> 0]
      /\ cache = [i \in Listeners |-> {}] /\ page = [i \in Listeners |-> <<>>]
      /\ held = [i \in Listeners |-> Idle] /\ outbox = [e \in Events |-> NoOutbox]
      /\ processed = {} /\ applied = [e \in Events |-> 0]
  BY DEF SyncInit
<1>2. Emitted = {} /\ Len(chain) = 0
  BY <1>1, SMT DEF Emitted
<1>3. ChainOK
  <2>1. chain \in Seq(ChainEvent)
    BY <1>1, SMT
  <2>2. QED
    BY <1>2, <2>1, StartsTyped, ListenerBounds, SMT DEF ChainOK
<1>4. MemoryOK
  <2>1. Idle \in HeldRow
    BY DEF Idle, HeldRow
  <2>2. NoOutbox \in OutboxRow
    BY DEF NoOutbox, OutboxRow, OutboxStatus
  <2>3. QED
    BY <1>1, <2>1, <2>2, SMT DEF MemoryOK
<1>5. DurableOK
  <2>1. \A e \in Events : outbox[e].status # "PROCESSED"
    BY <1>1 DEF NoOutbox
  <2>2. applied = [e \in Events |-> IF e \in processed THEN 1 ELSE 0]
    BY <1>1
  <2>3. QED
    BY <1>1, <2>1, <2>2 DEF DurableOK
<1>6. ASSUME NEW i \in Listeners
      PROVE  LoopOK(i)
  <2>0. 1 \in 1..(MaxEvents + 1) /\ 0 \in 0..MaxEvents /\ 1 \in Nat \ {0} /\ 0 \in Nat
    BY ListenerBounds, SMT
  <2>1. 1 \in 1..(MaxEvents + 1) /\ 0 \in 0..MaxEvents /\ Run(1, 0) = <<>>
    BY <2>0, RunFacts
  <2>2. PageOK(i)
    BY <1>1, <1>2, <2>1, SMT DEF PageOK, Busy
  <2>3. AttemptOK(i) /\ CacheOK(i)
    BY <1>1 DEF AttemptOK, CacheOK
  <2>4. SeenTo(cursor[i])
    BY <1>1, <1>3, NoLedger
  <2>5. QED
    BY <2>2, <2>3, <2>4 DEF LoopOK
<1>7. QED
  BY <1>3, <1>4, <1>5, <1>6, StartsTyped DEF SyncInv, ListenerInv

\* StillTables: a step of a replica that commits nothing leaves the tables.
LEMMA StillTables ==
  ASSUME SyncInv, UNCHANGED <<tradeRow, dispute, requestVars, overridden, erased>>,
         requests' \in 0..MaxRequests
  PROVE  TablesStep /\ StoreInv'
<1>1. StoreInv /\ StoreTypeOK /\ RequestsOK
  BY StoreTypes DEF SyncInv, StoreInv
<1>2. UNCHANGED <<tradeRow, dispute, sweeping, batching, opening, ruling, purging>>
      /\ UNCHANGED <<overridden, erased>>
  BY DEF requestVars
<1>3. TablesStep
  BY <1>1, <1>2, StayIsStep DEF TablesStay
<1>4. RequestsOK'
  BY <1>1, <1>2 DEF RequestsOK
<1>5. QED
  BY <1>1, <1>2, <1>3, <1>4, WriteKeeps

\* SyncInvImplies: what the invariant says of each state.
LEMMA SyncInvImplies ==
  ASSUME SyncInv
  PROVE  /\ SyncTypeOK /\ AppliedOnce /\ UnseenOnlyInSharedLedgers
         /\ ReasonKeptWhileLive /\ DisputedHasCase /\ CasesHaveTrades
<1>1. /\ StoreTypeOK /\ ReasonKeptWhileLive /\ DisputedHasCase /\ CasesHaveTrades
      /\ ChainOK /\ MemoryOK /\ DurableOK
      /\ \A i \in Listeners : LoopOK(i)
  BY DEF SyncInv, StoreInv, ListenerInv
<1>2. ASSUME NEW i \in Listeners
      PROVE  pc[i] \in {"page", "attempt", "tx"} <=> page[i] # <<>>
  <2>1. PICK h \in 1..(MaxEvents + 1), n \in 0..MaxEvents :
          page[i] = Run(h, n) /\ ((n # 0) <=> (pc[i] \in Busy))
    BY <1>1 DEF LoopOK, PageOK
  <2>2. h \in Nat \ {0} /\ n \in Nat
    BY ListenerBounds, SMT
  <2>3. page[i] = <<>> <=> n = 0
    BY <2>1, <2>2, RunFacts
  <2>4. QED
    BY <2>1, <2>3 DEF Busy
<1>3. SyncTypeOK
  <2>1. ListenerTypeOK
    BY <1>1, <1>2 DEF ListenerTypeOK, ChainOK, MemoryOK, DurableOK, OutboxRow, Busy
  <2>2. QED
    BY <1>1, <2>1 DEF SyncTypeOK
<1>4. AppliedOnce
  <2>1. EffectsOnce
    BY <1>1, SMT DEF DurableOK, EffectsOnce
  <2>2. CacheIsDurable
    BY <1>1 DEF LoopOK, CacheOK, Settled, Cased, CacheIsDurable
  <2>3. QED
    BY <2>1, <2>2 DEF AppliedOnce
<1>5. UnseenOnlyInSharedLedgers
  BY <1>1 DEF LoopOK, SeenTo, Seen, UnseenOnlyInSharedLedgers
<1>6. QED
  BY <1>1, <1>3, <1>4, <1>5
=============================================================================
