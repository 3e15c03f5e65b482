----------------------------- MODULE TradeStore -----------------------------
(***************************************************************************)
(* The trade and dispute tables of the backend and the request handlers    *)
(* that write them beside the chain listener: the creation endpoint, the   *)
(* expiry sweep, the admin batch, the dispute endpoint, the mediator       *)
(* transitions, the retention purge and the erasure of a user's data.      *)
(*                                                                         *)
(* The database runs at READ COMMITTED, so a handler that reads a row and  *)
(* then updates it is two steps; between them any other writer may commit. *)
(* A conditional updateMany is one step: PostgreSQL re-evaluates its WHERE *)
(* on the row it locks.                                                    *)
(***************************************************************************)
EXTENDS Naturals, FiniteSets

CONSTANTS TradeIds,      \* trade identifiers
          NoRow,       \* the absence of a row
          MaxRequests  \* bound: requests and jobs started beside the listeners

VARIABLES tradeRow,      \* tradeRow[t]: the row of table Trade, or NoRow
          dispute,    \* dispute[t]: the row of table Dispute, or NoRow
          sweeping,   \* rows the sweep has read and not yet written
          batching,   \* the update the admin batch has validated, or NoRow; orphan
                      \*   when the row it read has been deleted since (history)
          opening,    \* trades whose dispute request passed the status check
          ruling,     \* the mediator transition read in its transaction, or NoRow
          purging,    \* disputes the purge has selected and not yet cleared
          overridden, \* trades an admin batch has written (history)
          erased,     \* trades an erasure has deleted (history)
          requests    \* requests and jobs started so far

requestVars == <<sweeping, batching, opening, ruling, purging>>
storeVars == <<tradeRow, dispute, requestVars, overridden, erased, requests>>

TradeStatus == {"PENDING_SIGNATURE", "CREATED", "FUNDED", "DELIVERED",
                "COMPLETED", "DISPUTED", "CANCELLED", "EXPIRED"}
DisputeStatus == {"OPEN", "UNDER_REVIEW", "RESOLVED", "CLOSED"}
COMPLETED_DISPUTE_STATUSES == {"RESOLVED", "CLOSED"}

EXPIRABLE_STATUSES == {"CREATED", "FUNDED", "PENDING_SIGNATURE"}

\* The admin batch's own table.
BATCH_TRANSITIONS ==
  [PENDING_SIGNATURE |-> {"CREATED", "CANCELLED"},
   CREATED           |-> {"FUNDED", "CANCELLED"},
   FUNDED            |-> {"DELIVERED", "DISPUTED", "CANCELLED"},
   DELIVERED         |-> {"COMPLETED", "DISPUTED", "CANCELLED"},
   DISPUTED          |-> {"COMPLETED", "CANCELLED"},
   COMPLETED         |-> {},
   CANCELLED         |-> {},
   EXPIRED           |-> {}]

\* The mediator's table.
VALID_TRANSITIONS ==
  [OPEN         |-> {"UNDER_REVIEW", "CLOSED"},
   UNDER_REVIEW |-> {"RESOLVED", "CLOSED"},
   RESOLVED     |-> {},
   CLOSED       |-> {}]

\* What the handler of each event writes, and the statuses it may follow.
\* TradeCreated has no entry in the code's table: an existing row is left alone.
EVENT_TO_STATUS ==
  [TradeCreated      |-> "CREATED",
   TradeFunded       |-> "FUNDED",
   DeliveryConfirmed |-> "DELIVERED",
   FundsReleased     |-> "COMPLETED",
   DisputeInitiated  |-> "DISPUTED",
   DisputeResolved   |-> "COMPLETED"]

VALID_PREDECESSORS ==
  [TradeCreated      |-> {},
   TradeFunded       |-> {"CREATED"},
   DeliveryConfirmed |-> {"FUNDED"},
   FundsReleased     |-> {"DELIVERED"},
   DisputeInitiated  |-> {"FUNDED", "DELIVERED"},
   DisputeResolved   |-> {"DISPUTED"}]

TradeEvents == DOMAIN EVENT_TO_STATUS

-----------------------------------------------------------------------------
\* Rows.
NewTrade(status, version) ==
  [status |-> status, version |-> version, expired |-> FALSE]
NewDispute == [status |-> "OPEN", version |-> 0, reason |-> TRUE]

Bumped(row, status) == [row EXCEPT !.status = status, !.version = @ + 1]

\* The row still is what an earlier read of it returned.
Unmoved(row, seen) ==
  /\ row # NoRow
  /\ row.status = seen.status
  /\ row.version = seen.version

-----------------------------------------------------------------------------
(***************************************************************************)
(* The event handlers, run inside the listener's transaction. seen and     *)
(* seenDispute are what the transaction read of the two rows.              *)
(***************************************************************************)

\* A missing row is upserted: the insert satisfies the foreign keys only with
\* the buyer and seller of a TradeCreated event (the other handlers pass ""),
\* while a row inserted since the read takes the upsert's update branch.
\* A row in a status the event may not follow is left alone, silently.
ApplyStatusTransition(t, type, seen) ==
  LET status == EVENT_TO_STATUS[type] IN
  \/ /\ seen = NoRow
     /\ tradeRow[t] = NoRow => type = "TradeCreated"
     /\ tradeRow' = [tradeRow EXCEPT ![t] = IF @ = NoRow THEN NewTrade(status, 1)
                                                   ELSE Bumped(@, status)]
  \/ /\ seen # NoRow
     /\ seen.status \notin VALID_PREDECESSORS[type]
     /\ tradeRow' = tradeRow
  \/ /\ seen # NoRow
     /\ seen.status \in VALID_PREDECESSORS[type]
     /\ Unmoved(tradeRow[t], seen)
     /\ tradeRow' = [tradeRow EXCEPT ![t] = Bumped(@, status)]

\* DisputeInitiated inserts a missing dispute, whose foreign key asks for the
\* trade; DisputeResolved resolves an OPEN one and no other.
SyncDisputeFromEvent(t, type, seenDispute) ==
  \/ /\ type = "DisputeInitiated" /\ seenDispute = NoRow
     /\ tradeRow'[t] # NoRow
     /\ dispute' = [dispute EXCEPT ![t] = NewDispute]
  \/ /\ type = "DisputeResolved" /\ seenDispute # NoRow
     /\ dispute' = [dispute EXCEPT ![t] = IF @ # NoRow /\ @.status = "OPEN"
                                          THEN Bumped(@, "RESOLVED") ELSE @]
  \/ /\ (type = "DisputeInitiated") <=> (seenDispute # NoRow)
     /\ dispute' = dispute

\* dispute.create meets the unique index on tradeId: the row appeared since
\* the read.
DuplicateDispute(t, type, seenDispute) ==
  type = "DisputeInitiated" /\ seenDispute = NoRow /\ dispute[t] # NoRow

DisputeEvents == {"DisputeInitiated", "DisputeResolved"}

\* handleTradeCreated, handleTradeFunded, handleDeliveryConfirmed and
\* handleFundsReleased; the webhook each sends off is WebhookDelivery's.
HandleStatusEvent(t, type, seen) ==
  /\ type \in TradeEvents \ DisputeEvents
  /\ ApplyStatusTransition(t, type, seen)
  /\ UNCHANGED dispute

\* handleDisputeInitiated and handleDisputeResolved.
HandleDisputeEvent(t, type, seen, seenDispute) ==
  /\ type \in DisputeEvents
  /\ ApplyStatusTransition(t, type, seen)
  /\ ~DuplicateDispute(t, type, seenDispute)
  /\ SyncDisputeFromEvent(t, type, seenDispute)

\* A StreamClawback event adds a log row keyed by the event and touches
\* neither table.
HandleStreamClawback(type) ==
  /\ type = "StreamClawback"
  /\ UNCHANGED <<tradeRow, dispute>>

DispatchEvent(t, type, seen, seenDispute) ==
  \/ HandleStatusEvent(t, type, seen)
  \/ HandleDisputeEvent(t, type, seen, seenDispute)
  \/ HandleStreamClawback(type)

-----------------------------------------------------------------------------
(***************************************************************************)
(* The other writers.                                                      *)
(***************************************************************************)

Started == requests < MaxRequests /\ requests' = requests + 1

\* POST /trades and trades made from a template: the row is inserted before
\* the buyer has signed anything, under the id a simulated create_trade gave.
CreatePendingTrade(t) ==
  /\ Started
  /\ tradeRow[t] = NoRow
  /\ tradeRow' = [tradeRow EXCEPT ![t] = NewTrade("PENDING_SIGNATURE", 0)]
  /\ UNCHANGED <<dispute, requestVars, overridden, erased>>

\* The sweep picks rows whose expiresAt is set and has passed: any expirable
\* row may be one.
SweepRead ==
  /\ Started
  /\ sweeping = {}
  /\ \E stale \in SUBSET {t \in TradeIds : /\ tradeRow[t] # NoRow
                                         /\ tradeRow[t].status \in EXPIRABLE_STATUSES
                                         /\ ~tradeRow[t].expired} :
       stale # {} /\ sweeping' = {<<t, tradeRow[t]>> : t \in stale}
  /\ UNCHANGED <<tradeRow, dispute, batching, opening, ruling, purging, overridden, erased>>

\* The update is conditional; the code does not look at how many rows it hit.
SweepWrite ==
  \E s \in sweeping :
    LET t == s[1]
        hit == /\ tradeRow[t] # NoRow
               /\ tradeRow[t].version = s[2].version
               /\ tradeRow[t].status \in EXPIRABLE_STATUSES IN
    /\ sweeping' = sweeping \ {s}
    /\ tradeRow' = IF hit THEN [tradeRow EXCEPT ![t] = [Bumped(@, "EXPIRED")
                                                    EXCEPT !.expired = TRUE]]
                       ELSE tradeRow
    /\ UNCHANGED <<dispute, batching, opening, ruling, purging,
                   overridden, erased, requests>>

BatchRead(t, target) ==
  /\ Started
  /\ batching = NoRow
  /\ tradeRow[t] # NoRow
  /\ target \in BATCH_TRANSITIONS[tradeRow[t].status]
  /\ batching' = [trade |-> t, version |-> tradeRow[t].version, target |-> target,
                  orphan |-> FALSE]
  /\ UNCHANGED <<tradeRow, dispute, sweeping, opening, ruling, purging,
                 overridden, erased>>

\* Mutant: the update names the trade and not the version.
BatchHitsAny(t) == tradeRow[t] # NoRow

BatchHit(t) == tradeRow[t] # NoRow /\ tradeRow[t].version = batching.version

\* Guarded by the trade and the version alone; no row hit is reported as a
\* conflict.
BatchWrite ==
  /\ batching # NoRow
  /\ LET t == batching.trade
         hit == BatchHit(t) IN
     /\ tradeRow' = IF hit THEN [tradeRow EXCEPT ![t] = Bumped(@, batching.target)]
                        ELSE tradeRow
     /\ overridden' = IF hit THEN overridden \cup {t} ELSE overridden
  /\ batching' = NoRow
  /\ UNCHANGED <<dispute, sweeping, opening, ruling, purging, erased, requests>>

\* POST /trades/:id/dispute checks the status, builds the contract call on the
\* RPC server, and only then inserts the row.
DisputeCheck(t) ==
  /\ Started
  /\ t \notin opening
  /\ tradeRow[t] # NoRow
  /\ tradeRow[t].status \in {"FUNDED", "DELIVERED"}
  /\ opening' = opening \cup {t}
  /\ UNCHANGED <<tradeRow, dispute, sweeping, batching, ruling, purging,
                 overridden, erased>>

\* The insert, or its failure: the call could not be built, a row exists, or
\* the trade is gone.
DisputeInsert(t) ==
  /\ t \in opening
  /\ opening' = opening \ {t}
  /\ \/ /\ tradeRow[t] # NoRow /\ dispute[t] = NoRow
        /\ dispute' = [dispute EXCEPT ![t] = NewDispute]
     \/ dispute' = dispute
  /\ UNCHANGED <<tradeRow, sweeping, batching, ruling, purging, overridden, erased, requests>>

RulingRead(t, status) ==
  /\ Started
  /\ ruling = NoRow
  /\ dispute[t] # NoRow
  /\ status \in VALID_TRANSITIONS[dispute[t].status]
  /\ ruling' = [trade |-> t, row |-> dispute[t], target |-> status]
  /\ UNCHANGED <<tradeRow, dispute, sweeping, batching, opening, purging,
                 overridden, erased>>

\* applyDisputeStatusTransition: a moved row is a 409.
RulingWrite ==
  /\ ruling # NoRow
  /\ LET t == ruling.trade IN
     dispute' = IF Unmoved(dispute[t], ruling.row)
                THEN [dispute EXCEPT ![t] = Bumped(@, ruling.target)]
                ELSE dispute
  /\ ruling' = NoRow
  /\ UNCHANGED <<tradeRow, sweeping, batching, opening, purging, overridden, erased, requests>>

\* Disputes that ended before the cutoff are selected, then cleared by id.
PurgeRead ==
  /\ Started
  /\ purging = {}
  /\ \E old \in SUBSET {t \in TradeIds : /\ dispute[t] # NoRow
                                       /\ dispute[t].status \in COMPLETED_DISPUTE_STATUSES
                                       /\ dispute[t].reason} :
       old # {} /\ purging' = old
  /\ UNCHANGED <<tradeRow, dispute, sweeping, batching, opening, ruling,
                 overridden, erased>>

PurgeWrite ==
  /\ purging # {}
  /\ dispute' = [t \in TradeIds |-> IF t \in purging
                                  THEN [dispute[t] EXCEPT !.reason = FALSE]
                                  ELSE dispute[t]]
  /\ purging' = {}
  /\ UNCHANGED <<tradeRow, sweeping, batching, opening, ruling, overridden, erased, requests>>

\* DELETE /users/me and its admin form delete every trade the user is party to,
\* and with each, by cascade, its dispute. A sweep, a ruling or a purge under way
\* names rows by their ids, so what it read of a deleted row it will not find,
\* whatever row the trade gets later. The batch and the dispute request name the
\* trade.
EraseUserData(gone) ==
  /\ Started
  /\ \E t \in gone : tradeRow[t] # NoRow
  /\ tradeRow' = [t \in TradeIds |-> IF t \in gone THEN NoRow ELSE tradeRow[t]]
  /\ dispute' = [t \in TradeIds |-> IF t \in gone THEN NoRow ELSE dispute[t]]
  /\ sweeping' = {s \in sweeping : s[1] \notin gone}
  /\ batching' = IF batching # NoRow /\ batching.trade \in gone
                 THEN [batching EXCEPT !.orphan = TRUE] ELSE batching
  /\ ruling' = IF ruling # NoRow /\ ruling.trade \in gone THEN NoRow ELSE ruling
  /\ purging' = purging \ gone
  /\ erased' = erased \cup gone
  /\ UNCHANGED <<opening, overridden>>

StoreNext ==
  \/ \E t \in TradeIds : \/ CreatePendingTrade(t)
                       \/ DisputeCheck(t)
                       \/ DisputeInsert(t)
  \/ \E t \in TradeIds, s \in TradeStatus : BatchRead(t, s)
  \/ \E t \in TradeIds, s \in DisputeStatus : RulingRead(t, s)
  \/ SweepRead \/ SweepWrite \/ BatchWrite \/ RulingWrite
  \/ PurgeRead \/ PurgeWrite
  \/ \E gone \in SUBSET TradeIds : EraseUserData(gone)

-----------------------------------------------------------------------------
TradeRow == [status : TradeStatus, version : Nat, expired : BOOLEAN]
DisputeRow == [status : DisputeStatus, version : Nat, reason : BOOLEAN]

ASSUME NoRowIsNoRow == NoRow \notin TradeRow /\ NoRow \notin DisputeRow
ASSUME RequestBound == MaxRequests \in Nat

StoreTypeOK ==
  /\ tradeRow \in [TradeIds -> TradeRow \cup {NoRow}]
  /\ dispute \in [TradeIds -> DisputeRow \cup {NoRow}]
  /\ sweeping \subseteq TradeIds \X TradeRow
  /\ batching \in [trade : TradeIds, version : Nat, target : TradeStatus,
                  orphan : BOOLEAN] \cup {NoRow}
  /\ opening \subseteq TradeIds
  /\ ruling \in [trade : TradeIds, row : DisputeRow, target : DisputeStatus] \cup {NoRow}
  /\ purging \subseteq TradeIds
  /\ overridden \subseteq TradeIds /\ erased \subseteq TradeIds
  /\ requests \in 0..MaxRequests
=============================================================================
