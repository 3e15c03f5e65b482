---------------------------- MODULE EventListener ----------------------------
(***************************************************************************)
(* The chain event listener: every backend replica polls the contract's    *)
(* events from its own cursor, takes them one by one through the durable   *)
(* outbox, and applies each in one transaction with its ProcessedEvent     *)
(* marker. The tables it writes are those of TradeStore.                   *)
(*                                                                         *)
(* An event is named by its position in the chain's log; its cache key,    *)
(* its ProcessedEvent row and its outbox row all stand for that position.  *)
(* Delays (poll interval, RPC backoff, breaker cooldown) are abstracted: a *)
(* poll may happen whenever the loop is idle, and a row's nextAttemptAt is *)
(* the flag due. A poll that the RPC server refuses changes nothing here.  *)
(***************************************************************************)
EXTENDS TradeStore, Integers, Sequences, FiniteSetsExt

CONSTANTS Listeners,    \* backend replicas
          MaxEvents,    \* bound: length of the chain's log
          PageLimit,    \* events one getEvents call returns
          CacheSize,    \* processedLedgersCacheSize
          MaxAttempts,  \* outboxMaxAttempts
          MaxCrashes    \* bound: process crashes

ASSUME ListenerBounds == /\ MaxEvents \in Nat /\ PageLimit \in Nat \ {0}
                         /\ CacheSize \in Nat /\ MaxAttempts \in Nat

VARIABLES chain,      \* the contract's log: [ledger, type, trade]
          contract,   \* status of each trade in the contract
          pc,         \* where the poll loop of a listener is
          cursor,     \* lastLedger
          cache,      \* processedEvents
          page,       \* events of the current poll not yet taken
          held,       \* what the attempt in progress has read
          outbox,     \* table ChainEventOutbox
          processed,  \* table ProcessedEvent
          applied,    \* committed dispatches of each event (history)
          crashes     \* crashes so far

memoryVars == <<pc, cursor, cache, page, held>>
listenerVars == <<chain, contract, memoryVars, outbox, processed, applied, crashes>>
syncVars == <<storeVars, listenerVars>>

Events == 1..MaxEvents
Emitted == 1..Len(chain)
OutboxStatus == {"NONE", "PENDING", "RETRYING", "PROCESSED", "DEAD_LETTER"}
NoOutbox == [status |-> "NONE", attempts |-> 0, due |-> TRUE]
Idle == [attempts |-> 0, trade |-> NoRow, dispute |-> NoRow]

LedgerOf(e) == chain[e].ledger

-----------------------------------------------------------------------------
\* What the contract may emit next, by the status of the trade on chain. The
\* listener decodes neither Cancelled nor any other event outside its table.
Follows ==
  [NONE      |-> {<<"TradeCreated", "CREATED">>},
   CREATED   |-> {<<"TradeFunded", "FUNDED">>, <<"Cancelled", "CANCELLED">>},
   FUNDED    |-> {<<"DeliveryConfirmed", "DELIVERED">>, <<"DisputeInitiated", "DISPUTED">>,
                  <<"StreamClawback", "FUNDED">>},
   DELIVERED |-> {<<"FundsReleased", "COMPLETED">>, <<"DisputeInitiated", "DISPUTED">>},
   DISPUTED  |-> {<<"DisputeResolved", "COMPLETED">>},
   COMPLETED |-> {},
   CANCELLED |-> {}]

Decodable == TradeEvents \cup {"StreamClawback"}

\* decodeContractEvent: null for every other event.
Decoded(e) == chain[e].type \in Decodable

\* A transaction on the trade closes in the current ledger or in a later one.
Emit(t) ==
  /\ Len(chain) < MaxEvents
  /\ \E f \in Follows[contract[t]], step \in {0, 1} :
       LET last == IF chain = <<>> THEN 0 ELSE chain[Len(chain)].ledger
           ledger == IF chain = <<>> THEN 1 ELSE last + step IN
       /\ chain' = Append(chain, [ledger |-> ledger, type |-> f[1], trade |-> t])
       /\ contract' = [contract EXCEPT ![t] = f[2]]
  /\ UNCHANGED <<storeVars, memoryVars, outbox, processed, applied, crashes>>

-----------------------------------------------------------------------------
\* evictOldEvents: the lowest ledgers go first.
Evicted(keys) ==
  CHOOSE kept \in kSubset(IF Cardinality(keys) <= CacheSize
                          THEN Cardinality(keys) ELSE CacheSize, keys) :
    \A k \in kept, d \in keys \ kept : LedgerOf(d) <= LedgerOf(k)

\* start(): the cursor is the highest ledger with a ProcessedEvent; the most
\* recent keys warm the cache in the background, before or after the first poll.
Newest == CHOOSE e \in processed : \A f \in processed : LedgerOf(f) <= LedgerOf(e)

Start(i) ==
  /\ pc[i] = "down"
  /\ pc' = [pc EXCEPT ![i] = "idle"]
  /\ cursor' = [cursor EXCEPT ![i] = IF processed = {} THEN 0 ELSE LedgerOf(Newest)]
  /\ \E warm \in {IF processed = {} THEN {} ELSE {Newest}, Evicted(processed)} :
       cache' = [cache EXCEPT ![i] = warm]
  /\ UNCHANGED <<storeVars, chain, contract, page, held, outbox, processed, applied,
                 crashes>>

\* The process dies (or drains and exits): everything in memory is gone.
Crash(i) ==
  /\ pc[i] # "down" /\ crashes < MaxCrashes
  /\ pc' = [pc EXCEPT ![i] = "down"]
  /\ cursor' = [cursor EXCEPT ![i] = 0]
  /\ cache' = [cache EXCEPT ![i] = {}]
  /\ page' = [page EXCEPT ![i] = <<>>]
  /\ held' = [held EXCEPT ![i] = Idle]
  /\ crashes' = crashes + 1
  /\ UNCHANGED <<storeVars, chain, contract, outbox, processed, applied>>

\* Mutant: the poll starts one ledger too late.
SkipsALedger(i, e) == LedgerOf(e) > cursor[i] + 1

FromCursor(i, e) == LedgerOf(e) > cursor[i]

\* pollEvents: from the ledger after the cursor, one page, oldest first. The
\* log is in ledger order, so the page is a run of it.
Poll(i) ==
  /\ pc[i] = "idle"
  /\ \E first \in Emitted :
       LET left == Len(chain) - first + 1
           size == IF left > PageLimit THEN PageLimit ELSE left IN
       /\ FromCursor(i, first) /\ \A e \in 1..(first - 1) : ~FromCursor(i, e)
       /\ page' = [page EXCEPT ![i] = [k \in 1..size |-> first + k - 1]]
  /\ pc' = [pc EXCEPT ![i] = "page"]
  /\ UNCHANGED <<storeVars, chain, contract, cursor, cache, held, outbox, processed,
                 applied, crashes>>

\* The loop goes on to the next event of the page, or waits for the next poll.
NextEvent(i) ==
  /\ page' = [page EXCEPT ![i] = Tail(@)]
  /\ pc' = [pc EXCEPT ![i] = IF Len(page[i]) = 1 THEN "idle" ELSE "page"]
  /\ held' = [held EXCEPT ![i] = Idle]

ReadyEvents(row) == row.status \in {"PENDING", "RETRYING"} /\ row.due

\* ensureOutboxRecord: an upsert that changes nothing of an existing row.
EnsureOutboxRecord(e) ==
  IF outbox[e].status = "NONE" THEN [NoOutbox EXCEPT !.status = "PENDING"] ELSE outbox[e]

\* processEvent up to the attempt: undecodable, cached and already processed
\* events are passed over (the cursor stays), the outbox row is upserted, and
\* an unready row is passed over too.
Take(i) ==
  /\ pc[i] = "page"
  /\ LET e == Head(page[i])
         row == EnsureOutboxRecord(e) IN
     \/ /\ ~Decoded(e) \/ e \in cache[i]
        /\ NextEvent(i)
        /\ UNCHANGED <<cache, outbox>>
     \/ /\ Decoded(e) /\ e \notin cache[i] /\ e \in processed
        /\ cache' = [cache EXCEPT ![i] = @ \cup {e}]
        /\ NextEvent(i)
        /\ UNCHANGED outbox
     \/ /\ Decoded(e) /\ e \notin cache[i] /\ e \notin processed
        /\ outbox' = [outbox EXCEPT ![e] = row]
        /\ IF ReadyEvents(row)
           THEN /\ held' = [held EXCEPT ![i] = [Idle EXCEPT !.attempts = row.attempts]]
                /\ pc' = [pc EXCEPT ![i] = "attempt"]
                /\ UNCHANGED page
           ELSE NextEvent(i)
        /\ UNCHANGED cache
  /\ UNCHANGED <<storeVars, chain, contract, cursor, processed, applied, crashes>>

\* After a successful attempt: cache, eviction, cursor.
Advance(i, e) ==
  /\ cache' = [cache EXCEPT ![i] = Evicted(@ \cup {e})]
  /\ cursor' = [cursor EXCEPT ![i] = IF LedgerOf(e) > @ THEN LedgerOf(e) ELSE @]
  /\ NextEvent(i)

\* The transaction opens: a row another replica has finished counts as success,
\* otherwise the handlers read the rows they will update.
Begin(i) ==
  /\ pc[i] = "attempt"
  /\ LET e == Head(page[i])
         t == chain[e].trade IN
     IF outbox[e].status = "PROCESSED"
     THEN Advance(i, e)
     ELSE /\ held' = [held EXCEPT ![i].trade = tradeRow[t], ![i].dispute = dispute[t]]
          /\ pc' = [pc EXCEPT ![i] = "tx"]
          /\ UNCHANGED <<cursor, cache, page>>
  /\ UNCHANGED <<storeVars, chain, contract, outbox, processed, applied, crashes>>

\* Mutant: the marker is not unique.
NeverMarked(e) == FALSE

\* The unique index of ProcessedEvent.
Marked(e) == e \in processed

\* The transaction commits: handlers, ProcessedEvent and outbox row together.
Commit(i) ==
  /\ pc[i] = "tx"
  /\ LET e == Head(page[i]) IN
     /\ DispatchEvent(chain[e].trade, chain[e].type, held[i].trade, held[i].dispute)
     /\ ~Marked(e)
     /\ processed' = processed \cup {e}
     /\ outbox' = [outbox EXCEPT ![e] = [status |-> "PROCESSED",
                                         attempts |-> @.attempts + 1, due |-> TRUE]]
     /\ applied' = [applied EXCEPT ![e] = @ + 1]
     /\ Advance(i, e)
  /\ UNCHANGED <<requestVars, overridden, erased, requests, chain, contract, crashes>>

\* Any unique-constraint error rolls the transaction back and is read as
\* "already processed", whichever insert raised it.
UniqueViolation(i) ==
  /\ pc[i] = "tx"
  /\ LET e == Head(page[i]) IN
     /\ \/ Marked(e)
        \/ DuplicateDispute(chain[e].trade, chain[e].type, held[i].dispute)
     /\ outbox' = [outbox EXCEPT ![e].status = "PROCESSED", ![e].due = TRUE]
     /\ Advance(i, e)
  /\ UNCHANGED <<storeVars, chain, contract, processed, applied, crashes>>

CacheAfterFailure(i, e) == cache

\* Anything else that goes wrong (a concurrency conflict, a foreign key, the
\* database) rolls back and is recorded from the row as it was first read.
RecordOutboxFailure(i) ==
  /\ pc[i] = "tx"
  /\ LET e == Head(page[i])
         attempts == held[i].attempts + 1
         canRetry == attempts < MaxAttempts IN
     /\ outbox' = [outbox EXCEPT ![e] = [status |-> IF canRetry THEN "RETRYING" ELSE "DEAD_LETTER",
                                         attempts |-> attempts, due |-> ~canRetry]]
     /\ cache' = CacheAfterFailure(i, e)
  /\ NextEvent(i)
  /\ UNCHANGED <<storeVars, chain, contract, cursor, processed, applied, crashes>>

\* An error outside the attempt (the failure itself cannot be recorded) ends
\* the poll; the page is dropped and fetched again later.
AbortPoll(i) ==
  /\ pc[i] = "tx"
  /\ pc' = [pc EXCEPT ![i] = "idle"]
  /\ page' = [page EXCEPT ![i] = <<>>]
  /\ held' = [held EXCEPT ![i] = Idle]
  /\ UNCHANGED <<storeVars, chain, contract, cursor, cache, outbox, processed, applied,
                 crashes>>

\* nextAttemptAt passes.
BackoffElapses(e) ==
  /\ ~outbox[e].due
  /\ outbox' = [outbox EXCEPT ![e].due = TRUE]
  /\ UNCHANGED <<storeVars, chain, contract, memoryVars, processed, applied, crashes>>

\* POST /admin/outbox/replay, whatever state the row is in.
Replay(e) ==
  /\ Started
  /\ outbox[e].status # "NONE"
  /\ outbox' = [outbox EXCEPT ![e] = [NoOutbox EXCEPT !.status = "PENDING"]]
  /\ UNCHANGED <<tradeRow, dispute, requestVars, overridden, erased, chain, contract, memoryVars,
                 processed, applied, crashes>>

ListenerNext ==
  \/ \E t \in TradeIds : Emit(t)
  \/ \E i \in Listeners : \/ Start(i) \/ Crash(i) \/ Poll(i) \/ Take(i) \/ Begin(i)
                          \/ Commit(i) \/ UniqueViolation(i)
                          \/ RecordOutboxFailure(i) \/ AbortPoll(i)
  \/ \E e \in Events : BackoffElapses(e) \/ Replay(e)

ListenerTypeOK ==
  /\ Len(chain) <= MaxEvents
  /\ pc \in [Listeners -> {"down", "idle", "page", "attempt", "tx"}]
  /\ cursor \in [Listeners -> Nat]
  /\ cache \in [Listeners -> SUBSET Events]
  /\ outbox \in [Events -> [status : OutboxStatus, attempts : Nat, due : BOOLEAN]]
  /\ processed \subseteq Emitted
  /\ \A i \in Listeners : pc[i] \in {"page", "attempt", "tx"} <=> page[i] # <<>>
=============================================================================
