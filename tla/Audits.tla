-------------------------------- MODULE Audits -------------------------------
\* What administrators and CI watch with: the audit chain and its page, the outbox
\* scanner, the daily drift sweep and the flake report.
EXTENDS Subject, Integers, Sequences, FiniteSets, FiniteSetsExt

-----------------------------------------------------------------------------
(***************************************************************************)
(* AuditLog                                                                *)
(*                                                                         *)
(* The hash chain over AdminActionAudit and the cursor listing of it. The  *)
(* Prisma middleware reads the last hash and then lets the insert run, in  *)
(* two statements; verifyChain recomputes the chain in id order.           *)
(*                                                                         *)
(* A hash stands for all it was computed from: the entries chained so far. *)
(***************************************************************************)

CONSTANTS
  AuditWriters,     \* admin requests that append at the same time
  MaxAuditRows,     \* bound: entries ever appended
  MaxTampers,       \* bound: edits and deletions made in the database
  AuditPageRows         \* limit of a page

VARIABLES
  auditRows,        \* the table, in id order
  lastAuditId,      \* the sequence behind the id column
  append,           \* per writer: the prevHash it read, when, or idle
  auditNow,         \* instants, one per read of the last hash
  tampering,        \* ghost: edited ids and the hashes of deleted rows
  tampers,
  pager             \* a client paging through GET /api/admin/audit

auditVars == <<auditRows, lastAuditId, append, auditNow, tampering, tampers, pager>>

NoAppend == [busy |-> FALSE, prevHash |-> <<>>, at |-> 0]
NoPager == [state |-> "off", seen |-> <<>>, owed |-> {}]
Ids == {auditRows[i].id : i \in DOMAIN auditRows}

AuditInit ==
  /\ auditRows = <<>> /\ lastAuditId = 0
  /\ append = [w \in AuditWriters |-> NoAppend]
  /\ auditNow = 0
  /\ tampering = [edited |-> {}, deleted |-> {}] /\ tampers = 0
  /\ pager = NoPager

-----------------------------------------------------------------------------
(* The write: findFirst, then create                                       *)

EntryHash(prevHash, content) == Append(prevHash, content)

LastHash == IF auditRows = <<>> THEN <<>> ELSE auditRows[Len(auditRows)].hash

ReadLastHash(w) ==
  /\ ~append[w].busy
  /\ auditNow < MaxAuditRows
  /\ auditNow' = auditNow + 1
  /\ append' = [append EXCEPT ![w] = [busy |-> TRUE, prevHash |-> LastHash, at |-> auditNow']]
  /\ UNCHANGED <<auditRows, lastAuditId, tampering, tampers, pager>>

InsertAudit(w) ==
  /\ append[w].busy
  /\ lastAuditId' = lastAuditId + 1
  /\ auditRows' = Append(auditRows,
       [id |-> lastAuditId', at |-> append[w].at, content |-> append[w].at,
        prevHash |-> append[w].prevHash, hash |-> EntryHash(append[w].prevHash, append[w].at)])
  /\ append' = [append EXCEPT ![w] = NoAppend]
  /\ UNCHANGED <<auditNow, tampering, tampers, pager>>

\* Somebody with access to the database changes or deletes a row.
EditRow(i) ==
  /\ tampers < MaxTampers
  /\ auditRows' = [auditRows EXCEPT ![i].content = MaxAuditRows + 1]
  /\ tampering' = [tampering EXCEPT !.edited = @ \cup {auditRows[i].id}]
  /\ tampers' = tampers + 1
  /\ UNCHANGED <<lastAuditId, append, auditNow, pager>>

DeleteRow(i) ==
  /\ tampers < MaxTampers
  /\ auditRows' = [k \in 1..(Len(auditRows) - 1) |-> auditRows[IF k < i THEN k ELSE k + 1]]
  /\ tampering' = [tampering EXCEPT !.deleted = @ \cup {auditRows[i].hash}]
  /\ tampers' = tampers + 1
  /\ UNCHANGED <<lastAuditId, append, auditNow, pager>>

-----------------------------------------------------------------------------
(* verifyChain                                                             *)

ChainValid ==
  \A i \in DOMAIN auditRows :
    LET expectedPrevHash == IF i = 1 THEN <<>> ELSE auditRows[i - 1].hash
    IN /\ auditRows[i].prevHash = expectedPrevHash
       /\ auditRows[i].hash = EntryHash(expectedPrevHash, auditRows[i].content)

-----------------------------------------------------------------------------
(* paginateWithCursor, ordered by createdAt and id, newest first           *)

Newer(r, s) == r.at > s.at \/ (r.at = s.at /\ r.id > s.id)

\* The rows after the cursor row; none when that row is gone.
AfterCursor(cursor) ==
  {i \in DOMAIN auditRows :
     \/ cursor = 0
     \/ \E k \in DOMAIN auditRows : auditRows[k].id = cursor /\ Newer(auditRows[k], auditRows[i])}

FindMany(cursor) == AfterCursor(cursor)

\* The first AuditPage of them; take is one more, to learn if there is a next page.
PageOf(rows) == {i \in rows : Cardinality({k \in rows : Newer(auditRows[k], auditRows[i])}) < AuditPageRows}

NewestFirst(rows) ==
  [n \in 1..Cardinality(rows) |->
     auditRows[CHOOSE i \in rows :
                  Cardinality({k \in rows : Newer(auditRows[k], auditRows[i])}) = n - 1].id]

ListStarts ==
  /\ pager = NoPager
  /\ pager' = [state |-> "more", seen |-> <<>>, owed |-> Ids]
  /\ UNCHANGED <<auditRows, lastAuditId, append, auditNow, tampering, tampers>>

ListPage ==
  /\ pager.state = "more"
  /\ LET cursor == IF pager.seen = <<>> THEN 0 ELSE pager.seen[Len(pager.seen)]
         rows == FindMany(cursor)
         page == PageOf(rows)
         lost == cursor # 0 /\ cursor \notin Ids
     IN /\ Len(pager.seen) <= MaxAuditRows
        /\ pager' = [pager EXCEPT
             !.state = IF lost THEN "lost" ELSE IF rows = page THEN "done" ELSE "more",
             !.seen = @ \o NewestFirst(page)]
  /\ UNCHANGED <<auditRows, lastAuditId, append, auditNow, tampering, tampers>>

AuditNext ==
  \/ \E w \in AuditWriters : ReadLastHash(w) \/ InsertAudit(w)
  \/ \E i \in DOMAIN auditRows : EditRow(i) \/ DeleteRow(i)
  \/ ListStarts
  \/ ListPage

-----------------------------------------------------------------------------

AuditTypeOK ==
  /\ Len(auditRows) <= MaxAuditRows /\ lastAuditId \in 0..MaxAuditRows
  /\ auditNow \in 0..MaxAuditRows /\ tampers \in 0..MaxTampers
  /\ pager.state \in {"off", "more", "done", "lost"}

\* Tampering that left a trace: an edited row still there, or a row that was
\* chained, directly or not, to a deleted one.
EditTraced == tampering.edited \cap Ids # {}
DeletionTraced ==
  \E hash \in tampering.deleted, i \in DOMAIN auditRows :
    LET chain == auditRows[i].prevHash
    IN Len(hash) <= Len(chain) /\ hash = SubSeq(chain, 1, Len(hash))

\* Two rows chained to the same entry: their appends overlapped.
ChainForked ==
  \E i, k \in DOMAIN auditRows : i # k /\ auditRows[i].prevHash = auditRows[k].prevHash

\* verifyChain reports a break exactly when an edited row or one chained after a
\* deleted row is still there, or when overlapping appends left a fork; such a
\* fork is a break nobody caused, and deleting one of its branches mends it
\* (db.ts: the middleware that reads the last hash; adminAudit.service.ts: verifyChain).
ChainTellsTampering == ChainValid <=> ~EditTraced /\ ~DeletionTraced /\ ~ChainForked

\* Paging by cursor returns each row that was there from the start, once, with
\* rows being inserted meanwhile; only the deletion of the cursor's own row
\* cuts the listing short.
PagesSeeEachRowOnce ==
  pager.state = "done" =>
    /\ \A i, k \in DOMAIN pager.seen : pager.seen[i] = pager.seen[k] => i = k
    /\ \A id \in pager.owed \cap Ids : \E i \in DOMAIN pager.seen : pager.seen[i] = id

-----------------------------------------------------------------------------
(***************************************************************************)
(* AuditPage                                                               *)
(*                                                                         *)
(* The admin action history in the browser: pages fetched by offset while  *)
(* the trail grows, fetches started again by a new token or wallet, the    *)
(* states of the page, and the client-side sort of the rows it holds.      *)
(***************************************************************************)

CONSTANTS
  AuditPageSize,     \* PAGE_SIZE
  MaxTrail,          \* bound: rows in the trail
  MaxAuditFetches    \* bound: fetches started

VARIABLES
  trail,             \* number of audit rows
  history,           \* the page's state
  auditFetches,      \* fetches in flight
  auditFetchCount,
  viewer,            \* token and admin wallet
  fetchOverlap         \* a fetch was started while another was in flight

auditPageVars == <<trail, history, auditFetches, auditFetchCount, viewer, fetchOverlap>>

\* Rows 1 and 2 are written in the same millisecond; odd rows by one admin.
RowTime(i) == (i + 1) \div 2
RowActor(i) == i % 2
SortKeys == {"createdAt", "actorAddress"}
DEFAULT_SORT == [key |-> "createdAt", direction |-> "desc"]

TheLast(a, b) == IF a < b THEN b ELSE a
TheFirst(a, b) == IF a < b THEN a ELSE b

-----------------------------------------------------------------------------
(* AdminAuditService.list with page: newest first, equal times in any order*)

\* x comes before y in the order the database answers in.
DbBefore(x, y, tie) ==
  \/ RowTime(x) > RowTime(y)
  \/ RowTime(x) = RowTime(y) /\ (IF tie = "asc" THEN x < y ELSE x > y)

Ranked(S, Before(_, _)) ==
  [k \in 1..Cardinality(S) |-> CHOOSE x \in S : Cardinality({y \in S : Before(y, x)}) = k - 1]

Items(page, tie) ==
  LET all == Ranked(1..trail, LAMBDA x, y : DbBefore(x, y, tie)) IN
  SubSeq(all, (page - 1) * AuditPageSize + 1, TheFirst(page * AuditPageSize, trail))

TotalPages == TheLast(1, (trail + AuditPageSize - 1) \div AuditPageSize)

-----------------------------------------------------------------------------
(* sortEntries                                                             *)

KeyOf(i, key) == IF key = "createdAt" THEN RowTime(i) ELSE RowActor(i)

CompareEntries(a, b, key) ==
  IF KeyOf(a, key) # KeyOf(b, key) THEN KeyOf(a, key) - KeyOf(b, key) ELSE a - b

\* Array.prototype.sort is stable.
SortEntries(entries, sort) ==
  LET factor == IF sort.direction = "asc" THEN 1 ELSE -1
      cmp(i, j) == factor * CompareEntries(entries[i], entries[j], sort.key)
      order == Ranked(DOMAIN entries, LAMBDA i, j : cmp(i, j) < 0 \/ (cmp(i, j) = 0 /\ i < j))
  IN [k \in DOMAIN entries |-> entries[order[k]]]

ToggleSort(current, key) ==
  IF current.key # key
  THEN [key |-> key, direction |-> IF key = "createdAt" THEN "desc" ELSE "asc"]
  ELSE [key |-> key, direction |-> IF current.direction = "asc" THEN "desc" ELSE "asc"]

-----------------------------------------------------------------------------
(* The page                                                                *)

MayFetch(v) == v.token > 0 /\ v.admin

\* The fetch effect, for the page and viewer it closes over.
StartFetch(h, v) ==
  IF ~MayFetch(v)
  THEN /\ history' = [h EXCEPT !.loading = FALSE]
       /\ UNCHANGED <<auditFetches, auditFetchCount, fetchOverlap>>
  ELSE /\ auditFetchCount < MaxAuditFetches /\ auditFetchCount' = auditFetchCount + 1
       /\ history' = [h EXCEPT !.loading = TRUE, !.error = "none"]
       /\ auditFetches' = auditFetches \cup {[page |-> h.page, n |-> auditFetchCount + 1]}
       /\ fetchOverlap' = (auditFetches # {})

BlankHistory == [entries |-> <<>>, for |-> 1, page |-> 1, totalPages |-> 1, loading |-> TRUE,
          error |-> "none", sort |-> DEFAULT_SORT]

AuditPageInit ==
  /\ trail = 0 /\ viewer = [token |-> 0, admin |-> FALSE]
  /\ history = [BlankHistory EXCEPT !.loading = FALSE]
  /\ auditFetches = {} /\ auditFetchCount = 0 /\ fetchOverlap = FALSE

\* The trail as it is when a visitor opens the page; the first fetch is part of
\* mounting it.
AuditPageStart ==
  /\ trail' \in 0..MaxTrail /\ viewer' \in [token : {0, 1}, admin : BOOLEAN]
  /\ history' = [BlankHistory EXCEPT !.loading = MayFetch(viewer')]
  /\ auditFetches' = IF MayFetch(viewer') THEN {[page |-> 1, n |-> 1]} ELSE {}
  /\ auditFetchCount' = Cardinality(auditFetches') /\ UNCHANGED fetchOverlap

RowWritten ==
  /\ trail < MaxTrail /\ trail' = trail + 1
  /\ UNCHANGED <<history, auditFetches, auditFetchCount, viewer, fetchOverlap>>

FetchAnswered(f, tie) ==
  /\ f \in auditFetches /\ auditFetches' = auditFetches \ {f}
  /\ history' = [history EXCEPT !.entries = Items(f.page, tie), !.for = f.page,
                                !.totalPages = TotalPages, !.loading = FALSE]
  /\ UNCHANGED <<trail, auditFetchCount, viewer, fetchOverlap>>

\* A 403 of adminMiddleware carries AUTH_ERROR, which isForbiddenError does
\* not take for a refusal: it is shown like any other failure.
AuditFetchFails(f) ==
  /\ f \in auditFetches /\ auditFetches' = auditFetches \ {f}
  /\ history' = [history EXCEPT !.error = "failed", !.loading = FALSE]
  /\ UNCHANGED <<trail, auditFetchCount, viewer, fetchOverlap>>

ViewerChanges(v) ==
  /\ v # viewer /\ viewer' = v /\ StartFetch(history, v) /\ UNCHANGED trail

HistoryListed == viewer.admin /\ ~history.loading /\ history.error = "none"

HistoryRetryView == viewer.admin /\ ~history.loading /\ history.error # "none"

RetryAudit == HistoryRetryView /\ StartFetch(history, viewer) /\ UNCHANGED <<trail, viewer>>

ToPage(p) ==
  /\ StartFetch([history EXCEPT !.page = p], viewer)
  /\ UNCHANGED <<trail, viewer>>

TurnAuditPage ==
  /\ HistoryListed /\ history.totalPages > 1
  /\ \/ history.page # 1 /\ ToPage(TheLast(1, history.page - 1))
     \/ history.page # history.totalPages /\ ToPage(TheFirst(history.totalPages, history.page + 1))

HandleSort(key) ==
  /\ HistoryListed /\ history.entries # <<>>
  /\ history' = [history EXCEPT !.sort = ToggleSort(@, key)]
  /\ UNCHANGED <<trail, auditFetches, auditFetchCount, viewer, fetchOverlap>>

AuditPageNext ==
  \/ RowWritten \/ RetryAudit \/ TurnAuditPage
  \/ \E f \in auditFetches : AuditFetchFails(f) \/ \E tie \in {"asc", "desc"} : FetchAnswered(f, tie)
  \/ \E v \in [token : {0, 1, 2}, admin : BOOLEAN] : ViewerChanges(v)
  \/ \E key \in SortKeys : HandleSort(key)

AuditPageSpec == AuditPageInit /\ [][AuditPageNext]_auditPageVars

AuditPageTypeOK ==
  /\ trail \in 0..MaxTrail /\ history.page \in Nat \ {0} /\ history.totalPages \in Nat \ {0}
  /\ \A f \in auditFetches : f.n \in 1..MaxAuditFetches

(* The rows listed under "Page n" were fetched for page n, unless a token  *)
(* or wallet change started a fetch while another was still in flight      *)
(* (admin/audit/page.tsx: fetchAuditHistory neither cancels nor orders).   *)
RowsOfAuditPage ==
  HistoryListed /\ MayFetch(viewer) /\ history.entries # <<>> /\ ~fetchOverlap /\ auditFetches = {}
    => history.for = history.page

(* Reversing the direction of a column reverses the list exactly, however  *)
(* many rows share the key: the ids break every tie (compareEntries).      *)
ReversingSortReverses ==
  \A key \in SortKeys :
    LET up == SortEntries(history.entries, [key |-> key, direction |-> "asc"])
        down == SortEntries(history.entries, [key |-> key, direction |-> "desc"])
    IN \A k \in DOMAIN up : up[k] = down[Len(down) + 1 - k]

-----------------------------------------------------------------------------
(***************************************************************************)
(* OutboxScan                                                              *)
(*                                                                         *)
(* The outbox consistency scan against live writers: the listener records  *)
(* an event and later applies it to the trade, sweeps and batches move     *)
(* trades with no event at all, and the scan reads the trades first and    *)
(* the outbox trade by trade afterwards, with time passing in between.     *)
(***************************************************************************)

CONSTANTS
  ScanTrades,        \* trades
  ScanWindow,        \* timeWindowMinutes
  WarnAge, CriticalAge,   \* ages, in the same unit, above which a gap is serious
  LastMinute,        \* bound: time
  MaxScans           \* bound: scans started

VARIABLES
  scanRows,          \* the trades: status, updatedAt, and what moved them
  outboxRows,        \* (trade, createdAt, event) of the recorded events
  scan,              \* the scan job
  scanMinute, scansRun

scanVars == <<scanRows, outboxRows, scan, scanMinute, scansRun>>

PENDING_SIGNATURE == "PENDING_SIGNATURE"
ScanEvents == {"TradeCreated", "TradeFunded", "DisputeInitiated", "DisputeResolved"}

\* EVENT_TO_STATUS, for the events in play.
ProjectedStatus(e) ==
  CASE e = "TradeCreated" -> "CREATED" [] e = "TradeFunded" -> "FUNDED"
    [] e = "DisputeInitiated" -> "DISPUTED" [] e = "DisputeResolved" -> "COMPLETED"
    [] OTHER -> "NONE"

\* The event that can follow in each status.
EventFrom(status) ==
  CASE status = PENDING_SIGNATURE -> {"TradeCreated"} [] status = "CREATED" -> {"TradeFunded"}
    [] status = "FUNDED" -> {"DisputeInitiated"} [] status = "DISPUTED" -> {"DisputeResolved"}
    [] OTHER -> {}

ACTION_EVENT_MAPPINGS ==
  {[events |-> {}, status |-> PENDING_SIGNATURE], [events |-> {}, status |-> "CREATED"],
   [events |-> {"TradeFunded"}, status |-> "FUNDED"],
   [events |-> {"DisputeInitiated"}, status |-> "DISPUTED"],
   [events |-> {"DisputeResolved"}, status |-> "COMPLETED"], [events |-> {}, status |-> "EXPIRED"]}

\* Statuses set by an action that is expected to leave no event.
SilentStatuses == {m.status : m \in {a \in ACTION_EVENT_MAPPINGS : a.events = {}}}

NoMove == [event |-> "none", recordedAt |-> 0]
NoScan == [phase |-> "idle", since |-> 0, todo |-> {}, gaps |-> {}, alert |-> "none", stored |-> FALSE]

ScanInit ==
  /\ scanRows = [t \in ScanTrades |-> [status |-> PENDING_SIGNATURE, at |-> 0, move |-> NoMove]]
  /\ outboxRows = {} /\ scan = NoScan /\ scanMinute = 0 /\ scansRun = 0

\* The trades the scanner finds.
ScanStart ==
  /\ scanRows' \in [ScanTrades -> [status : {PENDING_SIGNATURE, "CREATED"}, at : {0}, move : {NoMove}]]
  /\ UNCHANGED <<outboxRows, scan, scanMinute, scansRun>>

-----------------------------------------------------------------------------
(* Writers                                                                 *)

\* The listener stores the event before anything is applied.
EventRecorded(t, e) ==
  /\ e \in EventFrom(scanRows[t].status)
  /\ ~\E r \in outboxRows : r.trade = t /\ r.event = e
  /\ outboxRows' = outboxRows \cup {[trade |-> t, event |-> e, at |-> scanMinute]}
  /\ UNCHANGED <<scanRows, scan, scanMinute, scansRun>>

ListenerApplies(r) ==
  /\ r \in outboxRows /\ r.event \in EventFrom(scanRows[r.trade].status)
  /\ scanRows' = [scanRows EXCEPT ![r.trade] =
       [status |-> ProjectedStatus(r.event), at |-> scanMinute,
        move |-> [event |-> r.event, recordedAt |-> r.at]]]
  /\ UNCHANGED <<outboxRows, scan, scanMinute, scansRun>>

\* The expiry sweep: a status change with no event.
TradeSwept(t) ==
  /\ scanRows[t].status \in {"CREATED", "FUNDED"}
  /\ scanRows' = [scanRows EXCEPT ![t] = [status |-> "EXPIRED", at |-> scanMinute, move |-> NoMove]]
  /\ UNCHANGED <<outboxRows, scan, scanMinute, scansRun>>

ScanMinutePasses ==
  /\ scanMinute < LastMinute /\ scanMinute' = scanMinute + 1
  /\ UNCHANGED <<scanRows, outboxRows, scan, scansRun>>

-----------------------------------------------------------------------------
(* scanOutboxCompleteness and processOutboxScanJob                         *)

ScanStarts ==
  /\ scan.phase = "idle" /\ scansRun < MaxScans /\ scansRun' = scansRun + 1
  /\ LET since == scanMinute - ScanWindow IN
     scan' = [NoScan EXCEPT !.phase = "scanning", !.since = since,
                !.todo = {[trade |-> t, row |-> scanRows[t]] :
                           t \in {u \in ScanTrades : scanRows[u].at >= since}}]
  /\ UNCHANGED <<scanRows, outboxRows, scanMinute>>

\* Mutant: only events from the last change on count.
EntriesSinceChange(x) == {r \in outboxRows : r.trade = x.trade /\ r.at > x.row.at}

OutboxEntries(x) == {r \in outboxRows : r.trade = x.trade /\ r.at >= scan.since}

GapSeverity(age) ==
  IF age > CriticalAge THEN "critical" ELSE IF age > WarnAge THEN "warning" ELSE "info"

ScanChecks(x) ==
  /\ scan.phase = "scanning" /\ x \in scan.todo
  /\ LET age == scanMinute - x.row.at
         gap == [trade |-> x.trade, row |-> x.row, severity |-> GapSeverity(age), age |-> age]
     IN scan' = [scan EXCEPT !.todo = @ \ {x},
          !.gaps = IF OutboxEntries(x) = {} /\ x.row.status # PENDING_SIGNATURE THEN @ \cup {gap} ELSE @]
  /\ UNCHANGED <<scanRows, outboxRows, scanMinute, scansRun>>

\* Storing the report may fail; the alert goes out all the same.
ScanEnds ==
  /\ scan.phase = "scanning" /\ scan.todo = {}
  /\ \E stored \in BOOLEAN :
       scan' = [scan EXCEPT !.phase = "reported", !.stored = stored,
         !.alert = IF \E g \in scan.gaps : g.severity = "critical" THEN "outbox_critical_gaps" ELSE "none"]
  /\ UNCHANGED <<scanRows, outboxRows, scanMinute, scansRun>>

ScanThrows ==
  /\ scan.phase = "scanning"
  /\ scan' = [scan EXCEPT !.phase = "failed", !.gaps = {}, !.todo = {}, !.alert = "outbox_scan_failed"]
  /\ UNCHANGED <<scanRows, outboxRows, scanMinute, scansRun>>

ScanForgotten ==
  /\ scan.phase \in {"reported", "failed"} /\ scan' = NoScan
  /\ UNCHANGED <<scanRows, outboxRows, scanMinute, scansRun>>

ScanNext ==
  \/ \E t \in ScanTrades : TradeSwept(t) \/ \E e \in ScanEvents : EventRecorded(t, e)
  \/ \E r \in outboxRows : ListenerApplies(r)
  \/ ScanMinutePasses \/ ScanStarts \/ ScanEnds \/ ScanThrows \/ ScanForgotten
  \/ \E x \in scan.todo : ScanChecks(x)

ScanSpec == ScanInit /\ [][ScanNext]_scanVars

ScanTypeOK ==
  /\ \A t \in ScanTrades : scanRows[t].at \in 0..LastMinute
  /\ scan.phase \in {"idle", "scanning", "reported", "failed"} /\ scan.stored \in BOOLEAN

(* A trade that the listener moved is never reported as a gap, whatever    *)
(* the scan interleaves with: its event was recorded before the change,    *)
(* and the scan looks at the outbox after the trade. The one exception is  *)
(* an event recorded before the window and applied inside it               *)
(* (outboxScanner.ts: scanOutboxCompleteness).                             *)
ListenerMovesAreNoGaps ==
  \A g \in scan.gaps : g.row.move.event # "none" => g.row.move.recordedAt < scan.since

(* Every trade that the window finds in a status set without an event,     *)
(* pending ones apart, is in the finished report unless another event of   *)
(* the same trade in the window hides it, and the job raises its alert     *)
(* exactly when one of them was older than the critical age when it was    *)
(* examined. The statuses are those for which the action table itself      *)
(* expects no event (outboxScanner.ts: scanOutboxCompleteness,             *)
(* actionEventMapping.ts: ACTION_EVENT_MAPPINGS).                          *)
SilentChangesReported ==
  scan.phase = "reported" =>
    /\ scan.alert = "outbox_critical_gaps" <=> \E g \in scan.gaps : g.age > CriticalAge
    /\ \A t \in ScanTrades :
         scanRows[t].status \in SilentStatuses \ {PENDING_SIGNATURE} /\ scanRows[t].at >= scan.since
           /\ (\A r \in outboxRows : r.trade = t => r.at < scan.since)
           => (\E g \in scan.gaps : g.trade = t) \/ scanRows[t].at >= scan.since + ScanWindow

-----------------------------------------------------------------------------
(***************************************************************************)
(* DriftSweep                                                              *)
(*                                                                         *)
(* The daily reconciliation sweep: the wallets of active trades are        *)
(* collected, each wallet's balance is read from Horizon, its active       *)
(* trades are summed afterwards, and the drifts found decide the alert.    *)
(* Trades and balances keep moving while the sweep runs. Horizon writes a  *)
(* balance with decimals, which the sweep's integer parser rejects, so     *)
(* only the literal "0" of a missing trustline or account is compared.     *)
(***************************************************************************)

CONSTANTS
  DriftTrades,       \* trades; each names its buyer; one seller serves them all
  DriftAmount,       \* amountUsdc of a trade
  WarningBps, CriticalBps,
  MaxDriftMoves      \* bound: trades and balances moved

VARIABLES
  driftTrades, hasLine, driftRun, driftMoves,
  stirred,           \* ghost: wallets moved since the sweep began
  unfetched          \* ghost: wallets whose own check failed

driftVars == <<driftTrades, hasLine, driftRun, driftMoves, stirred, unfetched>>

DriftSeller == "seller"
DriftWallets == {DriftSeller} \cup DriftTrades
PartiesOf(t) == {DriftSeller, t}

ActiveDriftTrades == {t \in DriftTrades : driftTrades[t] = "FUNDED"}

NoSweep == [phase |-> "idle", todo |-> {}, collected |-> {}, reading |-> {}, reports |-> {},
            skipped |-> {}, alert |-> "none"]

DriftInit ==
  /\ driftTrades = [t \in DriftTrades |-> "FUNDED"]
  /\ hasLine = [w \in DriftWallets |-> TRUE]
  /\ driftRun = NoSweep /\ driftMoves = 0 /\ stirred = {} /\ unfetched = {}

\* The rows and the wallets the sweep finds.
DriftStart ==
  /\ driftTrades' \in [DriftTrades -> {"FUNDED", "COMPLETED"}]
  /\ hasLine' \in [DriftWallets -> BOOLEAN]
  /\ UNCHANGED <<driftRun, driftMoves, stirred, unfetched>>

\* collectActiveAddresses
Collect ==
  /\ driftRun.phase = "idle"
  /\ LET found == UNION {PartiesOf(t) : t \in ActiveDriftTrades} IN
     driftRun' = [NoSweep EXCEPT !.phase = "checking", !.todo = found, !.collected = found]
  /\ stirred' = {} /\ unfetched' = {}
  /\ UNCHANGED <<driftTrades, hasLine, driftMoves>>

\* BigInt(getAccountBalance(...)): "0" parses, a balance with decimals throws.
BalanceParses(w) == ~hasLine[w]

SkipOne(w) == [driftRun EXCEPT !.todo = @ \ {w}, !.skipped = @ \cup {w}]

\* The balance could not be fetched, or not be parsed.
AccountSkipped(w) ==
  /\ driftRun.phase = "checking" /\ w \in driftRun.todo /\ driftRun.reading = {}
  /\ driftRun' = SkipOne(w) /\ unfetched' = unfetched \cup {w}
  /\ UNCHANGED <<driftTrades, hasLine, driftMoves, stirred>>

BalanceRead(w) ==
  /\ driftRun.phase = "checking" /\ w \in driftRun.todo /\ driftRun.reading = {} /\ BalanceParses(w)
  /\ driftRun' = [driftRun EXCEPT !.reading = {w}]
  /\ UNCHANGED <<driftTrades, hasLine, driftMoves, stirred, unfetched>>

ExpectedBalance(w) == DriftAmount * Cardinality({t \in ActiveDriftTrades : w \in PartiesOf(t)})

DriftBps(balance, expected) ==
  LET drift == balance - expected
      driftAbs == IF drift < 0 THEN -drift ELSE drift
  IN IF expected > 0 THEN (driftAbs * 10000) \div expected ELSE 0

ClassifyDriftSeverity(bps) ==
  IF bps > CriticalBps THEN "critical" ELSE IF bps > WarningBps THEN "warning" ELSE "none"

\* The active trades are read after the balance; no drift at all leaves no report.
DriftChecked(w) ==
  /\ w \in driftRun.reading
  /\ LET expected == ExpectedBalance(w)
         severity == ClassifyDriftSeverity(DriftBps(0, expected))
     IN driftRun' = [driftRun EXCEPT !.reading = {}, !.todo = @ \ {w},
          !.reports = IF severity = "none" /\ expected = 0 THEN @
                      ELSE @ \cup {[wallet |-> w, severity |-> severity]}]
  /\ UNCHANGED <<driftTrades, hasLine, driftMoves, stirred, unfetched>>

SweepDone ==
  /\ driftRun.phase = "checking" /\ driftRun.todo = {} /\ driftRun.reading = {}
  /\ driftRun' = [driftRun EXCEPT !.phase = "done",
       !.alert = IF \E r \in driftRun.reports : r.severity = "critical" THEN "reconciliation_drift_critical"
                 ELSE IF \E r \in driftRun.reports : r.severity = "warning"
                 THEN "reconciliation_drift_warning"
                 ELSE "none"]
  /\ UNCHANGED <<driftTrades, hasLine, driftMoves, stirred, unfetched>>

\* Collecting or caching the summary fails: the failure is itself alerted.
SweepFails ==
  /\ driftRun.phase \in {"idle", "checking"} /\ driftRun.todo = {} /\ driftRun.reading = {}
  /\ driftRun' = [NoSweep EXCEPT !.phase = "failed", !.alert = "reconciliation_job_failure"]
  /\ UNCHANGED <<driftTrades, hasLine, driftMoves, stirred, unfetched>>

SweepAgain ==
  /\ driftRun.phase \in {"done", "failed"} /\ driftMoves < MaxDriftMoves /\ driftRun' = NoSweep
  /\ UNCHANGED <<driftTrades, hasLine, driftMoves, stirred, unfetched>>

\* The world moves on.
DriftTradeEnds(t) ==
  /\ driftTrades[t] = "FUNDED" /\ driftMoves < MaxDriftMoves
  /\ driftTrades' = [driftTrades EXCEPT ![t] = "COMPLETED"]
  /\ stirred' = stirred \cup PartiesOf(t) /\ driftMoves' = driftMoves + 1
  /\ UNCHANGED <<hasLine, driftRun, unfetched>>

LineMoves(w) ==
  /\ driftMoves < MaxDriftMoves /\ hasLine' = [hasLine EXCEPT ![w] = ~@]
  /\ stirred' = stirred \cup {w} /\ driftMoves' = driftMoves + 1
  /\ UNCHANGED <<driftTrades, driftRun, unfetched>>

DriftNext ==
  \/ Collect \/ SweepDone \/ SweepFails \/ SweepAgain
  \/ \E w \in driftRun.todo : AccountSkipped(w) \/ BalanceRead(w) \/ DriftChecked(w)
  \/ \E t \in DriftTrades : DriftTradeEnds(t)
  \/ \E w \in DriftWallets : LineMoves(w)

DriftSpec == DriftInit /\ [][DriftNext]_driftVars

DriftTypeOK ==
  /\ driftRun.todo \subseteq DriftWallets /\ driftRun.reading \subseteq driftRun.todo
  /\ driftRun.skipped \cap {r.wallet : r \in driftRun.reports} = {}

(* A wallet that holds nothing while active trades say that it should, and *)
(* that nothing moved during the sweep, is alerted as critical unless its  *)
(* own balance could not be fetched; a wallet that fails keeps no other    *)
(* from being compared (dailyReconciliation.service.ts: sweep).            *)
MissingFundsAlerted ==
  driftRun.phase = "done" =>
    \A w \in driftRun.collected \ (stirred \cup unfetched) :
      ExpectedBalance(w) > 0 => driftRun.alert = "reconciliation_drift_critical"
(* A drift alert names a wallet that really lacks the funds, or one that   *)
(* moved while the sweep ran, between the reading of its balance and of    *)
(* its trades (dailyReconciliation.service.ts: checkAccountDrift).         *)
AlarmsAreReal ==
  driftRun.phase = "done" /\ driftRun.alert # "none" =>
    \E r \in driftRun.reports :
      \/ r.wallet \in stirred
      \/ ExpectedBalance(r.wallet) > 0 /\ ~hasLine[r.wallet]

-----------------------------------------------------------------------------
(***************************************************************************)
(* FlakeReports                                                            *)
(*                                                                         *)
(* Flaky-test bookkeeping in CI. Each run writes a report of the candidate *)
(* flakes and the files it observed; the weekly summary reads the reports  *)
(* and classifies the quarantine entries; the registry of entries is       *)
(* edited through merges that its validator has to pass. Test files carry  *)
(* their scope, and an entry covers a set of files in one scope or in any. *)
(***************************************************************************)

CONSTANTS
  BackendFiles, FrontendFiles,   \* test files per scope, one test each
  MaxExpiryDays,     \* MAX_EXPIRY_DAYS
  LastCiDay,         \* bound: days
  MaxCiRuns, MaxMerges

VARIABLES
  quarantine,        \* the registry's entries
  reports,           \* report files of the week
  weekly,            \* the last summary
  ciDay, ciRuns, merges

flakeVars == <<quarantine, reports, weekly, ciDay, ciRuns, merges>>

TestFiles == BackendFiles \cup FrontendFiles
ScopeOf(f) == IF f \in BackendFiles THEN "backend" ELSE "frontend"
CiOutcomes == {"pass", "retried", "fail", "unseen"}

QuarantineEntries == [covers : SUBSET TestFiles \ {{}}, scope : {"backend", "other"},
            expires : 0..(LastCiDay + MaxExpiryDays + 1), justified : BOOLEAN]

NoSummary == [made |-> FALSE, new |-> {}, status |-> {}, seen |-> {}]

FlakeInit ==
  /\ quarantine = {} /\ reports = {} /\ weekly = NoSummary /\ ciDay = 0 /\ ciRuns = 0 /\ merges = 0

MatchesQuarantinePattern(entry, f) ==
  (entry.scope = "other" \/ entry.scope = ScopeOf(f)) /\ f \in entry.covers

-----------------------------------------------------------------------------
(* Per-run reports                                                         *)

\* A test that passed with recorded failures passed on a retry.
ExtractFlakeCandidates(run) == {f \in TestFiles : run[f] \in {"retried", "fail"}}

CountFailures(run, f) == IF run[f] = "fail" THEN 1 ELSE 0

ExtractObservedFiles(run) ==
  {[file |-> f, failures |-> CountFailures(run, f)] : f \in {g \in TestFiles : run[g] # "unseen"}}

CiRun ==
  /\ ciRuns < MaxCiRuns /\ ciRuns' = ciRuns + 1
  /\ \E run \in [TestFiles -> CiOutcomes] :
       reports' = reports \cup {[id |-> ciRuns, candidates |-> ExtractFlakeCandidates(run),
                                 observed |-> ExtractObservedFiles(run), run |-> run]}
  /\ UNCHANGED <<quarantine, weekly, ciDay, merges>>

-----------------------------------------------------------------------------
(* Weekly summary                                                          *)

Observations == UNION {{[id |-> r.id, file |-> o.file,
                         failures |-> o.failures] : o \in r.observed} : r \in reports}

ClassifyQuarantineEntry(entry) ==
  LET matches == {o \in Observations : MatchesQuarantinePattern(entry, o.file)}
      failures == MapThenSumSet(LAMBDA o : o.failures, matches)
  IN IF matches = {} THEN "not-observed"
     ELSE IF failures > 0 THEN "still-flaky" ELSE "ready-for-repromotion"

GenerateWeeklySummary ==
  /\ reports # {}
  /\ weekly' = [made |-> TRUE,
       new |-> {f \in UNION {r.candidates : r \in reports} :
                 ~\E e \in quarantine : MatchesQuarantinePattern(e, f)},
       status |-> {<<e, ClassifyQuarantineEntry(e)>> : e \in quarantine},
       seen |-> reports]
  /\ UNCHANGED <<quarantine, reports, ciDay, ciRuns, merges>>

-----------------------------------------------------------------------------
(* The registry and its validator                                          *)

EntryErrors(entry) ==
  entry.expires < ciDay \/ (entry.expires - ciDay > MaxExpiryDays /\ ~entry.justified)

\* The same scope and pattern twice.
Duplicates(entries) ==
  \E e, d \in entries : e # d /\ e.scope = d.scope /\ e.covers = d.covers

ValidateRegistry(entries) == (\A e \in entries : ~EntryErrors(e)) /\ ~Duplicates(entries)

Merge(entries) ==
  /\ merges < MaxMerges /\ merges' = merges + 1
  /\ entries # quarantine /\ ValidateRegistry(entries) /\ quarantine' = entries
  /\ UNCHANGED <<reports, weekly, ciDay, ciRuns>>

CiDayPasses ==
  /\ ciDay < LastCiDay /\ ciDay' = ciDay + 1
  /\ UNCHANGED <<quarantine, reports, weekly, ciRuns, merges>>

FlakeNext ==
  \/ CiRun \/ GenerateWeeklySummary \/ CiDayPasses
  \/ \E e \in QuarantineEntries : Merge(quarantine \cup {e})
  \/ \E e \in quarantine : Merge(quarantine \ {e})

FlakeSpec == FlakeInit /\ [][FlakeNext]_flakeVars

FlakeTypeOK == quarantine \subseteq QuarantineEntries /\ ciDay \in 0..LastCiDay

(* An entry is called still flaky exactly when a file it covers, in a      *)
(* scope it covers, failed outright in one of the summarised runs, and     *)
(* ready for re-promotion only when none did. A test that kept passing on  *)
(* a retry counts as clean here, although the same runs list it as a       *)
(* candidate (flake-reporter.mjs: classifyQuarantineEntries).              *)
StatusFollowsRuns ==
  \A p \in weekly.status :
    LET failed == \E r \in weekly.seen, f \in TestFiles :
                    MatchesQuarantinePattern(p[1], f) /\ r.run[f] = "fail"
    IN (p[2] = "still-flaky" <=> failed) /\ (p[2] = "ready-for-repromotion" => ~failed)

-----------------------------------------------------------------------------
\* The parts side by side: a behaviour follows one of them.

auditsVars == <<auditVars, auditPageVars, scanVars, driftVars, flakeVars>>

AuditsInit ==
  /\ AuditInit
  /\ AuditPageInit
  /\ ScanInit
  /\ DriftInit
  /\ FlakeInit

AuditsNext ==
  \/ /\ \/ TurnTo("AuditLog") /\ UNCHANGED auditVars
        \/ StaysWith("AuditLog") /\ AuditNext
     /\ UNCHANGED <<auditPageVars, scanVars, driftVars, flakeVars>>
  \/ /\ \/ TurnTo("AuditPage") /\ AuditPageStart
        \/ StaysWith("AuditPage") /\ AuditPageNext
     /\ UNCHANGED <<auditVars, scanVars, driftVars, flakeVars>>
  \/ /\ \/ TurnTo("OutboxScan") /\ ScanStart
        \/ StaysWith("OutboxScan") /\ ScanNext
     /\ UNCHANGED <<auditVars, auditPageVars, driftVars, flakeVars>>
  \/ /\ \/ TurnTo("DriftSweep") /\ DriftStart
        \/ StaysWith("DriftSweep") /\ DriftNext
     /\ UNCHANGED <<auditVars, auditPageVars, scanVars, flakeVars>>
  \/ /\ \/ TurnTo("FlakeReports") /\ UNCHANGED flakeVars
        \/ StaysWith("FlakeReports") /\ FlakeNext
     /\ UNCHANGED <<auditVars, auditPageVars, scanVars, driftVars>>

AuditsTypeOK ==
  /\ subject = "AuditLog" => AuditTypeOK
  /\ subject = "AuditPage" => AuditPageTypeOK
  /\ subject = "OutboxScan" => ScanTypeOK
  /\ subject = "DriftSweep" => DriftTypeOK
  /\ subject = "FlakeReports" => FlakeTypeOK
=============================================================================
