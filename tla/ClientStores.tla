----------------------------- MODULE ClientStores ----------------------------
\* What the web pages stand on: the optimistic store, the cached list, the search
\* overlay and the error pages.
EXTENDS Subject, Integers, Sequences, SequencesExt, FiniteSets

-----------------------------------------------------------------------------
(***************************************************************************)
(* OptimisticStore                                                         *)
(*                                                                         *)
(* The web client's trade and dispute stores: lists fetched by page, and   *)
(* changes shown before the server has answered, taken back from a         *)
(* snapshot when it refuses.  Both stores have the same shape; an update   *)
(* is updateTrade with a server call, updateTradeOptimistic, or the        *)
(* dispute store's resolveDisputeOptimistic.  The server call is the       *)
(* caller's and may be executed although its answer is lost.               *)
(***************************************************************************)

CONSTANTS
  StoreTrades,   \* the trades the server starts with
  CreatedTrade,      \* a trade this client creates
  Patches,       \* statuses an update may set
  StorePage,     \* rows of a page
  DedupWindow,   \* DEDUP_WINDOW_MS, in ticks
  MaxCalls       \* bound: calls to the server

VARIABLES
  store,      \* rows, total and page
  server,     \* the server's rows, newest first
  calls,      \* the calls made, in order: snapshots, what the server did
  dedupMap,   \* ticks left of a registered action key
  muddied     \* history: trades touched by two calls at once, or whose answer was lost

optimisticVars == <<store, server, calls, dedupMap, muddied>>

NoneSaved == "none"
StoreIds == StoreTrades \union {CreatedTrade}
StoreRow(t, status) == [id |-> t, status |-> status]
Find(rows, t) == SelectSeq(rows, LAMBDA r : r.id = t)
Without(rows, t) == SelectSeq(rows, LAMBDA r : r.id # t)
Patched(rows, t, row) == [i \in DOMAIN rows |-> IF rows[i].id = t THEN row ELSE rows[i]]
ActionKeys == {<<"update", t, p>> : t \in StoreTrades, p \in Patches}
              \union {<<"remove", t, NoneSaved>> : t \in StoreTrades}

OptimisticInit ==
  /\ server = SetToSeq({StoreRow(t, "DISPUTED") : t \in StoreTrades})
  /\ store = [rows |-> <<>>, total |-> 0, page |-> 1, held |-> {}]
  /\ calls = <<>>
  /\ dedupMap = [k \in ActionKeys |-> 0]
  /\ muddied = StoreIds

Flying == {c \in DOMAIN calls : calls[c].stage # "over"}

\* An update of a listed row touches that row; one of a trade that is not
\* listed falls back on the whole list.
Touched(call, rows) ==
  IF call.kind = "create" \/ (call.kind = "update" /\ Find(rows, call.id) # <<>>) THEN {call.id}
      ELSE StoreIds

\* A call begins: the rows it and a call in flight both touch are muddied.
CallBegins(call) ==
  /\ Len(calls) < MaxCalls
  /\ calls' = Append([c \in DOMAIN calls |-> [calls[c] EXCEPT !.alone = FALSE]],
                     [kind |-> call.kind, id |-> call.id, patch |-> call.patch, page |-> call.page,
                      before |-> store.rows,
                      total |-> store.total, stage |-> "sent", answer |-> <<>>, alone |-> Flying = {}])
  /\ muddied' = muddied \union
       UNION {Touched(call, store.rows) \intersect Touched(calls[c], calls[c].before) : c \in Flying}

ShouldDedup(key) == dedupMap[key] > 0
RegisterAction(key) == dedupMap' = [dedupMap EXCEPT ![key] = DedupWindow]

\* updateTrade and its kin: a row that is not listed is not changed.
UpdateTrade(t, p) ==
  LET key == <<"update", t, p>> IN
  /\ ~ShouldDedup(key) /\ RegisterAction(key)
  /\ CallBegins([kind |-> "update", id |-> t, patch |-> p, page |-> store.page])
  /\ store' = [store EXCEPT !.rows = Patched(@, t, StoreRow(t, p))]
  /\ UNCHANGED server

RemoveTrade(t) ==
  LET key == <<"remove", t, NoneSaved>> IN
  /\ store.total > 0
  /\ ~ShouldDedup(key) /\ RegisterAction(key)
  /\ CallBegins([kind |-> "remove", id |-> t, patch |-> NoneSaved, page |-> store.page])
  /\ store' = [store EXCEPT !.rows = Without(@, t), !.total = @ - 1]
  /\ UNCHANGED server

StoreFetch ==
  /\ CallBegins([kind |-> "fetch", id |-> CreatedTrade, patch |-> NoneSaved, page |-> store.page])
  /\ UNCHANGED <<store, server, dedupMap>>

\* setPage, and setFilter's return to page 1, fetch what they have set.
SetPage(page) ==
  /\ page # store.page
  /\ CallBegins([kind |-> "fetch", id |-> CreatedTrade, patch |-> NoneSaved, page |-> page])
  /\ store' = [store EXCEPT !.page = page]
  /\ UNCHANGED <<server, dedupMap>>

CreateTrade ==
  /\ \A c \in DOMAIN calls : calls[c].kind # "create"
  /\ CallBegins([kind |-> "create", id |-> CreatedTrade, patch |-> NoneSaved, page |-> store.page])
  /\ UNCHANGED <<store, server, dedupMap>>

PageRows(rows, page) ==
  SubSeq(rows, (page - 1) * StorePage + 1,
         IF page * StorePage < Len(rows) THEN page * StorePage ELSE Len(rows))

\* The server executes a call for a trade it has; a fetch reads its page.
ServerExecutes(c) ==
  LET call == calls[c] IN
  /\ call.stage = "sent"
  /\ call.kind \in {"update", "remove"} => Find(server, call.id) # <<>>
  /\ server' = CASE call.kind = "update" -> Patched(server, call.id, StoreRow(call.id, call.patch))
                 [] call.kind = "remove" -> Without(server, call.id)
                 [] call.kind = "create" -> <<StoreRow(CreatedTrade, "DISPUTED")>> \o server
                 [] OTHER -> server
  /\ calls' = [calls EXCEPT ![c].stage = "done",
                            ![c].answer = IF call.kind = "fetch" THEN PageRows(server, call.page) ELSE <<>>,
                            ![c].total = IF call.kind = "fetch" THEN Len(server) ELSE @]
  /\ UNCHANGED <<store, dedupMap, muddied>>

CallOver(c) == calls' = [calls EXCEPT ![c].stage = "over", ![c].answer = <<>>, ![c].before = <<>>]

FetchLands(c) ==
  /\ calls[c].kind = "fetch" /\ calls[c].stage = "done"
  /\ store' = [store EXCEPT !.rows = calls[c].answer, !.total = calls[c].total,
                            !.held = {calls[c].answer[i].id : i \in DOMAIN calls[c].answer}]
  /\ muddied' = IF calls[c].alone THEN {} ELSE muddied
  /\ CallOver(c)
  /\ UNCHANGED <<server, dedupMap>>

\* addTrade puts the created trade first, whatever the list holds by then.
AddTrade(c) ==
  /\ calls[c].kind = "create" /\ calls[c].stage = "done"
  /\ store' = [store EXCEPT !.rows = <<StoreRow(CreatedTrade, "DISPUTED")>> \o @, !.total = @ + 1,
               !.held = @ \union {CreatedTrade}]
  /\ CallOver(c)
  /\ UNCHANGED <<server, dedupMap, muddied>>

ChangeConfirmed(c) ==
  /\ calls[c].kind \in {"update", "remove"} /\ calls[c].stage = "done"
  /\ CallOver(c)
  /\ UNCHANGED <<store, server, dedupMap, muddied>>

RestoreRow(call) ==
  LET snapshot == Find(call.before, call.id)
  IN [store EXCEPT !.rows = IF snapshot = <<>> THEN call.before ELSE Patched(@, call.id, snapshot[1])]

\* removeTrade restores the whole list and the total.
RestoreAfterRemoval(call) == [store EXCEPT !.rows = call.before, !.total = call.total]

\* The server refuses, or its answer is lost after it executed the call.
ChangeFails(c) ==
  /\ calls[c].kind \in {"update", "remove"} /\ calls[c].stage # "over"
  /\ store' = IF calls[c].kind = "update" THEN RestoreRow(calls[c]) ELSE RestoreAfterRemoval(calls[c])
  /\ muddied' = IF calls[c].stage = "done" THEN muddied \union {calls[c].id} ELSE muddied
  /\ CallOver(c)
  /\ UNCHANGED <<server, dedupMap>>

\* A failed fetch keeps the rows; a creation that failed, or whose answer was
\* lost, adds none.
CallFails(c) ==
  /\ calls[c].kind \in {"fetch", "create"} /\ calls[c].stage # "over"
  /\ muddied' = IF calls[c].stage = "done" /\ calls[c].kind = "create"
                THEN muddied \union {CreatedTrade} ELSE muddied
  /\ CallOver(c)
  /\ UNCHANGED <<store, server, dedupMap>>

\* The timer deletes the entries whose window is over.
DedupTick ==
  /\ \E k \in ActionKeys : dedupMap[k] > 0
  /\ dedupMap' = [k \in ActionKeys |-> IF dedupMap[k] > 0 THEN dedupMap[k] - 1 ELSE 0]
  /\ UNCHANGED <<store, server, calls, muddied>>

OptimisticNext ==
  \/ \E t \in StoreTrades : (\E p \in Patches : UpdateTrade(t, p)) \/ RemoveTrade(t)
  \/ StoreFetch \/ CreateTrade \/ DedupTick
  \/ \E page \in 1..2 : SetPage(page)
  \/ \E c \in DOMAIN calls :
       ServerExecutes(c) \/ FetchLands(c) \/ AddTrade(c) \/ ChangeConfirmed(c) \/ ChangeFails(c)
           \/ CallFails(c)

-----------------------------------------------------------------------------

OptimisticTypeOK ==
  /\ \A i \in DOMAIN store.rows : store.rows[i] \in [id : StoreIds, status : Patches \union {"DISPUTED"}]
  /\ store.total \in Nat /\ store.page \in 1..2 /\ store.held \subseteq StoreIds
  /\ dedupMap \in [ActionKeys -> 0..DedupWindow]
  /\ muddied \subseteq StoreIds
  /\ Len(calls) <= MaxCalls

\* Once every call is answered, a trade the list held and that no two calls
\* touched at once is shown as the server has it: with the server's status,
\* once, and gone only if the server removed it; the total is the server's
\* when no trade was touched twice.  A failed change takes back its own row
\* and no other call's.
SettledListMatchesServer ==
  Flying = {} =>
    /\ \A t \in store.held \ muddied : Find(store.rows, t) = Find(server, t)
    /\ muddied = {} => store.total = Len(server)

-----------------------------------------------------------------------------
(***************************************************************************)
(* CachedList                                                              *)
(*                                                                         *)
(* The web client's offline cache in local storage and the hooks that read *)
(* it first and refresh it from the server: useCachedTrades,               *)
(* useCachedTradeDetail and useCachedNotifications have the same steps.    *)
(* Data is modelled by the key it answers.                                 *)
(***************************************************************************)

CONSTANTS
  HookKeys,      \* keys of the hook's own domain
  OtherKeys,     \* keys of the other domains
  BigKeys,       \* keys whose entry takes BigBytes
  BigBytes, QuotaBytes

VARIABLES
  hook,       \* the mounted hook's state
  cached,     \* the entries in local storage, least recently written first
  offline,    \* isOffline
  orphan,     \* a fetch whose hook was unmounted
  switched    \* history: the key changed while a fetch was in flight

cacheVars == <<hook, cached, offline, orphan, switched>>

NoKey == "none"
CacheKeys == HookKeys \union OtherKeys
CacheEntry(k, of) == [key |-> k, of |-> of, stale |-> FALSE, corrupt |-> FALSE]
EntryOf(entries, k) == SelectSeq(entries, LAMBDA e : e.key = k)
Dropping(entries, keys) == SelectSeq(entries, LAMBDA e : e.key \notin keys)
KeySet(entries) == {entries[i].key : i \in DOMAIN entries}

EntryBytes(k) == IF k \in BigKeys THEN BigBytes ELSE 1
GetCacheUsageBytes(entries) == FoldSeq(LAMBDA e, n : n + EntryBytes(e.key), 0, entries)

\* evictLRU takes a corrupt entry first, then the one written longest ago.
EvictLRU(entries) ==
  LET corrupt == SelectSeq(entries, LAMBDA e : e.corrupt)
  IN Dropping(entries, IF corrupt # <<>> THEN {corrupt[1].key} ELSE {entries[1].key})

RoomFor(entries, k) ==
  LET evicted[n \in 0..Len(entries)] == IF n = 0 THEN entries ELSE EvictLRU(evicted[n - 1])
      fits(n) == GetCacheUsageBytes(evicted[n]) + EntryBytes(k) <= QuotaBytes
      enough == {n \in 0..Len(entries) : fits(n)}
  IN IF enough = {} THEN <<>> ELSE evicted[CHOOSE n \in enough : \A i \in enough : n <= i]

\* The write may be refused by the browser: room was made all the same.
CacheWrite(k, of) ==
  \E written \in BOOLEAN :
    LET room == RoomFor(cached, k)
    IN cached' = IF written THEN Append(Dropping(room, {k}), CacheEntry(k, of)) ELSE room

\* A corrupt entry is removed and is a miss.
ReadHits(k) == EntryOf(cached, k) # <<>> /\ ~EntryOf(cached, k)[1].corrupt
AfterRead(k) == IF ReadHits(k) THEN cached ELSE Dropping(cached, {k})

CacheInit ==
  /\ hook = [key |-> NoKey, data |-> NoKey, loading |-> FALSE, stale |-> FALSE, error |-> FALSE,
             fetching |-> NoKey]
  /\ cached = <<>> /\ offline = FALSE /\ orphan = NoKey /\ switched = FALSE

\* fetchFresh does nothing offline or while a fetch is in flight.
FetchFresh(h) == IF offline \/ h.fetching # NoKey THEN h ELSE [h EXCEPT !.fetching = h.key, !.error = FALSE]

\* The first render seeds the state from the cache.
MountHook(k) ==
  LET hit == ReadHits(k)
      seeded == [key |-> k, data |-> IF hit THEN EntryOf(cached, k)[1].of ELSE NoKey, loading |-> ~hit,
                 stale |-> hit /\ EntryOf(cached, k)[1].stale, error |-> FALSE, fetching |-> NoKey]
  IN /\ hook.key = NoKey
     /\ hook' = FetchFresh(seeded)
     /\ cached' = AfterRead(k)
     /\ switched' = FALSE
     /\ UNCHANGED <<offline, orphan>>

UnmountHook ==
  /\ hook.key # NoKey /\ orphan = NoKey
  /\ orphan' = hook.fetching
  /\ hook' = [hook EXCEPT !.key = NoKey, !.data = NoKey, !.loading = FALSE, !.stale = FALSE,
              !.error = FALSE, !.fetching = NoKey]
  /\ switched' = FALSE
  /\ UNCHANGED <<cached, offline>>

\* On a miss the previous key's data stays, under the loading flag.
RereadMiss(h) == [h EXCEPT !.loading = TRUE]

\* The key changes: the cache is read again, then a fetch is tried.
ChangeKey(k) ==
  LET moved == [hook EXCEPT !.key = k]
      reread == IF ReadHits(k)
                THEN [moved EXCEPT !.data = EntryOf(cached, k)[1].of,
                      !.stale = EntryOf(cached, k)[1].stale, !.loading = FALSE]
                ELSE RereadMiss(moved)
  IN /\ hook.key # NoKey /\ k # hook.key
     /\ hook' = FetchFresh(reread)
     /\ cached' = AfterRead(k)
     /\ switched' = (switched \/ hook.fetching # NoKey)
     /\ UNCHANGED <<offline, orphan>>

Refetch ==
  /\ hook.key # NoKey
  /\ hook' = FetchFresh(hook)
  /\ UNCHANGED <<cached, offline, orphan, switched>>

InvalidateAndRefetch ==
  /\ hook.key # NoKey
  /\ cached' = Dropping(cached, {hook.key})
  /\ hook' = FetchFresh([hook EXCEPT !.data = NoKey, !.loading = TRUE, !.stale = FALSE])
  /\ UNCHANGED <<offline, orphan, switched>>

FiledUnder(fetched) == fetched

\* The answer is written and shown whatever the key is by then.
CacheFetchAnswered ==
  /\ hook.fetching # NoKey
  /\ CacheWrite(FiledUnder(hook.fetching), hook.fetching)
  /\ hook' = [hook EXCEPT !.data = hook.fetching, !.stale = FALSE, !.loading = FALSE, !.fetching = NoKey]
  /\ switched' = (switched /\ hook.fetching # hook.key)
  /\ UNCHANGED <<offline, orphan>>

FetchFailed ==
  /\ hook.fetching # NoKey
  /\ hook' = [hook EXCEPT !.error = TRUE, !.loading = FALSE, !.fetching = NoKey]
  /\ UNCHANGED <<cached, offline, orphan, switched>>

OrphanAnswered ==
  /\ orphan # NoKey
  /\ CacheWrite(orphan, orphan) \/ UNCHANGED cached
  /\ orphan' = NoKey
  /\ UNCHANGED <<hook, offline, switched>>

\* Coming back online fetches again.
ConnectionChanges ==
  /\ offline' = ~offline
  /\ hook' = IF offline /\ hook.key # NoKey /\ hook.fetching = NoKey
             THEN [hook EXCEPT !.fetching = hook.key, !.error = FALSE] ELSE hook
  /\ UNCHANGED <<cached, orphan, switched>>

OtherDomainWrites(k) == CacheWrite(k, k) /\ UNCHANGED <<hook, offline, orphan, switched>>

CacheClearDomain(keys) ==
  /\ KeySet(cached) \intersect keys # {}
  /\ cached' = Dropping(cached, keys)
  /\ UNCHANGED <<hook, offline, orphan, switched>>

\* The TTL of an entry passes, or something else spoils it: an entry that does
\* not parse has no age to read.
EntryAges(i) ==
  /\ ~cached[i].corrupt
  /\ \/ ~cached[i].stale /\ cached' = [cached EXCEPT ![i].stale = TRUE]
     \/ cached' = [cached EXCEPT ![i].stale = FALSE, ![i].corrupt = TRUE]
  /\ UNCHANGED <<hook, offline, orphan, switched>>

CacheNext ==
  \/ \E k \in HookKeys : MountHook(k) \/ ChangeKey(k)
  \/ UnmountHook \/ Refetch \/ InvalidateAndRefetch
  \/ CacheFetchAnswered \/ FetchFailed \/ OrphanAnswered \/ ConnectionChanges
  \/ \E k \in OtherKeys : OtherDomainWrites(k)
  \/ \E keys \in {HookKeys, CacheKeys} : CacheClearDomain(keys)
  \/ \E i \in DOMAIN cached : EntryAges(i)

-----------------------------------------------------------------------------

CacheTypeOK ==
  /\ hook \in [key : HookKeys \union {NoKey}, data : HookKeys \union {NoKey}, loading : BOOLEAN,
               stale : BOOLEAN, error : BOOLEAN, fetching : HookKeys \union {NoKey}]
  /\ \A i \in DOMAIN cached : cached[i] \in [key : CacheKeys, of : CacheKeys, stale : BOOLEAN,
                                             corrupt : BOOLEAN]
  /\ Cardinality(KeySet(cached)) = Len(cached)
  /\ offline \in BOOLEAN /\ switched \in BOOLEAN
  /\ orphan \in HookKeys \union {NoKey}

\* Whatever changes of key, unmounts and late answers intervene, an entry
\* holds the answer to the key it is filed under.
EntriesAnswerTheirKey == \A i \in DOMAIN cached : cached[i].of = cached[i].key

\* What local storage holds fits the quota: a write makes room first, evicting
\* as many entries as that takes.
CacheFitsQuota == GetCacheUsageBytes(cached) <= QuotaBytes

\* Data shown with no loading flag, no error and no fetch for the key under way
\* answers the hook's own key, unless the key changed while a fetch was in flight: that fetch then hides
\* the new key's, and its answer is shown in its place.
ShownAnswersKey ==
  hook.data # NoKey /\ hook.data # hook.key => hook.loading \/ hook.error \/ hook.fetching = hook.key
      \/ switched

-----------------------------------------------------------------------------
(***************************************************************************)
(* SearchOverlay                                                           *)
(*                                                                         *)
(* The global search overlay: a debounced query, searches in flight whose  *)
(* answers are applied in the order they arrive, keyboard navigation over  *)
(* the grouped results, and the keyboard shortcut that opens and closes.   *)
(* A query is a model value; what the server finds for it is Found.        *)
(***************************************************************************)

CONSTANTS
  Queries,         \* non-blank texts a user types
  MaxSearches,     \* bound: searches sent
  MaxKeystrokes    \* bound: edits, openings and jumps

VARIABLES
  overlay,         \* the component's state
  debounce,        \* the query the timer was armed for
  searches,        \* searches in flight
  searchToken,     \* signed in
  lastIssued, lastLanded,    \* number of the latest search sent and answered
  keystrokes

searchVars == <<overlay, debounce, searches, searchToken, lastIssued, lastLanded, keystrokes>>

Categories == <<"trades", "users", "contracts">>
NoQuery == "blank"
NoTimer == "none"

\* Two trades and a contract for one query, a user and a contract for others.
Found(q) == IF q = CHOOSE x \in Queries : TRUE THEN <<2, 0, 1>> ELSE <<0, 1, 1>>
EMPTY_RESULTS == [for |-> NoQuery, count |-> <<0, 0, 0>>]
Total == overlay.results.count[1] + overlay.results.count[2] + overlay.results.count[3]

Closed == [open |-> FALSE, query |-> NoQuery, results |-> EMPTY_RESULTS, loading |-> FALSE,
           error |-> "none", active |-> -1, jumped |-> "none"]

SearchInit ==
  /\ overlay = Closed /\ debounce = NoTimer /\ searches = {} /\ searchToken = TRUE
  /\ lastIssued = 0 /\ lastLanded = 0 /\ keystrokes = 0

\* The visitor is signed in, or not.
SearchStart ==
  /\ searchToken' \in BOOLEAN
  /\ UNCHANGED <<overlay, debounce, searches, lastIssued, lastLanded, keystrokes>>

Key == keystrokes < MaxKeystrokes /\ keystrokes' = keystrokes + 1

\* The category of the i-th listed item, counted from 0.
CategoryAt(i) ==
  LET c == overlay.results.count IN
  CASE i < c[1] -> "trades" [] i < c[1] + c[2] -> "users" [] OTHER -> "contracts"

-----------------------------------------------------------------------------
OpenSearch ==
  /\ ~overlay.open /\ Key
  /\ overlay' = [overlay EXCEPT !.open = TRUE, !.query = NoQuery, !.results = EMPTY_RESULTS,
                                !.error = "none", !.active = -1, !.jumped = "none"]
  /\ debounce' = NoTimer /\ UNCHANGED <<searches, searchToken, lastIssued, lastLanded>>

\* close keeps the error and the loading flag; the effect's cleanup clears the timer.
CloseSearch ==
  /\ overlay.open
  /\ overlay' = [overlay EXCEPT !.open = FALSE, !.query = NoQuery, !.results = EMPTY_RESULTS,
                                !.active = -1, !.jumped = "none"]
  /\ debounce' = NoTimer
  /\ UNCHANGED <<searches, searchToken, lastIssued, lastLanded, keystrokes>>

\* The effect of [query]: cleanup, then a new timer.
Rearmed(q) == q

TypeQuery(q) ==
  /\ overlay.open /\ q # overlay.query /\ Key
  /\ overlay' = [overlay EXCEPT !.query = q] /\ debounce' = Rearmed(q)
  /\ UNCHANGED <<searches, searchToken, lastIssued, lastLanded>>

\* A blank query: the selection stays where it was.
ClearQuery ==
  /\ overlay.open /\ overlay.query # NoQuery /\ Key
  /\ overlay' = [overlay EXCEPT !.query = NoQuery, !.results = EMPTY_RESULTS, !.error = "none",
                                !.jumped = "none"]
  /\ debounce' = NoTimer /\ UNCHANGED <<searches, searchToken, lastIssued, lastLanded>>

DebounceFires ==
  /\ debounce # NoTimer /\ debounce' = NoTimer
  /\ \/ /\ ~searchToken /\ overlay' = [overlay EXCEPT !.error = "signIn"]
        /\ UNCHANGED <<searches, lastIssued>>
     \/ /\ searchToken /\ lastIssued < MaxSearches /\ lastIssued' = lastIssued + 1
        /\ searches' = searches \cup {[q |-> debounce, n |-> lastIssued + 1]}
        /\ overlay' = [overlay EXCEPT !.loading = TRUE, !.error = "none"]
  /\ UNCHANGED <<searchToken, lastLanded, keystrokes>>

SearchAnswered(s) ==
  /\ s \in searches /\ searches' = searches \ {s} /\ lastLanded' = s.n
  /\ overlay' = [overlay EXCEPT !.results = [for |-> s.q, count |-> Found(s.q)], !.active = -1,
                                !.loading = FALSE, !.jumped = "none"]
  /\ UNCHANGED <<debounce, searchToken, lastIssued, keystrokes>>

SearchFails(s) ==
  /\ s \in searches /\ searches' = searches \ {s} /\ lastLanded' = s.n
  /\ overlay' = [overlay EXCEPT !.results = EMPTY_RESULTS, !.error = "failed", !.loading = FALSE,
                                !.jumped = "none"]
  /\ UNCHANGED <<debounce, searchToken, lastIssued, keystrokes>>

\* A token comes or goes: the effect runs again with the current query.
TokenChanges ==
  /\ Key /\ searchToken' = ~searchToken
  /\ overlay' = IF overlay.open /\ overlay.query = NoQuery
                THEN [overlay EXCEPT !.results = EMPTY_RESULTS, !.error = "none", !.jumped = "none"]
                ELSE overlay
  /\ debounce' = IF overlay.open /\ overlay.query # NoQuery THEN overlay.query ELSE NoTimer
  /\ UNCHANGED <<searches, lastIssued, lastLanded>>

-----------------------------------------------------------------------------
(* Navigation                                                              *)

BaseOffset(c) ==
  CASE c = "trades" -> 0
    [] c = "users" -> overlay.results.count[1]
    [] OTHER -> overlay.results.count[1] + overlay.results.count[2]

\* The quick-jump bar shows categories with results, when more than one has some.
Jumpable == {i \in 1..3 : overlay.results.count[i] > 0}

JumpToCategory(i) ==
  /\ overlay.open /\ Cardinality(Jumpable) > 1 /\ i \in Jumpable
  /\ overlay' = [overlay EXCEPT !.active = BaseOffset(Categories[i]), !.jumped = Categories[i]]
  /\ UNCHANGED <<debounce, searches, searchToken, lastIssued, lastLanded, keystrokes>>

Bounded(i) == IF i < Total - 1 THEN i ELSE Total - 1

ArrowKey ==
  /\ overlay.open
  /\ \E i \in {Bounded(overlay.active + 1), IF overlay.active > -1 THEN overlay.active - 1 ELSE -1} :
       overlay' = [overlay EXCEPT !.active = i, !.jumped = "none"]
  /\ UNCHANGED <<debounce, searches, searchToken, lastIssued, lastLanded, keystrokes>>

\* Enter on a listed item, or a click: the page opens and the overlay closes.
SelectResult == overlay.open /\ Total > 0 /\ CloseSearch

SearchNext ==
  \/ OpenSearch \/ CloseSearch \/ ClearQuery \/ DebounceFires \/ TokenChanges
  \/ \E q \in Queries : TypeQuery(q)
  \/ \E s \in searches : SearchAnswered(s) \/ SearchFails(s)
  \/ \E i \in 1..3 : JumpToCategory(i)
  \/ ArrowKey \/ SelectResult

SearchSpec == SearchInit /\ [][SearchNext]_searchVars

SearchTypeOK ==
  /\ overlay.query \in Queries \cup {NoQuery} /\ debounce \in Queries \cup {NoTimer}
  /\ overlay.active \in Int /\ searchToken \in BOOLEAN

(* Once nothing is pending, the results on the screen answer the query in  *)
(* the box, provided the last answer to land belongs to the last search    *)
(* sent (GlobalSearch.tsx: the debounced effect). An older answer that     *)
(* lands last replaces the newer one; nothing in the code orders them.     *)
SettledResultsAnswerQuery ==
  overlay.open /\ overlay.query # NoQuery /\ debounce = NoTimer /\ searches = {}
    /\ overlay.error = "none" /\ lastLanded = lastIssued
    => overlay.results.for = overlay.query

(* Jumping to a category highlights the first item of that category, which *)
(* is what Enter opens (jumpToCategory, allItems).                         *)
JumpHighlightsCategory ==
  overlay.jumped # "none" =>
    /\ overlay.active < Total /\ CategoryAt(overlay.active) = overlay.jumped
    /\ overlay.active > 0 => CategoryAt(overlay.active - 1) # overlay.jumped

-----------------------------------------------------------------------------
(***************************************************************************)
(* ErrorPages                                                              *)
(*                                                                         *)
(* The error boundaries of the web client. The admin layout uses a class   *)
(* component that keeps its reference in state; the pages Next.js mounts   *)
(* for the root, /dashboard and /trades segments and for the layout itself *)
(* (global-error) compute the reference whenever they render. Each reports *)
(* the crash once, when it mounts, and shows a reference for the user to   *)
(* quote to support.                                                       *)
(***************************************************************************)

CONSTANTS MaxCrashesSeen,  \* bound: crashes
          MaxClientIds     \* bound: references generated in the client

VARIABLES fallback,   \* what is on screen: the boundary, its error, the reference
          reported,   \* references reported
          quoted,     \* the reference the user copied last, and whether it was redrawn
          clientIds,  \* references generated so far
          crashCount, \* crashes so far
          reportCount \* reports so far

errorPageVars == <<fallback, reported, quoted, clientIds, crashCount, reportCount>>

ClassBoundaries == {"admin"}
SegmentPages == {"root", "dashboard", "trades"}
Boundaries == ClassBoundaries \cup SegmentPages \cup {"global"}

\* What a thrown error carries: the backend's request id, the digest Next.js
\* gives an error of the server, or neither.
Errors == {"backend", "digest", "bare"}

Reference(origin, n) == [origin |-> origin, n |-> n]
NoReference == Reference("none", 0)
NoFallback == [boundary |-> "none", error |-> "bare", reference |-> NoReference,
               redrawn |-> FALSE]

-----------------------------------------------------------------------------
\* generateCorrelationId.
FreshReference == Reference("client", clientIds + 1)

\* resolveCorrelationId: the backend's id wins over the client's.
ResolveCorrelationId(error, clientId) ==
  IF error = "backend" THEN Reference("backend", 0) ELSE clientId

\* The segment pages prefer the digest to a generated reference.
PageReference(error) ==
  ResolveCorrelationId(error, IF error = "digest" THEN Reference("digest", 0) ELSE FreshReference)

\* componentDidCatch puts the resolved reference in the state.
CaughtReference(error) == ResolveCorrelationId(error, FreshReference)

\* reportBoundaryError is sent and forgotten.
ReportBoundaryError(reference) ==
  /\ reported' = reported \cup {reference}
  /\ reportCount' = reportCount + 1

-----------------------------------------------------------------------------
\* A component below the boundary throws while it renders.
Caught(b, error, reference) ==
  /\ crashCount < MaxCrashesSeen /\ clientIds < MaxClientIds
  /\ fallback = NoFallback
  /\ fallback' = [boundary |-> b, error |-> error, reference |-> reference, redrawn |-> FALSE]
  /\ clientIds' = clientIds + 1
  /\ crashCount' = crashCount + 1
  /\ UNCHANGED quoted

\* getDerivedStateFromError, then componentDidCatch.
ClassCatches(b, error) ==
  /\ Caught(b, error, CaughtReference(error))
  /\ ReportBoundaryError(ResolveCorrelationId(error, FreshReference))

PageCatches(b, error) ==
  /\ Caught(b, error, PageReference(error))
  /\ ReportBoundaryError(PageReference(error))

GlobalCatches(error) == PageCatches("global", error)

\* The effect has no dependencies: a later render reports nothing.
RenderReports(reference) == UNCHANGED <<reported, reportCount>>

\* Something above the boundary renders again. The class shows what it has in
\* its state; a page computes its reference anew.
Redraw ==
  /\ fallback # NoFallback /\ clientIds < MaxClientIds
  /\ IF fallback.boundary \in ClassBoundaries
     THEN UNCHANGED <<fallback, clientIds, reported, reportCount>>
     ELSE /\ fallback' = [fallback EXCEPT !.reference = PageReference(fallback.error),
                                          !.redrawn = TRUE]
          /\ clientIds' = clientIds + 1
          /\ RenderReports(PageReference(fallback.error))
  /\ UNCHANGED <<quoted, crashCount>>

\* The fallback of the class, of the segment pages and of the whole document;
\* the last has no copy button, and its reference is read off the screen.
DefaultFallback == fallback.boundary \in ClassBoundaries
FallbackPage == fallback.boundary \in SegmentPages
GlobalFallback == fallback.boundary = "global"

HandleCopy ==
  /\ DefaultFallback \/ FallbackPage \/ GlobalFallback
  /\ quoted' = [reference |-> fallback.reference,
                redrawn |-> fallback.redrawn /\ fallback.error = "bare"]
  /\ UNCHANGED <<fallback, reported, clientIds, crashCount, reportCount>>

\* "Try again" renders the children again, which may throw again; the link
\* leaves the page.
HandleReset ==
  /\ fallback # NoFallback
  /\ fallback' = NoFallback
  /\ UNCHANGED <<reported, quoted, clientIds, crashCount, reportCount>>

-----------------------------------------------------------------------------
ErrorPageInit ==
  /\ fallback = NoFallback
  /\ reported = {}
  /\ quoted = [reference |-> NoReference, redrawn |-> FALSE]
  /\ clientIds = 0 /\ crashCount = 0 /\ reportCount = 0

ErrorPageNext ==
  \/ \E e \in Errors : \/ \E b \in ClassBoundaries : ClassCatches(b, e)
                       \/ \E b \in SegmentPages : PageCatches(b, e)
                       \/ GlobalCatches(e)
  \/ Redraw \/ HandleCopy \/ HandleReset

ErrorPageTypeOK ==
  /\ fallback.boundary \in Boundaries \cup {"none"}
  /\ fallback.error \in Errors
  /\ clientIds \in 0..MaxClientIds
  /\ crashCount \in 0..MaxCrashesSeen

\* A reference the user quotes to support is one that was reported, whichever
\* boundary showed it, unless a segment page drew itself again for an error
\* that carries no id of its own.
QuotedWasReported ==
  quoted.reference # NoReference => quoted.redrawn \/ quoted.reference \in reported

\* Every crash is reported exactly once, however often its fallback is drawn
\* and retried.
ReportedOncePerCrash == reportCount = crashCount

-----------------------------------------------------------------------------
\* The parts side by side: a behaviour follows one of them.

clientStoresVars == <<optimisticVars, cacheVars, searchVars, errorPageVars>>

ClientStoresInit ==
  /\ OptimisticInit
  /\ CacheInit
  /\ SearchInit
  /\ ErrorPageInit

ClientStoresNext ==
  \/ /\ \/ TurnTo("OptimisticStore") /\ UNCHANGED optimisticVars
        \/ StaysWith("OptimisticStore") /\ OptimisticNext
     /\ UNCHANGED <<cacheVars, searchVars, errorPageVars>>
  \/ /\ \/ TurnTo("CachedList") /\ UNCHANGED cacheVars
        \/ StaysWith("CachedList") /\ CacheNext
     /\ UNCHANGED <<optimisticVars, searchVars, errorPageVars>>
  \/ /\ \/ TurnTo("SearchOverlay") /\ SearchStart
        \/ StaysWith("SearchOverlay") /\ SearchNext
     /\ UNCHANGED <<optimisticVars, cacheVars, errorPageVars>>
  \/ /\ \/ TurnTo("ErrorPages") /\ UNCHANGED errorPageVars
        \/ StaysWith("ErrorPages") /\ ErrorPageNext
     /\ UNCHANGED <<optimisticVars, cacheVars, searchVars>>

ClientStoresTypeOK ==
  /\ subject = "OptimisticStore" => OptimisticTypeOK
  /\ subject = "CachedList" => CacheTypeOK
  /\ subject = "SearchOverlay" => SearchTypeOK
  /\ subject = "ErrorPages" => ErrorPageTypeOK
=============================================================================
