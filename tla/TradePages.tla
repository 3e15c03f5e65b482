------------------------------ MODULE TradePages -----------------------------
\* The web pages a trader works on.
EXTENDS Subject, Naturals, Sequences, SequencesExt, FiniteSets

-----------------------------------------------------------------------------
(***************************************************************************)
(* TradePage                                                               *)
(*                                                                         *)
(* The web page of one trade: it is loaded, offers actions by role and     *)
(* status, asks the backend for a transaction and the wallet to sign it.   *)
(* The backend's checks are those of its trade controller.  Nothing is     *)
(* submitted by the page; the trade moves elsewhere.                       *)
(***************************************************************************)

CONSTANTS
  MaxTries    \* bound: actions tried

VARIABLES
  me,        \* the caller's role, as deriveRole finds it
  row,       \* the backend's row: status, and whether a dispute is recorded
  detail,    \* the page: what it shows and what it waits for
  moved,     \* history: the row changed since the page loaded it
  refusal,   \* history: the action refused last, and whether the row had moved
  prompts,   \* history: wallet prompts open
  tries

tradePageVars == <<me, row, detail, moved, refusal, prompts, tries>>

PageActions == {"deposit", "confirm", "release", "dispute"}
Nothing == "none"

TradePageInit ==
  /\ me = "buyer"
  /\ row = [status |-> "CREATED", disputed |-> FALSE]
  /\ detail = [shown |-> Nothing, loading |-> TRUE, error |-> FALSE, acting |-> Nothing,
               stage |-> Nothing, signed |-> Nothing]
  /\ moved = FALSE /\ refusal = [of |-> Nothing, moved |-> FALSE, repeated |-> FALSE]
  /\ prompts = 0 /\ tries = 0

\* Either party opens the page, or somebody else.
TradePageStart ==
  /\ me' \in {"buyer", "seller", "observer"}
  /\ UNCHANGED <<row, detail, moved, refusal, prompts, tries>>

\* fetchTrade
TradeLoaded ==
  /\ detail.loading
  /\ detail' = [detail EXCEPT !.loading = FALSE, !.shown = row.status]
  /\ moved' = FALSE
  /\ UNCHANGED <<me, row, refusal, prompts, tries>>

TradeLoadFails ==
  /\ detail.loading
  /\ detail' = [detail EXCEPT !.loading = FALSE, !.error = TRUE]
  /\ UNCHANGED <<me, row, moved, refusal, prompts, tries>>

RetryView == detail.error /\ ~detail.loading

RetryLoad ==
  /\ RetryView
  /\ detail' = [detail EXCEPT !.loading = TRUE, !.error = FALSE]
  /\ UNCHANGED <<me, row, moved, refusal, prompts, tries>>

TradeView == ~detail.loading /\ ~detail.error /\ detail.shown # Nothing

\* Which buttons the role and the shown status bring up.
ActionShown(a) ==
  CASE a = "deposit" -> me = "buyer" /\ detail.shown = "PENDING"
    [] a = "confirm" -> me = "buyer" /\ detail.shown = "FUNDED"
    [] a = "release" -> me = "seller" /\ detail.shown \in {"FUNDED", "CONFIRMED"}
    [] a = "dispute" -> me # "observer" /\ detail.shown = "FUNDED"

ActionLive(a) == TradeView /\ ActionShown(a) /\ detail.acting = Nothing

\* runAction: ask the backend for the transaction.
RunAction(a) ==
  /\ tries < MaxTries /\ ActionLive(a)
  /\ tries' = tries + 1
  /\ detail' = [detail EXCEPT !.acting = a, !.stage = "asking", !.signed = Nothing]
  /\ UNCHANGED <<me, row, moved, refusal, prompts>>

\* The controller's checks; a dispute is recorded before it is signed.
ServerAccepts(a) ==
  CASE a = "deposit" -> me = "buyer" /\ row.status = "CREATED"
    [] a = "confirm" -> me = "buyer" /\ row.status = "FUNDED"
    [] a = "release" -> me = "buyer" /\ row.status = "DELIVERED"
    [] a = "dispute" -> me # "observer" /\ row.status \in {"FUNDED", "DELIVERED"} /\ ~row.disputed

TransactionBuilt ==
  /\ detail.stage = "asking" /\ ServerAccepts(detail.acting)
  /\ row' = [row EXCEPT !.disputed = @ \/ detail.acting = "dispute"]
  /\ detail' = [detail EXCEPT !.stage = "signing"]
  /\ prompts' = prompts + 1
  /\ UNCHANGED <<me, moved, refusal, tries>>

Acted == [detail EXCEPT !.acting = Nothing, !.stage = Nothing]

ActionRefused ==
  /\ detail.stage = "asking" /\ ~ServerAccepts(detail.acting)
  /\ detail' = Acted
  /\ refusal' = [of |-> detail.acting, moved |-> moved,
                 repeated |-> detail.acting = "dispute" /\ row.disputed]
  /\ UNCHANGED <<me, row, moved, prompts, tries>>

\* The request fails, after the backend may have recorded the dispute.
ActionLost ==
  /\ detail.stage = "asking"
  /\ \E served \in BOOLEAN :
       LET opens == served /\ detail.acting = "dispute" /\ ServerAccepts("dispute")
       IN row' = [row EXCEPT !.disputed = @ \/ opens]
  /\ detail' = Acted
  /\ UNCHANGED <<me, moved, refusal, prompts, tries>>

\* Signed: the page says so and loads the trade again.
ActionSigned ==
  /\ detail.stage = "signing"
  /\ prompts' = prompts - 1
  /\ detail' = [Acted EXCEPT !.signed = detail.acting, !.loading = TRUE, !.error = FALSE]
  /\ UNCHANGED <<me, row, moved, refusal, tries>>

SigningRefused ==
  /\ detail.stage = "signing"
  /\ prompts' = prompts - 1
  /\ detail' = Acted
  /\ UNCHANGED <<me, row, moved, refusal, tries>>

\* The projection moves the row.
TradeMoves ==
  /\ \E s \in CASE row.status = "CREATED" -> {"FUNDED"}
                [] row.status = "FUNDED" -> {"DELIVERED", "DISPUTED"}
                [] row.status = "DELIVERED" -> {"COMPLETED"} [] OTHER -> {} :
       row' = [row EXCEPT !.status = s]
  /\ moved' = TRUE
  /\ UNCHANGED <<me, detail, refusal, prompts, tries>>

TradePageNext ==
  \/ TradeLoaded \/ TradeLoadFails \/ RetryLoad \/ TradeMoves
  \/ \E a \in PageActions : RunAction(a)
  \/ TransactionBuilt \/ ActionRefused \/ ActionLost \/ ActionSigned \/ SigningRefused

-----------------------------------------------------------------------------

TradePageTypeOK ==
  /\ me \in {"buyer", "seller", "observer"}
  /\ detail.acting \in PageActions \union {Nothing} /\ detail.stage \in {Nothing, "asking", "signing"}
  /\ refusal.of \in PageActions \union {Nothing}
  /\ prompts \in 0..MaxTries /\ tries \in 0..MaxTries

\* The wallet is asked for one signature at a time, and only for the action
\* the page says it is processing.
OneWalletPrompt == prompts = (IF detail.stage = "signing" THEN 1 ELSE 0)

\* A confirmation or a dispute the page offers is refused only when the trade
\* moved after it was loaded, or when the dispute was recorded by an earlier
\* attempt whose transaction was not signed.  (A release is offered to the
\* seller and accepted from the buyer; a deposit waits for a status the
\* backend does not have.)
RefusedOnlyIfMoved ==
  refusal.of \in {"confirm", "dispute"} => refusal.moved \/ refusal.repeated

-----------------------------------------------------------------------------
(***************************************************************************)
(* TradesPage                                                              *)
(*                                                                         *)
(* The list of trades on the web: filter tabs, pages of ten (one here),    *)
(* and one fetch for every change of filter or page, none of them          *)
(* cancelled.                                                              *)
(***************************************************************************)

CONSTANTS
  TabFilters,     \* the tabs; "all" is one
  MaxTradePages,  \* bound: pages a filter can have
  MaxListFlights  \* bound: fetches in flight

VARIABLES
  tradeTab,      \* filter, page, rows shown, pages known, loading, error
  listFlights,   \* fetches in flight: the filter and page each asked for
  listPages,     \* the backend: pages each filter has
  misled         \* history: a page button used the totals of another tab's answer

tradesPageVars == <<tradeTab, listFlights, listPages, misled>>

NoRows == [filter |-> "none", page |-> 0]

Asking == [filter |-> tradeTab.filter, page |-> tradeTab.page]

TradesPageInit ==
  /\ listPages = [f \in TabFilters |-> 1]
  /\ tradeTab = [filter |-> "all", page |-> 1, rows |-> NoRows, total |-> 1, loading |-> TRUE,
                 error |-> FALSE]
  /\ listFlights = {[filter |-> "all", page |-> 1]}
  /\ misled = FALSE

\* The trades the backend already holds.
TradesPageStart ==
  /\ listPages' \in [TabFilters -> 1..MaxTradePages]
  /\ UNCHANGED <<tradeTab, listFlights, misled>>

\* The effect runs when the filter or the page changed.
Refreshed(tab) ==
  LET ask == [filter |-> tab.filter, page |-> tab.page]
  IN  IF ask = Asking
      THEN tradeTab' = tab /\ UNCHANGED listFlights
      ELSE /\ Cardinality(listFlights \union {ask}) <= MaxListFlights
           /\ tradeTab' = [tab EXCEPT !.loading = TRUE, !.error = FALSE]
           /\ listFlights' = listFlights \union {ask}

HandleFilter(f) == [tradeTab EXCEPT !.filter = f, !.page = 1]

ChooseFilter ==
  /\ \E f \in TabFilters : Refreshed(HandleFilter(f))
  /\ misled' = FALSE
  /\ UNCHANGED listPages

PagerView == ~tradeTab.loading /\ ~tradeTab.error /\ tradeTab.total > 1

Previous ==
  /\ PagerView /\ tradeTab.page # 1
  /\ Refreshed([tradeTab EXCEPT !.page = @ - 1])
  /\ misled' = (misled \/ tradeTab.rows.filter # tradeTab.filter)
  /\ UNCHANGED listPages

Following ==
  /\ PagerView /\ tradeTab.page # tradeTab.total
  /\ Refreshed([tradeTab EXCEPT !.page = IF @ + 1 <= tradeTab.total THEN @ + 1 ELSE tradeTab.total])
  /\ misled' = (misled \/ tradeTab.rows.filter # tradeTab.filter)
  /\ UNCHANGED listPages

Answered(q) == [tradeTab EXCEPT !.rows = q, !.total = listPages[q.filter], !.loading = FALSE]

ListAnswered ==
  /\ \E q \in listFlights :
       /\ tradeTab' = Answered(q)
       /\ listFlights' = listFlights \ {q}
  /\ UNCHANGED <<listPages, misled>>

ListFails ==
  /\ \E q \in listFlights :
       /\ tradeTab' = [tradeTab EXCEPT !.error = TRUE, !.loading = FALSE]
       /\ listFlights' = listFlights \ {q}
  /\ UNCHANGED <<listPages, misled>>

TradesPageNext == ChooseFilter \/ Previous \/ Following \/ ListAnswered \/ ListFails

-----------------------------------------------------------------------------

TradesPageTypeOK ==
  /\ tradeTab.filter \in TabFilters /\ tradeTab.page \in 1..MaxTradePages
  /\ tradeTab.total \in 1..MaxTradePages
  /\ \A q \in listFlights : q.filter \in TabFilters /\ q.page \in 1..MaxTradePages

\* The page asked for exists under the chosen filter, whatever tabs and
\* buttons were pressed while answers were on their way: a filter starts at
\* its first page, and the buttons stop at the totals shown.  The exception is
\* a button pressed while the totals are those of another tab, whose answer
\* came late or failed to be replaced.
AskedPageExists == tradeTab.page <= listPages[tradeTab.filter] \/ misled

-----------------------------------------------------------------------------
(***************************************************************************)
(* VaultPage                                                               *)
(*                                                                         *)
(* The vault page of the web client: it loads totals and recent trades,    *)
(* and sends the driver manifest of the first funded or delivered one:     *)
(* backend, wallet, network.  The form is cleared and closed at once.      *)
(***************************************************************************)

CONSTANTS
  VaultTrades,    \* recent trades, in the order listed
  MaxManifests,   \* bound: forms submitted
  MaxVaultLoads   \* bound: times the page loads its data

VARIABLES
  vault,     \* the page: list shown, loading, error, dialog, manifest shown
  courier,   \* the manifest on its way: its number, trade and step
  funded,    \* backend: recent trades that are FUNDED or DELIVERED
  written,   \* forms sent so far
  acceptedManifests,  \* history: manifests the network took: number and trade
  vaultLoads

vaultVars == <<vault, courier, funded, written, acceptedManifests, vaultLoads>>

NoManifestYet == [n |-> 0, trade |-> 0]
NoCourier == {}

VaultInit ==
  /\ funded = {}
  /\ vault = [listed |-> FALSE, funded |-> {}, loading |-> TRUE, error |-> FALSE,
              open |-> FALSE, shown |-> NoManifestYet, status |-> "none"]
  /\ courier = NoCourier /\ written = 0 /\ acceptedManifests = {} /\ vaultLoads = 1

\* The trades already funded when the page opens.
VaultStart ==
  /\ funded' \in SUBSET VaultTrades
  /\ UNCHANGED <<vault, courier, written, acceptedManifests, vaultLoads>>

\* fetchVaultData
VaultLoaded ==
  /\ vault.loading
  /\ vault' = [vault EXCEPT !.loading = FALSE, !.listed = TRUE, !.funded = funded]
  /\ UNCHANGED <<courier, funded, written, acceptedManifests, vaultLoads>>

VaultLoadFails ==
  /\ vault.loading
  /\ vault' = [vault EXCEPT !.loading = FALSE, !.error = TRUE]
  /\ UNCHANGED <<courier, funded, written, acceptedManifests, vaultLoads>>

VaultErrorView == vault.error /\ ~vault.loading

VaultReloads ==
  /\ vaultLoads < MaxVaultLoads
  /\ vaultLoads' = vaultLoads + 1
  /\ vault' = [vault EXCEPT !.loading = TRUE, !.error = FALSE]
  /\ UNCHANGED <<courier, funded, written, acceptedManifests>>

RetryVault == VaultErrorView /\ VaultReloads

\* The effect runs again for a renewed token.
TokenRenewed == ~vault.loading /\ VaultReloads

RecentTrades == SetToSortSeq(VaultTrades, <)

\* The first funded or delivered trade, else the first; none while unlisted.
ManifestTrade ==
  LET ready == SelectSeq(RecentTrades, LAMBDA t : t \in vault.funded)
  IN  IF ~vault.listed THEN 0 ELSE IF ready # <<>> THEN ready[1] ELSE RecentTrades[1]

ManifestView == ~vault.loading /\ ~vault.error /\ ~vault.open

OpenManifest ==
  /\ ManifestView
  /\ vault' = [vault EXCEPT !.open = TRUE]
  /\ UNCHANGED <<courier, funded, written, acceptedManifests, vaultLoads>>

HandleClose ==
  /\ vault.open
  /\ vault' = [vault EXCEPT !.open = FALSE]
  /\ UNCHANGED <<courier, funded, written, acceptedManifests, vaultLoads>>

ManifestSubmitting == courier # NoCourier

\* The form hands its fields to handleManifestComplete, then clears and closes
\* whether or not they were taken.
HandleManifestSubmit ==
  /\ vault.open /\ written < MaxManifests
  /\ written' = written + 1
  /\ LET taken == ~ManifestSubmitting /\ ManifestTrade # 0
     IN  /\ courier' = courier \union
              (IF taken THEN {[n |-> written + 1, trade |-> ManifestTrade, step |-> "backend"]} ELSE {})
         /\ vault' = [vault EXCEPT !.open = FALSE,
                        !.status = IF ManifestSubmitting THEN @ ELSE IF taken THEN "none"
                            ELSE "not connected"]
  /\ UNCHANGED <<funded, acceptedManifests, vaultLoads>>

ManifestAnswered ==
  /\ \E c \in courier : /\ c.step = "backend"
                        /\ courier' = (courier \ {c}) \union {[c EXCEPT !.step = "wallet"]}
  /\ UNCHANGED <<vault, funded, written, acceptedManifests, vaultLoads>>

ManifestSigned ==
  /\ \E c \in courier : /\ c.step = "wallet"
                        /\ courier' = (courier \ {c}) \union {[c EXCEPT !.step = "network"]}
  /\ UNCHANGED <<vault, funded, written, acceptedManifests, vaultLoads>>

Told(c) == [n |-> c.n, trade |-> c.trade]

ManifestSent ==
  /\ \E c \in courier :
       /\ c.step = "network"
       /\ courier' = courier \ {c}
       /\ acceptedManifests' = acceptedManifests \union {[n |-> c.n, trade |-> c.trade]}
       /\ vault' = [vault EXCEPT !.shown = Told(c), !.status = "submitted", !.open = FALSE]
  /\ UNCHANGED <<funded, written, vaultLoads>>

\* Any of the three steps may fail; the network may have taken the manifest.
ManifestFails ==
  /\ \E c \in courier :
       /\ courier' = courier \ {c}
       /\ \E taken \in BOOLEAN :
            /\ taken => c.step = "network"
            /\ acceptedManifests' = acceptedManifests
                 \union (IF taken THEN {[n |-> c.n, trade |-> c.trade]} ELSE {})
  /\ vault' = [vault EXCEPT !.status = "failed"]
  /\ UNCHANGED <<funded, written, vaultLoads>>

TradeBecomesFunded ==
  /\ \E t \in VaultTrades \ funded : funded' = funded \union {t}
  /\ UNCHANGED <<vault, courier, written, acceptedManifests, vaultLoads>>

VaultNext ==
  \/ VaultLoaded \/ VaultLoadFails \/ RetryVault \/ TokenRenewed \/ OpenManifest \/ HandleClose
  \/ HandleManifestSubmit \/ ManifestAnswered \/ ManifestSigned \/ ManifestSent \/ ManifestFails
  \/ TradeBecomesFunded

-----------------------------------------------------------------------------

VaultTypeOK ==
  /\ funded \subseteq VaultTrades /\ vault.funded \subseteq VaultTrades
  /\ \A c \in courier : c.step \in {"backend", "wallet", "network"}
  /\ written <= MaxManifests

\* The manifest shown as submitted was taken by the network for the trade that
\* is named, even when the list was reloaded and leads with another trade.
ManifestShownWasTaken == vault.shown # NoManifestYet => vault.shown \in acceptedManifests

\* At most one manifest is on its way: a form sent while another is being
\* signed is dropped, never signed beside it.
OneManifestInFlight == Cardinality(courier) <= 1

-----------------------------------------------------------------------------
(***************************************************************************)
(* AssetsPage                                                              *)
(*                                                                         *)
(* The assets page: the user's trades are fetched once and on refresh, and *)
(* searched, filtered by status and deadline, sorted and paged in the      *)
(* browser.  A deadline is a day or NoDeadline; the filtered list is       *)
(* computed when one of its inputs changes, not when the day does.         *)
(***************************************************************************)

CONSTANTS
  AssetCount,      \* trades of the user
  FoundBySearch,   \* the trades the search text matches
  NoDeadlineFor,   \* trades with no usable deadline
  AssetPageSize, SoonWindow, LastDay, MaxMoves, MaxRefreshes

VARIABLES
  shelfStatus,   \* per trade: the status the server has
  assets,        \* the page: rows fetched, controls, flights
  today,         \* the day
  shrunk         \* history: the matching rows became fewer under the page

assetVars == <<shelfStatus, assets, today, shrunk>>

AssetIds == 1..AssetCount
NoDeadline == 99
DeadlineOf(t) == IF t \in NoDeadlineFor THEN NoDeadline ELSE AssetCount - t
AssetStatuses == {"pending_signature", "created", "delivered", "completed", "disputed"}

AssetsInit ==
  /\ shelfStatus = [t \in AssetIds |-> IF t = 1 THEN "pending_signature" ELSE "created"]
  /\ assets = [rows |-> <<>>, filter |-> "all", search |-> FALSE, near |-> FALSE, sort |-> FALSE,
               page |-> 1, at |-> 0, loads |-> 0, flights |-> <<>>, loading |-> FALSE]
  /\ today = 0 /\ shrunk = FALSE

\* The tab a status belongs to, as the filter decides it.
TabOf(s) ==
  CASE s = "delivered" -> "active" [] s = "created" -> "pending" [] s = "completed" -> "completed"
    [] s = "disputed" -> "disputed" [] OTHER -> "other"

\* The allocation bar counts by its own copy of the rule.
AllocationCounts(rows) ==
  LET count(S) == Len(SelectSeq(rows, LAMBDA r : r.status \in S))
  IN [active |-> count({"delivered"}), pending |-> count({"created"}), completed |-> count({"completed"}),
      disputed |-> count({"disputed"}),
      other |-> count(AssetStatuses \ {"delivered", "created", "completed", "disputed"})]

IsTerminalStatus(s) == s = "completed"

GetDeadlineInfo(t, now) ==
  LET d == DeadlineOf(t)
  IN CASE d = NoDeadline -> "unknown" [] d < now -> "overdue" [] d = now -> "due-today"
       [] d > now /\ d # NoDeadline /\ d <= now + SoonWindow -> "due-soon" [] OTHER -> "on-track"

IsNearDeadline(r, now) ==
  ~IsTerminalStatus(r.status) /\ GetDeadlineInfo(r.id, now) \in {"overdue", "due-today", "due-soon"}

\* Soonest first; a trade with no deadline is last.
CompareByDeadline(a, b) == DeadlineOf(a.id) < DeadlineOf(b.id)

Sorted(rows) ==
  LET before(i, j) == CompareByDeadline(rows[i], rows[j]) \/ (~CompareByDeadline(rows[j], rows[i]) /\ i < j)
      order == SetToSortSeq(DOMAIN rows, before)
  IN [i \in DOMAIN rows |-> rows[order[i]]]

FilteredTrades(a) ==
  LET kept == SelectSeq(a.rows, LAMBDA r : /\ a.filter = "all" \/ TabOf(r.status) = a.filter
                                           /\ ~a.search \/ r.id \in FoundBySearch
                                           /\ ~a.near \/ IsNearDeadline(r, a.at))
  IN IF a.sort THEN Sorted(kept) ELSE kept

TotalAssetPages(a) ==
  LET n == Len(FilteredTrades(a)) IN IF n = 0 THEN 1 ELSE (n + AssetPageSize - 1) \div AssetPageSize

PagedTrades(a) ==
  LET all == FilteredTrades(a)
      last == a.page * AssetPageSize
  IN SubSeq(all, last - AssetPageSize + 1, IF last < Len(all) THEN last ELSE Len(all))

TableLoading(a) == a.loading /\ a.rows = <<>>

\* fetchData: the first load, and the refresh button, which only the first
\* load disables: later ones overlap, and answers may change places.
FetchData ==
  /\ ~TableLoading(assets) /\ assets.loads < MaxRefreshes
  /\ assets' = [assets EXCEPT !.loading = TRUE, !.loads = @ + 1, !.flights = Append(@, shelfStatus)]
  /\ UNCHANGED <<shelfStatus, today, shrunk>>

\* Each of the three requests may fail alone; the rows are those of the list.
DataArrives(f, listed) ==
  LET answer == assets.flights[f]
      got == [assets EXCEPT !.loading = FALSE, !.at = today, !.flights = RemoveAt(@, f),
                            !.rows = IF listed
                                     THEN [t \in AssetIds |-> [id |-> t, status |-> answer[t]]] ELSE @]
  IN /\ assets' = got
     /\ shrunk' = (shrunk \/ Len(FilteredTrades(got)) < Len(FilteredTrades(assets)))
     /\ UNCHANGED <<shelfStatus, today>>

ResetPage(a) == [a EXCEPT !.page = 1]

Controlled(a) == assets' = [ResetPage(a) EXCEPT !.at = today] /\ shrunk' = FALSE
  /\ UNCHANGED <<shelfStatus, today>>

HandleStatusFilterChange(f) == f # assets.filter /\ Controlled([assets EXCEPT !.filter = f])
HandleSearchChange == Controlled([assets EXCEPT !.search = ~@])
HandleNearDeadlineChange == Controlled([assets EXCEPT !.near = ~@])
HandleDeadlineSortChange == Controlled([assets EXCEPT !.sort = ~@])

PageLive(step) ==
  /\ TotalAssetPages(assets) > 1 /\ ~TableLoading(assets)
  /\ IF step = "previous" THEN assets.page > 1 ELSE assets.page < TotalAssetPages(assets)

\* Previous and next; a page beyond the last is left backwards.
OnPageChange(step) ==
  /\ PageLive(step)
  /\ assets' = [assets EXCEPT !.page = IF step = "previous" THEN @ - 1 ELSE @ + 1]
  /\ UNCHANGED <<shelfStatus, today, shrunk>>

AssetMoves(t) ==
  /\ Cardinality({u \in AssetIds : shelfStatus[u] \notin {"created", "pending_signature"}}) < MaxMoves
       \/ shelfStatus[t] = "delivered"
  /\ \E s \in CASE shelfStatus[t] = "created" -> {"delivered"}
               [] shelfStatus[t] = "delivered" -> {"completed", "disputed"}
               [] OTHER -> {} :
       shelfStatus' = [shelfStatus EXCEPT ![t] = s]
  /\ UNCHANGED <<assets, today, shrunk>>

DayPasses == today < LastDay /\ today' = today + 1 /\ UNCHANGED <<shelfStatus, assets, shrunk>>

AssetsNext ==
  \/ FetchData \/ DayPasses
  \/ \E f \in DOMAIN assets.flights, listed \in BOOLEAN : DataArrives(f, listed)
  \/ \E f \in {"all", "active", "pending", "completed", "disputed"} : HandleStatusFilterChange(f)
  \/ HandleSearchChange \/ HandleNearDeadlineChange \/ HandleDeadlineSortChange
  \/ \E step \in {"previous", "next"} : OnPageChange(step)
  \/ \E t \in AssetIds : AssetMoves(t)

-----------------------------------------------------------------------------

AssetsTypeOK ==
  /\ shelfStatus \in [AssetIds -> AssetStatuses]
  /\ \A i \in DOMAIN assets.rows : assets.rows[i] \in [id : AssetIds, status : AssetStatuses]
  /\ assets.page \in 1..AssetCount /\ assets.loads \in 0..MaxRefreshes
  /\ today \in 0..LastDay /\ shrunk \in BOOLEAN

\* "No assets found" is shown when no trade matches the controls: no change of
\* filter, search or sort strands the user on a page past the end.  Only a
\* refresh that leaves fewer matching rows does.
EmptyTableMeansNoMatch ==
  ~TableLoading(assets) /\ PagedTrades(assets) = <<>> => FilteredTrades(assets) = <<>> \/ shrunk

\* Under the deadline sort, over all pages, deadlines ascend and a trade with
\* no usable deadline never comes before one with a deadline.
DueRowsComeFirst ==
  assets.sort =>
    \A i, j \in DOMAIN FilteredTrades(assets) :
      i < j => DeadlineOf(FilteredTrades(assets)[i].id) <= DeadlineOf(FilteredTrades(assets)[j].id)

\* The page's two copies of the status rule agree: with no other control set,
\* a tab lists as many trades as the allocation bar counts for it.
TabsMatchAllocation ==
  assets.filter # "all" /\ ~assets.search /\ ~assets.near =>
    Len(FilteredTrades(assets)) = AllocationCounts(assets.rows)[assets.filter]

-----------------------------------------------------------------------------
\* The parts side by side: a behaviour follows one of them.

tradePagesVars == <<tradePageVars, tradesPageVars, vaultVars, assetVars>>

TradePagesInit ==
  /\ TradePageInit
  /\ TradesPageInit
  /\ VaultInit
  /\ AssetsInit

TradePagesNext ==
  \/ /\ \/ TurnTo("TradePage") /\ TradePageStart
        \/ StaysWith("TradePage") /\ TradePageNext
     /\ UNCHANGED <<tradesPageVars, vaultVars, assetVars>>
  \/ /\ \/ TurnTo("TradesPage") /\ TradesPageStart
        \/ StaysWith("TradesPage") /\ TradesPageNext
     /\ UNCHANGED <<tradePageVars, vaultVars, assetVars>>
  \/ /\ \/ TurnTo("VaultPage") /\ VaultStart
        \/ StaysWith("VaultPage") /\ VaultNext
     /\ UNCHANGED <<tradePageVars, tradesPageVars, assetVars>>
  \/ /\ \/ TurnTo("AssetsPage") /\ UNCHANGED assetVars
        \/ StaysWith("AssetsPage") /\ AssetsNext
     /\ UNCHANGED <<tradePageVars, tradesPageVars, vaultVars>>

TradePagesTypeOK ==
  /\ subject = "TradePage" => TradePageTypeOK
  /\ subject = "TradesPage" => TradesPageTypeOK
  /\ subject = "VaultPage" => VaultTypeOK
  /\ subject = "AssetsPage" => AssetsTypeOK
=============================================================================
