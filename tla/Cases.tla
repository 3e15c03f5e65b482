-------------------------------- MODULE Cases --------------------------------
\* Disputes: the categories they are filed under and the mediator's panel.
EXTENDS Subject, Integers, Sequences, FiniteSets

-----------------------------------------------------------------------------
(***************************************************************************)
(* DisputeCategories                                                       *)
(*                                                                         *)
(* Dispute categories: mediators create, rename, deactivate and bring back *)
(* categories while parties open disputes under them.  Every operation     *)
(* reads and writes in separate queries; the database keeps names unique.  *)
(***************************************************************************)

CONSTANTS
  CategoryCalls,        \* concurrent requests
  CategoryNames,
  MaxCategories, MaxCategoryCalls   \* bounds

VARIABLES
  categories,       \* rows, by id
  categoryCalls,
  categoryAsks,     \* requests made so far
  openedDisputes,   \* [category, by] of the dispute rows
  activeSeen        \* per request, the categories active at some time since it began

categoryVars == <<categories, categoryCalls, categoryAsks, openedDisputes, activeSeen>>

CategoryIdle == [stage |-> "idle", id |-> 0, name |-> "", active |-> "same"]

\* A category made earlier.
FirstCategory == [name |-> CHOOSE n \in CategoryNames : TRUE, active |-> TRUE]

CategoryInit ==
  /\ categories = <<FirstCategory>> /\ categoryCalls = [c \in CategoryCalls |-> CategoryIdle]
  /\ categoryAsks = 0
  /\ openedDisputes = {} /\ activeSeen = [c \in CategoryCalls |-> {}]

CategoryIds == DOMAIN categories

Named(name) == {i \in CategoryIds : categories[i].name = name}

Active(rows) == {i \in DOMAIN rows : rows[i].active}

Stage(c, stage) == categoryCalls' = [categoryCalls EXCEPT ![c].stage = stage]

CategoryAsked(c, next) ==
  /\ categoryCalls[c].stage = "idle" /\ categoryAsks < MaxCategoryCalls
  /\ categoryAsks' = categoryAsks + 1
  /\ categoryCalls' = [categoryCalls EXCEPT ![c] = next]
  /\ UNCHANGED <<categories, openedDisputes>>

AskCreate(c) ==
  \E name \in CategoryNames, active \in {"same", "off"} :
    CategoryAsked(c, [stage |-> "checking", id |-> 0, name |-> name, active |-> active])

\* A patch may carry a name, the active flag, or both.
AskUpdate(c) ==
  \E id \in 1..MaxCategories, name \in CategoryNames \cup {""}, active \in {"same", "on", "off"} :
    /\ name # "" \/ active # "same"
    /\ CategoryAsked(c, [stage |-> "loading", id |-> id, name |-> name, active |-> active])

AskDelete(c) ==
  \E id \in 1..MaxCategories : CategoryAsked(c, [CategoryIdle EXCEPT !.stage = "deleting", !.id = id])

\* By id when one is given, otherwise by name.
AskDispute(c) ==
  \/ \E id \in 1..MaxCategories : CategoryAsked(c, [CategoryIdle EXCEPT !.stage = "resolving", !.id = id])
  \/ \E name \in CategoryNames : CategoryAsked(c, [CategoryIdle EXCEPT !.stage = "resolving",
                                                   !.name = name])

(***************************************************************************)
(* createCategory, updateCategory, deleteCategory                          *)
(***************************************************************************)
CheckName(c) ==
  /\ categoryCalls[c].stage = "checking"
  /\ Stage(c, IF Named(categoryCalls[c].name) # {} THEN "409" ELSE "inserting")
  /\ UNCHANGED <<categories, openedDisputes, categoryAsks>>

\* A name taken since the check makes the insert fail as a server error.
InsertCategory(c) ==
  /\ categoryCalls[c].stage = "inserting"
  /\ IF Named(categoryCalls[c].name) # {}
     THEN Stage(c, "500") /\ UNCHANGED categories
     ELSE /\ Len(categories) < MaxCategories
          /\ categories' = Append(categories, [name |-> categoryCalls[c].name,
                                                active |-> categoryCalls[c].active # "off"])
          /\ Stage(c, "done")
  /\ UNCHANGED <<openedDisputes, categoryAsks>>

LoadForUpdate(c) ==
  LET call == categoryCalls[c]
  IN  /\ call.stage = "loading"
      /\ Stage(c, IF call.id \notin CategoryIds THEN "404"
                  ELSE IF call.name # "" /\ call.name # categories[call.id].name THEN "comparing"
                  ELSE "updating")
      /\ UNCHANGED <<categories, openedDisputes, categoryAsks>>

CompareName(c) ==
  /\ categoryCalls[c].stage = "comparing"
  /\ Stage(c, IF Named(categoryCalls[c].name) # {} THEN "409" ELSE "updating")
  /\ UNCHANGED <<categories, openedDisputes, categoryAsks>>

Updated(row, call) ==
  [row EXCEPT !.name = IF call.name = "" THEN @ ELSE call.name,
              !.active = IF call.active = "same" THEN @ ELSE call.active = "on"]

WriteUpdate(c) ==
  LET call == categoryCalls[c]
  IN  /\ call.stage = "updating"
      /\ IF call.name # "" /\ Named(call.name) \ {call.id} # {}
         THEN Stage(c, "500") /\ UNCHANGED categories
         ELSE Stage(c, "done") /\ categories' = [categories EXCEPT ![call.id] = Updated(@, call)]
      /\ UNCHANGED <<openedDisputes, categoryAsks>>

Deactivated(row) == [row EXCEPT !.active = FALSE]

LoadForDelete(c) ==
  /\ categoryCalls[c].stage = "deleting"
  /\ Stage(c, IF categoryCalls[c].id \in CategoryIds THEN "deactivating" ELSE "404")
  /\ UNCHANGED <<categories, openedDisputes, categoryAsks>>

DeleteCategory(c) ==
  /\ categoryCalls[c].stage = "deactivating" /\ Stage(c, "done")
  /\ categories' = [categories EXCEPT ![categoryCalls[c].id] = Deactivated(@)]
  /\ UNCHANGED <<openedDisputes, categoryAsks>>

Matching(call) ==
  {i \in Active(categories) : IF call.id # 0 THEN i = call.id ELSE categories[i].name = call.name}

\* resolveDisputeCategoryId; the transaction is built before the row is written.
ResolveCategory(c) ==
  /\ categoryCalls[c].stage = "resolving"
  /\ \/ Matching(categoryCalls[c]) = {} /\ Stage(c, "400")
     \/ \E i \in Matching(categoryCalls[c]) :
          categoryCalls' = [categoryCalls EXCEPT ![c].stage = "recording", ![c].id = i]
  /\ UNCHANGED <<categories, openedDisputes, categoryAsks>>

RecordDispute(c) ==
  /\ categoryCalls[c].stage = "recording" /\ Stage(c, "done")
  /\ openedDisputes' = openedDisputes \cup {[category |-> categoryCalls[c].id, by |-> c,
                                             live |-> categoryCalls[c].id \in activeSeen[c]]}
  /\ UNCHANGED <<categories, categoryAsks>>

CategoryAnswerSeen(c) ==
  /\ categoryCalls[c].stage \in {"done", "400", "404", "409", "500"}
  /\ categoryCalls' = [categoryCalls EXCEPT ![c] = CategoryIdle]
  /\ UNCHANGED <<categories, openedDisputes, categoryAsks>>

CategoryStep(c) ==
  \/ AskCreate(c) \/ AskUpdate(c) \/ AskDelete(c) \/ AskDispute(c)
  \/ CheckName(c) \/ InsertCategory(c) \/ LoadForUpdate(c) \/ CompareName(c) \/ WriteUpdate(c)
  \/ LoadForDelete(c) \/ DeleteCategory(c) \/ ResolveCategory(c) \/ RecordDispute(c)
       \/ CategoryAnswerSeen(c)

CategoryNext ==
  /\ \E c \in CategoryCalls : CategoryStep(c)
  /\ activeSeen' = [c \in CategoryCalls |->
       IF categoryCalls'[c].stage = "idle" THEN {} ELSE activeSeen[c] \cup Active(categories')]

CategorySpec == CategoryInit /\ [][CategoryNext]_categoryVars

CategoryTypeOK ==
  /\ \A i \in CategoryIds : categories[i].name \in CategoryNames /\ categories[i].active \in BOOLEAN
  /\ \A c \in CategoryCalls : categoryCalls[c].id \in 0..MaxCategories
       /\ activeSeen[c] \subseteq CategoryIds
  /\ \A d \in openedDisputes : d.category \in CategoryIds

\* A dispute is recorded under a category that was active at some moment
\* while its request ran: one deactivated before the request came is never
\* used (resolveDisputeCategoryId asks for isActive).
DisputeUnderLiveCategory == \A d \in openedDisputes : d.live

-----------------------------------------------------------------------------
(***************************************************************************)
(* MediatorPanel                                                           *)
(*                                                                         *)
(* The mediator's pages of the web client: the list of disputes with its   *)
(* filter and pages, and the panel of one dispute - its evidence video and *)
(* the ruling that is shown at once, signed in the wallet, handed to the   *)
(* network and rolled back when a step fails.                              *)
(***************************************************************************)

CONSTANTS
  Rulings,         \* the rulings offered: accept, reject and the splits
  PanelDisputes,   \* ids of the disputes the panel is opened on
  MaxSafeInteger,  \* the largest id Number() represents exactly
  Gateways,        \* PINATA_GATEWAYS.length
  MaxMounts,       \* bound: panels opened
  MaxRulings,      \* bound: rulings confirmed
  MaxListLoads     \* bound: loads of the list

VARIABLES
  panel,      \* the mounted panel's own state
  lookups,    \* evidence lookups in flight
  player,     \* the video player: gateway and load state
  flights,    \* executeResolution calls in flight, one per panel at most
  recentRulings,     \* dedupMap: rulings registered within the window
  handed,     \* rulings the network took, and whether the panel was told
  mounts,     \* panels opened so far
  confirmed,  \* rulings confirmed so far
  list        \* the list page

panelVars == <<panel, lookups, player, flights, recentRulings, handed, mounts, confirmed, list>>

NoRuling == [ruling |-> "none", pending |-> FALSE]

\* Number(disputeId): past 2^53 the doubles are two apart, ties to even.
Nearest(id) ==
  IF id <= MaxSafeInteger \/ id % 2 = 0 THEN id
  ELSE IF id % 4 = 1 THEN id - 1 ELSE id + 1

TradeNamed(id) == Nearest(id)

-----------------------------------------------------------------------------
(* The evidence of the dispute                                             *)

\* Mounting resets the component's state and starts resolveEvidenceCid; the
\* cleanup of the panel left cancels its lookup.
OpenPanel(dispute, token, query) ==
  /\ mounts < MaxMounts /\ mounts' = mounts + 1
  /\ panel' = [id |-> mounts + 1, dispute |-> dispute, query |-> query, wallet |-> "none", modal |-> "none",
               shown |-> NoRuling,
               source |-> IF token THEN "loading" ELSE IF query THEN "query" ELSE "none",
               cid |-> IF ~token /\ query THEN dispute ELSE 0]
  /\ lookups' = IF token THEN lookups \cup {[panel |-> mounts + 1, trade |-> TradeNamed(dispute)]}
       ELSE lookups
  /\ player' = [gateway |-> 0, state |-> "loading"]
  /\ UNCHANGED <<flights, recentRulings, handed, confirmed, list>>

\* Mutant: the answer is applied whichever panel asked.
NeverCancelled(lookup) == TRUE

NotCancelled(lookup) == lookup.panel = panel.id

\* The answer holds a usable CID (pickBestEvidenceCid), or it does not, or
\* the lookup failed: then the CID of the query parameter serves.
LookupAnswers(lookup, found) ==
  /\ lookups' = lookups \ {lookup}
  /\ IF NotCancelled(lookup)
     THEN /\ panel' = [panel EXCEPT !.source = IF found THEN "backend"
                                               ELSE IF panel.query THEN "query" ELSE "none",
                                    !.cid = IF found THEN lookup.trade
                                        ELSE IF panel.query THEN panel.dispute ELSE 0]
          /\ player' = [gateway |-> 0, state |-> "loading"]
     ELSE UNCHANGED <<panel, player>>
  /\ UNCHANGED <<flights, recentRulings, handed, mounts, confirmed, list>>

HandleVideoError ==
  /\ panel.cid # 0 /\ player.state # "terminal-failure"
  /\ player' = IF player.gateway + 1 < Gateways
               THEN [gateway |-> player.gateway + 1, state |-> "loading"]
               ELSE [player EXCEPT !.state = "terminal-failure"]
  /\ UNCHANGED <<panel, lookups, flights, recentRulings, handed, mounts, confirmed, list>>

OnCanPlay ==
  /\ panel.cid # 0 /\ player.state = "loading"
  /\ player' = [player EXCEPT !.state = "ready"]
  /\ UNCHANGED <<panel, lookups, flights, recentRulings, handed, mounts, confirmed, list>>

SwitchGateway ==
  /\ panel.cid # 0 /\ Gateways > 1 /\ player.state # "terminal-failure"
  /\ player' = [gateway |-> (player.gateway + 1) % Gateways, state |-> "loading"]
  /\ UNCHANGED <<panel, lookups, flights, recentRulings, handed, mounts, confirmed, list>>

RetryFromFirstGateway ==
  /\ panel.cid # 0 /\ player.state = "terminal-failure"
  /\ player' = [gateway |-> 0, state |-> "loading"]
  /\ UNCHANGED <<panel, lookups, flights, recentRulings, handed, mounts, confirmed, list>>

-----------------------------------------------------------------------------
(* The ruling                                                              *)

ConnectWallet(who) ==
  /\ panel.id # 0 /\ panel.wallet = "none"
  /\ panel' = [panel EXCEPT !.wallet = who]
  /\ UNCHANGED <<lookups, player, flights, recentRulings, handed, mounts, confirmed, list>>

IsMediator == panel.wallet = "mediator"

Submitting == \E f \in flights : f.panel = panel.id

\* The badge and the banner read "Resolved" and "Confirmed".
ConfirmedShown == panel.shown.ruling # "none" /\ ~panel.shown.pending

ButtonsEnabled == IsMediator /\ ~Submitting /\ ~ConfirmedShown

OpenConfirmationModal(ruling) ==
  /\ panel.id # 0 /\ panel.modal = "none" /\ ButtonsEnabled
  /\ panel' = [panel EXCEPT !.modal = ruling]
  /\ UNCHANGED <<lookups, player, flights, recentRulings, handed, mounts, confirmed, list>>

CloseModal ==
  /\ panel.modal # "none" /\ ~Submitting
  /\ panel' = [panel EXCEPT !.modal = "none"]
  /\ UNCHANGED <<lookups, player, flights, recentRulings, handed, mounts, confirmed, list>>

PanelKey(ruling) == <<panel.dispute, ruling>>

\* "Confirm & Sign" closes the modal and enters executeResolution: a ruling
\* registered a moment ago is dropped, any other is shown at once.
Confirm ==
  LET ruling == panel.modal IN
  /\ ruling # "none" /\ ~Submitting
  /\ IF PanelKey(ruling) \in recentRulings
     THEN panel' = [panel EXCEPT !.modal = "none"] /\ UNCHANGED <<flights, recentRulings, confirmed>>
     ELSE /\ confirmed < MaxRulings /\ confirmed' = confirmed + 1
          /\ recentRulings' = recentRulings \cup {PanelKey(ruling)}
          /\ flights' = flights \cup {[panel |-> panel.id, of |-> panel.dispute,
                                       trade |-> TradeNamed(panel.dispute),
                                       ruling |-> ruling, step |-> "prepare", before |-> panel.shown]}
          /\ panel' = [panel EXCEPT !.modal = "none", !.shown = [ruling |-> ruling, pending |-> TRUE]]
  /\ UNCHANGED <<lookups, player, handed, mounts, list>>

\* The account was loaded and the call prepared; then Freighter signed it.
FlightProceeds(f) ==
  /\ f.step \in {"prepare", "sign"}
  /\ flights' = (flights \ {f}) \cup {[f EXCEPT !.step = IF @ = "prepare" THEN "sign" ELSE "send"]}
  /\ UNCHANGED <<panel, lookups, player, recentRulings, handed, mounts, confirmed, list>>

\* sendTransaction answered PENDING or DUPLICATE: the ruling shows as confirmed.
FlightSent(f) ==
  /\ f.step = "send"
  /\ flights' = flights \ {f}
  /\ handed' = handed \cup {[panel |-> f.panel, of |-> f.of, trade |-> f.trade, ruling |-> f.ruling,
                             told |-> TRUE]}
  /\ panel' = IF f.panel = panel.id THEN [panel EXCEPT !.shown.pending = FALSE] ELSE panel
  /\ UNCHANGED <<lookups, player, recentRulings, mounts, confirmed, list>>

RollsBack(f) == [panel EXCEPT !.shown = f.before]

\* A step failed, or the network took the ruling and its answer was lost.
FlightFails(f, taken) ==
  /\ taken => f.step = "send"
  /\ flights' = flights \ {f}
  /\ handed' = IF taken THEN handed \cup {[panel |-> f.panel, of |-> f.of, trade |-> f.trade,
                                           ruling |-> f.ruling, told |-> FALSE]}
               ELSE handed
  /\ panel' = IF f.panel = panel.id THEN RollsBack(f) ELSE panel
  /\ UNCHANGED <<lookups, player, recentRulings, mounts, confirmed, list>>

\* The de-duplication window of a registered ruling passes.
WindowPasses(key) ==
  /\ recentRulings' = recentRulings \ {key}
  /\ UNCHANGED <<panel, lookups, player, flights, handed, mounts, confirmed, list>>

-----------------------------------------------------------------------------
(* The list page: every change of filter or page loads again               *)

Filters == {"all", "OPEN"}

\* A load is numbered by the order it was sent in.
Loads(filter, page) ==
  [list EXCEPT !.filter = filter, !.page = page, !.sent = @ + 1, !.loading = TRUE, !.error = FALSE,
               !.waiting = @ \cup {[number |-> list.sent + 1, filter |-> filter, page |-> page]}]

Filtered(filter) == Loads(filter, 1)

OpenList ==
  /\ list.sent = 0 /\ list' = Loads("all", 1)
  /\ UNCHANGED <<panel, lookups, player, flights, recentRulings, handed, mounts, confirmed>>

PanelFilter(filter) ==
  /\ list.sent \in 1..(MaxListLoads - 1) /\ ~list.loading /\ ~list.error
  /\ filter # list.filter \/ list.page # 1
  /\ list' = Filtered(filter)
  /\ UNCHANGED <<panel, lookups, player, flights, recentRulings, handed, mounts, confirmed>>

PanelTurnPage(page) ==
  /\ list.sent \in 1..(MaxListLoads - 1) /\ ~list.loading /\ ~list.error
  /\ page \in 1..list.totalPages /\ page \in {list.page - 1, list.page + 1}
  /\ list' = Loads(list.filter, page)
  /\ UNCHANGED <<panel, lookups, player, flights, recentRulings, handed, mounts, confirmed>>

RetryList ==
  /\ list.sent \in 1..(MaxListLoads - 1) /\ ~list.loading /\ list.error
  /\ list' = Loads(list.filter, list.page)
  /\ UNCHANGED <<panel, lookups, player, flights, recentRulings, handed, mounts, confirmed>>

\* The token is renewed or the wallet changes while a load is out: the effect
\* runs fetchDisputes again.
ReloadList ==
  /\ list.sent \in 1..(MaxListLoads - 1) /\ list.loading
  /\ list' = Loads(list.filter, list.page)
  /\ UNCHANGED <<panel, lookups, player, flights, recentRulings, handed, mounts, confirmed>>

ListAnswers(w, pages) ==
  /\ list' = [list EXCEPT !.waiting = @ \ {w}, !.loading = FALSE, !.totalPages = pages,
                          !.shows = [number |-> w.number, filter |-> w.filter, page |-> w.page],
                          !.overtaken = @ \/ w.number < list.shows.number]
  /\ UNCHANGED <<panel, lookups, player, flights, recentRulings, handed, mounts, confirmed>>

PanelListFails(w) ==
  /\ list' = [list EXCEPT !.waiting = @ \ {w}, !.loading = FALSE, !.error = TRUE]
  /\ UNCHANGED <<panel, lookups, player, flights, recentRulings, handed, mounts, confirmed>>

-----------------------------------------------------------------------------

PanelInit ==
  /\ panel = [id |-> 0, dispute |-> 0, query |-> FALSE, wallet |-> "none", modal |-> "none",
              shown |-> NoRuling,
              source |-> "none", cid |-> 0]
  /\ lookups = {} /\ flights = {} /\ recentRulings = {} /\ handed = {}
  /\ player = [gateway |-> 0, state |-> "loading"]
  /\ mounts = 0 /\ confirmed = 0
  /\ list = [filter |-> "all", page |-> 1, totalPages |-> 1, loading |-> FALSE, error |-> FALSE, sent |-> 0,
             waiting |-> {}, shows |-> [number |-> 0, filter |-> "all", page |-> 1], overtaken |-> FALSE]

\* The two pages share nothing but the session: one of them is visited. Nor do
\* the player and the ruling: the player is used before a ruling is confirmed.
PanelNext ==
  \/ /\ list.sent = 0
     /\ \/ \E d \in PanelDisputes, token, query \in BOOLEAN : OpenPanel(d, token, query)
        \/ \E l \in lookups, found \in BOOLEAN : LookupAnswers(l, found)
        \/ confirmed = 0 /\ (HandleVideoError \/ OnCanPlay \/ SwitchGateway \/ RetryFromFirstGateway)
        \/ \E who \in {"mediator", "visitor"} : ConnectWallet(who)
        \/ \E r \in Rulings : OpenConfirmationModal(r)
        \/ CloseModal
        \/ Confirm
        \/ \E f \in flights : FlightProceeds(f)
        \/ \E f \in flights : FlightSent(f)
        \/ \E f \in flights, taken \in BOOLEAN : FlightFails(f, taken)
        \/ \E key \in recentRulings : WindowPasses(key)
  \/ mounts = 0 /\ OpenList
  \/ \E filter \in Filters : PanelFilter(filter)
  \/ \E page \in 1..2 : PanelTurnPage(page)
  \/ RetryList
  \/ ReloadList
  \/ \E w \in list.waiting, pages \in 1..2 : ListAnswers(w, pages)
  \/ \E w \in list.waiting : PanelListFails(w)

-----------------------------------------------------------------------------

PanelTypeOK ==
  /\ panel.modal \in Rulings \cup {"none"} /\ panel.shown.ruling \in Rulings \cup {"none"}
  /\ panel.source \in {"loading", "backend", "query", "none"}
  /\ player.gateway \in 0..(Gateways - 1)
  /\ \A f \in flights : f.step \in {"prepare", "sign", "send"}

\* The evidence played and the rulings handed to the network are about the
\* dispute on screen, across panels left with a lookup or a ruling in flight -
\* as long as Number() represents the dispute's id, which the ids the contract
\* assigns outgrow.
WorksOnShownDispute ==
  /\ panel.cid # 0 => panel.cid = panel.dispute \/ panel.dispute > MaxSafeInteger
  /\ \A h \in handed : h.trade = h.of \/ h.of > MaxSafeInteger

\* A panel is told of at most one ruling that the network took, and shows that
\* one as confirmed from then on; one shown as confirmed was handed over.
ToldRulingIsShown ==
  /\ \A h \in handed : h.panel = panel.id /\ h.told
       => panel.shown = [ruling |-> h.ruling, pending |-> FALSE]
  /\ ConfirmedShown =>
       \E h \in handed : h.panel = panel.id /\ h.ruling = panel.shown.ruling

\* Once every load was answered the list is that of the filter and page
\* selected, unless an older answer came in after a newer one.
ListMatchesFilter ==
  list.waiting = {} /\ ~list.error /\ ~list.overtaken =>
    list.shows.filter = list.filter /\ list.shows.page = list.page

-----------------------------------------------------------------------------
\* The parts side by side: a behaviour follows one of them.

casesVars == <<categoryVars, panelVars>>

CasesInit ==
  /\ CategoryInit
  /\ PanelInit

CasesNext ==
  \/ /\ \/ TurnTo("DisputeCategories") /\ UNCHANGED categoryVars
        \/ StaysWith("DisputeCategories") /\ CategoryNext
     /\ UNCHANGED <<panelVars>>
  \/ /\ \/ TurnTo("MediatorPanel") /\ UNCHANGED panelVars
        \/ StaysWith("MediatorPanel") /\ PanelNext
     /\ UNCHANGED <<categoryVars>>

CasesTypeOK ==
  /\ subject = "DisputeCategories" => CategoryTypeOK
  /\ subject = "MediatorPanel" => PanelTypeOK
=============================================================================
