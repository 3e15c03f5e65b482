-------------------------------- MODULE Phone --------------------------------
\* The mobile application.
EXTENDS Subject, Integers, Sequences, FiniteSets

-----------------------------------------------------------------------------
(***************************************************************************)
(* MobileTrades                                                            *)
(*                                                                         *)
(* The trade screens of the mobile app and the store they share.  The      *)
(* store holds one current trade for every detail screen and one list for  *)
(* the list screen and the vault.  The backend answers a list with items   *)
(* and an action with an unsigned transaction; the store expects trades    *)
(* and a trade, so the screen that renders such an answer throws and the   *)
(* app goes down.                                                          *)
(***************************************************************************)

CONSTANTS
  MobileIds,      \* trades a notification or a link may open
  MaxPhoneCalls,  \* bound: requests sent
  MaxLaunches     \* bound: starts of the app

VARIABLES
  phone,     \* the app: up, its screen, the trade of its route, the create form
  saved,     \* AsyncStorage: the draft and the writes queued for it
  shelf,     \* the trade store: current trade, loading flag, error slots
  air,       \* requests in flight, numbered as sent
  office,    \* the backend: the status of each trade
  phoneNotes      \* history: requests, launches, what the form should restore

mobileVars == <<phone, saved, shelf, air, office, phoneNotes>>

Blank == [data |-> "defaults", step |-> 0]
NoDraftSaved == [data |-> "none", step |-> 0]
NoneShown == [id |-> "none", status |-> "none"]
EmptyShelf == [current |-> NoneShown, loading |-> FALSE, loadError |-> FALSE, actionError |-> FALSE]

-----------------------------------------------------------------------------
(* Requests                                                                *)

\* The store's actions clear the slot they report into, and send.
Sent(op, id) ==
  /\ phoneNotes.sent < MaxPhoneCalls
  /\ air' = air \cup {[op |-> op, id |-> id, n |-> phoneNotes.sent + 1, silent |-> FALSE]}

Entered(op) ==
  IF op \in {"list", "load"}
  THEN [shelf EXCEPT !.loading = TRUE, !.loadError = FALSE]
  ELSE [shelf EXCEPT !.loading = TRUE, !.actionError = FALSE]

Off == [up |-> FALSE, screen |-> "none", under |-> "none", route |-> "none", form |-> Blank,
        loaded |-> FALSE, edited |-> FALSE, submitting |-> FALSE]

\* Everything the app holds in memory is gone; storage stays, queued writes do
\* not: the user then finds what had been written.
Down ==
  /\ phone' = Off /\ shelf' = EmptyShelf /\ air' = {}
  /\ saved' = [saved EXCEPT !.writes = <<>>]
  /\ phoneNotes' = [phoneNotes EXCEPT !.left = IF saved.writes = <<>> THEN @ ELSE saved.draft,
                    !.applied = 0, !.opened = 0]

-----------------------------------------------------------------------------
(* Navigation                                                              *)

\* initialRouteName: a signed-in user starts on the list, which loads.
Launch ==
  /\ ~phone.up /\ phoneNotes.launches < MaxLaunches
  /\ phone' = [phone EXCEPT !.up = TRUE, !.screen = "list", !.under = "list"]
  /\ Sent("list", "none") /\ shelf' = Entered("list")
  /\ phoneNotes' = [phoneNotes EXCEPT !.launches = @ + 1, !.sent = @ + 1]
  /\ UNCHANGED <<saved, office>>

Kill ==
  /\ phone.up /\ Down
  /\ UNCHANGED office

RouteFetched(id) == phone.screen # "detail" \/ phone.route # id

\* A notification or a link; a detail screen already there changes its trade.
\* Bound: none is opened over the create form.
OpenDetail(id) ==
  /\ phone.up /\ (phone.screen # "detail" \/ phone.route # id) /\ phone.screen # "create"
  /\ phone' = [phone EXCEPT !.screen = "detail", !.route = id,
                            !.under = IF phone.screen = "detail" THEN @ ELSE phone.screen]
  /\ IF RouteFetched(id)
     THEN /\ Sent("load", id) /\ shelf' = Entered("load")
          /\ phoneNotes' = [phoneNotes EXCEPT !.sent = @ + 1, !.opened = phoneNotes.sent + 1]
     ELSE UNCHANGED <<air, shelf, phoneNotes>>
  /\ UNCHANGED <<saved, office>>

\* The vault shows the same list, loaded again.
OpenVault ==
  /\ phone.up /\ phone.screen = "list"
  /\ phone' = [phone EXCEPT !.screen = "vault"]
  /\ Sent("list", "none") /\ shelf' = Entered("list")
  /\ phoneNotes' = [phoneNotes EXCEPT !.sent = @ + 1]
  /\ UNCHANGED <<saved, office>>

GoBack ==
  /\ phone.up /\ phone.screen \in {"detail", "vault"}
  /\ phone' = [phone EXCEPT !.screen = IF @ = "vault" THEN "list" ELSE phone.under, !.route = "none"]
  /\ phoneNotes' = [phoneNotes EXCEPT !.opened = 0]
  /\ UNCHANGED <<saved, shelf, air, office>>

-----------------------------------------------------------------------------
(* The list and the vault                                                  *)

\* The tabs of the list, and its banner or the vault's: each loads again.
ListShown == phone.screen = "list" /\ ~shelf.loading
ListBanner == phone.screen = "list" /\ shelf.loadError
VaultBanner == phone.screen = "vault" /\ ~shelf.loading /\ (shelf.actionError \/ shelf.loadError)

FetchTrades ==
  /\ phone.up /\ (ListShown \/ ListBanner \/ VaultBanner)
  /\ Sent("list", "none") /\ shelf' = Entered("list")
  /\ phoneNotes' = [phoneNotes EXCEPT !.sent = @ + 1]
  /\ UNCHANGED <<phone, saved, office>>

\* items, not trades: trades.length and trades.slice throw on undefined.
TradesAnswered(r) ==
  /\ phone.up /\ r \in air /\ r.op = "list"
  /\ Down
  /\ UNCHANGED office

TradesRefused(r) ==
  /\ phone.up /\ r \in air /\ r.op = "list"
  /\ air' = air \ {r} /\ shelf' = [shelf EXCEPT !.loadError = TRUE, !.loading = FALSE]
  /\ UNCHANGED <<phone, saved, office, phoneNotes>>

-----------------------------------------------------------------------------
(* The detail screen                                                       *)

\* Nothing loaded: the banner offers to load again.
NotFoundView == phone.screen = "detail" /\ ~shelf.loading /\ shelf.current = NoneShown
DetailView == phone.screen = "detail" /\ shelf.current # NoneShown
DetailBanner == DetailView /\ shelf.loadError /\ ~shelf.actionError

FetchTrade ==
  /\ phone.up /\ (NotFoundView \/ DetailBanner)
  /\ Sent("load", phone.route) /\ shelf' = Entered("load")
  /\ phoneNotes' = [phoneNotes EXCEPT !.sent = @ + 1]
  /\ UNCHANGED <<phone, saved, office>>

PhoneTradeLoaded(r) ==
  /\ phone.up /\ r \in air /\ r.op = "load" /\ office[r.id] # "none"
  /\ air' = air \ {r}
  /\ shelf' = [shelf EXCEPT !.current = [id |-> r.id, status |-> office[r.id]], !.loading = FALSE]
  /\ phoneNotes' = [phoneNotes EXCEPT !.applied = r.n]
  /\ UNCHANGED <<phone, saved, office>>

\* A silent load leaves both slots as they are.
TradeNotLoaded(r) ==
  /\ phone.up /\ r \in air /\ r.op = "load"
  /\ air' = air \ {r}
  /\ shelf' = [shelf EXCEPT !.loadError = @ \/ ~r.silent, !.loading = FALSE]
  /\ UNCHANGED <<phone, saved, office, phoneNotes>>

\* The buttons by the status shown; the backend never answers PENDING or
\* IN_TRANSIT, so the deposit is never offered.
Offered(status) ==
  CASE status = "FUNDED" -> {"confirm", "dispute"}
    [] status = "DELIVERED" -> {"release", "dispute"}
    [] OTHER -> {}

Busy == \E r \in air : r.op \notin {"list", "load"}

\* The alert or the modal confirms; the request names the trade of the route.
Act(op) ==
  /\ phone.up /\ DetailView /\ ~Busy /\ op \in Offered(shelf.current.status)
  /\ Sent(op, phone.route) /\ shelf' = Entered(op)
  /\ phoneNotes' = [phoneNotes EXCEPT !.sent = @ + 1]
  /\ UNCHANGED <<phone, saved, office>>

\* The transaction of a release is dropped and the trade loaded silently; the
\* one of a confirmation or a dispute becomes the current trade, whose id the
\* screen slices.
ActAnswered(r) ==
  /\ phone.up /\ r \in air /\ r.op \notin {"list", "load", "create"} /\ r.op \in Offered(office[r.id])
  /\ IF r.op = "release"
     THEN /\ air' = (air \ {r}) \cup {[op |-> "load", id |-> r.id, n |-> r.n, silent |-> TRUE]}
          /\ UNCHANGED <<phone, saved, shelf, phoneNotes>>
     ELSE Down
  /\ UNCHANGED office

ActRefused(r) ==
  /\ phone.up /\ r \in air /\ r.op \notin {"list", "load"}
  /\ air' = air \ {r} /\ shelf' = [shelf EXCEPT !.actionError = TRUE, !.loading = FALSE]
  /\ phone' = [phone EXCEPT !.submitting = @ /\ r.op # "create"]
  /\ UNCHANGED <<saved, office, phoneNotes>>

\* onGoBack of a banner.
ClearErrorView ==
  /\ phone.up /\ (shelf.loadError \/ shelf.actionError) /\ (ListBanner \/ VaultBanner \/ DetailView)
  /\ shelf' = [shelf EXCEPT !.loadError = FALSE, !.actionError = FALSE]
  /\ UNCHANGED <<phone, saved, air, office, phoneNotes>>

-----------------------------------------------------------------------------
(* The create form and its draft                                           *)

\* The effect saves every change once the draft has been read.
SaveTradeDraft(f, loaded) == IF loaded THEN Append(saved.writes, f) ELSE saved.writes

CreateTradeScreen ==
  /\ phone.up /\ phone.screen = "list"
  /\ phone' = [phone EXCEPT !.screen = "create", !.under = "list", !.form = Blank, !.loaded = FALSE,
               !.edited = FALSE]
  /\ saved' = [saved EXCEPT !.writes = SaveTradeDraft(Blank, FALSE)]
  /\ UNCHANGED <<shelf, air, office, phoneNotes>>

Changed(f) ==
  /\ saved.writes = <<>>
  /\ phone' = [phone EXCEPT !.form = f, !.edited = TRUE]
  /\ saved' = [saved EXCEPT !.writes = SaveTradeDraft(f, phone.loaded)]
  /\ phoneNotes' = [phoneNotes EXCEPT !.left = IF phone.loaded THEN f ELSE @]
  /\ UNCHANGED <<shelf, air, office>>

\* The first step's fields; Continue asks for complete ones.
Step1Details ==
  /\ phone.up /\ phone.screen = "create" /\ phone.form.step = 0
  /\ \/ phone.form.data = "defaults" /\ Changed([phone.form EXCEPT !.data = "complete"])
     \/ phone.form.data = "complete" /\ Changed([phone.form EXCEPT !.step = 1])

\* The second step moves the ratio by ten points and goes either way.
Step2Negotiation ==
  /\ phone.up /\ phone.screen = "create" /\ phone.form.step = 1
  /\ \E s \in {0, 2} : Changed([phone.form EXCEPT !.step = s])

StepBack ==
  /\ phone.up /\ phone.screen = "create" /\ phone.form.step = 2
  /\ Changed([phone.form EXCEPT !.step = 1])

LeaveForm ==
  /\ phone.up /\ phone.screen = "create" /\ phone.form.step = 0 /\ ~phone.submitting
  /\ phone' = [phone EXCEPT !.screen = "list", !.form = Blank, !.loaded = FALSE, !.edited = FALSE]
  /\ UNCHANGED <<saved, shelf, air, office, phoneNotes>>

\* Reads are queued behind the writes; what was typed meanwhile is replaced.
LoadTradeDraft ==
  /\ phone.up /\ phone.screen = "create" /\ ~phone.loaded /\ saved.writes = <<>>
  /\ phone' = [phone EXCEPT !.loaded = TRUE, !.edited = @ /\ saved.draft = NoDraftSaved,
                            !.form = IF saved.draft = NoDraftSaved THEN @ ELSE saved.draft]
  /\ saved' = [saved EXCEPT !.writes = SaveTradeDraft(phone'.form, TRUE)]
  /\ phoneNotes' = [phoneNotes EXCEPT !.left = IF saved.draft = NoDraftSaved THEN phone.form ELSE @]
  /\ UNCHANGED <<shelf, air, office>>

StorageWrites ==
  /\ phone.up /\ saved.writes # <<>>
  /\ saved' = [draft |-> Head(saved.writes), writes |-> Tail(saved.writes)]
  /\ UNCHANGED <<phone, shelf, air, office, phoneNotes>>

HandleSubmit ==
  /\ phone.up /\ phone.screen = "create" /\ phone.form.step = 2 /\ ~phone.submitting
  /\ phone' = [phone EXCEPT !.submitting = TRUE]
  /\ Sent("create", "none") /\ shelf' = Entered("create")
  /\ phoneNotes' = [phoneNotes EXCEPT !.sent = @ + 1]
  /\ UNCHANGED <<saved, office>>

\* The draft is removed, then the screen is replaced by the new trade's detail.
TradeCreated(r, id) ==
  /\ phone.up /\ r \in air /\ r.op = "create" /\ office[id] = "none" /\ phoneNotes.sent < MaxPhoneCalls
  /\ office' = [office EXCEPT ![id] = "CREATED"]
  /\ saved' = [saved EXCEPT !.writes = Append(@, NoDraftSaved)]
  /\ phone' = [phone EXCEPT !.screen = "detail", !.under = "list", !.route = id, !.submitting = FALSE,
                            !.form = Blank, !.loaded = FALSE, !.edited = FALSE]
  /\ air' = (air \ {r}) \cup {[op |-> "load", id |-> id, n |-> phoneNotes.sent + 1, silent |-> FALSE]}
  /\ shelf' = Entered("load")
  /\ phoneNotes' = [phoneNotes EXCEPT !.sent = @ + 1, !.opened = phoneNotes.sent + 1, !.left = NoDraftSaved]

\* A delivery is confirmed from elsewhere.
BackendMoves(id) ==
  /\ office[id] = "FUNDED" /\ office' = [office EXCEPT ![id] = "DELIVERED"]
  /\ UNCHANGED <<phone, saved, shelf, air, phoneNotes>>

-----------------------------------------------------------------------------
MobileInit ==
  /\ phone = Off
  /\ saved = [draft |-> NoDraftSaved, writes |-> <<>>]
  /\ shelf = EmptyShelf /\ air = {}
  /\ office = [id \in MobileIds |-> IF id = CHOOSE x \in MobileIds : TRUE THEN "FUNDED" ELSE "none"]
  /\ phoneNotes = [sent |-> 0, launches |-> 0, applied |-> 0, opened |-> 0, left |-> NoDraftSaved]

MobileNext ==
  \/ Launch \/ Kill \/ OpenVault \/ GoBack \/ FetchTrades \/ FetchTrade \/ ClearErrorView
  \/ \E id \in MobileIds : OpenDetail(id) \/ BackendMoves(id)
  \/ \E r \in air : TradesAnswered(r) \/ TradesRefused(r) \/ PhoneTradeLoaded(r) \/ TradeNotLoaded(r)
                    \/ ActAnswered(r) \/ ActRefused(r)
  \/ \E op \in {"confirm", "release", "dispute"} : Act(op)
  \/ CreateTradeScreen \/ Step1Details \/ Step2Negotiation \/ StepBack \/ LeaveForm
  \/ LoadTradeDraft \/ StorageWrites \/ HandleSubmit
  \/ \E r \in air, id \in MobileIds : TradeCreated(r, id)

-----------------------------------------------------------------------------
MobileTypeOK ==
  /\ phone.screen \in {"none", "list", "vault", "detail", "create"}
  /\ phone.form.step \in 0..2 /\ saved.draft.step \in 0..2
  /\ \A r \in air : r.op \in {"list", "load", "create", "confirm", "release", "dispute"}
       /\ r.n \in 1..MaxPhoneCalls

\* The detail screen shows the trade its actions are sent for whenever the
\* last answer the shared store took was to a request sent since the screen
\* opened that trade: an answer still missing, a failed load or a late answer
\* of the screen before leaves another trade's buttons acting on this one.
ActsOnShownTrade ==
  phone.screen = "detail" /\ phoneNotes.opened > 0 /\ phoneNotes.applied >= phoneNotes.opened
    => shelf.current.id = phone.route

\* A form that was restored and not edited is the draft the user left behind,
\* whenever the app died or the screen was left in between.
DraftSurvives ==
  phone.screen = "create" /\ phone.loaded /\ ~phone.edited
    => phone.form = IF phoneNotes.left = NoDraftSaved THEN Blank ELSE phoneNotes.left

-----------------------------------------------------------------------------
(***************************************************************************)
(* MobileShell                                                             *)
(*                                                                         *)
(* Starting the mobile app, signing in and out of it, and the links that   *)
(* open a screen.  A link that needs a session is parked until a token     *)
(* appears.  The effect that reads the link the app was started with runs  *)
(* again whenever the token changes, so that link is routed or parked      *)
(* again at every sign-in and sign-out of the same process.                *)
(***************************************************************************)

CONSTANTS
  Links,       \* links to screens that need a session
  Wallets,     \* addresses a user may enter
  MaxStarts,   \* bound: starts of the app
  MaxLinks,    \* bound: links and notifications received while it runs
  MaxLogins    \* bound: attempts to sign in

VARIABLES
  shell,    \* the running app: token, wallet, stack, parked link, its start link
  secure,   \* SecureStore: the token and the remembered wallet
  reads,    \* reads of the start link under way, with the token they captured
  login,    \* the attempt to sign in: address and stage
  tale      \* history: counters, links opened, the link parked at the last login

shellVars == <<shell, secure, reads, login, tale>>

NoLogin == [address |-> "none", stage |-> "none"]
Stopped == [up |-> FALSE, ready |-> FALSE, token |-> FALSE, wallet |-> "none", base |-> "none",
            top |-> "none", parked |-> "none", start |-> "none", offered |-> "none"]

-----------------------------------------------------------------------------
(* Links                                                                   *)

\* parseDeepLink knows the paths of ROUTES and drops everything else.
Recognised(link) == link \in Links

\* navigate() of the container: the target comes on top of the stack.
Opened(s, link) == [s EXCEPT !.top = link, !.parked = "none"]

Resumed(s, link) == Opened(s, link)

\* The token is the one the callback captured.
RouteOrPark(s, link, token) == IF token THEN Opened(s, link) ELSE [s EXCEPT !.parked = link]

Count(links, link) == IF link \in Links THEN [links EXCEPT ![link] = @ + 1] ELSE links

\* The effect of AppNavigator reads the start link again for every new token.
\* Nothing cancels a read under way.
ReadAgain(token) == reads \cup {token}

InitialUrlRead(token) ==
  /\ shell.up /\ token \in reads /\ reads' = reads \ {token}
  /\ shell' = IF Recognised(shell.start) THEN RouteOrPark(shell, shell.start, token) ELSE shell
  /\ UNCHANGED <<secure, login, tale>>

WarmLink(link) ==
  /\ shell.up /\ shell.ready /\ tale.links < MaxLinks
  /\ IF Recognised(link)
     THEN /\ shell' = RouteOrPark(shell, link, shell.token)
          /\ tale' = [tale EXCEPT !.links = @ + 1, !.settled = FALSE, !.received = Count(@, link),
                                  !.opened = IF shell.token THEN Count(@, link) ELSE @]
     ELSE /\ tale' = [tale EXCEPT !.links = @ + 1] /\ UNCHANGED shell
  /\ UNCHANGED <<secure, reads, login>>

\* The listener is there only while a token is; a trade goes to its detail.
NotificationTap(link) ==
  /\ shell.up /\ shell.ready /\ shell.token /\ tale.links < MaxLinks
  /\ shell' = [shell EXCEPT !.top = link]
  /\ tale' = [tale EXCEPT !.links = @ + 1, !.settled = FALSE]
  /\ UNCHANGED <<secure, reads, login>>

-----------------------------------------------------------------------------
(* Start                                                                   *)

ShellStart(link) ==
  /\ ~shell.up /\ tale.starts < MaxStarts
  /\ shell' = [Stopped EXCEPT !.up = TRUE, !.start = link]
  /\ tale' = [tale EXCEPT !.starts = @ + 1, !.settled = FALSE]
  /\ UNCHANGED <<secure, reads, login>>

\* getToken, then the navigator: the address is not restored with the token.
ShellBootstrap ==
  /\ shell.up /\ ~shell.ready
  /\ shell' = [shell EXCEPT !.ready = TRUE, !.token = secure.token,
                            !.base = IF secure.token THEN "TradeList" ELSE "WalletConnect"]
  /\ reads' = ReadAgain(secure.token)
  /\ UNCHANGED <<secure, login, tale>>

Stop ==
  /\ shell.up
  /\ shell' = Stopped /\ reads' = {} /\ login' = NoLogin
  /\ tale' = [tale EXCEPT !.received = [l \in Links |-> 0], !.opened = [l \in Links |-> 0],
              !.settled = FALSE]
  /\ UNCHANGED secure

-----------------------------------------------------------------------------
(* Signing in                                                              *)

\* The address and the hardware are asked for when the screen appears.
OfferBiometricUnlock ==
  /\ shell.ready /\ shell.base = "WalletConnect" /\ shell.offered # secure.remembered
  /\ shell' = [shell EXCEPT !.offered = secure.remembered]
  /\ UNCHANGED <<secure, reads, login, tale>>

ConnectView == shell.ready /\ shell.base = "WalletConnect" /\ shell.top = "none" /\ login = NoLogin

BeginLogin(address) ==
  /\ tale.logins < MaxLogins
  /\ login' = [address |-> address, stage |-> "challenge"]
  /\ tale' = [tale EXCEPT !.logins = @ + 1]
  /\ UNCHANGED <<shell, secure, reads>>

HandleConnect(address) == ConnectView /\ BeginLogin(address)

HandleBiometricUnlock == ConnectView /\ shell.offered # "none" /\ BeginLogin(shell.offered)

\* generateChallenge or verifyChallenge fails.
LoginFails ==
  /\ login.stage = "challenge" /\ login' = NoLogin
  /\ UNCHANGED <<shell, secure, reads, tale>>

SetTokenWrites ==
  /\ login.stage = "challenge"
  /\ secure' = [secure EXCEPT !.token = TRUE] /\ login' = [login EXCEPT !.stage = "written"]
  /\ UNCHANGED <<shell, reads, tale>>

\* The store's token: the parked link is resumed, the start link read again.
SetToken ==
  /\ login.stage = "written" /\ login' = [login EXCEPT !.stage = "token"]
  /\ LET s == [shell EXCEPT !.token = TRUE]
     IN  /\ shell' = IF s.parked = "none" THEN s ELSE Resumed(s, s.parked)
         /\ tale' = [tale EXCEPT !.settled = TRUE, !.promised = shell.parked,
                     !.opened = Count(@, shell.parked)]
  /\ reads' = ReadAgain(TRUE)
  /\ UNCHANGED secure

Replaced(s) == [s EXCEPT !.base = "TradeList"]

\* setWalletAddress, remembered without waiting, and replace('TradeList').
LoginEnds(remembered) ==
  /\ login.stage = "token" /\ login' = NoLogin
  /\ shell' = Replaced([shell EXCEPT !.wallet = login.address])
  /\ secure' = IF remembered THEN [secure EXCEPT !.remembered = login.address] ELSE secure
  /\ UNCHANGED <<reads, tale>>

\* clearAuth: from the list the app goes to WalletConnect, from a banner of
\* another screen it stays where it is.
ClearAuth ==
  /\ shell.ready /\ shell.token /\ login = NoLogin
  /\ secure' = [secure EXCEPT !.token = FALSE]
  /\ shell' = [shell EXCEPT !.token = FALSE, !.wallet = "none",
                            !.base = IF shell.top = "none" THEN "WalletConnect" ELSE @]
  /\ reads' = ReadAgain(FALSE)
  /\ tale' = [tale EXCEPT !.settled = FALSE]
  /\ UNCHANGED login

ScreenBack ==
  /\ shell.ready /\ shell.top # "none"
  /\ shell' = [shell EXCEPT !.top = "none"]
  /\ tale' = [tale EXCEPT !.settled = FALSE]
  /\ UNCHANGED <<secure, reads, login>>

-----------------------------------------------------------------------------
ShellInit ==
  /\ shell = Stopped /\ secure = [token |-> FALSE, remembered |-> "none"]
  /\ reads = {} /\ login = NoLogin
  /\ tale = [starts |-> 0, links |-> 0, logins |-> 0, settled |-> FALSE, promised |-> "none",
             received |-> [l \in Links |-> 0], opened |-> [l \in Links |-> 0]]

ShellNext ==
  \/ ShellBootstrap \/ Stop \/ OfferBiometricUnlock \/ HandleBiometricUnlock \/ LoginFails
  \/ SetTokenWrites \/ SetToken \/ ClearAuth \/ ScreenBack
  \/ \E l \in Links \cup {"none"} : ShellStart(l)
  \/ \E l \in Links \cup {"unknown"} : WarmLink(l)
  \/ \E l \in Links : NotificationTap(l)
  \/ \E token \in BOOLEAN : InitialUrlRead(token)
  \/ \E w \in Wallets : HandleConnect(w)
  \/ \E b \in BOOLEAN : LoginEnds(b)

-----------------------------------------------------------------------------
ShellTypeOK ==
  /\ shell.parked \in Links \cup {"none"} /\ shell.top \in Links \cup {"none"}
  /\ shell.base \in {"none", "WalletConnect", "TradeList"}
  /\ secure.remembered \in Wallets \cup {"none"}
  /\ login.stage \in {"none", "challenge", "written", "token"}

\* A link received while the app runs is opened at most as often as it was
\* received, however often the user signs out and in again; only the link the
\* app was started with comes back.
OpenedOncePerLink ==
  \A l \in Links : l # shell.start => tale.opened[l] <= tale.received[l]

\* Signing in continues to the link that was parked: it is on top of the stack
\* until something else is opened or closed, unless the app was started with
\* another link, which is read again and then covers it.
LoginContinues ==
  tale.settled /\ tale.promised # "none" /\ shell.start \in {"none", tale.promised}
      => shell.top = tale.promised

-----------------------------------------------------------------------------
(***************************************************************************)
(* PhoneSigning                                                            *)
(*                                                                         *)
(* The phone's contract administration screen: two sections each build an  *)
(* unsigned transaction at the backend and show it on a card, whose button *)
(* has the wallet sign it and submits it to the network. Transactions are  *)
(* numbered as they are built. A card is a component instance: it keeps    *)
(* its state while it stays mounted and starts afresh when it is mounted   *)
(* again, and results that reach an unmounted one are dropped.             *)
(***************************************************************************)

CONSTANTS
  MaxXdrs,      \* bound: builds asked for
  MaxSignings,  \* bound: presses of the signing button
  MaxVisits     \* bound: times the screen is opened

VARIABLES
  phoneRole,    \* role in the auth store
  signScreen,   \* the sections while the screen is open
  screenVisit,  \* which mount of the screen, 0 before the first
  xdrBuilds,    \* build requests in flight
  signings,     \* signatures and submissions in flight
  heldXdr,         \* transactions the network has
  xdrCount, signCount, cardCount

signingVars == <<phoneRole, signScreen, screenVisit, xdrBuilds, signings, heldXdr, xdrCount, signCount,
                 cardCount>>

Sections == {"mediator", "fee"}
NoXdr == 0
ClosedScreen == [s \in {} |-> s]

FreshSection(s) ==
  [input |-> IF s = "mediator" THEN "empty" ELSE "good", busy |-> FALSE, error |-> FALSE,
   tx |-> NoXdr, card |-> 0, status |-> "idle", hash |-> NoXdr]

SigningInit ==
  /\ phoneRole = "none" /\ signScreen = ClosedScreen /\ screenVisit = 0
  /\ xdrBuilds = {} /\ signings = {} /\ heldXdr = {}
  /\ xdrCount = 0 /\ signCount = 0 /\ cardCount = 0

ScreenOpen == DOMAIN signScreen # {}

\* No code sets the role yet; the store's setter stands for it.
SetRole ==
  /\ phoneRole = "none" /\ phoneRole' = "admin"
  /\ UNCHANGED <<signScreen, screenVisit, xdrBuilds, signings, heldXdr, xdrCount, signCount, cardCount>>

OpenContractScreen ==
  /\ phoneRole = "admin" /\ ~ScreenOpen /\ screenVisit < MaxVisits
  /\ signScreen' = [s \in Sections |-> FreshSection(s)] /\ screenVisit' = screenVisit + 1
  /\ UNCHANGED <<phoneRole, xdrBuilds, signings, heldXdr, xdrCount, signCount, cardCount>>

LeaveScreen ==
  /\ ScreenOpen /\ signScreen' = ClosedScreen
  /\ UNCHANGED <<phoneRole, screenVisit, xdrBuilds, signings, heldXdr, xdrCount, signCount, cardCount>>

SignOut ==
  /\ ScreenOpen /\ \E s \in Sections : signScreen[s].error
  /\ phoneRole' = "none" /\ signScreen' = ClosedScreen
  /\ UNCHANGED <<screenVisit, xdrBuilds, signings, heldXdr, xdrCount, signCount, cardCount>>

TypeInput(s, text) ==
  /\ ScreenOpen /\ ~signScreen[s].busy /\ signScreen[s].input # text
  /\ signScreen' = [signScreen EXCEPT ![s].input = text]
  /\ UNCHANGED <<phoneRole, screenVisit, xdrBuilds, signings, heldXdr, xdrCount, signCount, cardCount>>

-----------------------------------------------------------------------------
(* Building                                                                *)

\* addMediator returns on an empty address, updateFee outside 1..500.
Submittable(s) ==
  /\ ~signScreen[s].busy
  /\ IF s = "mediator" THEN signScreen[s].input # "empty" ELSE signScreen[s].input = "good"

BuildBegun(section) == [section EXCEPT !.busy = TRUE, !.error = FALSE, !.tx = NoXdr]

StartBuild(s) ==
  /\ ScreenOpen /\ Submittable(s) /\ xdrCount < MaxXdrs
  /\ xdrCount' = xdrCount + 1
  /\ signScreen' = [signScreen EXCEPT ![s] = BuildBegun(@)]
  /\ xdrBuilds' = xdrBuilds \cup {[sec |-> s, visit |-> screenVisit, xdr |-> xdrCount + 1,
                                   good |-> signScreen[s].input = "good"]}
  /\ UNCHANGED <<phoneRole, screenVisit, signings, heldXdr, signCount, cardCount>>

StillOpen(visit) == ScreenOpen /\ screenVisit = visit

\* A card already on the screen keeps its instance and its state.
Carded(section, xdr) ==
  IF section.tx = NoXdr
  THEN [section EXCEPT !.busy = FALSE, !.tx = xdr, !.card = cardCount + 1, !.status = "idle",
        !.hash = NoXdr]
  ELSE [section EXCEPT !.busy = FALSE, !.tx = xdr]

BuildAnswered(b) ==
  /\ b \in xdrBuilds /\ xdrBuilds' = xdrBuilds \ {b} /\ b.good
  /\ IF StillOpen(b.visit)
     THEN /\ signScreen' = [signScreen EXCEPT ![b.sec] =
                [Carded(@, b.xdr) EXCEPT !.input = IF b.sec = "mediator" THEN "empty" ELSE @]]
          /\ cardCount' = cardCount + 1
     ELSE UNCHANGED <<signScreen, cardCount>>
  /\ UNCHANGED <<phoneRole, screenVisit, signings, heldXdr, xdrCount, signCount>>

BuildFailed(b) ==
  /\ b \in xdrBuilds /\ xdrBuilds' = xdrBuilds \ {b}
  /\ signScreen' = IF StillOpen(b.visit)
                   THEN [signScreen EXCEPT ![b.sec].busy = FALSE, ![b.sec].error = TRUE] ELSE signScreen
  /\ UNCHANGED <<phoneRole, screenVisit, signings, heldXdr, xdrCount, signCount, cardCount>>

-----------------------------------------------------------------------------
(* Signing and submitting                                                  *)

SignAndSubmit(s) ==
  /\ ScreenOpen /\ signScreen[s].tx # NoXdr /\ signScreen[s].status \in {"idle", "error"}
  /\ signCount < MaxSignings /\ signCount' = signCount + 1
  /\ signScreen' = [signScreen EXCEPT ![s].status = "busy"]
  /\ signings' = signings \cup {[id |-> signCount, sec |-> s, visit |-> screenVisit,
                                 card |-> signScreen[s].card, xdr |-> signScreen[s].tx, stage |-> "sign"]}
  /\ UNCHANGED <<phoneRole, screenVisit, xdrBuilds, heldXdr, xdrCount, cardCount>>

Mounted(g) == StillOpen(g.visit) /\ signScreen[g.sec].card = g.card /\ signScreen[g.sec].tx # NoXdr

CardTold(g, status, hash) ==
  signScreen' = IF Mounted(g) THEN [signScreen EXCEPT ![g.sec].status = status, ![g.sec].hash = hash]
                ELSE signScreen

\* Unavailable, declined, failed or timed out in the wallet.
SignFails(g) ==
  /\ g \in signings /\ g.stage = "sign" /\ signings' = signings \ {g}
  /\ CardTold(g, "error", NoXdr)
  /\ UNCHANGED <<phoneRole, screenVisit, xdrBuilds, heldXdr, xdrCount, signCount, cardCount>>

WalletSigns(g) ==
  /\ g \in signings /\ g.stage = "sign"
  /\ signings' = (signings \ {g}) \cup {[g EXCEPT !.stage = "submit"]}
  /\ UNCHANGED <<phoneRole, signScreen, screenVisit, xdrBuilds, heldXdr, xdrCount, signCount, cardCount>>

AcceptedStatuses == {"PENDING", "DUPLICATE"}

\* The network's answer to one submission.
RpcAnswers(xdr) == IF xdr \in heldXdr THEN {"DUPLICATE"} ELSE {"PENDING", "TRY_AGAIN_LATER", "ERROR"}

Submitted(g, answer) ==
  /\ g \in signings /\ g.stage = "submit" /\ signings' = signings \ {g}
  /\ answer \in RpcAnswers(g.xdr)
  /\ heldXdr' = IF answer = "PENDING" THEN heldXdr \cup {g.xdr} ELSE heldXdr
  /\ IF answer \in AcceptedStatuses THEN CardTold(g, "submitted", g.xdr) ELSE CardTold(g, "error", NoXdr)
  /\ UNCHANGED <<phoneRole, screenVisit, xdrBuilds, xdrCount, signCount, cardCount>>

\* The request is aborted or its answer lost, before or after the network took it.
SubmitTimesOut(g, taken) ==
  /\ g \in signings /\ g.stage = "submit" /\ signings' = signings \ {g}
  /\ heldXdr' = IF taken THEN heldXdr \cup {g.xdr} ELSE heldXdr
  /\ CardTold(g, "error", NoXdr)
  /\ UNCHANGED <<phoneRole, screenVisit, xdrBuilds, xdrCount, signCount, cardCount>>

SigningNext ==
  \/ SetRole \/ OpenContractScreen \/ LeaveScreen \/ SignOut
  \/ \E s \in Sections : StartBuild(s) \/ SignAndSubmit(s)
  \/ \E s \in Sections, text \in {"bad", "good"} : TypeInput(s, text)
  \/ \E b \in xdrBuilds : BuildAnswered(b) \/ BuildFailed(b)
  \/ \E g \in signings : SignFails(g) \/ WalletSigns(g)
  \/ \E g \in signings, a \in {"PENDING", "DUPLICATE", "TRY_AGAIN_LATER", "ERROR"} : Submitted(g, a)
  \/ \E g \in signings, taken \in BOOLEAN : SubmitTimesOut(g, taken)

SigningSpec == SigningInit /\ [][SigningNext]_signingVars

SigningTypeOK ==
  /\ DOMAIN signScreen \in {{}, Sections} /\ heldXdr \subseteq 1..MaxXdrs
  /\ \A s \in DOMAIN signScreen : signScreen[s].status \in {"idle", "busy", "submitted", "error"}

(* A hash on a card is that of the transaction shown above it, also when   *)
(* another was built while the wallet was still asked to sign the previous *)
(* one (AdminContractScreen.tsx: addMediator, updateFee; SignAndSubmitXdr).*)
HashOfShownTransaction ==
  \A s \in DOMAIN signScreen :
    (signScreen[s].tx # NoXdr /\ signScreen[s].status = "submitted")
        => signScreen[s].hash = signScreen[s].tx

(* A card says submitted only for a transaction the network has, through   *)
(* lost answers, retries and a busy network                                *)
(* (freighterSigner.ts: submitSignedTransaction).                          *)
SubmittedIsHeld ==
  \A s \in DOMAIN signScreen : signScreen[s].status = "submitted" => signScreen[s].hash \in heldXdr

-----------------------------------------------------------------------------
(***************************************************************************)
(* PhoneBatch                                                              *)
(*                                                                         *)
(* The phone's trade batch screen: ids and a target status are sent in one *)
(* request, and the rows that moved and those that did not are listed.     *)
(***************************************************************************)

CONSTANTS
  BatchTrades, BatchTargets,
  MaxBatchRuns, MaxBatchVisits   \* bounds

VARIABLES
  batch,        \* the screen
  batchRuns,    \* requests in flight
  batchRows,    \* status of the trades at the backend
  batchCounts

batchVars == <<batch, batchRuns, batchRows, batchCounts>>

NoResult == [run |-> 0, succeeded |-> {}, failed |-> {}]

FreshBatch ==
  [open |-> TRUE, ids |-> {}, target |-> "CANCELLED", busy |-> FALSE, error |-> FALSE, result |-> NoResult]

BatchInit ==
  /\ batch = [FreshBatch EXCEPT !.open = FALSE] /\ batchRuns = {}
  /\ batchRows = [t \in BatchTrades |-> "CREATED"] /\ batchCounts = [runs |-> 0, visits |-> 0]

OpenBatch ==
  /\ ~batch.open /\ batchCounts.visits < MaxBatchVisits
  /\ batch' = FreshBatch /\ batchCounts' = [batchCounts EXCEPT !.visits = @ + 1]
  /\ UNCHANGED <<batchRuns, batchRows>>

LeaveBatch == batch.open /\ batch' = [batch EXCEPT !.open = FALSE]
  /\ UNCHANGED <<batchRuns, batchRows, batchCounts>>

EnterIds(ids) ==
  /\ batch.open /\ ~batch.busy /\ ids # batch.ids /\ batch' = [batch EXCEPT !.ids = ids]
  /\ UNCHANGED <<batchRuns, batchRows, batchCounts>>

SetTarget(s) ==
  /\ batch.open /\ ~batch.busy /\ s # batch.target /\ batch' = [batch EXCEPT !.target = s]
  /\ UNCHANGED <<batchRuns, batchRows, batchCounts>>

RunBegun(screen) == [screen EXCEPT !.busy = TRUE, !.error = FALSE, !.result = NoResult]

RunButton == batch.open /\ ~batch.busy /\ batch.ids # {}

\* From the button, or from the banner's retry.
RunBatch ==
  /\ RunButton
  /\ batchCounts.runs < MaxBatchRuns /\ batchCounts' = [batchCounts EXCEPT !.runs = @ + 1]
  /\ batch' = RunBegun(batch)
  /\ batchRuns' = batchRuns \cup {[id |-> batchCounts.runs + 1, visit |-> batchCounts.visits,
                                   ids |-> batch.ids, target |-> batch.target, moved |-> {},
                                   stage |-> "out"]}
  /\ UNCHANGED batchRows

\* The backend moves the rows its transition table allows.
Movable(s, target) == s = "CREATED" /\ target # "CREATED"

BatchHandled(r) ==
  LET moved == {t \in r.ids : Movable(batchRows[t], r.target)}
  IN /\ r \in batchRuns /\ r.stage = "out"
     /\ batchRows' = [t \in BatchTrades |-> IF t \in moved THEN r.target ELSE batchRows[t]]
     /\ batchRuns' = (batchRuns \ {r}) \cup {[r EXCEPT !.stage = "handled", !.moved = moved]}
     /\ UNCHANGED <<batch, batchCounts>>

OnScreen(r) == batch.open /\ batchCounts.visits = r.visit

BatchAnswered(r) ==
  /\ r \in batchRuns /\ r.stage = "handled" /\ batchRuns' = batchRuns \ {r}
  /\ batch' = IF OnScreen(r)
              THEN [batch EXCEPT !.busy = FALSE,
                      !.result = [run |-> r.id, succeeded |-> r.moved, failed |-> r.ids \ r.moved]]
              ELSE batch
  /\ UNCHANGED <<batchRows, batchCounts>>

\* Refused before it was handled, or handled and the answer lost.
BatchFails(r) ==
  /\ r \in batchRuns /\ batchRuns' = batchRuns \ {r}
  /\ batch' = IF OnScreen(r) THEN [batch EXCEPT !.busy = FALSE, !.error = TRUE] ELSE batch
  /\ UNCHANGED <<batchRows, batchCounts>>

BatchNext ==
  \/ OpenBatch \/ LeaveBatch \/ RunBatch
  \/ \E ids \in SUBSET BatchTrades : EnterIds(ids)
  \/ \E s \in BatchTargets : SetTarget(s)
  \/ \E r \in batchRuns : BatchHandled(r) \/ BatchAnswered(r) \/ BatchFails(r)

BatchSpec == BatchInit /\ [][BatchNext]_batchVars

BatchTypeOK == batch.ids \subseteq BatchTrades /\ batch.result.succeeded \subseteq BatchTrades

(* A result on the screen is that of the last run, and never stands next   *)
(* to that run's error or spinner; the rows it lists as moved were moved   *)
(* (AdminTradesBatchScreen.tsx: runBatch).                                 *)
ResultOfLastRun ==
  batch.result # NoResult =>
    /\ batch.result.run = batchCounts.runs /\ ~batch.busy /\ ~batch.error
    /\ \A t \in batch.result.succeeded : batchRows[t] # "CREATED"

-----------------------------------------------------------------------------
\* The parts side by side: a behaviour follows one of them.

phoneAppVars == <<mobileVars, shellVars, signingVars, batchVars>>

PhoneInit ==
  /\ MobileInit
  /\ ShellInit
  /\ SigningInit
  /\ BatchInit

PhoneNext ==
  \/ /\ \/ TurnTo("MobileTrades") /\ UNCHANGED mobileVars
        \/ StaysWith("MobileTrades") /\ MobileNext
     /\ UNCHANGED <<shellVars, signingVars, batchVars>>
  \/ /\ \/ TurnTo("MobileShell") /\ UNCHANGED shellVars
        \/ StaysWith("MobileShell") /\ ShellNext
     /\ UNCHANGED <<mobileVars, signingVars, batchVars>>
  \/ /\ \/ TurnTo("PhoneSigning") /\ UNCHANGED signingVars
        \/ StaysWith("PhoneSigning") /\ SigningNext
     /\ UNCHANGED <<mobileVars, shellVars, batchVars>>
  \/ /\ \/ TurnTo("PhoneBatch") /\ UNCHANGED batchVars
        \/ StaysWith("PhoneBatch") /\ BatchNext
     /\ UNCHANGED <<mobileVars, shellVars, signingVars>>

PhoneTypeOK ==
  /\ subject = "MobileTrades" => MobileTypeOK
  /\ subject = "MobileShell" => ShellTypeOK
  /\ subject = "PhoneSigning" => SigningTypeOK
  /\ subject = "PhoneBatch" => BatchTypeOK
=============================================================================
