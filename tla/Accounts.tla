------------------------------- MODULE Accounts ------------------------------
\* What is kept about a user: profile, score, notification choices, and what
\* callbacks of the message provider change.
EXTENDS Subject, Integers, Sequences, FiniteSets, FiniteSetsExt

-----------------------------------------------------------------------------
(***************************************************************************)
(* Profiles                                                                *)
(*                                                                         *)
(* User rows in Supabase: a sign-in and GET /users/me find or create the   *)
(* wallet's row, PUT /users/me changes it, GET /users/:address shows it.   *)
(* Several requests of one wallet run at once; a query may fail, and an    *)
(* insert may be carried out although its answer is lost.  An address in   *)
(* lower case, the form the backend's own tokens carry, is refused as no   *)
(* Stellar key before any query.                                           *)
(***************************************************************************)

CONSTANTS
  ProfileRequests,   \* concurrent requests of one wallet
  DisplayNames

VARIABLES
  userRow,           \* the wallet's row: a name, "unnamed", or "absent"
  profileCalls

profileVars == <<userRow, profileCalls>>

ProfileWaiting == [stage |-> "idle", broke |-> FALSE, shown |-> "absent"]

ProfileInit == userRow = "absent" /\ profileCalls = [r \in ProfileRequests |-> ProfileWaiting]

Going(r, next) == profileCalls' = [profileCalls EXCEPT ![r] = next]

ShowRow(r) == Going(r, [profileCalls[r] EXCEPT !.stage = "200", !.shown = userRow])

\* The query fails, with an error in the answer (500) or by throwing (503).
QueryFails(r) ==
  /\ profileCalls[r].stage \in {"finding", "inserting", "refetching", "updating", "viewing"}
  /\ Going(r, [profileCalls[r] EXCEPT !.stage = "5xx", !.broke = TRUE])
  /\ UNCHANGED userRow

AskProfile(r) ==
  /\ profileCalls[r].stage = "idle"
  /\ \E stage \in {"finding", "updating", "viewing", "400"} :
       Going(r, [profileCalls[r] EXCEPT !.stage = stage])
  /\ UNCHANGED userRow

FindUser(r) ==
  /\ profileCalls[r].stage = "finding"
  /\ IF userRow = "absent" THEN Going(r, [profileCalls[r] EXCEPT !.stage = "inserting"]) ELSE ShowRow(r)
  /\ UNCHANGED userRow

\* 23505: another request inserted the address after our initial read.
InsertConflicts(r) == Going(r, [profileCalls[r] EXCEPT !.stage = "refetching"])

RowAfterInsert == IF userRow = "absent" THEN "unnamed" ELSE userRow

CreateUser(r) ==
  /\ profileCalls[r].stage = "inserting" /\ userRow' = RowAfterInsert
  /\ IF userRow = "absent"
     THEN \/ Going(r, [profileCalls[r] EXCEPT !.stage = "200", !.shown = "unnamed"])
          \/ Going(r, [profileCalls[r] EXCEPT !.stage = "5xx", !.broke = TRUE])
     ELSE InsertConflicts(r)

FindAfterConflict(r) ==
  /\ profileCalls[r].stage = "refetching"
  /\ IF userRow = "absent" THEN Going(r, [profileCalls[r] EXCEPT !.stage = "5xx"]) ELSE ShowRow(r)
  /\ UNCHANGED userRow

updateUser(r) ==
  /\ profileCalls[r].stage = "updating"
  /\ IF userRow = "absent"
     THEN Going(r, [profileCalls[r] EXCEPT !.stage = "404"]) /\ UNCHANGED userRow
     ELSE \E name \in DisplayNames :
            userRow' = name /\ Going(r, [profileCalls[r] EXCEPT !.stage = "200", !.shown = name])

getPublicProfile(r) ==
  /\ profileCalls[r].stage = "viewing"
  /\ IF userRow = "absent" THEN Going(r, [profileCalls[r] EXCEPT !.stage = "404"]) ELSE ShowRow(r)
  /\ UNCHANGED userRow

\* The client sees the answer and may ask again.
ProfileSeen(r) ==
  /\ profileCalls[r].stage \in {"200", "400", "404", "5xx"}
  /\ Going(r, ProfileWaiting) /\ UNCHANGED userRow

ProfileNext ==
  \E r \in ProfileRequests :
    \/ AskProfile(r) \/ FindUser(r) \/ CreateUser(r) \/ FindAfterConflict(r)
    \/ updateUser(r) \/ getPublicProfile(r) \/ QueryFails(r) \/ ProfileSeen(r)

ProfileSpec == ProfileInit /\ [][ProfileNext]_profileVars

ProfileTypeOK ==
  /\ userRow \in DisplayNames \cup {"unnamed", "absent"}
  /\ \A r \in ProfileRequests :
        /\ profileCalls[r].stage \in {"idle", "finding", "inserting", "refetching", "updating", "viewing",
                                   "200", "400", "404", "5xx"}
        /\ profileCalls[r].broke \in BOOLEAN
        /\ profileCalls[r].shown \in DisplayNames \cup {"unnamed", "absent"}

\* A request answers 5xx only after one of its own queries failed: losing the
\* insert to another request of the same wallet is not an error
\* (findOrCreateUser's branch on 23505).
RaceStillServesRow == \A r \in ProfileRequests : profileCalls[r].stage = "5xx" => profileCalls[r].broke

\* Only PUT /users/me changes a row that is there: a sign-in that read before
\* the row existed and inserts after it was renamed leaves the name alone.
SignInKeepsProfile ==
  [][userRow # "absent" /\ userRow' # userRow =>
       \E r \in ProfileRequests : profileCalls[r].stage = "updating"
           /\ profileCalls'[r].stage = "200"]_profileVars

-----------------------------------------------------------------------------
(***************************************************************************)
(* Reputation                                                              *)
(*                                                                         *)
(* Reputation: the score and the history computed from a wallet's trades   *)
(* and disputes, which are read in separate queries while they change.     *)
(* The rows are those stored under the wallet's lower-case address, the    *)
(* one form the service looks for.                                         *)
(***************************************************************************)

CONSTANTS
  RepTrades,              \* the wallet's trades; OwnTrades are with itself
  OwnTrades,
  HistorySlice,           \* how many of each kind the history shows
  BonusTrades,            \* least number of trades that earns the bonus, and
  TradeBonus              \* the bonus (10 and 5; 8 and 15 further up)

VARIABLES
  repRows,       \* status of each trade and of the dispute on it
  repAnswer      \* one computation under way

repVars == <<repRows, repAnswer>>

RepRoles == {"buyer", "seller"}

RepIdle ==
  [stage |-> "trades", read |-> {}, trades |-> {}, completed |-> {}, opened |-> {}, ended |-> {},
   score |-> 0, impacts |-> {}]

RepInit ==
  /\ repRows = [t \in RepTrades |-> [trade |-> "FUNDED", dispute |-> "none"]]
  /\ repAnswer = RepIdle

RepRowMoves(t) ==
  /\ \/ repRows[t].trade = "FUNDED" /\ repRows' = [repRows EXCEPT ![t].trade = "COMPLETED"]
     \/ repRows[t].trade = "FUNDED" /\ repRows' = [repRows EXCEPT ![t] = [trade |-> "DISPUTED",
                                                                          dispute |-> "OPEN"]]
     \/ repRows[t].dispute = "OPEN" /\ repRows' = [repRows EXCEPT ![t] = [trade |-> "COMPLETED",
                                                                          dispute |-> "RESOLVED"]]
  /\ UNCHANGED repAnswer

\* The wallet buys every trade here and sells the ones it has with itself.
Listed(role) == IF role = "buyer" THEN RepTrades ELSE OwnTrades

\* The two queries run side by side; a trade of the wallet with itself is in
\* both lists.
ReadTrades(role) ==
  /\ repAnswer.stage = "trades" /\ role \notin repAnswer.read
  /\ repAnswer' = [repAnswer EXCEPT !.read = @ \cup {role},
                   !.trades = @ \cup {<<t, role>> : t \in Listed(role)},
                     !.completed = @ \cup {<<t, role>> :
                                              t \in {u \in Listed(role) : repRows[u].trade = "COMPLETED"}}]
  /\ UNCHANGED repRows

ReadDisputes ==
  /\ repAnswer.stage = "trades" /\ repAnswer.read = RepRoles
  /\ LET opened == {t \in RepTrades : repRows[t].dispute # "none"}
     IN  repAnswer' = [repAnswer EXCEPT !.stage = "disputes", !.opened = opened,
                         !.ended = {t \in opened : repRows[t].dispute = "RESOLVED"}]
  /\ UNCHANGED repRows

Bonus(trades) == IF Cardinality(trades) >= BonusTrades THEN TradeBonus ELSE 0

Clamped(n) == IF n < 0 THEN 0 ELSE IF n > 100 THEN 100 ELSE n

trustScore(a) ==
  Clamped(50 + 5 * Cardinality(a.completed) - 8 * Cardinality(a.ended)
          - 2 * Cardinality(a.opened) + Bonus(a.trades))

DisputeImpact(a, d) == IF d \in a.ended THEN -10 ELSE -2

\* The newest few of each kind; which those are does not matter to the sum.
RepHistory(a) ==
  LET shownTrades == CHOOSE S \in SUBSET a.completed :
                       Cardinality(S) = Min({HistorySlice, Cardinality(a.completed)})
      shownCases == CHOOSE S \in SUBSET a.opened :
                      Cardinality(S) = Min({HistorySlice, Cardinality(a.opened)})
  IN  {[of |-> t[1], as |-> t[2], impact |-> 5] : t \in shownTrades}
        \cup {[of |-> d, as |-> "dispute", impact |-> DisputeImpact(a, d)] : d \in shownCases}

RepComputed ==
  /\ repAnswer.stage = "disputes"
  /\ repAnswer' = [repAnswer EXCEPT !.stage = "told", !.score = trustScore(repAnswer),
                   !.impacts = RepHistory(repAnswer)]
  /\ UNCHANGED repRows

RepNext ==
  \/ \E t \in RepTrades : RepRowMoves(t)
  \/ \E role \in RepRoles : ReadTrades(role)
  \/ ReadDisputes \/ RepComputed

RepSpec == RepInit /\ [][RepNext]_repVars

RepTypeOK ==
  /\ \A t \in RepTrades : repRows[t].trade \in {"FUNDED", "DISPUTED", "COMPLETED"}
                          /\ repRows[t].dispute \in {"none", "OPEN", "RESOLVED"}
  /\ repAnswer.stage \in {"trades", "disputes", "told"} /\ repAnswer.score \in 0..100

\* The history explains the score: unless a list is cut short or the score
\* clamped, 50, the bonus and the impacts shown add up to it, also when a
\* dispute ended between the queries (getUserReputation).
HistoryExplainsScore ==
  LET a == repAnswer
      sum == 50 + Bonus(a.trades) + MapThenSumSet(LAMBDA i : i.impact, a.impacts)
  IN  a.stage = "told" /\ Cardinality(a.completed) <= HistorySlice /\ Cardinality(a.opened) <= HistorySlice
        => a.score = Clamped(sum)

-----------------------------------------------------------------------------
(***************************************************************************)
(* ReputationPage                                                          *)
(*                                                                         *)
(* The page that shows the signed-in account's reputation.  The answers    *)
(* carry no account: what tells them apart is the token they were asked    *)
(* with.                                                                   *)
(***************************************************************************)

CONSTANTS
  RepAccounts,
  MaxRepLoads    \* bound

VARIABLES
  repPage,       \* the page in the browser
  repLoads       \* its requests in flight, each by the account it is for

repPageVars == <<repPage, repLoads>>

RepPageInit ==
  /\ repPage = [account |-> "none", loading |-> TRUE, error |-> FALSE, data |-> "none",
                crossed |-> FALSE, loads |-> 0]
  /\ repLoads = {}

BeginRepLoad(page) ==
  /\ page.loads < MaxRepLoads
  /\ repPage' = [page EXCEPT !.loading = TRUE, !.error = FALSE, !.loads = @ + 1,
                             !.crossed = @ \/ repLoads # {}]
  /\ repLoads' = repLoads \cup {[of |-> page.account, no |-> page.loads + 1]}

TokenEffect(page) == BeginRepLoad(page)

\* Sign-in, or another account: the token changes and the effect runs.
RepAccount(account) ==
  /\ account # repPage.account
  /\ TokenEffect([repPage EXCEPT !.account = account])


RepSignedOut ==
  /\ repPage.account # "none" /\ repPage' = [repPage EXCEPT !.account = "none"]
  /\ UNCHANGED repLoads

RepRetryView == repPage.account # "none" /\ ~repPage.loading /\ repPage.error

RepRetry == RepRetryView /\ BeginRepLoad(repPage)

RepLoaded(load) ==
  /\ repLoads' = repLoads \ {load}
  /\ \/ repPage' = [repPage EXCEPT !.data = load.of, !.loading = FALSE]
     \/ repPage' = [repPage EXCEPT !.error = TRUE, !.loading = FALSE]


RepPageNext ==
  \/ \E account \in RepAccounts : RepAccount(account)
  \/ RepSignedOut \/ RepRetry
  \/ \E load \in repLoads : RepLoaded(load)

RepPageSpec == RepPageInit /\ [][RepPageNext]_repPageVars

\* The page shows figures: signed in, not loading, no error.
RepDataView == repPage.account # "none" /\ ~repPage.loading /\ ~repPage.error /\ repPage.data # "none"

RepPageTypeOK ==
  /\ repPage.account \in RepAccounts \cup {"none"} /\ repPage.data \in RepAccounts \cup {"none"}
  /\ repPage.loads \in 0..MaxRepLoads /\ \A load \in repLoads : load.of \in RepAccounts

\* Unless two loads overlapped, the figures shown are those of the account
\* that is signed in (fetchReputation reruns when the token changes).
ReputationIsMine == RepDataView /\ ~repPage.crossed => repPage.data = repPage.account

-----------------------------------------------------------------------------
(***************************************************************************)
(* Preferences                                                             *)
(*                                                                         *)
(* Notification preferences and the notification worker. A user's row      *)
(* holds the channels chosen per event and the phone number; two endpoints *)
(* read the row and then upsert their own half of it, so requests overlap, *)
(* while the worker reads the number for each text message it sends.       *)
(***************************************************************************)

CONSTANTS
  EventKeys,         \* event names of the preferences map
  PhoneNumbers,
  PutRequests,       \* requests
  MaxTexts           \* bound: notification jobs

VARIABLES
  preference,        \* the row: exists, preferences (chosen events), phoneNumber
  puts,              \* the requests
  texts,             \* numbers that text messages went to, and the job counter
  chosen, number     \* ghosts: what the answered requests, in write order, add up to

preferenceVars == <<preference, puts, texts, chosen, number>>

NoNumber == "none"
IdlePut == [kind |-> "none", phase |-> "idle", incoming |-> {}, seen |-> {}, phone |-> NoNumber,
            answer |-> {}, missed |-> {}]

PreferenceInit ==
  /\ preference = [exists |-> FALSE, events |-> {}, phone |-> NoNumber]
  /\ puts = [r \in PutRequests |-> IdlePut]
  /\ texts = [job |-> "none", to |-> NoNumber, sent |-> {}, count |-> 0]
  /\ chosen = {} /\ number = NoNumber

\* findUnique: the caller's row as it is now. `incoming` names the keys set.
PutReads(r) ==
  /\ puts[r].phase = "idle" /\ puts[r].kind = "none"
  /\ \/ \E keys \in SUBSET EventKeys \ {{}} :
          /\ puts' = [puts EXCEPT ![r] = [IdlePut EXCEPT !.kind = "events", !.phase = "read",
                        !.incoming = keys, !.seen = preference.events, !.phone = preference.phone]]
     \/ \E n \in PhoneNumbers :
          /\ puts' = [puts EXCEPT ![r] = [IdlePut EXCEPT !.kind = "phone", !.phase = "read",
                        !.seen = preference.events, !.phone = n]]
  /\ UNCHANGED <<preference, texts, chosen, number>>

\* Mutant: the incoming map replaces the stored one.
ReplacedChoices(put) == put.incoming

\* { ...existing, ...incoming }
Merged(put) == put.seen \cup put.incoming

\* upsert with update { preferences }: the number is left alone.
EventsUpsert(put) == [preference EXCEPT !.exists = TRUE, !.events = Merged(put)]

\* upsert with update { phoneNumber }; a new row starts with no preferences.
PhoneUpsert(put) == [preference EXCEPT !.exists = TRUE, !.phone = put.phone]

PutWrites(r) ==
  /\ puts[r].phase = "read"
  /\ IF puts[r].kind = "events"
     THEN /\ preference' = EventsUpsert(puts[r])
          /\ chosen' = chosen \cup puts[r].incoming /\ number' = number
     ELSE /\ preference' = PhoneUpsert(puts[r])
          /\ number' = puts[r].phone /\ chosen' = chosen
  /\ puts' = [q \in PutRequests |->
       IF q = r
       THEN [puts[r] EXCEPT !.phase = "written",
               !.answer = IF puts[r].kind = "events" THEN Merged(puts[r]) ELSE puts[r].seen]
       ELSE IF puts[q].phase = "read" THEN [puts[q] EXCEPT !.missed = @ \cup puts[r].incoming]
       ELSE puts[q]]
  /\ UNCHANGED texts

\* The database fails: next(error), nothing written.
PutFails(r) ==
  /\ puts[r].phase = "read" /\ puts' = [puts EXCEPT ![r].phase = "failed"]
  /\ UNCHANGED <<preference, texts, chosen, number>>

-----------------------------------------------------------------------------
(* The notification worker: dispatchSms                                    *)

SmsLooksUp ==
  /\ texts.job = "none" /\ texts.count < MaxTexts
  /\ texts' = [texts EXCEPT !.count = @ + 1, !.to = preference.phone,
                 !.job = IF preference.phone = NoNumber THEN "none" ELSE "sending"]
  /\ UNCHANGED <<preference, puts, chosen, number>>

\* sendSms never throws: an unsent message only leaves a log line.
SmsSent ==
  /\ texts.job = "sending"
  /\ \E sent \in BOOLEAN :
       texts' = [texts EXCEPT !.job = "none", !.sent = IF sent THEN @ \cup {texts.to} ELSE @]
  /\ UNCHANGED <<preference, puts, chosen, number>>

PreferenceNext ==
  \/ \E r \in PutRequests : PutReads(r) \/ PutWrites(r) \/ PutFails(r)
  \/ SmsLooksUp \/ SmsSent

PreferenceSpec == PreferenceInit /\ [][PreferenceNext]_preferenceVars

PreferenceTypeOK ==
  /\ preference.exists \in BOOLEAN /\ preference.events \subseteq EventKeys
  /\ preference.phone \in PhoneNumbers \cup {NoNumber}

(* Overlapping updates included: nothing is stored that was not chosen, a  *)
(* choice answered as saved is only lost to a later write whose request    *)
(* had read the row before that choice was written, and what the last      *)
(* answer showed of the caller's own keys is stored                        *)
(* (notifications.preferences.routes.ts: PUT /notifications/preferences).  *)
ChoicesAddUp ==
  LET saved == {r \in PutRequests : puts[r].kind = "events" /\ puts[r].phase = "written"}
  IN /\ preference.events \subseteq chosen
     /\ chosen \ preference.events \subseteq UNION {puts[r].missed : r \in saved}
     /\ saved # {} => \E r \in saved : preference.events = puts[r].answer

(* The number is the one last confirmed, however preference updates and    *)
(* number updates interleave, so no text goes to a number that was never   *)
(* saved (notifications.preferences.routes.ts: PUT sms-settings).          *)
NumberIsTheConfirmedOne ==
  /\ preference.phone = number
  /\ texts.sent \subseteq {puts[r].phone : r \in {q \in PutRequests : puts[q].kind = "phone"}}

-----------------------------------------------------------------------------
(***************************************************************************)
(* InboundCallbacks                                                        *)
(*                                                                         *)
(* Signed provider callbacks while the provider's secret is being rotated. *)
(* The deployed registry accepts several secrets per provider; the         *)
(* provider signs timestamp and body with the one it uses, deliveries take *)
(* time and clocks disagree, and a delivery answered with a server error   *)
(* is signed and sent again.                                               *)
(***************************************************************************)

CONSTANTS
  CallbackIds,       \* payloads the provider wants delivered
  Tolerance,         \* INBOUND_WEBHOOK_TOLERANCE_SECONDS
  MaxSkew,           \* how far the clocks may disagree
  LastSecond,        \* bound: time
  MaxDeploys,        \* bound: deployments of a new registry
  MaxCallbackTries   \* bound: deliveries of one payload

VARIABLES
  registry,          \* the provider's accepted secrets, in order; empty: not configured
  signing,           \* the secret the provider signs with
  consumer,          \* a handler is registered for the provider
  callbacks,         \* payload -> the delivery under way and its answer
  callbackClock, deploys,
  handledAt          \* ghost: per payload, how old the deliveries were that were handled

callbackVars == <<registry, signing, consumer, callbacks, callbackClock, deploys, handledAt>>

CallbackSecrets == {"old", "new"}
Registries == {<<>>, <<"old">>, <<"old", "new">>, <<"new">>}
NotSent == [phase |-> "unsent", secret |-> "none", stamp |-> 0, answer |-> "none", tries |-> 0]

CallbackInit ==
  /\ registry = <<>> /\ signing = "old" /\ consumer = FALSE
  /\ callbacks = [c \in CallbackIds |-> NotSent]
  /\ callbackClock = 1 /\ deploys = 0 /\ handledAt = [c \in CallbackIds |-> {}]

\* The provider is configured, and its consumer registered, or not.
CallbackStart ==
  /\ registry' \in {<<>>, <<"old">>} /\ consumer' \in BOOLEAN
  /\ UNCHANGED <<signing, callbacks, callbackClock, deploys, handledAt>>

\* A deploy carries another INBOUND_WEBHOOK_SECRETS; the memoised registry is rebuilt from it.
RegistryDeployed(r) ==
  /\ deploys < MaxDeploys /\ r # registry /\ registry' = r /\ deploys' = deploys + 1
  /\ UNCHANGED <<signing, consumer, callbacks, callbackClock, handledAt>>

ProviderRotates ==
  /\ signing = "old" /\ signing' = "new"
  /\ UNCHANGED <<registry, consumer, callbacks, callbackClock, deploys, handledAt>>

\* The provider's clock is off by up to MaxSkew.
CallbackSent(c) ==
  /\ callbacks[c].tries < MaxCallbackTries
  /\ callbacks[c].phase = "unsent" \/ callbacks[c].answer \in {"missing_secret", "500"}
  /\ \E skew \in (-MaxSkew)..MaxSkew :
       callbacks' = [callbacks EXCEPT ![c] = [phase |-> "flying", secret |-> signing,
                       stamp |-> callbackClock + skew, answer |-> "none", tries |-> @.tries + 1]]
  /\ UNCHANGED <<registry, signing, consumer, callbackClock, deploys, handledAt>>

SecondPasses ==
  /\ callbackClock < LastSecond /\ callbackClock' = callbackClock + 1
  /\ UNCHANGED <<registry, signing, consumer, callbacks, deploys, handledAt>>

AgeSeconds(stamp) == IF callbackClock < stamp THEN stamp - callbackClock ELSE callbackClock - stamp

Verified(secret) == \E i \in 1..Len(registry) : registry[i] = secret

\* The middleware's verdict, in the order of its checks.
Verdict(delivery) ==
  IF registry = <<>> THEN "missing_secret"
  ELSE IF AgeSeconds(delivery.stamp) > Tolerance THEN "stale_timestamp"
  ELSE IF ~Verified(delivery.secret) THEN "invalid_signature"
  ELSE "verified"

CallbackRefused(c) ==
  /\ callbacks[c].phase = "flying" /\ Verdict(callbacks[c]) # "verified"
  /\ callbacks' = [callbacks EXCEPT ![c].phase = "answered", ![c].answer = Verdict(callbacks[c])]
  /\ UNCHANGED <<registry, signing, consumer, callbackClock, deploys, handledAt>>

\* No handler: acknowledged as accepted, so that the provider does not retry for ever.
CallbackAccepted(c) ==
  /\ callbacks[c].phase = "flying" /\ Verdict(callbacks[c]) = "verified"
  /\ IF consumer
     THEN callbacks' = [callbacks EXCEPT ![c].phase = "handling"]
     ELSE callbacks' = [callbacks EXCEPT ![c].phase = "answered", ![c].answer = "202"]
  /\ handledAt' = [handledAt EXCEPT ![c] = @ \cup {callbackClock - callbacks[c].stamp}]
  /\ UNCHANGED <<registry, signing, consumer, callbackClock, deploys>>

HandlerEnds(c) ==
  /\ callbacks[c].phase = "handling"
  /\ \E a \in {"200", "500"} :
       callbacks' = [callbacks EXCEPT ![c].phase = "answered", ![c].answer = a]
  /\ UNCHANGED <<registry, signing, consumer, callbackClock, deploys, handledAt>>

CallbackNext ==
  \/ \E r \in Registries : RegistryDeployed(r)
  \/ ProviderRotates \/ SecondPasses
  \/ \E c \in CallbackIds : CallbackSent(c) \/ CallbackRefused(c) \/ CallbackAccepted(c) \/ HandlerEnds(c)

CallbackSpec == CallbackInit /\ [][CallbackNext]_callbackVars

CallbackTypeOK ==
  /\ registry \in Registries /\ signing \in CallbackSecrets
  /\ \A c \in CallbackIds : callbacks[c].phase \in {"unsent", "flying", "handling", "answered"}

(* A payload is handled only within the tolerance of the time it was       *)
(* signed, on either side of it, whatever the delay and the skew           *)
(* (webhookSignature.middleware.ts: verifyWebhookSignature).               *)
HandledWhileFresh ==
  \A c \in CallbackIds : \A age \in handledAt[c] : age \in (-Tolerance)..Tolerance

(* While both secrets are deployed a rotation drops no delivery: a         *)
(* verdict of a wrong signature is only given by a deployment that does    *)
(* not list the secret the delivery was signed with.                       *)
RotationDropsNothing ==
  [][\A c \in CallbackIds :
       callbacks[c].phase = "flying" /\ callbacks'[c].answer = "invalid_signature" =>
         registry \in {<<"old">>, <<"new">>} /\ registry # <<callbacks[c].secret>>]_callbackVars

-----------------------------------------------------------------------------
\* The parts side by side: a behaviour follows one of them.

accountsVars == <<profileVars, repVars, repPageVars, preferenceVars, callbackVars>>

AccountsInit ==
  /\ ProfileInit
  /\ RepInit
  /\ RepPageInit
  /\ PreferenceInit
  /\ CallbackInit

AccountsNext ==
  \/ /\ \/ TurnTo("Profiles") /\ UNCHANGED profileVars
        \/ StaysWith("Profiles") /\ ProfileNext
     /\ UNCHANGED <<repVars, repPageVars, preferenceVars, callbackVars>>
  \/ /\ \/ TurnTo("Reputation") /\ UNCHANGED repVars
        \/ StaysWith("Reputation") /\ RepNext
     /\ UNCHANGED <<profileVars, repPageVars, preferenceVars, callbackVars>>
  \/ /\ \/ TurnTo("ReputationPage") /\ UNCHANGED repPageVars
        \/ StaysWith("ReputationPage") /\ RepPageNext
     /\ UNCHANGED <<profileVars, repVars, preferenceVars, callbackVars>>
  \/ /\ \/ TurnTo("Preferences") /\ UNCHANGED preferenceVars
        \/ StaysWith("Preferences") /\ PreferenceNext
     /\ UNCHANGED <<profileVars, repVars, repPageVars, callbackVars>>
  \/ /\ \/ TurnTo("InboundCallbacks") /\ CallbackStart
        \/ StaysWith("InboundCallbacks") /\ CallbackNext
     /\ UNCHANGED <<profileVars, repVars, repPageVars, preferenceVars>>

AccountsTypeOK ==
  /\ subject = "Profiles" => ProfileTypeOK
  /\ subject = "Reputation" => RepTypeOK
  /\ subject = "ReputationPage" => RepPageTypeOK
  /\ subject = "Preferences" => PreferenceTypeOK
  /\ subject = "InboundCallbacks" => CallbackTypeOK
=============================================================================
