---------------------------- MODULE TradeCreation ----------------------------
\* How a trade comes to be: the request, the import and the wizard.
EXTENDS Subject, Integers, Sequences, SequencesExt, FiniteSets

-----------------------------------------------------------------------------
(***************************************************************************)
(* TradeRequests                                                           *)
(*                                                                         *)
(* The requests that hand out unsigned escrow transactions: create (alone  *)
(* or in bulk), deposit, confirm delivery, release and dispute.            *)
(*                                                                         *)
(* Addresses are compared as text. AuthService puts the lower-case form in *)
(* the tokens it issues; a canonical (upper-case) token can only come from *)
(* elsewhere, as in the test-suite. The Prisma middleware lower-cases what *)
(* create writes, while a row upserted from a chain event keeps the        *)
(* contract's canonical addresses.                                         *)
(***************************************************************************)

CONSTANTS
  Buyers,
  MaxLedger,        \* bound: ledgers closed
  MaxCreates        \* bound: creation transactions handed out

VARIABLES
  ledgerSeq,        \* the contract's env.ledger().sequence()
  nextTradeId,      \* the contract's NEXT_TRADE_ID
  chainTrades,      \* trade id -> buyer and status in the contract
  requestRows,      \* trade id -> Trade row
  disputeRows,      \* trade ids with a Dispute row (tradeId is unique there)
  handedOut,        \* unsigned transactions answered to callers
  creating          \* per buyer: a creation between simulation and INSERT

requestServiceVars == <<ledgerSeq, nextTradeId, chainTrades, requestRows, disputeRows, handedOut, creating>>

TradeIdOf(ledger, next) == <<ledger, next>>

TradeIds == {TradeIdOf(l, n) : l \in 1..MaxLedger, n \in 1..(MaxCreates + 1)}
            \cup {<<0, n>> : n \in 1..(MaxCreates + 1)}
NoBuyer == "nobody"
NoTrade == [buyer |-> NoBuyer, status |-> "NONE"]
NoRequestRow == [buyer |-> NoBuyer, status |-> "NONE", form |-> "canonical", origin |-> "none"]
NotCreating == [busy |-> FALSE, id |-> <<0, 1>>, overtaken |-> FALSE]

RequestInit ==
  /\ ledgerSeq = 1 /\ nextTradeId = 1
  /\ chainTrades = [i \in TradeIds |-> NoTrade]
  /\ requestRows = [i \in TradeIds |-> NoRequestRow]
  /\ disputeRows = {} /\ handedOut = {}
  /\ creating = [b \in Buyers |-> NotCreating]

TokenForms == {"lower", "canonical"}
StoredForm(form) == "lower"

FormWritten(form) == StoredForm(form)

IsValidPublicKey(form) == form = "canonical"

\* The builders load the source account and encode the address as an ScVal.
CanBuild(form) == IsValidPublicKey(form)

-----------------------------------------------------------------------------
(* createTrade, createBulkTrades                                           *)

PreparedRow(form) == IsValidPublicKey(form)

\* A saved template holds lower-case addresses, the buyer's included.
TemplateForm(form) == StoredForm(form)

\* buildCreateTradeTx takes the trade id from a simulation ...
SimulateCreate(b, form) ==
  /\ ~creating[b].busy
  /\ PreparedRow(form) /\ CanBuild(form)
  /\ Cardinality({h \in handedOut : h.kind = "create"} \cup {c \in Buyers : creating[c].busy}) < MaxCreates
  /\ creating' = [creating EXCEPT ![b] = [busy |-> TRUE, id |-> TradeIdOf(ledgerSeq, nextTradeId),
                                          overtaken |-> FALSE]]
  /\ UNCHANGED <<ledgerSeq, nextTradeId, chainTrades, requestRows, disputeRows, handedOut>>

\* ... and createPendingTrade inserts the row; a taken id fails the request.
InsertPending(b) ==
  /\ creating[b].busy
  /\ LET id == creating[b].id
     IN IF requestRows[id] # NoRequestRow
        THEN UNCHANGED <<requestRows, handedOut>>
        ELSE /\ requestRows' = [requestRows EXCEPT ![id] =
                  [buyer |-> b, status |-> "PENDING_SIGNATURE", form |-> FormWritten("canonical"),
                   origin |-> "request"]]
             /\ handedOut' = handedOut \cup
                  {[kind |-> "create", by |-> b, id |-> id, origin |-> "request", included |-> <<>>,
                    overtaken |-> creating[b].overtaken]}
  /\ creating' = [creating EXCEPT ![b] = NotCreating]
  /\ UNCHANGED <<ledgerSeq, nextTradeId, chainTrades, disputeRows>>

-----------------------------------------------------------------------------
(* The requests about an existing trade                                    *)

\* getTradeById compares case-insensitively; the handlers then compare ===.
IsBuyer(row, b, form) == row.buyer = b /\ row.form = form

MayDeposit(row, b, form) ==
  /\ IsValidPublicKey(form) /\ IsBuyer(row, b, form)
  /\ row.status = "CREATED"

MayConfirm(row, b, form) ==
  /\ row.status = "FUNDED" /\ IsBuyer(row, b, form)

\* An admin's own wallet is no party here; the allowlist is lower-case, and
\* CanBuild refuses a lower-case caller.
MayRelease(row, b, form) ==
  /\ row.status = "DELIVERED" /\ IsBuyer(row, b, form)

HandOut(kind, b, id) ==
  handedOut' = handedOut \cup
    {[kind |-> kind, by |-> b, id |-> id, origin |-> requestRows[id].origin, included |-> <<>>,
      overtaken |-> FALSE]}

AskFor(kind, b, form, id) ==
  /\ CASE kind = "deposit" -> MayDeposit(requestRows[id], b, form)
       [] kind = "confirm" -> MayConfirm(requestRows[id], b, form)
       [] kind = "release" -> MayRelease(requestRows[id], b, form)
  /\ CanBuild(form)
  /\ HandOut(kind, b, id)
  /\ UNCHANGED <<ledgerSeq, nextTradeId, chainTrades, requestRows, disputeRows, creating>>

\* The transaction is built, then the row is inserted; only then is it answered.
InitiateDispute(b, form, id) ==
  /\ IsBuyer(requestRows[id], b, form)
  /\ requestRows[id].status \in {"FUNDED", "DELIVERED"}
  /\ CanBuild(form)
  /\ id \notin disputeRows
  /\ disputeRows' = disputeRows \cup {id}
  /\ HandOut("dispute", b, id)
  /\ UNCHANGED <<ledgerSeq, nextTradeId, chainTrades, requestRows, creating>>

-----------------------------------------------------------------------------
(* The chain, and its events reaching the rows                             *)

Overtaken(h) == [h EXCEPT !.overtaken = @ \/ (h.kind = "create" /\ h.included = <<>>)]

LedgerCloses ==
  /\ ledgerSeq < MaxLedger
  /\ ledgerSeq' = ledgerSeq + 1
  /\ handedOut' = {Overtaken(h) : h \in handedOut}
  /\ creating' = [b \in Buyers |-> [creating[b] EXCEPT !.overtaken = creating[b].busy]]
  /\ UNCHANGED <<nextTradeId, chainTrades, requestRows, disputeRows>>

\* A signed creation is included; the contract numbers the trade now.
CreateIncluded(h) ==
  LET id == TradeIdOf(ledgerSeq, nextTradeId)
  IN /\ h.kind = "create" /\ h.included = <<>>
     /\ nextTradeId' = nextTradeId + 1
     /\ chainTrades' = [chainTrades EXCEPT ![id] = [buyer |-> h.by, status |-> "CREATED"]]
     /\ handedOut' = {Overtaken(g) : g \in handedOut \ {h}} \cup {[h EXCEPT !.included = id]}
     /\ creating' = [b \in Buyers |-> [creating[b] EXCEPT !.overtaken = creating[b].busy]]
     /\ UNCHANGED <<ledgerSeq, requestRows, disputeRows>>

ChainOrder == <<"CREATED", "FUNDED", "DELIVERED", "COMPLETED">>
After(s) == CHOOSE t \in {"FUNDED", "DELIVERED", "COMPLETED"} :
              \E i \in 1..3 : ChainOrder[i] = s /\ ChainOrder[i + 1] = t

ChainMoves(id) ==
  /\ chainTrades[id].status \in {"CREATED", "FUNDED", "DELIVERED"}
  /\ chainTrades' = [chainTrades EXCEPT ![id].status = After(@)]
  /\ UNCHANGED <<ledgerSeq, nextTradeId, requestRows, disputeRows, handedOut, creating>>

\* An event is applied: upsert if there is no row, else the status moves.
EventApplied(id) ==
  /\ chainTrades[id] # NoTrade
  /\ requestRows[id].status # chainTrades[id].status
  /\ requestRows' = [requestRows EXCEPT ![id] =
       IF @ = NoRequestRow
       THEN [buyer |-> chainTrades[id].buyer, status |-> chainTrades[id].status,
             form |-> "canonical", origin |-> "event"]
       ELSE [@ EXCEPT !.status = chainTrades[id].status]]
  /\ UNCHANGED <<ledgerSeq, nextTradeId, chainTrades, disputeRows, handedOut, creating>>

RequestNext ==
  \/ LedgerCloses
  \/ \E h \in handedOut : CreateIncluded(h)
  \/ \E id \in TradeIds : ChainMoves(id) \/ EventApplied(id)
  \/ \E b \in Buyers :
       \/ InsertPending(b)
       \/ \E form \in TokenForms :
            \/ \E given \in {form, TemplateForm(form)} : SimulateCreate(b, given)
            \/ \E id \in TradeIds :
                 \/ InitiateDispute(b, form, id)
                 \/ \E kind \in {"deposit", "confirm", "release"} : AskFor(kind, b, form, id)

-----------------------------------------------------------------------------

RequestTypeOK ==
  /\ ledgerSeq \in 1..MaxLedger /\ nextTradeId \in 1..(MaxCreates + 1)
  /\ disputeRows \subseteq TradeIds
  /\ \A h \in handedOut : h.by \in Buyers /\ h.id \in TradeIds

\* A transaction about an existing trade is only ever handed out for a row
\* that a chain event inserted: the row createTrade inserted holds lower-case
\* addresses, and no token both equals them and passes the address check.
OnlyProjectedRowsServed ==
  \A h \in handedOut : h.kind # "create" => h.origin = "event"

\* The trade id createTrade answers is the one the contract gives exactly when
\* no ledger closed and no other creation got in since; otherwise the pending
\* row names a trade that is not this one.
AnsweredIdUnlessOvertaken ==
  \A h \in handedOut : h.kind = "create" /\ h.included # <<>> =>
    (h.included = h.id <=> ~h.overtaken)

-----------------------------------------------------------------------------
(***************************************************************************)
(* BulkImport                                                              *)
(*                                                                         *)
(* A cooperative's bulk import: lines of CSV are parsed in the browser,    *)
(* sent in one request, and turned into pending trades row by row.  Each   *)
(* row's trade id is the one a simulation against the current ledger       *)
(* gives, so rows built before the ledger moves are given the same id.     *)
(***************************************************************************)

CONSTANTS
  ImportMax,                           \* BULK_IMPORT_MAX_ROWS
  MaxLines, MaxBulkEdits, MaxImports, MaxLedgerTrades   \* bounds

VARIABLES
  bulkPage,     \* the page
  imports,      \* requests, in the order they were sent
  bulkPending,  \* pending rows by trade id: <<request, row>>, or <<0, 0>>
  ledgerNext,   \* the id create_trade would return now
  bulkEdits     \* edits of the text so far

bulkVars == <<bulkPage, imports, bulkPending, ledgerNext, bulkEdits>>

BulkLines == {"row", "wrong", "comment"}

\* The valid rows, by their place among the lines; too many of them is one
\* error and no row.
parseBulkCsv(text) ==
  LET rows == SelectSeq([i \in DOMAIN text |-> i], LAMBDA i : text[i] = "row")
      wrong == \E i \in DOMAIN text : text[i] = "wrong"
  IN  IF Len(rows) > ImportMax THEN [rows |-> <<>>, errors |-> TRUE] ELSE [rows |-> rows, errors |-> wrong]

NoOutcome == [of |-> 0, text |-> <<>>, created |-> {}, failed |-> {}]

BulkInit ==
  /\ bulkPage = [signedIn |-> TRUE, csv |-> <<"comment", "row">>, phase |-> "editing", error |-> FALSE,
                 result |-> NoOutcome, touched |-> FALSE]
  /\ imports = <<>> /\ bulkPending = [i \in 1..MaxLedgerTrades |-> <<0, 0>>] /\ ledgerNext = 1
  /\ bulkEdits = 0

backendBulk == <<imports, bulkPending, ledgerNext>>

\* touched records that the text was edited while a request was out.
Edited(page, text) ==
  [page EXCEPT !.csv = text, !.result = NoOutcome, !.phase = IF @ = "done" THEN "editing" ELSE @,
               !.touched = page.phase = "submitting"]

EditCsv ==
  /\ bulkPage.signedIn /\ bulkEdits < MaxBulkEdits /\ bulkEdits' = bulkEdits + 1
  /\ \/ /\ Len(bulkPage.csv) < MaxLines
        /\ \E line \in BulkLines : bulkPage' = Edited(bulkPage, Append(bulkPage.csv, line))
     \/ bulkPage.csv # <<>> /\ bulkPage' = Edited(bulkPage, Tail(bulkPage.csv))
  /\ UNCHANGED backendBulk

BulkAccount ==
  /\ bulkPage' = [bulkPage EXCEPT !.signedIn = ~@] /\ bulkEdits < MaxBulkEdits /\ bulkEdits' = bulkEdits + 1
  /\ UNCHANGED backendBulk

canSubmit ==
  LET parsed == parseBulkCsv(bulkPage.csv)
  IN  bulkPage.signedIn /\ bulkPage.phase # "submitting" /\ parsed.rows # <<>> /\ ~parsed.errors

ImportOf(rows) == [rows |-> rows, text |-> bulkPage.csv, row |-> 1, id |-> 0, created |-> {},
                   failed |-> {}, stage |-> "running"]

SendImport ==
  LET rows == parseBulkCsv(bulkPage.csv).rows
  IN  /\ rows # <<>> /\ Len(imports) < MaxImports
      /\ imports' = Append(imports, ImportOf(rows))
      /\ bulkPage' = [bulkPage EXCEPT !.phase = "submitting", !.error = FALSE, !.result = NoOutcome,
                      !.touched = FALSE]
      /\ UNCHANGED <<bulkPending, ledgerNext, bulkEdits>>

SubmitImport == canSubmit /\ SendImport

\* The retry of the error banner asks only that there is a row.
RetryImport == bulkPage.signedIn /\ bulkPage.error /\ SendImport

ImportAnswered(r) ==
  LET job == imports[r]
  IN  /\ job.stage = "finished"
      /\ \/ bulkPage' = [bulkPage EXCEPT !.phase = "done",
                           !.result = [of |-> r, text |-> job.text, created |-> job.created,
                                       failed |-> job.failed]]
         \/ bulkPage' = [bulkPage EXCEPT !.phase = "editing", !.error = TRUE]
      /\ imports' = [imports EXCEPT ![r].stage = "told"]
      /\ UNCHANGED <<bulkPending, ledgerNext, bulkEdits>>

(***************************************************************************)
(* The backend, row after row                                              *)
(***************************************************************************)
RowFailed(job) == [job EXCEPT !.failed = @ \cup {job.row}, !.row = @ + 1, !.id = 0]

BuildRow(r) ==
  LET job == imports[r]
  IN  /\ job.stage = "running" /\ job.row <= Len(job.rows) /\ job.id = 0
      /\ \/ ledgerNext <= MaxLedgerTrades /\ imports' = [imports EXCEPT ![r].id = ledgerNext]
         \/ imports' = [imports EXCEPT ![r] = RowFailed(job)]
      /\ UNCHANGED <<bulkPage, bulkPending, ledgerNext, bulkEdits>>

\* prisma.trade.create on the unique trade id.
IdFree(id) == bulkPending[id] = <<0, 0>>

RecordRow(r) ==
  LET job == imports[r]
  IN  /\ job.stage = "running" /\ job.id # 0
      /\ IF IdFree(job.id)
         THEN /\ bulkPending' = [bulkPending EXCEPT ![job.id] = <<r, job.row>>]
              /\ imports' = [imports EXCEPT ![r] =
                   [job EXCEPT !.created = @ \cup {[row |-> job.row, id |-> job.id]}, !.row = @ + 1,
                    !.id = 0]]
         ELSE imports' = [imports EXCEPT ![r] = RowFailed(job)] /\ UNCHANGED bulkPending
      /\ UNCHANGED <<bulkPage, ledgerNext, bulkEdits>>

FinishImport(r) ==
  /\ imports[r].stage = "running" /\ imports[r].row > Len(imports[r].rows)
  /\ imports' = [imports EXCEPT ![r].stage = "finished"]
  /\ UNCHANGED <<bulkPage, bulkPending, ledgerNext, bulkEdits>>

\* Some create_trade lands on the ledger.
LedgerTakesId ==
  /\ ledgerNext <= MaxLedgerTrades /\ ledgerNext' = ledgerNext + 1
  /\ UNCHANGED <<bulkPage, imports, bulkPending, bulkEdits>>

BulkNext ==
  \/ EditCsv \/ BulkAccount \/ SubmitImport \/ RetryImport \/ LedgerTakesId
  \/ \E r \in DOMAIN imports : BuildRow(r) \/ RecordRow(r) \/ FinishImport(r) \/ ImportAnswered(r)

BulkSpec == BulkInit /\ [][BulkNext]_bulkVars

BulkTypeOK ==
  /\ bulkPage.phase \in {"editing", "submitting", "done"} /\ Len(bulkPage.csv) <= MaxLines
  /\ \A r \in DOMAIN imports : imports[r].stage \in {"running", "finished", "told"}
  /\ ledgerNext \in 1..(MaxLedgerTrades + 1) /\ bulkEdits \in 0..MaxBulkEdits

\* A row reported as created has a pending trade of its own: rows built on
\* the same ledger get the same id, and all but the first of them are
\* reported as failed (createBulkTrades and the unique trade id).
CreatedRowsAreRecorded ==
  \A r \in DOMAIN imports : \A k \in imports[r].created : bulkPending[k.id] = <<r, k.row>>

\* Unless the text was edited while the request was out, the rows a result
\* counts are rows of the text on the screen (the textarea's onChange).
ResultIsOfText == bulkPage.result # NoOutcome /\ ~bulkPage.touched => bulkPage.result.text = bulkPage.csv

-----------------------------------------------------------------------------
(***************************************************************************)
(* TradeWizard                                                             *)
(*                                                                         *)
(* Creating a trade in the web client: the three-step form whose draft is  *)
(* kept in localStorage, the submission that is sent or, while the form    *)
(* believes it is offline, queued, and the banner that replays the queue   *)
(* after a reconnect.  The banner's effect depends on the queue's length,  *)
(* so every action dequeued while a replay runs starts another replay.     *)
(***************************************************************************)

CONSTANTS
  MaxIntents,   \* bound: submissions registered
  MaxReplays,   \* bound: replays started
  MaxOutages,   \* bound: losses of the connection
  MaxReloads,   \* bound: reloads of the page
  MaxLapses     \* bound: keys served again by the backend

VARIABLES
  form,      \* the wizard: its step, its data, the disclaimer, what succeeded
  draft,     \* the draft in localStorage
  linkUp,    \* the browser's connection
  banner,    \* useOffline in the ConnectivityBanner: isOffline, wasOffline
  formOff,   \* useOffline in the review step: isOffline
  queue,     \* the offline queue, persisted
  replays,   \* replays running
  sending,   \* the submission in flight, or none
  recent,    \* data registered with the de-duplication window
  intents,   \* submissions registered: sent or queued
  served,    \* idempotency keys the backend has answered
  trades,    \* trades the backend created, per submission
  budget     \* what is left of the bounds

wizardVars == <<form, draft, linkUp, banner, formOff, queue, replays, sending, recent, intents, served,
                trades, budget>>

Empty == "empty"
Complete == {"maize", "rice"}   \* data without submitBlockers
NoDraft == [data |-> "none", step |-> 0]
NoSubmission == [intent |-> 0, stage |-> "none"]

-----------------------------------------------------------------------------
(* The banner                                                              *)

\* The effect fires when one of its dependencies changed and the condition
\* holds: back online after an outage with something queued.
Fires(b, q) == ~b.off /\ b.was /\ q # <<>> /\ (b # banner \/ Len(q) # Len(queue))

\* A replay walks the queue it found.
Rendered(b, q, running) ==
  /\ banner' = b /\ queue' = q
  /\ IF Fires(b, q)
     THEN /\ budget.replays > 0 /\ budget' = [budget EXCEPT !.replays = @ - 1]
          /\ replays' = running \cup {[id |-> budget.replays, rest |-> q, sent |-> "no"]}
     ELSE replays' = running /\ UNCHANGED budget

\* The browser's offline event, and the failed probe of the interval.
GoesOffline ==
  /\ linkUp /\ budget.outages > 0
  /\ linkUp' = FALSE /\ budget' = [budget EXCEPT !.outages = @ - 1]
  /\ banner' = [off |-> TRUE, was |-> TRUE] /\ formOff' = TRUE
  /\ UNCHANGED <<form, draft, queue, replays, sending, recent, intents, served, trades>>

GoesOnline ==
  /\ ~linkUp /\ linkUp' = TRUE
  /\ formOff' = FALSE
  /\ Rendered([banner EXCEPT !.off = FALSE], queue, replays)
  /\ UNCHANGED <<form, draft, sending, recent, intents, served, trades>>

\* checkOnlineStatus of either hook: a probe can fail while the link is up.
BannerProbes(reached) ==
  /\ reached => linkUp
  /\ ~reached /\ linkUp => budget.outages > 0
  /\ banner' = IF reached THEN [banner EXCEPT !.off = FALSE] ELSE [off |-> TRUE, was |-> TRUE]
  /\ banner' # banner
  /\ IF reached /\ Fires([banner EXCEPT !.off = FALSE], queue)
     THEN /\ budget.replays > 0 /\ budget' = [budget EXCEPT !.replays = @ - 1]
          /\ replays' = replays \cup {[id |-> budget.replays, rest |-> queue, sent |-> "no"]}
     ELSE /\ budget' = IF ~reached /\ linkUp THEN [budget EXCEPT !.outages = @ - 1] ELSE budget
          /\ UNCHANGED replays
  /\ UNCHANGED <<form, draft, linkUp, formOff, queue, sending, recent, intents, served, trades>>

FormProbes(reached) ==
  /\ reached => linkUp
  /\ ~reached /\ linkUp => budget.outages > 0
  /\ formOff = reached /\ formOff' = ~reached
  /\ budget' = IF ~reached /\ linkUp THEN [budget EXCEPT !.outages = @ - 1] ELSE budget
  /\ UNCHANGED <<form, draft, linkUp, banner, queue, replays, sending, recent, intents, served, trades>>

-----------------------------------------------------------------------------
(* The replay                                                              *)

\* Mutant: an attempt has a key of its own.
KeyPerAttempt(r) == <<Head(r.rest).intent, r.id>>

KeySent(r) == <<Head(r.rest).intent, 0>>

\* The backend's idempotency layer answers a key it has served from its record,
\* unless the key's protection lapsed: the client's disconnect freed the lock in
\* mid-handler, the lock or the record expired, or Redis did not answer.
Serve(key) ==
  /\ served' = served \cup {key}
  /\ \/ key \notin served /\ trades' = [trades EXCEPT ![key[1]] = @ + 1] /\ UNCHANGED budget
     \/ key \in served /\ UNCHANGED <<trades, budget>>
     \/ /\ key \in served /\ budget.lapses > 0
        /\ trades' = [trades EXCEPT ![key[1]] = @ + 1]
        /\ budget' = [budget EXCEPT !.lapses = @ - 1]

\* The backend serves the request, or it refuses it or is not reached.
ReplaySends(r, taken) ==
  /\ r.rest # <<>> /\ r.sent = "no" /\ (taken => linkUp)
  /\ replays' = (replays \ {r}) \cup {[r EXCEPT !.sent = IF taken THEN "taken" ELSE "refused"]}
  /\ queue' = [i \in DOMAIN queue |-> IF queue[i].intent = Head(r.rest).intent
                                      THEN [queue[i] EXCEPT !.attempts = @ + 1] ELSE queue[i]]
  /\ IF taken THEN Serve(KeySent(r)) ELSE UNCHANGED <<served, trades, budget>>
  /\ UNCHANGED <<form, draft, linkUp, banner, formOff, sending, recent, intents>>

Rest(r) == (replays \ {r}) \cup {[r EXCEPT !.rest = Tail(@), !.sent = "no"]}

ReplayAnswered(r) ==
  /\ r.sent = "taken" /\ linkUp
  /\ Rendered(banner, SelectSeq(queue, LAMBDA a : a.intent # Head(r.rest).intent), Rest(r))
  /\ UNCHANGED <<form, draft, linkUp, formOff, sending, recent, intents, served, trades>>

\* Mutant: the action leaves the queue whatever became of it.
DropsFailed(r) == SelectSeq(queue, LAMBDA a : a.intent # Head(r.rest).intent)

KeepsFailed(r) == queue

\* Any rejection: the answer was lost, or the backend refused.
ReplayRejected(r) ==
  /\ r.sent # "no"
  /\ Rendered(banner, KeepsFailed(r), Rest(r))
  /\ UNCHANGED <<form, draft, linkUp, formOff, sending, recent, intents, served, trades>>

\* The replay is over: retryOnline probes and clears wasOffline.
ReplayEnds(r) ==
  /\ r.rest = <<>>
  /\ Rendered(IF linkUp THEN [off |-> FALSE, was |-> FALSE] ELSE [off |-> TRUE, was |-> TRUE],
              queue, replays \ {r})
  /\ UNCHANGED <<form, draft, linkUp, formOff, sending, recent, intents, served, trades>>

-----------------------------------------------------------------------------
(* The form                                                                *)

Persisted(f) == [data |-> f.data, step |-> f.step]

\* The view with the trade's id and hash, which offers no further submission.
CreatedView == form.created

Edit(data) ==
  /\ form.step = 1 /\ data # form.data
  /\ form' = [form EXCEPT !.data = data] /\ draft' = Persisted(form')
  /\ UNCHANGED <<linkUp, banner, formOff, queue, replays, sending, recent, intents, served, trades, budget>>

\* handleContinue and handleReview validate; Back does not.
Continue ==
  /\ form.step < 3 /\ form.data \in Complete
  /\ form' = [form EXCEPT !.step = @ + 1] /\ draft' = Persisted(form')
  /\ UNCHANGED <<linkUp, banner, formOff, queue, replays, sending, recent, intents, served, trades, budget>>

Back ==
  /\ form.step > 1 /\ ~form.disclaimer /\ sending = NoSubmission /\ ~CreatedView
  /\ form' = [form EXCEPT !.step = @ - 1] /\ draft' = Persisted(form')
  /\ UNCHANGED <<linkUp, banner, formOff, queue, replays, sending, recent, intents, served, trades, budget>>

OpenDisclaimer ==
  /\ form.step = 3 /\ ~form.disclaimer /\ sending = NoSubmission /\ ~CreatedView
  /\ form' = [form EXCEPT !.disclaimer = TRUE]
  /\ UNCHANGED <<draft, linkUp, banner, formOff, queue, replays, sending, recent, intents, served,
                 trades, budget>>

\* handleDisclaimerAccept, handleSubmit.
Accept ==
  /\ form.disclaimer /\ form' = [form EXCEPT !.disclaimer = FALSE]
  /\ IF form.data \in recent
     THEN UNCHANGED <<queue, sending, recent, intents, trades, replays, banner, budget>>
     ELSE LET i == Cardinality(DOMAIN trades) + 1 IN
          /\ i <= MaxIntents
          /\ recent' = recent \cup {form.data}
          /\ intents' = Append(intents, IF formOff THEN "queued" ELSE "sent")
          /\ trades' = [k \in 1..i |-> IF k = i THEN 0 ELSE trades[k]]
          /\ IF formOff
             THEN Rendered(banner, Append(queue, [intent |-> i, attempts |-> 0]), replays)
                 /\ UNCHANGED sending
             ELSE sending' = [intent |-> i, stage |-> "create"]
                 /\ UNCHANGED <<queue, replays, banner, budget>>
  /\ UNCHANGED <<draft, linkUp, formOff, served>>

\* trades.create, signTransaction and sendTransaction follow one another.
SubmissionProceeds ==
  /\ sending.stage \in {"create", "sign"} /\ linkUp
  /\ sending' = [sending EXCEPT !.stage = IF @ = "create" THEN "sign" ELSE "send"]
  /\ IF sending.stage = "create" THEN Serve(<<sending.intent, 0>>) ELSE UNCHANGED <<served, trades, budget>>
  /\ UNCHANGED <<form, draft, linkUp, banner, formOff, queue, replays, recent, intents>>

SubmissionSucceeds ==
  /\ sending.stage = "send" /\ linkUp
  /\ sending' = NoSubmission /\ form' = [form EXCEPT !.created = TRUE] /\ draft' = NoDraft
  /\ UNCHANGED <<linkUp, banner, formOff, queue, replays, recent, intents, served, trades, budget>>

SubmissionFails ==
  /\ sending # NoSubmission /\ sending' = NoSubmission
  /\ \/ sending.stage = "create" /\ Serve(<<sending.intent, 0>>)
     \/ UNCHANGED <<served, trades, budget>>
  /\ UNCHANGED <<form, draft, linkUp, banner, formOff, queue, replays, recent, intents>>

WizardWindowPasses(data) ==
  /\ recent' = recent \ {data}
  /\ UNCHANGED <<form, draft, linkUp, banner, formOff, queue, replays, sending, intents, served,
                 trades, budget>>

\* The page is loaded again: the data comes back from the draft; the step does
\* not, for the persisting effect overwrites it before the restoring one reads.
ReloadPage ==
  /\ budget.reloads > 0 /\ budget' = [budget EXCEPT !.reloads = @ - 1]
  /\ form' = [step |-> 1, data |-> IF draft = NoDraft THEN Empty ELSE draft.data, disclaimer |-> FALSE,
              created |-> FALSE]
  /\ draft' = Persisted(form')
  /\ banner' = [off |-> ~linkUp, was |-> ~linkUp] /\ formOff' = ~linkUp
  /\ replays' = {} /\ sending' = NoSubmission /\ recent' = {}
  /\ UNCHANGED <<linkUp, queue, intents, served, trades>>

-----------------------------------------------------------------------------

WizardInit ==
  /\ form = [step |-> 1, data |-> Empty, disclaimer |-> FALSE, created |-> FALSE]
  /\ draft = [data |-> Empty, step |-> 1]
  /\ linkUp = TRUE /\ banner = [off |-> FALSE, was |-> FALSE] /\ formOff = FALSE
  /\ queue = <<>> /\ replays = {} /\ sending = NoSubmission /\ recent = {} /\ intents = <<>>
  /\ served = {} /\ trades = [k \in {} |-> 0]
  /\ budget = [replays |-> MaxReplays, outages |-> MaxOutages, reloads |-> MaxReloads,
             lapses |-> MaxLapses]

WizardNext ==
  \/ GoesOffline
  \/ GoesOnline
  \/ \E reached \in BOOLEAN : BannerProbes(reached)
  \/ \E reached \in BOOLEAN : FormProbes(reached)
  \/ \E r \in replays, taken \in BOOLEAN : ReplaySends(r, taken)
  \/ \E r \in replays : ReplayAnswered(r)
  \/ \E r \in replays : ReplayRejected(r)
  \/ \E r \in replays : ReplayEnds(r)
  \/ \E data \in Complete \cup {Empty} : Edit(data)
  \/ Continue
  \/ Back
  \/ OpenDisclaimer
  \/ Accept
  \/ SubmissionProceeds
  \/ SubmissionSucceeds
  \/ SubmissionFails
  \/ \E data \in recent : WizardWindowPasses(data)
  \/ ReloadPage

-----------------------------------------------------------------------------

WizardTypeOK ==
  /\ form.step \in 1..3 /\ form.data \in Complete \cup {Empty}
  /\ banner.off => banner.was
  /\ \A i \in DOMAIN queue : queue[i].intent \in DOMAIN trades
  /\ sending.stage \in {"none", "create", "sign", "send"}

\* However many replays run over one queue, however often one is cut short and
\* whichever answers are lost, a submission creates one trade, and one more for
\* each time the backend lost hold of its key (idempotency.ts): every attempt
\* carries the key the submission was registered with.
SubmittedOnce == \A i \in DOMAIN trades : trades[i] <= 1 + (MaxLapses - budget.lapses)

\* A submission accepted while offline stays queued, across reloads, until the
\* backend has executed it.
QueuedUntilExecuted ==
  \A i \in DOMAIN intents : intents[i] = "queued" =>
    trades[i] > 0 \/ \E k \in DOMAIN queue : queue[k].intent = i

\* A reload brings back the data of the form, unless its trade was created, and
\* restarts at the first step.
ReloadKeepsData ==
  [][budget'.reloads < budget.reloads =>
       form'.step = 1 /\ (form'.data = form.data \/ form.created)]_wizardVars

-----------------------------------------------------------------------------
\* The parts side by side: a behaviour follows one of them.

creationVars == <<requestServiceVars, bulkVars, wizardVars>>

CreationInit ==
  /\ RequestInit
  /\ BulkInit
  /\ WizardInit

CreationNext ==
  \/ /\ \/ TurnTo("TradeRequests") /\ UNCHANGED requestServiceVars
        \/ StaysWith("TradeRequests") /\ RequestNext
     /\ UNCHANGED <<bulkVars, wizardVars>>
  \/ /\ \/ TurnTo("BulkImport") /\ UNCHANGED bulkVars
        \/ StaysWith("BulkImport") /\ BulkNext
     /\ UNCHANGED <<requestServiceVars, wizardVars>>
  \/ /\ \/ TurnTo("TradeWizard") /\ UNCHANGED wizardVars
        \/ StaysWith("TradeWizard") /\ WizardNext
     /\ UNCHANGED <<requestServiceVars, bulkVars>>

CreationTypeOK ==
  /\ subject = "TradeRequests" => RequestTypeOK
  /\ subject = "BulkImport" => BulkTypeOK
  /\ subject = "TradeWizard" => WizardTypeOK
=============================================================================
