------------------------------ MODULE Clawbacks ------------------------------
\* The administrators' pages for clawbacks and streams.
EXTENDS Subject, Naturals, Sequences, SequencesExt, FiniteSets

-----------------------------------------------------------------------------
(***************************************************************************)
(* ClawbackDesk                                                            *)
(*                                                                         *)
(* The administrators' list of vesting streams: pages of streams, one      *)
(* clawback form open at a time behind a confirmation, and the backend's   *)
(* preview of a clawback under its lock in each server process.            *)
(***************************************************************************)

CONSTANTS
  DeskStreams,    \* streams, one to a page, numbered from 1
  MaxVested,      \* bound: the unclaimed balance
  Pods,           \* backend processes
  MaxPreviews,    \* bound: previews asked for
  MaxForms        \* bound: forms opened

VARIABLES
  desk,       \* page, rows shown, loading, failed, open stream
  slip,       \* the open form: number, amount typed, modal, confirming
  loads,      \* list fetches in flight: the pages asked for
  previews,   \* preview requests on their way
  vested,     \* backend: each stream's unclaimed balance and whether it may be clawed back
  lateAnswers,       \* history: a preview asked for on another page reloaded the list
  denied,     \* history: a preview was refused for no reason the desk could not know
  sentPreviews

deskVars == <<desk, slip, loads, previews, vested, lateAnswers, denied, sentPreviews>>

NoStream == 0
Typed == 0..(MaxVested + 1)
Snapshot == vested

Untouched == [s \in DeskStreams |-> [unclaimed |-> MaxVested, live |-> TRUE]]

DeskInit ==
  /\ vested = Untouched
  /\ desk = [page |-> 1, rowsOf |-> 0, rows |-> vested, loading |-> TRUE, failed |-> FALSE,
             open |-> NoStream]
  /\ slip = [no |-> 0, amount |-> 0, modal |-> FALSE, confirming |-> FALSE]
  /\ loads = {1} /\ previews = {} /\ lateAnswers = FALSE /\ denied = FALSE /\ sentPreviews = 0

\* fetchStreams is made anew for each page.
FetchedPage(p) == p

\* fetchStreams: the list is replaced by a skeleton, so an open form unmounts;
\* it is mounted afresh when the row comes back.
StreamsLoading(p) ==
  /\ loads' = loads \union {FetchedPage(p)}
  /\ slip' = [slip EXCEPT !.no = @ + 1, !.amount = 0, !.modal = FALSE, !.confirming = FALSE]

StreamsLoaded ==
  /\ \E p \in loads : /\ loads' = loads \ {p}
                      /\ desk' = [desk EXCEPT !.rowsOf = p, !.rows = Snapshot, !.loading = FALSE]
                      /\ lateAnswers' = (lateAnswers /\ (p # desk.page \/ loads # {p}))
  /\ UNCHANGED <<slip, previews, vested, denied, sentPreviews>>

StreamsFail ==
  /\ \E p \in loads : /\ loads' = loads \ {p}
                      /\ desk' = [desk EXCEPT !.failed = TRUE, !.loading = FALSE]
  /\ UNCHANGED <<slip, previews, vested, lateAnswers, denied, sentPreviews>>

FailedDesk == desk.failed /\ ~desk.loading

RetryStreams ==
  /\ FailedDesk /\ slip.no < MaxForms
  /\ desk' = [desk EXCEPT !.loading = TRUE, !.failed = FALSE]
  /\ StreamsLoading(desk.page)
  /\ UNCHANGED <<previews, vested, lateAnswers, denied, sentPreviews>>

DeskView == ~desk.loading /\ ~desk.failed /\ desk.rowsOf # 0

TurnPage ==
  /\ DeskView /\ slip.no < MaxForms /\ ~slip.modal
  /\ \E p \in DeskStreams \ {desk.page} :
       /\ desk' = [desk EXCEPT !.page = p, !.loading = TRUE, !.failed = FALSE]
       /\ StreamsLoading(p)
  /\ UNCHANGED <<previews, vested, lateAnswers, denied, sentPreviews>>

\* The button of an actionable row opens its form, or closes it.
ToggleForm ==
  /\ DeskView /\ slip.no < MaxForms /\ ~slip.modal
  /\ desk.rows[desk.rowsOf].unclaimed > 0
  /\ desk' = [desk EXCEPT !.open = IF @ = desk.rowsOf THEN NoStream ELSE desk.rowsOf]
  /\ slip' = [no |-> slip.no + 1, amount |-> 0, modal |-> FALSE, confirming |-> FALSE]
  /\ UNCHANGED <<loads, previews, vested, lateAnswers, denied, sentPreviews>>

FormView == DeskView /\ desk.open = desk.rowsOf

TypeAmount ==
  /\ FormView /\ ~slip.modal
  /\ \E a \in Typed \ {slip.amount} : slip' = [slip EXCEPT !.amount = a]
  /\ UNCHANGED <<desk, loads, previews, vested, lateAnswers, denied, sentPreviews>>

ValidateClawbackAmount(amount, remaining) == amount > 0 /\ amount <= remaining

HandleReviewClick ==
  /\ FormView /\ ~slip.modal
  /\ ValidateClawbackAmount(slip.amount, desk.rows[desk.open].unclaimed)
  /\ slip' = [slip EXCEPT !.modal = TRUE]
  /\ UNCHANGED <<desk, loads, previews, vested, lateAnswers, denied, sentPreviews>>

\* Escape closes the modal even while a request is on its way.
HandleCancel ==
  /\ FormView /\ slip.modal
  /\ slip' = [slip EXCEPT !.modal = FALSE]
  /\ UNCHANGED <<desk, loads, previews, vested, lateAnswers, denied, sentPreviews>>

HandleConfirm ==
  /\ FormView /\ slip.modal /\ ~slip.confirming /\ sentPreviews < MaxPreviews
  /\ slip' = [slip EXCEPT !.confirming = TRUE]
  /\ sentPreviews' = sentPreviews + 1
  /\ previews' = previews \union
       {[id |-> sentPreviews, stream |-> desk.open, amount |-> slip.amount, form |-> slip.no,
         page |-> desk.page,
         seen |-> desk.rows[desk.open], pod |-> "none"]}
  /\ UNCHANGED <<desk, loads, vested, lateAnswers, denied>>

\* The form learns of the answer if it is still the one that asked.
FormTold(pv, amount) ==
  IF slip.no = pv.form THEN [slip EXCEPT !.modal = FALSE, !.confirming = FALSE, !.amount = amount] ELSE slip

Deny(pv, why) ==
  /\ denied' = (denied \/ why = "unexplained")
  /\ previews' = previews \ {pv}
  /\ slip' = FormTold(pv, slip.amount)
  /\ UNCHANGED <<desk, loads, vested, lateAnswers, sentPreviews>>

\* acquire: one clawback per stream and process, and none while Redis is away.
AcquireClawback ==
  \E pv \in previews, pod \in Pods :
    /\ pv.pod = "none"
    /\ IF \E other \in previews : other.pod = pod /\ other.stream = pv.stream
       THEN Deny(pv, "busy")
       ELSE \/ /\ previews' = (previews \ {pv}) \union {[pv EXCEPT !.pod = pod]}
               /\ UNCHANGED <<desk, slip, loads, vested, lateAnswers, denied, sentPreviews>>
            \/ Deny(pv, "redis")

\* requireActionableStream and the amount checks; the answer closes the form
\* and loads the list of the page that was current when it was sent.
ServePreview ==
  \E pv \in previews :
    LET row == vested[pv.stream]
    IN  /\ pv.pod # "none"
        /\ IF row.live /\ pv.amount <= row.unclaimed
           THEN /\ slip.no < MaxForms
                /\ previews' = previews \ {pv}
                /\ desk' = [desk EXCEPT !.open = NoStream, !.loading = TRUE, !.failed = FALSE]
                /\ loads' = loads \union {pv.page}
                /\ lateAnswers' = (lateAnswers \/ pv.page # desk.page)
                /\ slip' = [no |-> slip.no + 1, amount |-> 0, modal |-> FALSE, confirming |-> FALSE]
                /\ UNCHANGED <<vested, denied, sentPreviews>>
           ELSE Deny(pv, IF ~row.live THEN "ended" ELSE IF row = pv.seen THEN "unexplained" ELSE "moved")

PreviewLost ==
  /\ \E pv \in previews : Deny(pv, "network")

\* The recipient claims, or another administrator ends or locks the stream.
\* Bound: this happens once.
StreamMoves ==
  /\ vested = Untouched
  /\ \E s \in DeskStreams :
       \/ vested[s].unclaimed > 0 /\ vested' = [vested EXCEPT ![s].unclaimed = @ - 1]
       \/ vested[s].live /\ vested' = [vested EXCEPT ![s].live = FALSE]
  /\ UNCHANGED <<desk, slip, loads, previews, lateAnswers, denied, sentPreviews>>

DeskNext ==
  \/ StreamsLoaded \/ StreamsFail \/ RetryStreams \/ TurnPage \/ ToggleForm \/ TypeAmount
  \/ HandleReviewClick \/ HandleCancel \/ HandleConfirm
  \/ AcquireClawback \/ ServePreview \/ PreviewLost \/ StreamMoves

-----------------------------------------------------------------------------

DeskTypeOK ==
  /\ desk.page \in DeskStreams /\ desk.rowsOf \in DeskStreams \union {0}
  /\ slip.no \in 0..MaxForms /\ slip.amount \in Typed
  /\ loads \subseteq DeskStreams /\ Cardinality(previews) <= MaxPreviews
  /\ vested \in [DeskStreams -> [unclaimed : 0..MaxVested, live : BOOLEAN]]

\* Once every fetch is answered, the rows are those of the page the pager
\* names, unless a preview asked for on another page came back after the
\* administrator had turned it and loaded that page again.
RowsOfThePage == DeskView /\ loads = {} => desk.rowsOf = desk.page \/ lateAnswers

\* A preview the form lets through is refused only because the balance fell
\* after the list was loaded, another clawback holds the lock of the process,
\* the stream has ended or is locked (the row looks at the balance alone), or
\* Redis or the network failed: the form's amount check is the backend's.
RefusalExplained == ~denied

-----------------------------------------------------------------------------
(***************************************************************************)
(* StreamAdmin                                                             *)
(*                                                                         *)
(* The pages of one vesting stream: its figures, shown in whole and        *)
(* fractional digits, and for administrators a clawback preview of a typed *)
(* amount, suspension and resumption.                                      *)
(***************************************************************************)

CONSTANTS
  Decimals,        \* decimals of the asset
  Stroops,         \* balances and amounts, in smallest units
  MaxEdits,        \* bound: edits of the amount
  MaxAsks          \* bound: requests sent

VARIABLES
  figures,     \* the page: figures loaded, loading, failed, access
  entry,       \* the amount typed, in smallest units; 0 while there is no valid one
  asked,       \* the request on its way: kind and amount
  forecast,    \* the preview shown: requested and left, or none
  remaining,   \* backend: unclaimed balance and status
  muddled,     \* history: the amount was edited while a preview was on its way
  edits, asks

streamAdminVars == <<figures, entry, asked, forecast, remaining, muddled, edits, asks>>

NoAsk == [kind |-> "none", amount |-> 0]
NoForecast == [requested |-> 0, left |-> 0]
Divisor == 10^Decimals

StreamAdminInit ==
  /\ remaining = [unclaimed |-> 0, status |-> "ACTIVE"]
  /\ figures = [unclaimed |-> 0, loaded |-> FALSE, loading |-> TRUE, failed |-> FALSE, allowed |-> TRUE]
  /\ entry = 0 /\ asked = NoAsk /\ forecast = NoForecast
  /\ muddled = FALSE /\ edits = 0 /\ asks = 0

\* The stream a page is opened for, by an administrator or not.
StreamAdminStart ==
  /\ remaining' \in [unclaimed : Stroops, status : {"ACTIVE", "SUSPENDED", "TERMINATED"}]
  /\ \E allowed \in BOOLEAN : figures' = [figures EXCEPT !.allowed = allowed]
  /\ UNCHANGED <<entry, asked, forecast, muddled, edits, asks>>

\* The fraction digits of n, most significant first.
DigitsFor(n) == [i \in 1..Decimals |-> (n \div 10^(Decimals - i)) % 10]
LeadingZeros(s) == IF \E i \in 1..Len(s) : s[i] # 0
                   THEN (CHOOSE i \in 1..Len(s) : s[i] # 0 /\ \A j \in 1..(i - 1) : s[j] = 0) - 1
                   ELSE Len(s)
TrimmedEnd(s) == Reverse(SubSeq(Reverse(s), LeadingZeros(Reverse(s)) + 1, Len(s)))

FractionShown(n) == TrimmedEnd(DigitsFor(n % Divisor))

\* stroopsToAmount: whole part and fraction digits without trailing zeros.
StroopsToAmount(n) == [whole |-> n \div Divisor, frac |-> FractionShown(n)]

\* amountToStroops: the fraction is padded or cut to the asset's decimals.
PaddedEnd(frac) == [i \in 1..Decimals |-> IF i <= Len(frac) THEN frac[i] ELSE 0]
AmountToStroops(a) ==
  a.whole * Divisor + FoldLeft(LAMBDA acc, d : 10 * acc + d, 0, PaddedEnd(a.frac))

\* validateAmountFormat
FormatValid(a) == Len(a.frac) <= Decimals /\ (a.whole > 0 \/ \E i \in 1..Len(a.frac) : a.frac[i] > 0)

Loaded(f) == figures' = [figures EXCEPT !.loading = FALSE, !.loaded = ~f, !.failed = f,
                         !.unclaimed = IF f THEN 0 ELSE remaining.unclaimed]

LoadFigures ==
  /\ figures.loading
  /\ \E f \in BOOLEAN : Loaded(f)
  /\ UNCHANGED <<entry, asked, forecast, remaining, muddled, edits, asks>>

FiguresView == figures.loaded
AdminView == FiguresView /\ figures.allowed

ForecastAfter(valid) == IF valid THEN NoForecast ELSE forecast

\* What can be typed: any amount, zero among them, one digit too many, nothing.
Entries ==
  {StroopsToAmount(n) : n \in Stroops}
  \union {[whole |-> 0, frac |-> [i \in 1..(Decimals + 1) |-> 1]]}

\* handleChange of the currency field, at most the balance loaded.
TypeEntry ==
  /\ AdminView /\ edits < MaxEdits
  /\ edits' = edits + 1
  /\ \E a \in Entries :
       LET n == AmountToStroops(a)
           valid == FormatValid(a) /\ n <= figures.unclaimed
       IN  /\ entry' = IF valid THEN n ELSE 0
           /\ forecast' = ForecastAfter(valid)
           /\ muddled' = (asked.kind = "preview" \/ (muddled /\ ~valid))
  /\ UNCHANGED <<figures, asked, remaining, asks>>

Ask(kind, amount) ==
  /\ AdminView /\ asked = NoAsk /\ asks < MaxAsks
  /\ asks' = asks + 1
  /\ asked' = [kind |-> kind, amount |-> amount]
  /\ UNCHANGED <<figures, entry, forecast, remaining, muddled, edits>>

HandlePreviewClawback == entry # 0 /\ Ask("preview", entry)
HandleSuspend == Ask("suspend", 0)
HandleResume == Ask("resume", 0)

\* The preview endpoint: status, then the amount against the balance.
PreviewAnswered ==
  /\ asked.kind = "preview"
  /\ remaining.status \in {"ACTIVE", "SUSPENDED"} /\ asked.amount <= remaining.unclaimed
  /\ forecast' = [requested |-> asked.amount, left |-> remaining.unclaimed - asked.amount]
  /\ asked' = NoAsk
  /\ UNCHANGED <<figures, entry, remaining, muddled, edits, asks>>

\* Suspend and resume check the status and answer; they write nothing.
SuspendAnswered ==
  /\ asked.kind = "suspend" /\ remaining.status = "ACTIVE"
  /\ asked' = NoAsk
  /\ UNCHANGED <<figures, entry, forecast, remaining, muddled, edits, asks>>

ResumeAnswered ==
  /\ asked.kind = "resume" /\ remaining.status = "SUSPENDED"
  /\ asked' = NoAsk
  /\ UNCHANGED <<figures, entry, forecast, remaining, muddled, edits, asks>>

AskFails ==
  /\ asked # NoAsk /\ asked' = NoAsk
  /\ UNCHANGED <<figures, entry, forecast, remaining, muddled, edits, asks>>

Claimed ==
  /\ \E n \in Stroops : n < remaining.unclaimed /\ remaining' = [remaining EXCEPT !.unclaimed = n]
  /\ UNCHANGED <<figures, entry, asked, forecast, muddled, edits, asks>>

StreamAdminNext ==
  \/ LoadFigures \/ TypeEntry \/ HandlePreviewClawback \/ HandleSuspend \/ HandleResume
  \/ PreviewAnswered \/ SuspendAnswered \/ ResumeAnswered \/ AskFails \/ Claimed

-----------------------------------------------------------------------------

StreamAdminTypeOK ==
  /\ figures.unclaimed \in Stroops \union {0} /\ remaining.unclaimed \in Stroops \union {0}
  /\ entry \in Stroops \union {0}
  /\ asked.kind \in {"none", "preview", "suspend", "resume"}

\* The preview beside a valid amount is the preview of that amount, unless the
\* amount was edited while the preview was on its way.
ForecastAnswersEntry ==
  forecast # NoForecast /\ entry # 0 => forecast.requested = entry \/ muddled

\* An amount read off the page and typed back stands for the same number of
\* smallest units, for the figures of every load.
TypedBackIsTheSame ==
  FiguresView => AmountToStroops(StroopsToAmount(figures.unclaimed)) = figures.unclaimed

-----------------------------------------------------------------------------
\* The parts side by side: a behaviour follows one of them.

clawbacksVars == <<deskVars, streamAdminVars>>

ClawbacksInit ==
  /\ DeskInit
  /\ StreamAdminInit

ClawbacksNext ==
  \/ /\ \/ TurnTo("ClawbackDesk") /\ UNCHANGED deskVars
        \/ StaysWith("ClawbackDesk") /\ DeskNext
     /\ UNCHANGED <<streamAdminVars>>
  \/ /\ \/ TurnTo("StreamAdmin") /\ StreamAdminStart
        \/ StaysWith("StreamAdmin") /\ StreamAdminNext
     /\ UNCHANGED <<deskVars>>

ClawbacksTypeOK ==
  /\ subject = "ClawbackDesk" => DeskTypeOK
  /\ subject = "StreamAdmin" => StreamAdminTypeOK
=============================================================================
