------------------------------- MODULE Records -------------------------------
\* What is told about a trade later: listings, history, and sealed records.
EXTENDS Subject, Naturals, Sequences, SequencesExt, FiniteSets

-----------------------------------------------------------------------------
(***************************************************************************)
(* Listings                                                                *)
(*                                                                         *)
(* The paged listings of trades: a user's own trades with the bookmarked   *)
(* ones first, a cooperative's, and the evidence of a disputed trade.  A   *)
(* client walks the pages one by one while bookmarks, statuses and         *)
(* evidence change.                                                        *)
(***************************************************************************)

CONSTANTS
  ListedTrades,     \* 1..n, in the order of creation
  OddCase,          \* the user's trades whose stored address differs in case
  PageLimits,       \* limits a client asks for
  MaxVideos, MaxBookmarks

VARIABLES
  tradeStatus,   \* status per trade
  bookmarks,     \* the user's watchlist, newest first
  evidence,      \* the trade's evidence items, newest first
  walk           \* the client's walk over the pages of one listing

listingVars == <<tradeStatus, bookmarks, evidence, walk>>

NoWalk == [list |-> "none", filter |-> "", dir |-> "desc", limit |-> 1, page |-> 0, pages |-> 0,
           seen |-> <<>>]
TheLarger(a, b) == IF a > b THEN a ELSE b

ListingInit ==
  /\ tradeStatus = [t \in ListedTrades |-> "CREATED"]
  /\ bookmarks = <<>> /\ evidence = <<>> /\ walk = NoWalk

Slice(items, from, to) == SubSeq(items, from + 1, IF to < Len(items) THEN to ELSE Len(items))
ListingPages(total, limit) == TheLarger(1, (total + limit - 1) \div limit)

\* parseSort: anything but "asc" is descending; ties fall to the id.
ParseSort(ids, dir) == SetToSortSeq(ids, LAMBDA a, b : IF dir = "asc" THEN a < b ELSE a > b)

PassesFilter(t, filter) == filter = "" \/ tradeStatus[t] = filter

\* The rows the query counts: the stored address is compared as it is.
Counted(filter) == {t \in ListedTrades \ OddCase : PassesFilter(t, filter)}

Watched(filter) == SelectSeq(bookmarks, LAMBDA t : PassesFilter(t, filter))

RemainingSkip(skip, watched) == IF skip > Len(watched) THEN skip - Len(watched) ELSE 0

ListUserTrades(w) ==
  LET skip == (w.page - 1) * w.limit
      watched == Watched(w.filter)
      watchedPage == Slice(watched, skip, skip + w.limit)
      rest == ParseSort(Counted(w.filter) \ ToSet(watched), w.dir)
      from == RemainingSkip(skip, watched)
  IN [items |-> watchedPage \o Slice(rest, from, from + w.limit - Len(watchedPage)),
      total |-> Cardinality(Counted(w.filter))]

\* The cooperative's members are compared the same way and nothing is first.
ListCooperativeTrades(w) ==
  LET skip == (w.page - 1) * w.limit
  IN [items |-> Slice(ParseSort(Counted(w.filter), w.dir), skip, skip + w.limit),
      total |-> Cardinality(Counted(w.filter))]

OfType(type) == SelectSeq(evidence, LAMBDA e : type = "" \/ e.type = type)

ListEvidence(w) ==
  LET items == OfType(w.filter)
      start == (w.page - 1) * w.limit
  IN [items |-> Slice(items, start, start + w.limit), total |-> Len(items)]

Answer(w) == CASE w.list = "trades" -> ListUserTrades(w)
               [] w.list = "cooperative" -> ListCooperativeTrades(w)
               [] OTHER -> ListEvidence(w)

\* Over the same rows a second walk is like the first: one is followed at a time.
StartWalk(list, filter, dir, limit) ==
  /\ walk = NoWalk
  /\ list # "evidence" => filter \in {"", "CREATED"}
  /\ list = "evidence" => filter \in {"", "video", "manifest"} /\ dir = "desc"
  /\ list = "evidence" => evidence # <<>> \/ \E t \in ListedTrades : tradeStatus[t] = "DISPUTED"
  /\ walk' = [NoWalk EXCEPT !.list = list, !.filter = filter, !.dir = dir, !.limit = limit, !.pages = 1]
  /\ UNCHANGED <<tradeStatus, bookmarks, evidence>>

\* The client asks for the next page as long as the last answer had more.
FetchPage ==
  LET asked == [walk EXCEPT !.page = @ + 1]
      answer == Answer(asked)
  IN /\ walk.page < walk.pages
     /\ walk' = [asked EXCEPT !.pages = ListingPages(answer.total, asked.limit), !.seen = @ \o answer.items]
     /\ UNCHANGED <<tradeStatus, bookmarks, evidence>>

\* A walk during which something changes is not followed further.
Disturb == walk' = NoWalk

\* Bookmarks: the address is compared in lower case.
AddBookmark(t) ==
  /\ t \notin ToSet(bookmarks) /\ Len(bookmarks) < MaxBookmarks
  /\ bookmarks' = <<t>> \o bookmarks
  /\ Disturb /\ UNCHANGED <<tradeStatus, evidence>>

RemoveBookmark(t) ==
  /\ t \in ToSet(bookmarks)
  /\ bookmarks' = Remove(bookmarks, t)
  /\ Disturb /\ UNCHANGED <<tradeStatus, evidence>>

StatusMoves(t) ==
  /\ tradeStatus[t] = "CREATED"
  /\ tradeStatus' = [tradeStatus EXCEPT ![t] = "DISPUTED"]
  /\ Disturb /\ UNCHANGED <<bookmarks, evidence>>

EvidenceAdded(type) ==
  /\ Len(evidence) <= MaxVideos
  /\ type = "manifest" => OfType("manifest") = <<>>
  /\ type = "video" => Len(OfType("video")) < MaxVideos
  /\ evidence' = <<[type |-> type, id |-> Len(OfType(type)) + 1]>> \o evidence
  /\ Disturb /\ UNCHANGED <<tradeStatus, bookmarks>>

ListingNext ==
  \/ \E list \in {"trades", "cooperative", "evidence"}, filter \in {"", "CREATED", "video", "manifest"},
        dir \in {"asc", "desc"}, limit \in PageLimits : StartWalk(list, filter, dir, limit)
  \/ FetchPage
  \/ \E t \in ListedTrades : AddBookmark(t) \/ RemoveBookmark(t) \/ StatusMoves(t)
  \/ \E type \in {"video", "manifest"} : EvidenceAdded(type)

-----------------------------------------------------------------------------

ListingTypeOK ==
  /\ tradeStatus \in [ListedTrades -> {"CREATED", "DISPUTED"}]
  /\ ToSet(bookmarks) \subseteq ListedTrades /\ Len(bookmarks) <= MaxBookmarks
  /\ Len(evidence) <= MaxVideos + 1
  /\ walk.page <= walk.pages

\* A walk over all pages with no change in between shows every trade the
\* total counts, or every evidence item, exactly once, bookmarked or not, for
\* any limit and direction.  A bookmark of a trade stored with the address in
\* another case is shown but not counted: the pages the total announces then
\* end too early, so such a walk is left out.
UndisturbedWalkIsComplete ==
  /\ walk.list # "none" /\ walk.page = walk.pages
  /\ walk.list = "trades" => ToSet(Watched(walk.filter)) \intersect OddCase = {}
  => /\ ToSet(walk.seen) = IF walk.list = "evidence" THEN ToSet(OfType(walk.filter))
      ELSE Counted(walk.filter)
     /\ IsInjective(walk.seen)

-----------------------------------------------------------------------------
(***************************************************************************)
(* TradeHistory                                                            *)
(*                                                                         *)
(* The history of one trade as AuditTrailService.getTradeHistory derives   *)
(* it from the trade's row, and its signed export: signing and verifying   *)
(* both build the canonical payload afresh.                                *)
(***************************************************************************)

CONSTANTS
  MaxHistClock,    \* bound: last instant
  Retention        \* EVIDENCE_METADATA_RETENTION_DAYS, in ticks

VARIABLES
  histRow,         \* the trade: status, updatedAt, and its dispute and evidence
  reached,         \* milestones the trade really passed
  histClock,
  signedExport,    \* the last signed canonical payload, or none
  verdict          \* what the last /history/verify answered

histVars == <<histRow, reached, histClock, signedExport, verdict>>

Never == 0
NoExport == [generatedAt |-> Never, events |-> {}]

\* fundedAt, deliveredAt and completedAt are read below and written nowhere.
HistInit ==
  /\ histRow = [status |-> "CREATED", updatedAt |-> 1, evidenceAt |-> Never,
                disputeAt |-> Never, resolvedAt |-> Never,
                fundedAt |-> Never, deliveredAt |-> Never, completedAt |-> Never]
  /\ reached = {"CREATED"}
  /\ histClock = 1
  /\ signedExport = NoExport
  /\ verdict = [valid |-> FALSE, at |-> Never]

-----------------------------------------------------------------------------
(* getTradeHistory                                                         *)

StampOr(stamp) == IF stamp = Never THEN histRow.updatedAt ELSE stamp

HistoryEntries(type, shown, at) == IF shown THEN {[type |-> type, at |-> at]} ELSE {}

EvidenceExpired == histClock - histRow.evidenceAt > Retention

DELIVERED_STATUSES == {"DELIVERED", "COMPLETED"}

TradeHistoryFor(viewer) ==
  UNION {
    HistoryEntries("CREATED", TRUE, 1),
    HistoryEntries("FUNDED",
                   histRow.status \in {"FUNDED", "DELIVERED", "COMPLETED", "DISPUTED", "CANCELLED"},
            StampOr(histRow.fundedAt)),
    IF histRow.evidenceAt = Never THEN {}
    ELSE {[type |-> "EVIDENCE_SUBMITTED", at |-> histRow.evidenceAt,
           redacted |-> EvidenceExpired, actor |-> ~EvidenceExpired \/ viewer = "admin"]},
    HistoryEntries("DELIVERY_CONFIRMED", histRow.status \in DELIVERED_STATUSES,
            StampOr(histRow.deliveredAt)),
    HistoryEntries("DISPUTE_INITIATED", histRow.disputeAt # Never, histRow.disputeAt),
    HistoryEntries("RESOLVED", histRow.resolvedAt # Never, histRow.resolvedAt),
    HistoryEntries("COMPLETED", histRow.status = "COMPLETED", StampOr(histRow.completedAt)) }

\* Parties and admins; anyone once there is a dispute.
MayRead(viewer) == viewer # "other" \/ histRow.disputeAt # Never

CanonicalPayload(viewer) ==
  [generatedAt |-> histClock, events |-> TradeHistoryFor(viewer)]

\* An Ed25519 signature stands for the payload it was made over.
SignPayload(payload) == payload
VerifyPayload(payload, signature) == payload = signature

-----------------------------------------------------------------------------

HISTORY_EVENTS ==
  [CREATED |-> {"FUNDED", "CANCELLED"}, FUNDED |-> {"DELIVERED", "DISPUTED", "CANCELLED"},
   DELIVERED |-> {"COMPLETED", "DISPUTED"}, DISPUTED |-> {"COMPLETED"},
   COMPLETED |-> {}, CANCELLED |-> {}]

\* applyStatusTransition: the status and updatedAt, no milestone column.
HistTransition(to) ==
  /\ to \in HISTORY_EVENTS[histRow.status]
  /\ histRow' = [histRow EXCEPT
       !.status = to, !.updatedAt = histClock,
       !.disputeAt = IF to = "DISPUTED" THEN histClock ELSE @,
       !.resolvedAt = IF histRow.status = "DISPUTED" THEN histClock ELSE @]
  /\ reached' = reached \cup {to}
  /\ UNCHANGED <<histClock, signedExport, verdict>>

HistEvidence ==
  /\ histRow.evidenceAt = Never
  /\ histRow' = [histRow EXCEPT !.evidenceAt = histClock]
  /\ UNCHANGED <<reached, histClock, signedExport, verdict>>

\* GET /:id/history?signed=true
SignHistory(viewer) ==
  /\ MayRead(viewer)
  /\ signedExport' = SignPayload(CanonicalPayload(viewer))
  /\ UNCHANGED <<histRow, reached, histClock, verdict>>

\* GET /:id/history/verify?signature=...
VerifyHistory(viewer) ==
  /\ MayRead(viewer)
  /\ signedExport # NoExport
  /\ verdict' = [valid |-> VerifyPayload(CanonicalPayload(viewer), signedExport), at |-> histClock]
  /\ UNCHANGED <<histRow, reached, histClock, signedExport>>

HistTick ==
  /\ histClock < MaxHistClock
  /\ histClock' = histClock + 1
  /\ UNCHANGED <<histRow, reached, signedExport, verdict>>

HistNext ==
  \/ \E to \in {"FUNDED", "DELIVERED", "DISPUTED", "COMPLETED", "CANCELLED"} : HistTransition(to)
  \/ HistEvidence
  \/ \E viewer \in {"party", "admin", "other"} : SignHistory(viewer) \/ VerifyHistory(viewer)
  \/ HistTick

-----------------------------------------------------------------------------

HistTypeOK ==
  /\ histRow.status \in DOMAIN HISTORY_EVENTS
  /\ reached \subseteq DOMAIN HISTORY_EVENTS
  /\ histClock \in 1..MaxHistClock
  /\ signedExport.generatedAt \in 0..MaxHistClock
  /\ verdict \in [valid : BOOLEAN, at : 0..MaxHistClock]

Shows(type) == \E e \in TradeHistoryFor("party") : e.type = type

\* The history shows no milestone the trade did not pass, with two exceptions
\* that getTradeHistory makes by deciding on the status alone: FUNDED for a
\* trade cancelled before it was funded, and DELIVERY_CONFIRMED for one that
\* was completed out of a dispute.
ShownMilestonesHappened ==
  /\ Shows("FUNDED") /\ "FUNDED" \notin reached => histRow.status = "CANCELLED"
  /\ Shows("DELIVERY_CONFIRMED") /\ "DELIVERED" \notin reached =>
       histRow.status = "COMPLETED" /\ "DISPUTED" \in reached

-----------------------------------------------------------------------------
(***************************************************************************)
(* SealedRecords                                                           *)
(*                                                                         *)
(* What the backend keeps sealed of one trade: the parties' notes and the  *)
(* four driver fields of the delivery manifest, each sealed under a key    *)
(* derived from the trade and a key version that is stored in front of the *)
(* ciphertext; the rotate-key endpoint, which re-seals the rows one by one *)
(* outside any transaction; and the two reads that open them.              *)
(*                                                                         *)
(* A sealed value is the stack of versions its text is sealed under: one   *)
(* entry is what the writers make, two mean that a ciphertext was taken    *)
(* for a text and sealed again.                                            *)
(***************************************************************************)

CONSTANTS NoteIds,      \* notes that may be written
          Rotations,    \* rotate-key requests
          KeyVersions   \* the versions a request may name, any text

VARIABLES notes,        \* notes[n]: [author, seals], seals empty before it is written
          sealedManifest, \* seals of the manifest's fields, empty before it is written
          rotations,    \* rotations[r]: the request's progress
          aged,         \* the manifest is older than the retention window
          opened,       \* what the last read was answered
          oddVersion    \* some rotation named a version that is not v<number>

sealedVars == <<notes, sealedManifest, rotations, aged, opened, oddVersion>>

DEFAULT_KEY_VERSION == "v1"
Authors == {"buyer", "seller"}
Callers == Authors \cup {"mediator", "admin"}
Numbered == {"v1", "v2", "v3"}
\* A version with a colon in it: the payload no longer splits into five parts.
Unsplittable == {"a:b"}

NoRotation == [stage |-> "idle", version |-> DEFAULT_KEY_VERSION, todo |-> {},
               manifest |-> <<>>, disturbed |-> FALSE]

\* The request is answered; the updates in todo are still on their way.
Ended(stage, todo) == [NoRotation EXCEPT !.stage = stage, !.todo = todo]

-----------------------------------------------------------------------------
Encrypt(seals, version) == <<version>> \o seals

\* isEncryptedPayload.
IsEncryptedPayload(seals) == seals # <<>> /\ Head(seals) \in Numbered

\* decrypt: the text, or a ciphertext when the value was sealed twice.
Decrypt(seals) ==
  IF Head(seals) \in Unsplittable THEN "error"
  ELSE IF Len(seals) = 1 THEN "plain" ELSE "sealed"

RotateCiphertext(seals, version) ==
  IF IsEncryptedPayload(seals) THEN Encrypt(Tail(seals), version) ELSE Encrypt(seals, version)

WrittenNotes == {n \in NoteIds : notes[n].seals # <<>>}

\* Every rotation under way, save the one that makes the change, sees a row
\* that it did not read.
Disturbed(but) ==
  [r \in Rotations |-> IF r # but /\ rotations[r].stage \notin {"idle", "done", "failed"}
                       THEN [rotations[r] EXCEPT !.disturbed = TRUE] ELSE rotations[r]]
Nobody == "nobody"

-----------------------------------------------------------------------------
AddNote(n, author) ==
  /\ notes[n].seals = <<>>
  /\ notes' = [notes EXCEPT ![n] = [author |-> author, seals |-> Encrypt(<<>>, DEFAULT_KEY_VERSION)]]
  /\ rotations' = Disturbed(Nobody)
  /\ UNCHANGED <<sealedManifest, aged, opened, oddVersion>>

SealManifest ==
  /\ sealedManifest = <<>>
  /\ sealedManifest' = Encrypt(<<>>, DEFAULT_KEY_VERSION)
  /\ rotations' = Disturbed(Nobody)
  /\ UNCHANGED <<notes, aged, opened, oddVersion>>

ManifestAges ==
  /\ sealedManifest # <<>> /\ ~aged
  /\ aged' = TRUE
  /\ UNCHANGED <<notes, sealedManifest, rotations, opened, oddVersion>>

-----------------------------------------------------------------------------
\* POST /trades/:id/rotate-key by a party or an admin: the notes are read and
\* all new ciphertexts are computed before the first update is sent.
RotateNotes(r, version) ==
  /\ rotations[r].stage = "idle"
  /\ rotations' = [rotations EXCEPT ![r] =
       [@ EXCEPT !.stage = "notes", !.version = version,
                 !.todo = {<<n, RotateCiphertext(notes[n].seals, version)>> : n \in WrittenNotes},
                 !.disturbed = \E o \in Rotations \ {r} :
                                 rotations[o].stage \notin {"idle", "done"}]]
  /\ oddVersion' = (oddVersion \/ version \notin Numbered)
  /\ UNCHANGED <<notes, sealedManifest, aged, opened>>

\* One of the updates lands; those of a request that has failed land too.
NoteRotated(r) ==
  /\ rotations[r].stage \in {"notes", "failed"}
  /\ \E w \in rotations[r].todo :
       /\ notes' = [notes EXCEPT ![w[1]].seals = w[2]]
       /\ rotations' = [Disturbed(r) EXCEPT ![r].todo = @ \ {w}]
  /\ UNCHANGED <<sealedManifest, aged, opened, oddVersion>>

\* One of the updates is refused, or the connection is lost: Promise.all
\* rejects and the request is answered with an error.
NoteRefused(r) ==
  /\ rotations[r].stage \in {"notes", "failed"}
  /\ \E w \in rotations[r].todo :
       rotations' = [rotations EXCEPT ![r] = Ended("failed", @.todo \ {w})]
  /\ UNCHANGED <<notes, sealedManifest, aged, opened, oddVersion>>

ManifestRotated(r) ==
  IF sealedManifest = <<>> THEN <<>> ELSE RotateCiphertext(sealedManifest, rotations[r].version)

RotateManifest(r) ==
  /\ rotations[r].stage = "notes" /\ rotations[r].todo = {}
  /\ rotations' = [rotations EXCEPT ![r].stage = "manifest", ![r].manifest = ManifestRotated(r)]
  /\ UNCHANGED <<notes, sealedManifest, aged, opened, oddVersion>>

RotationEnds(r) ==
  /\ rotations[r].stage = "manifest"
  /\ \/ /\ sealedManifest' = IF rotations[r].manifest = <<>> THEN sealedManifest
                             ELSE rotations[r].manifest
        /\ rotations' = [Disturbed(r) EXCEPT ![r] = Ended("done", {})]
     \/ /\ rotations' = [rotations EXCEPT ![r] = Ended("failed", {})]
        /\ UNCHANGED sealedManifest
  /\ UNCHANGED <<notes, aged, opened, oddVersion>>

-----------------------------------------------------------------------------
\* What opening several values gives: one that cannot be opened fails the
\* whole request.
Together(results) == IF "error" \in results THEN "error"
                     ELSE IF "sealed" \in results THEN "sealed" ELSE "plain"

NothingOpened == [notes |-> "none", manifest |-> [name |-> "none", route |-> "none"]]

\* A note is opened for its author and for an admin, and is null for others.
ListNotes(caller) ==
  /\ caller \in Authors \cup {"admin"}
  /\ LET own == {n \in WrittenNotes : notes[n].author = caller \/ caller = "admin"} IN
     /\ own # {}
     /\ opened' = [NothingOpened EXCEPT !.notes = Together({Decrypt(notes[n].seals) : n \in own})]
  /\ UNCHANGED <<notes, sealedManifest, rotations, aged, oddVersion>>

\* getManifestByTradeId: the fields are opened first, whoever asks. The buyer
\* gets a masked name, a mediator the hashes and the sealed route, the seller
\* the name until the retention window ends.
GetManifest(caller) ==
  /\ caller \in {"buyer", "seller", "mediator"}
  /\ sealedManifest # <<>>
  /\ LET text == Decrypt(sealedManifest) IN
     opened' = [NothingOpened EXCEPT
       !.manifest = CASE text = "error"       -> [name |-> "error", route |-> "error"]
                      [] caller = "buyer"     -> [name |-> "masked", route |-> text]
                      [] caller = "mediator"  -> [name |-> "hash", route |-> "ciphertext"]
                      [] aged                 -> [name |-> "REDACTED", route |-> text]
                      [] OTHER                -> [name |-> text, route |-> text]]
  /\ UNCHANGED <<notes, sealedManifest, rotations, aged, oddVersion>>

-----------------------------------------------------------------------------
SealedInit ==
  /\ notes = [n \in NoteIds |-> [author |-> "buyer", seals |-> <<>>]]
  /\ sealedManifest = <<>> /\ aged = FALSE /\ oddVersion = FALSE
  /\ rotations = [r \in Rotations |-> NoRotation]
  /\ opened = NothingOpened

SealedNext ==
  \/ \E n \in NoteIds, a \in Authors : AddNote(n, a)
  \/ SealManifest \/ ManifestAges
  \/ \E r \in Rotations : \/ \E v \in KeyVersions : RotateNotes(r, v)
                          \/ NoteRotated(r) \/ NoteRefused(r)
                          \/ RotateManifest(r) \/ RotationEnds(r)
  \/ \E c \in Callers : ListNotes(c) \/ GetManifest(c)

SealedTypeOK ==
  /\ \A n \in NoteIds : notes[n].author \in Authors /\ Len(notes[n].seals) <= 3
  /\ Len(sealedManifest) <= 3
  /\ \A r \in Rotations : rotations[r].stage \in {"idle", "notes", "manifest", "done", "failed"}
  /\ opened.notes \in {"none", "plain", "sealed", "error"}
  /\ aged \in BOOLEAN /\ oddVersion \in BOOLEAN

\* However rotations interleave, fail half way and overwrite each other's rows,
\* a reader is given the text that was written, as long as every rotation named
\* a version of the form v<number>: the version travels with the ciphertext.
OpenedIsWritten ==
  ~oddVersion => /\ opened.notes \in {"none", "plain"}
                 /\ opened.manifest.name \in {"none", "plain", "masked", "hash", "REDACTED"}
                 /\ opened.manifest.route \in {"none", "plain", "ciphertext"}

\* A rotation that is answered ok has left nothing of the trade under another
\* version, unless a row was written or another rotation ran beside it.
RotationLeavesNothing ==
  [][\A r \in Rotations :
       (rotations[r].stage = "manifest" /\ rotations'[r].stage = "done" /\ ~rotations[r].disturbed)
         => /\ \A n \in WrittenNotes : Head(notes'[n].seals) = rotations[r].version
            /\ sealedManifest' # <<>> => Head(sealedManifest') = rotations[r].version]_sealedVars

-----------------------------------------------------------------------------
\* The parts side by side: a behaviour follows one of them.

recordsVars == <<listingVars, histVars, sealedVars>>

RecordsInit ==
  /\ ListingInit
  /\ HistInit
  /\ SealedInit

RecordsNext ==
  \/ /\ \/ TurnTo("Listings") /\ UNCHANGED listingVars
        \/ StaysWith("Listings") /\ ListingNext
     /\ UNCHANGED <<histVars, sealedVars>>
  \/ /\ \/ TurnTo("TradeHistory") /\ UNCHANGED histVars
        \/ StaysWith("TradeHistory") /\ HistNext
     /\ UNCHANGED <<listingVars, sealedVars>>
  \/ /\ \/ TurnTo("SealedRecords") /\ UNCHANGED sealedVars
        \/ StaysWith("SealedRecords") /\ SealedNext
     /\ UNCHANGED <<listingVars, histVars>>

RecordsTypeOK ==
  /\ subject = "Listings" => ListingTypeOK
  /\ subject = "TradeHistory" => HistTypeOK
  /\ subject = "SealedRecords" => SealedTypeOK
=============================================================================
