------------------------------- MODULE Evidence ------------------------------
\* Evidence from the phone's camera and the browser's dialog to the pinning
\* service and the recorded manifest.
EXTENDS Subject, Naturals, FiniteSets

-----------------------------------------------------------------------------
(***************************************************************************)
(* EvidencePins                                                            *)
(*                                                                         *)
(* Evidence videos and delivery manifests on their way to IPFS and to the  *)
(* database.  Both are pinned first and recorded afterwards; a manifest is *)
(* recorded before its transaction is built.  One stream over the file     *)
(* serves every attempt of an upload, and a timeout abandons an attempt    *)
(* that may still arrive.  The breaker around the uploads is Breaker; here *)
(* any call may be refused by it.                                          *)
(***************************************************************************)

CONSTANTS
  Uploads,        \* upload requests
  PinRetries,     \* retries of retryAsync
  ScanRequired    \* EVIDENCE_SCAN_REQUIRED

VARIABLES
  upload,      \* per request: kind, stage, attempt, whether the stream was read
  ipfs,        \* what is pinned, and abandoned attempts that may still arrive
  records,     \* evidence rows and the manifest row of the one trade
  handedXdr,   \* manifest transactions handed out, by their file
  cargo,       \* status of the trade
  retried      \* history: requests with an attempt that failed and was retried

pinVars == <<upload, ipfs, records, handedXdr, cargo, retried>>

NoManifest == [by |-> "none", content |-> "none"]
IdleUpload == [kind |-> "none", stage |-> "idle", attempt |-> 0, read |-> FALSE, content |-> "none"]

PinInit ==
  /\ upload = [r \in Uploads |-> IdleUpload]
  /\ ipfs = [pinned |-> {}, late |-> {}]
  /\ records = [evidence |-> {}, manifest |-> NoManifest]
  /\ handedXdr = {}
  /\ cargo = "FUNDED"
  /\ retried = {}

At(r, kind, stage) == upload[r].kind = kind /\ upload[r].stage = stage
PinMoved(r, stage) == upload' = [upload EXCEPT ![r].stage = stage]

-----------------------------------------------------------------------------
(* Admission                                                               *)

AllowedMime == {"mp4", "webm"}

\* A file: its declared type, the type its first bytes tell, its size, and
\* what the scanner says of it.
Files == [mime : AllowedMime \cup {"jpeg"}, sniffed : AllowedMime \cup {"unknown"},
          tooLarge : BOOLEAN, scan : {"clean", "blocked", "unavailable"}]

\* Multer drops a file of another type and refuses one over the limit.
HandleVideoMulter(f) == f.mime \in AllowedMime /\ ~f.tooLarge

SniffMimeType(f) == f.sniffed

\* A scanner that is down passes the file unless the scan is required.
RunEvidenceScan(f) == f.scan = "clean" \/ (f.scan = "unavailable" /\ ~ScanRequired)

UploadVideoEvidence(r, f) ==
  /\ upload[r].stage = "idle"
  /\ upload' = [upload EXCEPT ![r] =
       IF HandleVideoMulter(f) /\ SniffMimeType(f) = f.mime /\ RunEvidenceScan(f)
       THEN [IdleUpload EXCEPT !.kind = "video", !.stage = "uploading"]
       ELSE [IdleUpload EXCEPT !.kind = "video", !.stage = "refused"]]
  /\ UNCHANGED <<ipfs, records, handedXdr, cargo, retried>>

\* The web vault sends the fields of the router mounted second, so the router
\* mounted first refuses its body; a body of the right shape is pinned before
\* anything is asked of the database.
PostManifest(r, shape) ==
  /\ upload[r].stage = "idle"
  /\ upload' = [upload EXCEPT ![r] =
       IF shape = "vault" THEN [IdleUpload EXCEPT !.kind = "manifest", !.stage = "refused"]
       ELSE [IdleUpload EXCEPT !.kind = "manifest", !.stage = "uploading"]]
  /\ UNCHANGED <<ipfs, records, handedXdr, cargo, retried>>

-----------------------------------------------------------------------------
(* IPFSService.uploadFile                                                  *)

Content(r) == IF upload[r].read THEN "drained" ELSE "whole"
Pin(r) == [by |-> r, content |-> Content(r)]

PinataCircuitOpen(r) ==
  /\ upload[r].stage = "uploading" /\ upload[r].attempt = 0
  /\ PinMoved(r, "unavailable")
  /\ UNCHANGED <<ipfs, records, handedXdr, cargo, retried>>

PinFileToIPFS(r) ==
  /\ upload[r].stage = "uploading"
  /\ ipfs' = [ipfs EXCEPT !.pinned = @ \cup {Pin(r)}]
  /\ upload' = [upload EXCEPT ![r].stage = "pinned", ![r].content = Content(r), ![r].read = TRUE]
  /\ UNCHANGED <<records, handedXdr, cargo, retried>>

\* A network error or a 5xx is tried again, at most PinRetries times and
\* within the time budget; the failed attempt may have read the stream.
PinFails(r, hasRead, retryable) ==
  /\ upload[r].stage = "uploading"
  /\ IF retryable /\ upload[r].attempt < PinRetries
     THEN /\ upload' = [upload EXCEPT ![r].attempt = @ + 1, ![r].read = @ \/ hasRead]
          /\ retried' = retried \cup {r}
     ELSE PinMoved(r, "unavailable") /\ UNCHANGED retried
  /\ UNCHANGED <<ipfs, records, handedXdr, cargo>>

\* The message of the timeout is none of those classifyError retries.
TimeoutThrown(r) == PinMoved(r, "unavailable")

\* The attempt is not cancelled: it may still pin the file.
WithTimeout(r) ==
  /\ upload[r].stage = "uploading"
  /\ ipfs' = [ipfs EXCEPT !.late = @ \cup {Pin(r)}]
  /\ TimeoutThrown(r)
  /\ UNCHANGED <<records, handedXdr, cargo, retried>>

LateAttemptEnds(p, arrives) ==
  /\ p \in ipfs.late
  /\ ipfs' = [pinned |-> IF arrives THEN ipfs.pinned \cup {p} ELSE ipfs.pinned, late |-> ipfs.late \ {p}]
  /\ UNCHANGED <<upload, records, handedXdr, cargo, retried>>

-----------------------------------------------------------------------------
(* Recording                                                               *)

CreateEvidence(r, fails) ==
  /\ At(r, "video", "pinned")
  /\ records' = IF fails THEN records
                ELSE [records EXCEPT !.evidence = @ \cup {[by |-> r, content |-> upload[r].content]}]
  /\ PinMoved(r, IF fails THEN "failed" ELSE "created")
  /\ UNCHANGED <<ipfs, handedXdr, cargo, retried>>

\* The seller's manifest is accepted while the trade is FUNDED and has none.
SubmitManifestChecks(r) ==
  /\ At(r, "manifest", "pinned")
  /\ PinMoved(r, IF cargo = "FUNDED" /\ records.manifest = NoManifest THEN "checked" ELSE "refused")
  /\ UNCHANGED <<ipfs, records, handedXdr, cargo, retried>>

\* The unique trade id of the table decides between two that passed the checks.
CreateManifest(r) ==
  IF records.manifest = NoManifest
  THEN /\ records' = [records EXCEPT !.manifest = [by |-> r, content |-> upload[r].content]]
       /\ PinMoved(r, "recorded")
  ELSE PinMoved(r, "refused") /\ UNCHANGED records

SubmitManifestCreates(r) ==
  /\ At(r, "manifest", "checked")
  /\ CreateManifest(r)
  /\ UNCHANGED <<ipfs, handedXdr, cargo, retried>>

\* A build that fails leaves the row, so the seller's next attempt is refused.
BuildSubmitTradeManifestTx(r, fails) ==
  /\ At(r, "manifest", "recorded")
  /\ handedXdr' = IF fails THEN handedXdr ELSE handedXdr \cup {[by |-> r, content |-> upload[r].content]}
  /\ PinMoved(r, IF fails THEN "failed" ELSE "created")
  /\ UNCHANGED <<ipfs, records, cargo, retried>>

CargoMoves ==
  /\ cargo = "FUNDED" /\ cargo' = "DELIVERED"
  /\ UNCHANGED <<upload, ipfs, records, handedXdr, retried>>

PinNext ==
  \/ \E r \in Uploads :
       \/ \E f \in Files : UploadVideoEvidence(r, f)
       \/ \E shape \in {"api", "vault"} : PostManifest(r, shape)
       \/ PinataCircuitOpen(r) \/ PinFileToIPFS(r) \/ WithTimeout(r)
       \/ \E hasRead, retryable \in BOOLEAN : PinFails(r, hasRead, retryable)
       \/ \E fails \in BOOLEAN : CreateEvidence(r, fails) \/ BuildSubmitTradeManifestTx(r, fails)
       \/ SubmitManifestChecks(r) \/ SubmitManifestCreates(r)
  \/ \E p \in ipfs.late, arrives \in BOOLEAN : LateAttemptEnds(p, arrives)
  \/ CargoMoves

-----------------------------------------------------------------------------

PinTypeOK ==
  LET Pins == [by : Uploads, content : {"whole", "drained"}] IN
  /\ upload \in [Uploads -> [kind : {"none", "video", "manifest"},
       stage : {"idle", "uploading", "pinned", "checked", "recorded", "created", "refused",
                "unavailable", "failed"},
       attempt : 0..PinRetries, read : BOOLEAN, content : {"none", "whole", "drained"}]]
  /\ ipfs.pinned \subseteq Pins /\ ipfs.late \subseteq Pins
  /\ records.evidence \subseteq Pins /\ records.manifest \in Pins \cup {NoManifest}
  /\ handedXdr \subseteq Pins
  /\ cargo \in {"FUNDED", "DELIVERED"}
  /\ retried \subseteq Uploads

\* A recorded file (trade.manifest.routes.ts, evidence.service.ts) is pinned,
\* and is the whole file unless an attempt failed with a network or server
\* error and was retried over the stream it had read: an upload that timed
\* out is never continued.
RecordedFilesWhole ==
  \A p \in records.evidence \cup ({records.manifest} \ {NoManifest}) :
    p \in ipfs.pinned /\ (p.content = "whole" \/ p.by \in retried)

\* Of several submissions for one trade, also ones that passed the checks of
\* submitManifest together, only the recorded one is answered with a
\* transaction, so the hash that can reach the chain is the recorded one.
XdrCarriesRecordedManifest ==
  \A x \in handedXdr : x = records.manifest

-----------------------------------------------------------------------------
(***************************************************************************)
(* EvidenceDialog                                                          *)
(*                                                                         *)
(* The delivery verification dialog of the web application and the upload  *)
(* card inside it.  Uploads and signatures are awaited, and what they      *)
(* return is applied to whatever the dialog holds by then.                 *)
(***************************************************************************)

CONSTANTS
  ClipFiles,      \* files a user picks
  MaxOpenings,    \* bound: times the dialog opens
  MaxClips        \* bound: uploads started in the dialog

VARIABLES
  dialog,    \* DisputeVerificationModal: open, step, hash, isSubmitting
  card,      \* VideoUploadCard: mount, preview, uploading
  clips,     \* uploads of the card in flight
  pens,      \* signatures and submissions in flight
  clues      \* history: openings, uploads, crossings, what Horizon took

dialogVars == <<dialog, card, clips, pens, clues>>

ClosedDialog == [open |-> FALSE, step |-> "upload", hash |-> "none", submitting |-> FALSE]
BlankCard == [mount |-> 0, preview |-> "none", uploading |-> FALSE]

DialogInit ==
  /\ dialog = ClosedDialog
  /\ card = BlankCard
  /\ clips = {} /\ pens = {}
  /\ clues = [openings |-> 0, mounts |-> 0, clips |-> 0, crossed |-> FALSE, taken |-> {}]

-----------------------------------------------------------------------------
(* The dialog                                                              *)

\* The upload step mounts a fresh card; leaving it unmounts the card.
ShownCard(step) ==
  IF step = "upload" THEN [BlankCard EXCEPT !.mount = clues.mounts + 1] ELSE BlankCard

ResetOnOpen == [ClosedDialog EXCEPT !.open = TRUE, !.submitting = dialog.submitting]

OpenDialog ==
  /\ ~dialog.open /\ clues.openings < MaxOpenings
  /\ dialog' = ResetOnOpen
  /\ card' = ShownCard("upload")
  /\ clues' = [clues EXCEPT !.openings = @ + 1, !.mounts = @ + 1, !.crossed = clips # {}]
  /\ UNCHANGED <<clips, pens>>

CloseDialog ==
  /\ dialog.open
  /\ dialog' = [dialog EXCEPT !.open = FALSE]
  /\ card' = BlankCard
  /\ UNCHANGED <<clips, pens, clues>>

ErrorView == dialog.step = "error"
ConfirmAcceptView == dialog.step = "confirm-accept"
ConfirmDisputeView == dialog.step = "confirm-dispute"

ToStep(step) ==
  /\ dialog' = [dialog EXCEPT !.step = step]
  /\ card' = ShownCard(step)
  /\ clues' = IF step = "upload" THEN [clues EXCEPT !.mounts = @ + 1, !.crossed = @ \/ clips # {}]
       ELSE clues
  /\ UNCHANGED <<clips, pens>>

\* Both buttons of the upload step wait for a hash, and leave it behind an
\* upload that is still running.
UploadStep(choice) ==
  /\ dialog.open /\ dialog.step = "upload" /\ dialog.hash # "none"
  /\ ToStep(choice)

BackToUpload ==
  /\ dialog.open /\ (ConfirmAcceptView \/ ConfirmDisputeView \/ ErrorView)
  /\ clues.mounts < MaxOpenings + 1                       \* bound
  /\ ToStep("upload")

DialogSigns ==
  /\ dialog.open /\ (ConfirmAcceptView \/ ConfirmDisputeView) /\ ~dialog.submitting
  /\ pens' = pens \cup {[action |-> IF ConfirmAcceptView THEN "release" ELSE "dispute",
                         session |-> clues.openings]}
  /\ dialog' = [dialog EXCEPT !.step = "signing", !.submitting = TRUE]
  /\ UNCHANGED <<card, clips, clues>>

\* Rejected by the wallet, refused by Horizon, or the answer was lost.
SignatureFails(p, taken) ==
  /\ p \in pens /\ pens' = pens \ {p}
  /\ dialog' = [dialog EXCEPT !.step = "error", !.submitting = FALSE]
  /\ card' = BlankCard
  /\ clues' = [clues EXCEPT !.taken = IF taken THEN @ \cup {p.action} ELSE @]
  /\ UNCHANGED <<clips>>

SignatureDone(p) ==
  /\ p \in pens /\ pens' = pens \ {p}
  /\ dialog' = [dialog EXCEPT !.step = IF p.action = "release" THEN "done-accept" ELSE "done-dispute",
                              !.submitting = FALSE]
  /\ card' = BlankCard
  /\ clues' = [clues EXCEPT !.taken = @ \cup {p.action}]
  /\ UNCHANGED <<clips>>

-----------------------------------------------------------------------------
(* The upload card                                                         *)

HandleFile(f, crossed) ==
  /\ clues.clips < MaxClips
  /\ card' = [card EXCEPT !.preview = f, !.uploading = TRUE]
  /\ clips' = clips \cup {[file |-> f, n |-> clues.clips + 1, mount |-> card.mount]}
  /\ clues' = [clues EXCEPT !.clips = @ + 1, !.crossed = @ \/ crossed]
  /\ UNCHANGED <<dialog, pens>>

\* The browse button is inert while a file uploads.
BrowseLive == dialog.open /\ dialog.step = "upload" /\ ~card.uploading

HandleChange(f) == BrowseLive /\ HandleFile(f, FALSE)

\* Dropping a file is not.
HandleDrop(f) == dialog.open /\ dialog.step = "upload" /\ HandleFile(f, clips # {})

\* The hash goes to the dialog even when its card is gone.
ClipUploaded(c) ==
  /\ c \in clips /\ clips' = clips \ {c}
  /\ dialog' = [dialog EXCEPT !.hash = c.file]
  /\ card' = IF c.mount = card.mount THEN [card EXCEPT !.uploading = FALSE] ELSE card
  /\ UNCHANGED <<pens, clues>>

ClipFails(c) ==
  /\ c \in clips /\ clips' = clips \ {c}
  /\ card' = IF c.mount = card.mount THEN [card EXCEPT !.uploading = FALSE] ELSE card
  /\ clues' = [clues EXCEPT !.crossed = @ \/ dialog.hash # "none"]
  /\ UNCHANGED <<dialog, pens>>

DialogNext ==
  \/ OpenDialog \/ CloseDialog \/ BackToUpload \/ DialogSigns
  \/ \E choice \in {"confirm-accept", "confirm-dispute"} : UploadStep(choice)
  \/ \E p \in pens : SignatureDone(p) \/ \E taken \in BOOLEAN : SignatureFails(p, taken)
  \/ \E f \in ClipFiles : HandleChange(f) \/ HandleDrop(f)
  \/ \E c \in clips : ClipUploaded(c) \/ ClipFails(c)

-----------------------------------------------------------------------------

DialogTypeOK ==
  /\ dialog \in [open : BOOLEAN, hash : ClipFiles \cup {"none"}, submitting : BOOLEAN,
       step : {"upload", "confirm-accept", "confirm-dispute", "signing", "done-accept",
               "done-dispute", "error"}]
  /\ card \in [mount : 0..(2 * MaxOpenings), preview : ClipFiles \cup {"none"}, uploading : BOOLEAN]
  /\ clips \subseteq [file : ClipFiles, n : 1..MaxClips, mount : 1..(2 * MaxOpenings)]
  /\ pens \subseteq [action : {"release", "dispute"}, session : 1..MaxOpenings]

\* One signature is awaited at a time, also by a dialog that was closed and
\* opened again while the wallet was asking (isSubmitting outlives the reset).
OneSignatureAtATime == Cardinality(pens) <= 1

\* A dialog that reports the funds released or the dispute raised reports a
\* transaction Horizon took, and the hash beside a card at rest is the hash of
\* the file it previews, unless a file was dropped on a running upload, an
\* upload outlived its card, or one failed after another had succeeded.
DialogTellsTheTruth ==
  /\ dialog.step = "done-accept" => "release" \in clues.taken
  /\ (card.preview # "none" /\ ~card.uploading /\ dialog.hash # "none" /\ ~clues.crossed)
        => dialog.hash = card.preview

-----------------------------------------------------------------------------
(***************************************************************************)
(* EvidenceCapture                                                         *)
(*                                                                         *)
(* The evidence capture screen of the mobile app.  Its upload is awaited   *)
(* while the type buttons stay live, and the answer is applied to whatever *)
(* the screen holds by then.                                               *)
(***************************************************************************)

CONSTANT MaxShots   \* bound: captures

VARIABLES
  camera,    \* the screen: media type, capture, upload state
  postedClips,    \* uploads in flight, by capture
  shoot      \* history: captures taken and stored, type switched while uploading

captureVars == <<camera, postedClips, shoot>>

BlankCamera == [type |-> "video", captured |-> 0, state |-> "idle"]

CaptureInit ==
  /\ camera = BlankCamera
  /\ postedClips = {}
  /\ shoot = [shots |-> 0, switched |-> FALSE, stored |-> {}]

CaptureArea == camera.state \in {"idle", "error"}

HandleCapture ==
  /\ CaptureArea /\ shoot.shots < MaxShots
  /\ camera' = [camera EXCEPT !.captured = shoot.shots + 1, !.state = "captured"]
  /\ shoot' = [shoot EXCEPT !.shots = @ + 1]
  /\ UNCHANGED postedClips

CaptureReset == [camera EXCEPT !.captured = 0, !.state = "idle"]

\* The type buttons stay live while a capture uploads.
SelectType(t) ==
  /\ camera.state # "done"
  /\ camera' = [CaptureReset EXCEPT !.type = t]
  /\ shoot' = [shoot EXCEPT !.switched = @ \/ postedClips # {}]
  /\ UNCHANGED postedClips

RetakeShown == camera.captured # 0 /\ camera.state # "uploading"

Retake ==
  /\ RetakeShown /\ camera.state # "done"
  /\ camera' = CaptureReset
  /\ UNCHANGED <<postedClips, shoot>>

UploadShown == camera.captured # 0 /\ camera.state \notin {"uploading", "done"}

HandleUpload ==
  /\ UploadShown
  /\ camera' = [camera EXCEPT !.state = "uploading"]
  /\ postedClips' = postedClips \cup {camera.captured}
  /\ UNCHANGED shoot

PostAnswered(n, ok) ==
  /\ n \in postedClips /\ postedClips' = postedClips \ {n}
  /\ camera' = [camera EXCEPT !.state = IF ok THEN "done" ELSE "error"]
  /\ shoot' = IF ok THEN [shoot EXCEPT !.stored = @ \cup {n}] ELSE shoot

\* Back to the trade; the screen is new when it is opened again.
LeaveCapture ==
  /\ camera # BlankCamera
  /\ camera' = BlankCamera /\ postedClips' = {}
  /\ shoot' = [shoot EXCEPT !.switched = FALSE]

CaptureNext ==
  \/ HandleCapture \/ Retake \/ HandleUpload \/ LeaveCapture
  \/ \E t \in {"video", "photo"} : SelectType(t)
  \/ \E n \in postedClips, ok \in BOOLEAN : PostAnswered(n, ok)

-----------------------------------------------------------------------------

CaptureTypeOK ==
  /\ camera \in [type : {"video", "photo"}, captured : 0..MaxShots,
                 state : {"idle", "captured", "uploading", "done", "error"}]
  /\ postedClips \subseteq 1..MaxShots
  /\ shoot \in [shots : 0..MaxShots, switched : BOOLEAN, stored : SUBSET (1..MaxShots)]

\* The phone says "Evidence Uploaded" of the capture that was stored, unless
\* the type was switched under a running upload.
UploadedIsTheCapture ==
  (camera.state = "done" /\ ~shoot.switched) => camera.captured \in shoot.stored

-----------------------------------------------------------------------------
\* The parts side by side: a behaviour follows one of them.

proofsVars == <<pinVars, dialogVars, captureVars>>

ProofsInit ==
  /\ PinInit
  /\ DialogInit
  /\ CaptureInit

ProofsNext ==
  \/ /\ \/ TurnTo("EvidencePins") /\ UNCHANGED pinVars
        \/ StaysWith("EvidencePins") /\ PinNext
     /\ UNCHANGED <<dialogVars, captureVars>>
  \/ /\ \/ TurnTo("EvidenceDialog") /\ UNCHANGED dialogVars
        \/ StaysWith("EvidenceDialog") /\ DialogNext
     /\ UNCHANGED <<pinVars, captureVars>>
  \/ /\ \/ TurnTo("EvidenceCapture") /\ UNCHANGED captureVars
        \/ StaysWith("EvidenceCapture") /\ CaptureNext
     /\ UNCHANGED <<pinVars, dialogVars>>

ProofsTypeOK ==
  /\ subject = "EvidencePins" => PinTypeOK
  /\ subject = "EvidenceDialog" => DialogTypeOK
  /\ subject = "EvidenceCapture" => CaptureTypeOK
=============================================================================
