---------------------------- MODULE BackendProofs ---------------------------
(***************************************************************************)
(* Two services of the backend that write what money depends on.           *)
(*                                                                         *)
(* Payout intents: both safety properties, for any number of milestones,   *)
(* amounts, header keys and concurrent schedule requests, release requests *)
(* and reconciliations. Both follow from one invariant: the rows are       *)
(* typed, a key nobody claimed has no transaction and no builder, a claim  *)
(* has one builder, and the hash of every row, of those a reconciliation   *)
(* still holds too, was recorded under its key.                            *)
(*                                                                         *)
(* What the copy of the contract's state may be relied on for, for any     *)
(* number of trades, replicas, events, requests and crashes and any page,  *)
(* cache and retry limit. The steps that fill, restore or trim the cache   *)
(* of processed events come first, then all steps together.                *)
(***************************************************************************)
EXTENDS ChainSyncSteps, Payouts, SumLemmas

PayTyped ==
  /\ schedule \in [Milestones -> PayoutAmounts \cup {NoMilestone}]
  /\ scheduling \in [Schedulers -> Seq(PayRows)]
  /\ releasing \in [Releasers -> {NoRelease} \cup PayRelease]
  /\ intent \in [PayoutKeys -> PayIntent]
  /\ tx \in [PayoutKeys -> TxStates]
  /\ recorded \in [PayoutKeys -> SUBSET PayoutKeys]
  /\ sweep \in [Sweepers -> SUBSET [key : PayoutKeys, row : PayIntent]]

\* A key nobody claimed has no transaction and nobody builds one for it.
PayUnclaimed ==
  /\ \A k \in PayoutKeys : intent[k].status = "NONE" => tx[k] = "none"
  /\ \A c \in Releasers :
       releasing[c].step = "claimed" => intent[releasing[c].key].status # "NONE"

\* Whoever is to build a transaction is alone with the key, and none was built.
OneBuilder ==
  /\ \A c \in Releasers : releasing[c].step = "claimed" => tx[releasing[c].key] = "none"
  /\ \A c, d \in Releasers :
       releasing[c].step = "claimed" /\ releasing[d].step = "claimed"
         /\ releasing[c].key = releasing[d].key => c = d

\* The hash of a row was recorded under its key, and so was the hash of every
\* row a reconciliation still holds, however stale.
HashesRecorded ==
  /\ \A k \in PayoutKeys : intent[k].txHash \in recorded[k] \cup {NoHash}
  /\ \A w \in Sweepers : \A read \in sweep[w] :
       read.row.txHash \in recorded[read.key] \cup {NoHash}

PayInv == PayTyped /\ PayUnclaimed /\ OneBuilder /\ HashesRecorded /\ ConfirmedOnChain

\* IdleOrBusy: a release request is idle, or holds a key and a payout.
LEMMA IdleOrBusy ==
  ASSUME PayTyped, NEW c \in Releasers, releasing[c].step # "idle"
  PROVE  releasing[c] \in PayRelease /\ releasing[c].key \in PayoutKeys /\ releasing[c].of \in PayRows
<1>1. releasing[c] \in {NoRelease} \cup PayRelease
  BY DEF PayTyped
<1>2. releasing[c] # NoRelease
  BY DEF NoRelease
<1>3. QED
  BY <1>1, <1>2 DEF PayRelease

\* OutcomeTyped: what reconcile decides is one of the recorded outcomes, and
\* it is CONFIRMED only when the chain applied the transaction of the hash read.
LEMMA OutcomeTyped ==
  ASSUME NEW i \in PayIntent
  PROVE  /\ Resolved(i) \in {"CONFIRMED", "FAILED", "LEFT"}
         /\ Resolved(i) = "CONFIRMED" => i.txHash # NoHash /\ tx[i.txHash] = "applied"
BY DEF Resolved

\* RowRecorded: recording an outcome keeps what the intent stands for.
LEMMA RowRecorded ==
  ASSUME NEW i \in PayIntent, NEW to \in {"CONFIRMED", "FAILED"}
  PROVE  /\ RecordOutcome(i, to) \in PayIntent
         /\ RecordOutcome(i, to).of = i.of /\ RecordOutcome(i, to).status = to
         /\ RecordOutcome(i, to).txHash = i.txHash
BY Zenon DEF RecordOutcome, PayIntent

-----------------------------------------------------------------------------
(* The steps of the schedule route touch no intent; typing is all there is *)
(* to show for them.                                                       *)

\* ReplaceKeepsRows: deleteMany leaves typed rows and a typed list of creates.
LEMMA ReplaceKeepsRows ==
  ASSUME PayTyped, NEW s \in Schedulers, ReplaceSchedule(s)
  PROVE  schedule' \in [Milestones -> PayoutAmounts \cup {NoMilestone}]
         /\ scheduling' \in [Schedulers -> Seq(PayRows)]
<1>1. PICK rows \in PostedSchedules : scheduling' = [scheduling EXCEPT ![s] = rows]
  BY Zenon DEF ReplaceSchedule
<1>2. rows \in Seq(PayRows)
  <2>1. CASE \E r \in PayRows : rows = <<r>>
    BY <2>1
  <2>2. CASE \E q \in PayRows, r \in PayRows : rows = <<q, r>>
    BY <2>2
  <2>3. QED
    BY <1>1, <2>1, <2>2 DEF PostedSchedules, PayRows
<1>3. QED
  BY <1>1, <1>2 DEF PayTyped, ReplaceSchedule

\* CreateKeepsRows: so does each create, the one that meets the unique index
\* included.
LEMMA CreateKeepsRows ==
  ASSUME PayTyped, NEW s \in Schedulers, CreateMilestone(s)
  PROVE  schedule' \in [Milestones -> PayoutAmounts \cup {NoMilestone}]
         /\ scheduling' \in [Schedulers -> Seq(PayRows)]
<1>1. scheduling[s] \in Seq(PayRows) /\ scheduling[s] # <<>>
  BY DEF PayTyped, CreateMilestone
<1>2. Head(scheduling[s]) \in PayRows /\ Tail(scheduling[s]) \in Seq(PayRows) /\ <<>> \in Seq(PayRows)
  BY <1>1
<1>3. Head(scheduling[s])[1] \in Milestones /\ Head(scheduling[s])[2] \in PayoutAmounts
  BY <1>2 DEF PayRows
<1>4. QED
  BY <1>2, <1>3 DEF PayTyped, CreateMilestone

-----------------------------------------------------------------------------
(* What one step of each action leaves of the invariant.                   *)

\* ScheduleKeeps: rewriting the schedule leaves every intent, and what a
\* release request has read, alone.
LEMMA ScheduleKeeps ==
  ASSUME PayInv, NEW s \in Schedulers, ReplaceSchedule(s) \/ CreateMilestone(s)
  PROVE  PayInv' /\ KeysKept
<1>1. schedule' \in [Milestones -> PayoutAmounts \cup {NoMilestone}]
      /\ scheduling' \in [Schedulers -> Seq(PayRows)]
  BY ReplaceKeepsRows, CreateKeepsRows DEF PayInv
<1>2. UNCHANGED <<releasing, intent, tx, recorded, sweep>>
  BY DEF ReplaceSchedule, CreateMilestone
<1>3. QED
  BY <1>1, <1>2 DEF PayInv, PayTyped, PayUnclaimed, OneBuilder, HashesRecorded, ConfirmedOnChain, KeysKept

\* RequestKeeps: reading the schedule binds the request to a key of the table.
LEMMA RequestKeeps ==
  ASSUME PayInv, NEW c \in Releasers, NEW m \in Milestones,
         NEW h \in HeaderKeys \cup {"absent"}, ReleaseRead(c, m, h)
  PROVE  PayInv' /\ KeysKept
<1> USE DEF PayInv
<1> DEFINE r == [step |-> "read", key |-> ReleaseKey(m, h), of |-> <<m, schedule[m]>>]
<1>1. releasing[c].step = "idle" /\ releasing' = [releasing EXCEPT ![c] = r]
      /\ UNCHANGED <<schedule, scheduling, intent, tx, recorded, sweep>>
  BY DEF ReleaseRead
<1>2. <<m, schedule[m]>> \in PayRows
  BY DEF PayTyped, ReleaseRead, Scheduled, PayRows
<1>3. ReleaseKey(m, h) \in PayoutKeys
  BY <1>2 DEF ReleaseKey, DerivedKey, PayoutKeys, PayRows
<1>4. r \in PayRelease /\ r.step = "read"
  BY <1>2, <1>3 DEF PayRelease
<1> HIDE DEF r
<1>5. \A d \in Releasers : releasing'[d] = IF d = c THEN r ELSE releasing[d]
  BY <1>1 DEF PayTyped
<1>6. PayTyped'
  BY <1>1, <1>4 DEF PayTyped
<1>7. PayUnclaimed' /\ OneBuilder'
  BY <1>1, <1>4, <1>5 DEF PayUnclaimed, OneBuilder
<1>8. HashesRecorded' /\ ConfirmedOnChain'
  BY <1>1 DEF HashesRecorded, ConfirmedOnChain
<1>9. KeysKept
  BY <1>1, <1>4, <1>5 DEF KeysKept
<1>10. QED
  BY <1>6, <1>7, <1>8, <1>9

\* ClaimKeeps: the insert takes a key that had no row, so no transaction and no
\* builder, and makes the request its only builder.
LEMMA ClaimKeeps ==
  ASSUME PayInv, NEW c \in Releasers, Claim(c)
  PROVE  PayInv' /\ KeysKept
<1> USE DEF PayInv
<1> DEFINE k == releasing[c].key
           row == PendingIntent(releasing[c].of)
<1>1. /\ releasing[c].step = "read" /\ intent[k].status = "NONE"
      /\ intent' = [intent EXCEPT ![k] = row]
      /\ releasing' = [releasing EXCEPT ![c].step = "claimed"]
      /\ UNCHANGED <<schedule, scheduling, tx, recorded, sweep>>
  BY DEF Claim, ClaimFree
<1>2. releasing[c] \in PayRelease /\ k \in PayoutKeys /\ releasing[c].of \in PayRows
  BY <1>1, IdleOrBusy
<1>3. row \in PayIntent /\ row.status = "PENDING" /\ row.txHash = NoHash
  BY <1>2 DEF PendingIntent, PayIntent
<1>4. /\ \A d \in Releasers : d # c => releasing'[d] = releasing[d]
      /\ releasing'[c] \in PayRelease /\ releasing'[c].step = "claimed" /\ releasing'[c].key = k
  BY <1>1, <1>2, Zenon DEF PayTyped, PayRelease
<1>5. tx[k] = "none" /\ \A d \in Releasers : releasing[d].step = "claimed" => releasing[d].key # k
  BY <1>1, <1>2 DEF PayUnclaimed
<1> HIDE DEF k, row
<1>6. \A j \in PayoutKeys : intent'[j] = IF j = k THEN row ELSE intent[j]
  BY <1>1, <1>2 DEF PayTyped
<1>7. PayTyped'
  <2>1. releasing' \in [Releasers -> {NoRelease} \cup PayRelease]
    BY <1>1, <1>4 DEF PayTyped
  <2>2. QED
    BY <1>1, <1>2, <1>3, <2>1 DEF PayTyped
<1>8. PayUnclaimed'
  <2>1. \A j \in PayoutKeys : intent'[j].status = "NONE" => tx'[j] = "none"
    BY <1>1, <1>3, <1>6 DEF PayUnclaimed
  <2>2. ASSUME NEW d \in Releasers, releasing'[d].step = "claimed"
        PROVE  intent'[releasing'[d].key].status # "NONE"
    <3>1. CASE d = c
      BY <1>2, <1>3, <1>4, <1>6, <3>1
    <3>2. CASE d # c
      <4>1. releasing[d].key \in PayoutKeys
        BY <1>4, <2>2, <3>2, IdleOrBusy
      <4>2. QED
        BY <1>3, <1>4, <1>6, <2>2, <3>2, <4>1 DEF PayUnclaimed
    <3>3. QED
      BY <3>1, <3>2
  <2>3. QED
    BY <2>1, <2>2 DEF PayUnclaimed
<1>9. OneBuilder'
  BY <1>1, <1>4, <1>5 DEF OneBuilder
<1>10. HashesRecorded' /\ ConfirmedOnChain'
  BY <1>1, <1>3, <1>6 DEF HashesRecorded, ConfirmedOnChain
<1>11. KeysKept
  BY <1>1, <1>4, <1>6 DEF KeysKept
<1>12. QED
  BY <1>7, <1>8, <1>9, <1>10, <1>11

\* A write that keeps the payout and the hash of a row and confirms only over an
\* applied transaction of the key; release requests may end beside it, and
\* reconciliations drop rows they held.
RowWrite(k, row) ==
  /\ intent' = [intent EXCEPT ![k] = row]
  /\ row \in PayIntent /\ row.of = intent[k].of /\ row.txHash = intent[k].txHash
  /\ \/ row.status = intent[k].status
     \/ row.status = "FAILED"
     \/ row.status = "CONFIRMED" /\ \E hash \in recorded[k] : tx[hash] = "applied"
  /\ UNCHANGED <<schedule, scheduling, tx, recorded>>
  /\ \A d \in Releasers : \/ releasing'[d] = releasing[d]
                          \/ releasing[d].step = "read" /\ releasing'[d] = NoRelease
  /\ releasing' \in [Releasers -> {NoRelease} \cup PayRelease]
  /\ \A w \in Sweepers : sweep'[w] \subseteq sweep[w]
  /\ sweep' \in [Sweepers -> SUBSET [key : PayoutKeys, row : PayIntent]]

\* TouchKeeps: such a write keeps the invariant.
LEMMA TouchKeeps ==
  ASSUME PayInv, NEW k \in PayoutKeys, NEW row, RowWrite(k, row)
  PROVE  PayInv' /\ KeysKept
<1> USE DEF PayInv, RowWrite
<1>1. intent \in [PayoutKeys -> PayIntent]
  BY DEF PayTyped
<1>2. \A j \in PayoutKeys : intent'[j] = IF j = k THEN row ELSE intent[j]
  BY <1>1
<1>3. \A j \in PayoutKeys : /\ intent'[j].of = intent[j].of /\ intent'[j].txHash = intent[j].txHash
                            /\ intent[j].status # "NONE" => intent'[j].status # "NONE"
  BY <1>1, <1>2
<1>4. \A d \in Releasers : releasing'[d].step = "claimed" => releasing'[d] = releasing[d]
  BY DEF NoRelease
<1>5. PayTyped'
  BY <1>1 DEF PayTyped
<1>6. PayUnclaimed'
  <2>1. \A j \in PayoutKeys : intent'[j].status = "NONE" => tx'[j] = "none"
    BY <1>3 DEF PayUnclaimed
  <2>2. \A d \in Releasers : releasing'[d].step = "claimed" => intent'[releasing'[d].key].status # "NONE"
    BY <1>3, <1>4, IdleOrBusy DEF PayUnclaimed
  <2>3. QED
    BY <2>1, <2>2 DEF PayUnclaimed
<1>7. OneBuilder'
  BY <1>4 DEF OneBuilder
<1>8. HashesRecorded'
  BY <1>3 DEF HashesRecorded
<1>9. ConfirmedOnChain'
  BY <1>2 DEF ConfirmedOnChain
<1>10. KeysKept
  BY <1>3 DEF KeysKept, OneBuilder, NoRelease
<1>11. QED
  BY <1>5, <1>6, <1>7, <1>8, <1>9, <1>10

\* ExistingKeeps: a duplicate request counts itself and ends.
LEMMA ExistingKeeps ==
  ASSUME PayInv, NEW c \in Releasers, HandleExisting(c)
  PROVE  PayInv' /\ KeysKept
<1> DEFINE k == releasing[c].key
           row == [intent[k] EXCEPT !.fresh = TRUE]
<1>1. /\ releasing[c].step = "read" /\ intent' = [intent EXCEPT ![k] = row]
      /\ releasing' = [releasing EXCEPT ![c] = NoRelease]
      /\ UNCHANGED <<schedule, scheduling, tx, recorded, sweep>>
  BY Zenon DEF HandleExisting
<1>2. k \in PayoutKeys
  BY <1>1, IdleOrBusy DEF PayInv
<1>3. row \in PayIntent /\ row.of = intent[k].of /\ row.txHash = intent[k].txHash
      /\ row.status = intent[k].status
  <2>1. intent[k] \in PayIntent
    BY <1>2 DEF PayInv, PayTyped
  <2>2. QED
    BY <2>1, Zenon DEF PayIntent
<1> HIDE DEF k, row
<1>4. releasing' \in [Releasers -> {NoRelease} \cup PayRelease]
  BY <1>1 DEF PayInv, PayTyped
<1>5. \A d \in Releasers : \/ releasing'[d] = releasing[d]
                           \/ releasing[d].step = "read" /\ releasing'[d] = NoRelease
  BY <1>1 DEF PayInv, PayTyped
<1>6. \A w \in Sweepers : sweep'[w] \subseteq sweep[w]
  BY <1>1
<1>7. sweep' \in [Sweepers -> SUBSET [key : PayoutKeys, row : PayIntent]]
  BY <1>1 DEF PayInv, PayTyped
<1>8. RowWrite(k, row)
  BY <1>1, <1>3, <1>4, <1>5, <1>6, <1>7 DEF RowWrite
<1>9. QED
  BY <1>2, <1>8, TouchKeeps

\* AgesKeeps: time passing over a row changes nothing the invariant reads.
LEMMA AgesKeeps ==
  ASSUME PayInv, NEW k \in PayoutKeys, IntentAges(k)
  PROVE  PayInv' /\ KeysKept
<1> DEFINE row == [intent[k] EXCEPT !.fresh = FALSE]
<1>1. /\ intent' = [intent EXCEPT ![k] = row]
      /\ UNCHANGED <<schedule, scheduling, releasing, tx, recorded, sweep>>
  BY Zenon DEF IntentAges
<1>2. row \in PayIntent /\ row.of = intent[k].of /\ row.txHash = intent[k].txHash
      /\ row.status = intent[k].status
  <2>1. intent[k] \in PayIntent
    BY DEF PayInv, PayTyped
  <2>2. QED
    BY <2>1, Zenon DEF PayIntent
<1> HIDE DEF row
<1>3. releasing' \in [Releasers -> {NoRelease} \cup PayRelease]
      /\ sweep' \in [Sweepers -> SUBSET [key : PayoutKeys, row : PayIntent]]
  BY <1>1 DEF PayInv, PayTyped
<1>4. RowWrite(k, row)
  BY <1>1, <1>2, <1>3 DEF RowWrite
<1>5. QED
  BY <1>4, TouchKeeps

\* ResolveKeeps: a reconciliation decides by the row it read and writes over the
\* row it finds. It confirms only if the chain applied the hash it read, and
\* that hash was recorded under the key.
LEMMA ResolveKeeps ==
  ASSUME PayInv, NEW w \in Sweepers, ReconcileWrite(w)
  PROVE  PayInv' /\ KeysKept
<1>1. PICK read \in sweep[w] :
        /\ intent' = IF Resolved(read.row) = "LEFT" THEN intent
                     ELSE [intent EXCEPT ![read.key] = RecordOutcome(intent[read.key], Resolved(read.row))]
        /\ sweep' = [sweep EXCEPT ![w] = sweep[w] \ {read}]
  BY Zenon DEF ReconcileWrite
<1>2. UNCHANGED <<schedule, scheduling, releasing, tx, recorded>>
  BY DEF ReconcileWrite
<1>3. read \in [key : PayoutKeys, row : PayIntent]
  BY <1>1 DEF PayInv, PayTyped
<1> DEFINE k == read.key
           to == Resolved(read.row)
           row == IF to = "LEFT" THEN intent[k] ELSE RecordOutcome(intent[k], to)
<1>4. k \in PayoutKeys /\ read.row \in PayIntent /\ intent[k] \in PayIntent
  BY <1>3 DEF PayInv, PayTyped
<1>5. to \in {"CONFIRMED", "FAILED", "LEFT"}
      /\ (to = "CONFIRMED" => read.row.txHash # NoHash /\ tx[read.row.txHash] = "applied")
  BY <1>4, OutcomeTyped
<1>6. to = "CONFIRMED" => \E hash \in recorded[k] : tx[hash] = "applied"
  BY <1>1, <1>5 DEF PayInv, HashesRecorded
<1>7. intent' = [intent EXCEPT ![k] = row]
  <2>1. CASE to = "LEFT"
    <3>1. intent' = intent /\ row = intent[k]
      BY <1>1, <2>1
    <3>2. intent = [intent EXCEPT ![k] = intent[k]]
      BY <1>4 DEF PayInv, PayTyped
    <3>3. QED
      BY <3>1, <3>2
  <2>2. CASE to # "LEFT"
    BY <1>1, <2>2
  <2>3. QED
    BY <2>1, <2>2
<1>8. ASSUME to = "LEFT"
      PROVE  row \in PayIntent /\ row.of = intent[k].of /\ row.txHash = intent[k].txHash
             /\ row.status = intent[k].status
  BY <1>4, <1>8
<1>9. ASSUME to # "LEFT"
      PROVE  row \in PayIntent /\ row.of = intent[k].of /\ row.txHash = intent[k].txHash
             /\ row.status = to /\ to \in {"CONFIRMED", "FAILED"}
  <2>1. row = RecordOutcome(intent[k], to) /\ to \in {"CONFIRMED", "FAILED"}
    BY <1>5, <1>9
  <2> HIDE DEF to, k, row
  <2>2. QED
    BY <1>4, <2>1, RowRecorded
<1> HIDE DEF to, k, row
<1>10. /\ releasing' \in [Releasers -> {NoRelease} \cup PayRelease]
       /\ sweep' \in [Sweepers -> SUBSET [key : PayoutKeys, row : PayIntent]]
       /\ \A v \in Sweepers : sweep'[v] \subseteq sweep[v]
  BY <1>1, <1>2 DEF PayInv, PayTyped
<1>11. RowWrite(k, row)
  BY <1>2, <1>6, <1>7, <1>8, <1>9, <1>10, Zenon DEF RowWrite
<1>12. QED
  BY <1>4, <1>11, TouchKeeps

\* BuildKeeps: the only builder of a key hands out its first transaction, or
\* none.
LEMMA BuildKeeps ==
  ASSUME PayInv, NEW c \in Releasers, BuildReleaseMilestoneTx(c)
  PROVE  PayInv' /\ KeysKept
<1> USE DEF PayInv
<1> DEFINE k == releasing[c].key
<1>1. /\ releasing[c].step = "claimed" /\ releasing' = [releasing EXCEPT ![c] = NoRelease]
      /\ tx' = tx \/ tx' = [tx EXCEPT ![k] = "issued"]
      /\ UNCHANGED <<schedule, scheduling, intent, recorded, sweep>>
  BY DEF BuildReleaseMilestoneTx
<1>2. k \in PayoutKeys /\ tx[k] = "none" /\ intent[k].status # "NONE"
  BY <1>1, IdleOrBusy DEF OneBuilder, PayUnclaimed
<1>3. \A d \in Releasers : releasing'[d] = IF d = c THEN NoRelease ELSE releasing[d]
  BY <1>1 DEF PayTyped
<1>4. \A d \in Releasers : releasing'[d].step = "claimed" =>
        releasing'[d] = releasing[d] /\ releasing[d].key # k
  BY <1>1, <1>3 DEF NoRelease, OneBuilder
<1>5. /\ \A j \in PayoutKeys : j # k => tx'[j] = tx[j]
      /\ \A j \in PayoutKeys : tx[j] = "applied" => tx'[j] = "applied"
      /\ tx' \in [PayoutKeys -> TxStates]
  <2>1. tx \in [PayoutKeys -> TxStates] /\ "issued" \in TxStates
    BY DEF PayTyped, TxStates
  <2> HIDE DEF k
  <2>2. QED
    BY <1>1, <1>2, <2>1
<1>6. PayTyped'
  BY <1>1, <1>5 DEF PayTyped
<1>7. PayUnclaimed'
  BY <1>1, <1>2, <1>4, <1>5 DEF PayUnclaimed
<1>8. OneBuilder'
  <2>1. \A d \in Releasers : releasing'[d].step = "claimed" => releasing'[d].key \in PayoutKeys
    BY <1>4, IdleOrBusy
  <2>2. QED
    BY <1>4, <1>5, <2>1 DEF OneBuilder
<1>9. HashesRecorded'
  BY <1>1, Zenon DEF HashesRecorded
<1>10. ConfirmedOnChain'
  BY <1>1, <1>5 DEF ConfirmedOnChain, PayTyped
<1>11. KeysKept
  BY <1>1, <1>2, <1>3, Zenon DEF KeysKept
<1>12. QED
  BY <1>6, <1>7, <1>8, <1>9, <1>10, <1>11

\* ChainKeeps: the chain moves a transaction that was handed out, and an
\* applied one stays applied.
LEMMA ChainKeeps ==
  ASSUME PayInv, NEW k \in PayoutKeys, ClientSubmits(k) \/ ChainSettles(k)
  PROVE  PayInv' /\ KeysKept
<1> USE DEF PayInv
<1>1. UNCHANGED <<schedule, scheduling, releasing, intent, recorded, sweep>>
  BY DEF ClientSubmits, ChainSettles
<1>2. PICK to \in {"submitted", "applied", "rejected"} :
        tx' = [tx EXCEPT ![k] = to] /\ tx[k] \in {"issued", "submitted"}
  BY DEF ClientSubmits, ChainSettles
<1>3. /\ \A j \in PayoutKeys : tx[j] \in {"none", "applied"} => tx'[j] = tx[j]
      /\ tx' \in [PayoutKeys -> TxStates]
  BY <1>2 DEF PayTyped, TxStates
<1>4. PayTyped'
  BY <1>1, <1>3 DEF PayTyped
<1>5. PayUnclaimed'
  BY <1>1, <1>3 DEF PayUnclaimed
<1>6. OneBuilder'
  BY <1>1, <1>3, IdleOrBusy, Zenon DEF OneBuilder
<1>7. HashesRecorded'
  BY <1>1 DEF HashesRecorded
<1>8. ConfirmedOnChain'
  BY <1>1, <1>3 DEF ConfirmedOnChain, PayTyped
<1>9. KeysKept
  BY <1>1, Zenon DEF KeysKept
<1>10. QED
  BY <1>4, <1>5, <1>6, <1>7, <1>8, <1>9

\* RecordKeeps: a hash recorded over any row leaves it SUBMITTED, and joins the
\* hashes of the key.
LEMMA RecordKeeps ==
  ASSUME PayInv, NEW k \in PayoutKeys, NEW hash \in PayoutKeys, RecordSubmission(k, hash)
  PROVE  PayInv' /\ KeysKept
<1> USE DEF PayInv
<1> DEFINE row == [intent[k] EXCEPT !.status = "SUBMITTED", !.txHash = hash, !.fresh = TRUE]
<1>1. /\ intent' = [intent EXCEPT ![k] = row]
      /\ recorded' = [recorded EXCEPT ![k] = recorded[k] \cup {hash}]
      /\ UNCHANGED <<schedule, scheduling, releasing, tx, sweep>>
  BY Zenon DEF RecordSubmission
<1>2. row \in PayIntent /\ row.of = intent[k].of /\ row.txHash = hash /\ row.status = "SUBMITTED"
  <2>1. intent[k] \in PayIntent
    BY DEF PayTyped
  <2>2. QED
    BY <2>1, Zenon DEF PayIntent
<1> HIDE DEF row
<1>3. \A j \in PayoutKeys : /\ intent'[j] = IF j = k THEN row ELSE intent[j]
                            /\ recorded'[j] = IF j = k THEN recorded[k] \cup {hash} ELSE recorded[j]
  BY <1>1 DEF PayTyped
<1>4. \A j \in PayoutKeys : /\ recorded[j] \subseteq recorded'[j]
                            /\ intent'[j].of = intent[j].of
                            /\ intent[j].status # "NONE" => intent'[j].status # "NONE"
  BY <1>2, <1>3, Zenon
<1>5. PayTyped'
  BY <1>1, <1>2 DEF PayTyped
<1>6. PayUnclaimed'
  BY <1>1, <1>2, <1>3, <1>4, IdleOrBusy, Zenon DEF PayUnclaimed
<1>7. OneBuilder'
  BY <1>1, Zenon DEF OneBuilder
<1>8. HashesRecorded'
  <2>1. \A j \in PayoutKeys : intent'[j].txHash \in recorded'[j] \cup {NoHash}
    BY <1>2, <1>3, Zenon DEF HashesRecorded
  <2>2. \A w \in Sweepers : \A read \in sweep[w] : read.key \in PayoutKeys
    BY DEF PayTyped
  <2>3. \A w \in Sweepers : \A read \in sweep'[w] : read.row.txHash \in recorded'[read.key] \cup {NoHash}
    BY <1>1, <1>4, <2>2, Zenon DEF HashesRecorded
  <2>4. QED
    BY <2>1, <2>3, Zenon DEF HashesRecorded
<1>9. ConfirmedOnChain'
  BY <1>1, <1>2, <1>3 DEF ConfirmedOnChain
<1>10. KeysKept
  BY <1>1, <1>4, Zenon DEF KeysKept
<1>11. QED
  BY <1>5, <1>6, <1>7, <1>8, <1>9, <1>10

\* SweepKeeps: a reconciliation that begins holds rows of the table as they are.
LEMMA SweepKeeps ==
  ASSUME PayInv, NEW w \in Sweepers, ReconcileRead(w)
  PROVE  PayInv' /\ KeysKept
<1> USE DEF PayInv
<1>1. PICK old \in SUBSET PayoutKeys :
        sweep' = [sweep EXCEPT ![w] = {[key |-> k, row |-> intent[k]] : k \in old}]
  BY Zenon DEF ReconcileRead
<1>2. UNCHANGED <<schedule, scheduling, releasing, intent, tx, recorded>>
  BY DEF ReconcileRead
<1> DEFINE reads == {[key |-> k, row |-> intent[k]] : k \in old}
<1>3. reads \subseteq [key : PayoutKeys, row : PayIntent]
  BY DEF PayTyped
<1>4. \A read \in reads : read.row.txHash \in recorded[read.key] \cup {NoHash}
  BY DEF HashesRecorded
<1> HIDE DEF reads
<1>5. PayTyped'
  BY <1>1, <1>2, <1>3 DEF PayTyped
<1>6. HashesRecorded'
  BY <1>1, <1>2, <1>4 DEF HashesRecorded, PayTyped
<1>7. PayUnclaimed' /\ OneBuilder' /\ ConfirmedOnChain'
  BY <1>2, Zenon DEF PayUnclaimed, OneBuilder, ConfirmedOnChain
<1>8. KeysKept
  BY <1>2 DEF KeysKept
<1>9. QED
  BY <1>5, <1>6, <1>7, <1>8

-----------------------------------------------------------------------------

\* PayInitially: an empty intent table satisfies the invariant.
LEMMA PayInitially == PayInit => PayInv
<1> SUFFICES ASSUME PayInit PROVE PayInv
  OBVIOUS
<1>1. NoIntent \in PayIntent /\ NoIntent.status = "NONE" /\ NoIntent.txHash = NoHash
  BY DEF NoIntent, PayIntent
<1>2. <<>> \in Seq(PayRows) /\ NoRelease.step = "idle"
  BY DEF NoRelease
<1>3. PayTyped
  BY <1>1, <1>2 DEF PayInit, PayTyped, TxStates
<1>4. QED
  BY <1>1, <1>2, <1>3, Zenon DEF PayInit, PayInv, PayUnclaimed, OneBuilder, HashesRecorded, ConfirmedOnChain

\* PayStep: every request, submission and reconciliation step keeps it, and
\* keeps every key to its payout and to its one transaction.
LEMMA PayStep ==
  ASSUME PayInv, [PayNext]_payVars
  PROVE  PayInv' /\ [KeysKept]_payVars
<1>1. CASE PayNext
  BY <1>1, ScheduleKeeps, RequestKeeps, ClaimKeeps, ExistingKeeps, BuildKeeps, ChainKeeps,
     AgesKeeps, RecordKeeps, SweepKeeps, ResolveKeeps, Zenon DEF PayNext
<1>2. CASE UNCHANGED payVars
  <2>1. PayTyped'
    BY <1>2 DEF payVars, PayInv, PayTyped
  <2>2. PayUnclaimed' /\ OneBuilder'
    BY <1>2, Zenon DEF payVars, PayInv, PayUnclaimed, OneBuilder
  <2>3. HashesRecorded' /\ ConfirmedOnChain'
    BY <1>2 DEF payVars, PayInv, HashesRecorded, ConfirmedOnChain
  <2>4. QED
    BY <1>2, <2>1, <2>2, <2>3 DEF PayInv
<1>3. QED
  BY <1>1, <1>2

\* PayoutsConfirmed: however claims, retries, recorded hashes and stale
\* reconciliations interleave, reconcile() records CONFIRMED only over a key
\* under which the hash of an applied transaction was recorded
\* (payoutIntent.service.ts, recordSubmission and reconcile).
THEOREM PayoutsConfirmed == PaySpec => []ConfirmedOnChain
<1>1. PayInv => ConfirmedOnChain
  BY DEF PayInv
<1>2. PayInv /\ [PayNext]_payVars => PayInv'
  BY PayStep
<1>3. QED
  BY <1>1, <1>2, PayInitially, PTL DEF PaySpec

\* PayoutKeysBoundOnce: a payout key answers for one milestone and amount for
\* good, and at most one caller is handed a transaction under it, in every state
\* claim(), recordSubmission() and reconcile() can reach together.
THEOREM PayoutKeysBoundOnce == PaySpec => KeyBoundOnce
<1>1. PayInv /\ [PayNext]_payVars => PayInv' /\ [KeysKept]_payVars
  BY PayStep
<1>2. QED
  BY <1>1, PayInitially, PTL DEF PaySpec, KeyBoundOnce

-----------------------------------------------------------------------------
\* Most leaves are first-order and go to Zenon; a leaf with arithmetic, records or
\* EXCEPT in it names SMT.
USE Zenon

-----------------------------------------------------------------------------
(* Which events evictOldEvents keeps, and which one start() resumes from.   *)

\* LastOf: a non-empty set of positions has a last one.
LEMMA LastOf ==
  ASSUME NEW n \in Nat, NEW S \in SUBSET (1..n), S # {}
  PROVE  \E m \in S : \A k \in S : k <= m
<1> DEFINE T == {n - k : k \in S}
<1>1. T \in SUBSET Nat /\ T # {}
  <2>1. \A k \in S : n - k \in Nat
    BY SMT
  <2>2. QED
    BY <2>1
<1> HIDE DEF T
<1>2. PICK x \in T : \A y \in T : x <= y
  BY <1>1, LeastNat
<1>3. PICK m \in S : x = n - m
  BY DEF T
<1>4. \A k \in S : n - k \in T
  BY DEF T
<1>5. QED
  BY <1>2, <1>3, <1>4, SMT

\* PositionsFinite: a set of positions is finite.
LEMMA PositionsFinite ==
  ASSUME NEW n \in Nat, NEW S \in SUBSET (1..n)
  PROVE  IsFiniteSet(S) /\ Cardinality(S) \in Nat
<1>1. IsFiniteSet(1..n)
  BY FS_Interval, SMT
<1>2. IsFiniteSet(S)
  BY <1>1, FS_Subset
<1>3. QED
  BY <1>2, FS_CardinalityType

\* TopK: the last k of a set of positions are a set of k of them.
LEMMA TopK ==
  ASSUME NEW n \in Nat, NEW S \in SUBSET (1..n), NEW m \in 0..Cardinality(S)
  PROVE  \E kept \in SUBSET S : /\ Cardinality(kept) = m
                                /\ \A k \in kept, d \in S \ kept : d <= k
<1>0. IsFiniteSet(S) /\ Cardinality(S) \in Nat
  BY PositionsFinite
<1> DEFINE Good == {j \in 0..Cardinality(S) : \E kept \in SUBSET S :
                      /\ Cardinality(kept) = j
                      /\ \A k \in kept, d \in S \ kept : d <= k}
<1>1. 0 \in Good
  BY <1>0, FS_EmptySet, SMT
<1>2. ASSUME NEW j \in 1..Cardinality(S), j - 1 \in Good
      PROVE  j \in Good
  <2>1. PICK kept \in SUBSET S : /\ Cardinality(kept) = j - 1
                                 /\ \A k \in kept, d \in S \ kept : d <= k
    BY <1>2
  <2>2. IsFiniteSet(kept) /\ S \ kept # {}
    <3>1. IsFiniteSet(kept)
      BY <1>0, FS_Subset
    <3>2. kept # S
      BY <1>0, <2>1, SMT
    <3>3. QED
      BY <3>1, <3>2
  <2>3. PICK x \in S \ kept : \A y \in S \ kept : y <= x
    BY <2>2, LastOf
  <2>4. Cardinality(kept \cup {x}) = j
    <3>1. Cardinality(kept \cup {x}) = Cardinality(kept) + 1
      BY <2>2, <2>3, FS_AddElement
    <3>2. QED
      BY <1>0, <2>1, <3>1, SMT
  <2>5. \A k \in kept \cup {x}, d \in S \ (kept \cup {x}) : d <= k
    BY <2>1, <2>3
  <2>6. QED
    BY <2>4, <2>5, SMT
<1> HIDE DEF Good
<1>3. 0..Cardinality(S) \subseteq Good
  BY <1>0, <1>1, <1>2, UpToN
<1>4. QED
  BY <1>3 DEF Good

\* EvictedKeeps: what evictOldEvents leaves in the cache was in it.
LEMMA EvictedKeeps ==
  ASSUME ChainOK, NEW keys \in SUBSET Emitted
  PROVE  Evicted(keys) \subseteq keys
<1> DEFINE n == Cardinality(keys)
           m == IF n <= CacheSize THEN n ELSE CacheSize
           Keeps(kept) == \A k \in kept, d \in keys \ kept : LedgerOf(d) <= LedgerOf(k)
<1>1. Len(chain) \in Nat /\ keys \in SUBSET (1..Len(chain))
  BY SMT DEF ChainOK, Emitted
<1>n. n \in Nat
  BY <1>1, PositionsFinite
<1>2. m \in 0..n
  BY <1>n, ListenerBounds, SMT
<1> HIDE DEF m
<1>3. PICK kept \in SUBSET keys : /\ Cardinality(kept) = m
                                  /\ \A k \in kept, d \in keys \ kept : d <= k
  BY <1>1, <1>2, TopK
<1>4. Keeps(kept)
  BY <1>3 DEF ChainOK
<1>5. kept \in kSubset(m, keys)
  BY <1>3 DEF kSubset
<1>6. Evicted(keys) = CHOOSE x \in kSubset(m, keys) : Keeps(x)
  BY DEF Evicted, m
<1> HIDE DEF Keeps
<1>7. Evicted(keys) \in kSubset(m, keys)
  BY <1>4, <1>5, <1>6
<1>8. QED
  BY <1>7 DEF kSubset

\* NewestIs: the highest ledger start() finds is that of a processed event.
LEMMA NewestIs ==
  ASSUME ChainOK, processed \subseteq Emitted, processed # {}
  PROVE  Newest \in processed
<1>1. Len(chain) \in Nat
  BY SMT DEF ChainOK
<1>2. PICK m \in processed : \A k \in processed : k <= m
  BY <1>1, LastOf DEF Emitted
<1>3. \A k \in processed : LedgerOf(k) <= LedgerOf(m)
  BY <1>2 DEF ChainOK
<1>4. QED
  BY <1>2, <1>3 DEF Newest

-----------------------------------------------------------------------------
(* The listeners' steps that fill, restore or trim the cache.              *)

\* StartKeeps: start() takes its cursor from what the database has processed.
LEMMA StartKeeps ==
  ASSUME ListenerInv, NEW i \in Listeners, Start(i)
  PROVE  ListenerInv'
<1>1. ChainOK /\ MemoryOK /\ DurableOK /\ LoopOK(i)
  BY DEF ListenerInv
<1>2. /\ UNCHANGED <<chain, contract, page, held, outbox, processed, applied, dispute, erased>>
      /\ pc[i] = "down" /\ pc' = [pc EXCEPT ![i] = "idle"]
  BY DEF Start, storeVars
<1>3. PICK l, warm : /\ l = (IF processed = {} THEN 0 ELSE LedgerOf(Newest))
                     /\ warm \in {IF processed = {} THEN {} ELSE {Newest}, Evicted(processed)}
                     /\ cursor' = [cursor EXCEPT ![i] = l] /\ cache' = [cache EXCEPT ![i] = warm]
  BY DEF Start
<1>4. processed \subseteq Emitted /\ Emitted \subseteq Events
  BY <1>1, EmittedAreEvents DEF DurableOK
<1>5. warm \subseteq processed
  BY <1>1, <1>3, <1>4, NewestIs, EvictedKeeps
<1>6. l \in Nat /\ SeenTo(l)
  <2>1. CASE processed = {}
    BY <1>1, <1>3, <2>1, NoLedger
  <2>2. CASE processed # {}
    <3>1. Newest \in processed
      BY <1>1, <1>4, <2>2, NewestIs
    <3>2. QED
      BY <1>1, <1>3, <1>4, <2>2, <3>1, EmittedAreEvents DEF DurableOK
  <2>3. QED
    BY <2>1, <2>2
<1>7. Onward /\ Emitted' = Emitted
  BY <1>2, StillWorld DEF Emitted
<1>8. MemoryOK' /\ Alone(i)
  BY <1>1, <1>2, <1>3, <1>4, <1>5, <1>6 DEF MemoryOK, Alone
<1>9. DurableOK'
  BY <1>1, <1>2, <1>7, DurableStays
<1>10. LoopOK(i)'
  <2>1. pc'[i] = "idle" /\ cursor'[i] = l /\ cache'[i] = warm
    BY <1>1, <1>2, <1>3 DEF MemoryOK
  <2>2. PageOK(i)'
    <3>1. PICK h \in 1..(MaxEvents + 1) : page[i] = Run(h, 0) /\ h + 0 - 1 <= Len(chain)
      BY <1>1, <1>2 DEF LoopOK, PageOK, Busy
    <3>2. 0 \in 0..MaxEvents
      BY ListenerBounds, SMT
    <3>3. QED
      BY <1>2, <2>1, <3>1, <3>2 DEF PageOK, Run, Busy
  <2>3. AttemptOK(i)'
    BY <2>1 DEF AttemptOK
  <2>4. CacheOK(i)'
    BY <1>1, <1>2, <1>4, <1>5, <2>1 DEF CacheOK, Settled, Cased, Seen, DurableOK, Emitted
  <2>5. SeenTo(cursor[i])'
    <3>1. SeenTo(l)'
      BY <1>1, <1>6, <1>7, SeenToStays
    <3>2. QED
      BY <2>1, <3>1 DEF SeenTo
  <2>6. QED
    BY <2>2, <2>3, <2>4, <2>5 DEF LoopOK
<1>11. QED
  BY <1>2, <1>7, <1>8, <1>9, <1>10, Turn

\* AdvanceKeeps: the loop goes on and moves its cursor to the event's ledger.
LEMMA AdvanceKeeps ==
  ASSUME ListenerInv, Onward, contract' = contract, DurableOK',
         outbox' \in [Events -> OutboxRow],
         NEW i \in Listeners, pc[i] \in Busy, NEW h \in Emitted, h = Head(page[i]),
         Advance(i, h), Settled(h)', Seen(h)'
  PROVE  ListenerInv'
<1>1. ChainOK /\ MemoryOK /\ DurableOK /\ LoopOK(i)
  BY DEF ListenerInv
<1>2. PICK l, c : /\ l = (IF LedgerOf(h) > cursor[i] THEN LedgerOf(h) ELSE cursor[i])
                  /\ c = Evicted(cache[i] \cup {h})
                  /\ cursor' = [cursor EXCEPT ![i] = l] /\ cache' = [cache EXCEPT ![i] = c]
  BY <1>1 DEF Advance, MemoryOK
<1>3. /\ cursor[i] \in Nat /\ LedgerOf(h) \in Nat /\ cache[i] \subseteq Emitted
      /\ Emitted \subseteq Events /\ cursor'[i] = l /\ cache'[i] = c
  BY <1>1, <1>2, EmittedAreEvents DEF MemoryOK, LoopOK, CacheOK
<1>4. l \in Nat /\ cursor[i] <= l /\ LedgerOf(h) <= l
  BY <1>2, <1>3, SMT
<1>5. c \subseteq cache[i] \cup {h}
  <2>1. cache[i] \cup {h} \in SUBSET Emitted
    BY <1>3
  <2>2. QED
    BY <1>1, <1>2, <2>1, EvictedKeeps
<1>6. /\ PageOK(i)' /\ AttemptOK(i)'
      /\ pc'[i] \in {"idle", "page"} /\ page'[i] \in Seq(Nat) /\ held'[i] = Idle
  BY <1>1, <1>3, <1>4, NextKeepsPage DEF LoopOK, Advance
<1>7. MemoryOK' /\ Alone(i)
  <2>1. Idle \in HeldRow /\ c \subseteq Events
    BY <1>3, <1>5 DEF Idle, HeldRow
  <2>2. pc' \in [Listeners -> Busy \cup {"down", "idle"}] /\ page' \in [Listeners -> Seq(Nat)]
        /\ held' \in [Listeners -> HeldRow]
    <3>1. NextEvent(i)
      BY DEF Advance
    <3>2. QED
      BY <1>1, <1>6, <2>1, <3>1 DEF MemoryOK, NextEvent, Busy
  <2>3. QED
    <3>1. NextEvent(i)
      BY DEF Advance
    <3>2. QED
      BY <1>1, <1>2, <1>4, <2>1, <2>2, <3>1 DEF MemoryOK, Alone, NextEvent
<1>8. CacheOK(i)'
  BY <1>1, <1>3, <1>5, CacheStays DEF LoopOK
<1>9. SeenTo(cursor[i])'
  <2>1. SeenTo(l)'
    BY <1>1, <1>2, AdvanceSees DEF LoopOK
  <2>2. QED
    BY <1>3, <2>1 DEF SeenTo
<1>10. QED
  BY <1>6, <1>7, <1>8, <1>9, Turn DEF LoopOK

\* BeginKeeps: a row already PROCESSED is settled; otherwise the transaction
\* reads the rows as they are.
LEMMA BeginKeeps ==
  ASSUME StoreTypeOK, ListenerInv, NEW i \in Listeners, Begin(i)
  PROVE  ListenerInv'
<1>1. pc[i] = "attempt"
      /\ UNCHANGED <<chain, contract, outbox, processed, applied, tradeRow, dispute, erased>>
  BY DEF Begin, storeVars
<1>2. ChainOK /\ MemoryOK /\ DurableOK /\ LoopOK(i) /\ PageOK(i) /\ pc[i] \in Busy
  BY <1>1, AttemptAt
<1>3. PICK h \in Emitted : /\ h = Head(page[i]) /\ h \in Events /\ Seen(h)
                           /\ chain[h].trade \in TradeIds
  BY <1>1, AttemptAt
<1>4. Onward
  BY <1>1, StillWorld
<1>5. DurableOK' /\ outbox' \in [Events -> OutboxRow] /\ Seen(h)'
  <2>1. outbox' \in [Events -> OutboxRow]
    BY <1>1, <1>2 DEF MemoryOK
  <2>2. Seen(h)'
    BY <1>1, <1>3 DEF Seen
  <2>3. DurableOK'
    BY <1>1, <1>2, <1>4, DurableStays
  <2>4. QED
    BY <2>1, <2>2, <2>3
<1>6. CASE outbox[h].status = "PROCESSED"
  <2>1. Advance(i, h)
    BY <1>3, <1>6 DEF Begin
  <2>2. Settled(h)
    BY <1>2, <1>3, <1>6 DEF DurableOK
  <2>3. Settled(h)'
    BY <1>2, <1>4, <2>2, SettledStays
  <2>4. QED
    BY <1>1, <1>2, <1>3, <1>4, <1>5, <2>1, <2>3, AdvanceKeeps
<1>7. CASE outbox[h].status # "PROCESSED"
  <2>1. PICK r, d : r = tradeRow[chain[h].trade] /\ d = dispute[chain[h].trade]
    OBVIOUS
  <2>2. /\ held' = [held EXCEPT ![i].trade = r, ![i].dispute = d]
        /\ pc' = [pc EXCEPT ![i] = "tx"] /\ UNCHANGED <<cursor, cache, page>>
    BY <1>3, <1>7, <2>1 DEF Begin
  <2>3. r \in TradeRow \cup {NoRow} /\ d \in DisputeRow \cup {NoRow}
    BY <1>3, <2>1 DEF StoreTypeOK
  <2>4. held[i] \in HeldRow
    BY <1>2 DEF MemoryOK
  <2>5. held' \in [Listeners -> HeldRow] /\ held'[i].dispute = d
        /\ \A j \in Listeners \ {i} : held'[j] = held[j]
    <3>1. PICK x : x = [held[i] EXCEPT !.trade = r, !.dispute = d]
      OBVIOUS
    <3>2. x \in HeldRow /\ x.dispute = d
      BY <2>3, <2>4, <3>1 DEF HeldRow
    <3>3. held' = [held EXCEPT ![i] = x]
      BY <1>2, <2>2, <3>1 DEF MemoryOK
    <3>4. QED
      BY <1>2, <3>2, <3>3 DEF MemoryOK
  <2>6. MemoryOK' /\ Alone(i)
    BY <1>2, <1>5, <2>2, <2>5 DEF MemoryOK, Alone, Busy
  <2>7. pc'[i] = "tx" /\ page'[i] = page[i] /\ cursor'[i] = cursor[i] /\ cache'[i] = cache[i]
    BY <1>2, <2>2 DEF MemoryOK
  <2>8. held'[i].dispute # NoRow => Cased(chain[h].trade)'
    BY <1>1, <2>1, <2>5 DEF Cased
  <2>9. LoopOK(i)'
    BY <1>2, <1>3, <1>4, <1>5, <2>7, <2>8, StaysAtHead
  <2>10. QED
    BY <1>1, <1>4, <1>5, <2>6, <2>9, Turn
<1>8. QED
  BY <1>6, <1>7

\* ViolationKeeps: a unique-constraint error means the event is settled, or a
\* rival dispute stands.
LEMMA ViolationKeeps ==
  ASSUME ListenerInv, NEW i \in Listeners, UniqueViolation(i)
  PROVE  ListenerInv'
<1>1. pc[i] = "tx" /\ UNCHANGED <<chain, contract, processed, applied, dispute, erased>>
  BY DEF UniqueViolation, storeVars
<1>2. ChainOK /\ MemoryOK /\ DurableOK /\ pc[i] \in Busy
  BY <1>1, AttemptAt
<1>3. PICK h \in Emitted : /\ h = Head(page[i]) /\ h \in Events /\ Seen(h)
                           /\ outbox[h] \in OutboxRow /\ outbox[h].attempts \in Nat
  BY <1>1, AttemptAt
<1>4. PICK row : row = [outbox[h] EXCEPT !.status = "PROCESSED", !.due = TRUE]
  OBVIOUS
<1>5. row \in OutboxRow /\ row.status = "PROCESSED"
  BY <1>3, <1>4 DEF OutboxRow, OutboxStatus
<1>6. outbox' = [outbox EXCEPT ![h] = row] /\ Advance(i, h)
  BY <1>2, <1>3, <1>4 DEF UniqueViolation, MemoryOK
<1>7. /\ outbox' \in [Events -> OutboxRow] /\ Seen(h)'
      /\ \A f \in Events : Seen(f) => Seen(f)'
      /\ \A f \in Events \ {h} : outbox'[f] = outbox[f]
  BY <1>2, <1>3, <1>5, <1>6, RowUpdates
<1>8. Onward
  BY <1>1, <1>7 DEF Onward, Cased
<1>9. Settled(h)
  BY <1>3 DEF UniqueViolation, Settled, Cased, Marked, DuplicateDispute
<1>10. Settled(h)'
  BY <1>2, <1>8, <1>9, SettledStays
<1>11. DurableOK'
  <2>1. \A e \in Events : outbox'[e].status = "PROCESSED" =>
          outbox[e].status = "PROCESSED" \/ (e \in Emitted /\ Settled(e))
    BY <1>7, <1>9
  <2>2. QED
    BY <1>1, <1>2, <1>8, <2>1, DurableStays
<1>12. QED
  BY <1>1, <1>2, <1>3, <1>6, <1>7, <1>8, <1>10, <1>11, AdvanceKeeps

\* CommitKeeps: the handlers move the tables as they may move, and the event is
\* processed, once, with all that comes before it taken.
LEMMA CommitKeeps ==
  ASSUME SyncInv, NEW i \in Listeners, Commit(i)
  PROVE  TablesStep /\ SyncInv'
<1>1. StoreInv /\ StoreTypeOK /\ RequestsOK /\ ListenerInv
  BY StoreTypes DEF SyncInv, StoreInv
<1>2. pc[i] = "tx"
      /\ UNCHANGED <<sweeping, batching, opening, ruling, purging, overridden, erased, requests>>
      /\ UNCHANGED <<chain, contract>>
  BY DEF Commit, requestVars
<1>3. ChainOK /\ MemoryOK /\ DurableOK /\ LoopOK(i) /\ PageOK(i) /\ SeenTo(cursor[i])
      /\ pc[i] \in Busy
  BY <1>1, <1>2, AttemptAt
<1>4. PICK h \in Emitted : /\ h = Head(page[i]) /\ h \in Events /\ Seen(h)
                           /\ outbox[h].attempts \in Nat
                           /\ chain[h].trade \in TradeIds /\ chain[h].type \in EventTypes
  BY <1>1, <1>2, AttemptAt
<1>5. PICK t \in TradeIds, type \in EventTypes : t = chain[h].trade /\ type = chain[h].type
  BY <1>4
<1>6. PICK r \in TradeRow \cup {NoRow}, d \in DisputeRow \cup {NoRow} :
        r = held[i].trade /\ d = held[i].dispute
  BY <1>3 DEF MemoryOK, HeldRow
<1>7. PICK n \in Nat : n = outbox[h].attempts + 1
  <2>1. PICK a \in Nat : a = outbox[h].attempts
    BY <1>4
  <2>2. a + 1 \in Nat
    BY SMT
  <2>3. QED
    BY <2>1, <2>2
<1>8. PICK row : row = [status |-> "PROCESSED", attempts |-> n, due |-> TRUE]
  OBVIOUS
<1>9. /\ DispatchEvent(t, type, r, d) /\ h \notin processed /\ processed' = processed \cup {h}
      /\ outbox' = [outbox EXCEPT ![h] = row] /\ applied' = [applied EXCEPT ![h] = @ + 1]
      /\ Advance(i, h)
  BY <1>3, <1>4, <1>5, <1>6, <1>7, <1>8 DEF Commit, Marked, MemoryOK
<1>10. d # NoRow => Cased(t)
  BY <1>2, <1>3, <1>4, <1>5, <1>6 DEF LoopOK, AttemptOK
<1>11. /\ tradeRow' \in TradeTable /\ dispute' \in CaseTable
       /\ \A u \in TradeIds : TradeMoves(u, u = t /\ r = NoRow) /\ CaseMoves(u)
  <2>1. tradeRow \in TradeTable /\ dispute \in CaseTable
    BY <1>1, StoreTypes
  <2>2. QED
    BY <1>2, <1>9, <1>10, <2>1, DispatchMoves
<1>12. /\ outbox' \in [Events -> OutboxRow] /\ Seen(h)' /\ outbox'[h] = row
       /\ \A f \in Events : Seen(f) => Seen(f)'
       /\ \A f \in Events \ {h} : outbox'[f] = outbox[f]
  <2>1. row \in OutboxRow /\ row.status # "NONE"
    BY <1>8 DEF OutboxRow, OutboxStatus
  <2>2. QED
    BY <1>3, <1>4, <1>9, <2>1, RowUpdates
<1>13. Onward
  <2>1. \A u \in TradeIds : Cased(u) => Cased(u)'
    BY <1>2, <1>11, CasesStand
  <2>2. QED
    BY <1>2, <1>9, <1>12, <2>1 DEF Onward
<1>14. Settled(h)'
  BY <1>9 DEF Settled
<1>15. DurableOK'
  <2>1. Emitted' = Emitted /\ Emitted \subseteq Events
    BY <1>2, <1>3, EmittedAreEvents DEF Emitted
  <2>2. ASSUME NEW e \in processed
        PROVE  Seen(e)' /\ SeenTo(LedgerOf(e))'
    <3>1. Seen(e)'
      BY <1>3, <1>12, <2>1 DEF DurableOK
    <3>2. PICK l : l = LedgerOf(e)
      OBVIOUS
    <3>3. SeenTo(l)'
      BY <1>3, <1>13, <3>2, SeenToStays DEF DurableOK
    <3>4. LedgerOf(e)' = l
      BY <1>2, <3>2 DEF LedgerOf
    <3>5. QED
      BY <3>1, <3>3, <3>4 DEF SeenTo
  <2>3. Seen(h)' /\ SeenTo(LedgerOf(h))'
    BY <1>3, <1>4, <1>12, <1>13, HeadSees
  <2>4. \A e \in processed' : Seen(e)' /\ SeenTo(LedgerOf(e))'
    <3>1. SUFFICES ASSUME NEW e \in processed'
                   PROVE  Seen(e)' /\ SeenTo(LedgerOf(e))'
      OBVIOUS
    <3>2. CASE e = h
      <4>1. Seen(e)'
        BY <2>3, <3>2 DEF Seen
      <4>2. SeenTo(LedgerOf(e))'
        BY <2>3, <3>2 DEF SeenTo
      <4>3. QED
        BY <4>1, <4>2
    <3>3. QED
      BY <1>9, <2>2, <3>2
  <2>5. ASSUME NEW e \in Events, outbox'[e].status = "PROCESSED"
        PROVE  e \in Emitted /\ Settled(e)'
    <3>1. CASE e = h
      BY <1>14, <3>1 DEF Settled
    <3>2. CASE e # h
      <4>1. outbox[e].status = "PROCESSED"
        BY <1>12, <2>5, <3>2
      <4>2. QED
        BY <1>3, <1>13, <4>1, SettledStays DEF DurableOK
    <3>3. QED
      BY <3>1, <3>2
  <2>6. applied' = [e \in Events |-> IF e \in processed' THEN 1 ELSE 0]
    <3>1. applied = [e \in Events |-> IF e \in processed THEN 1 ELSE 0]
      BY <1>3 DEF DurableOK
    <3>2. applied' = [applied EXCEPT ![h] = @ + 1] /\ h \notin processed /\ h \in Events
          /\ processed' = processed \cup {h}
      BY <1>4, <1>9
    <3>3. 0 + 1 = 1
      BY SMT
    <3>4. QED
      BY <3>1, <3>2, <3>3
  <2>7. processed' \subseteq Emitted
    BY <1>3, <1>9 DEF DurableOK
  <2>8. QED
    BY <2>1, <2>4, <2>5, <2>6, <2>7 DEF DurableOK
<1>16. ListenerInv'
  BY <1>1, <1>2, <1>3, <1>4, <1>9, <1>12, <1>13, <1>14, <1>15, AdvanceKeeps
<1>17. TablesStep
  <2>1. pc'[i] # "tx"
    BY <1>3, <1>9 DEF Advance, NextEvent, MemoryOK
  <2>2. r = NoRow => Unguarded(t)
    BY <1>2, <1>4, <1>5, <1>6, <2>1 DEF Unguarded, BlindUpsert
  <2>3. ASSUME NEW u \in TradeIds
        PROVE  TradeMoves(u, Unguarded(u))
    <3>1. TradeMoves(u, u = t /\ r = NoRow)
      BY <1>11
    <3>2. CASE u = t
      BY <2>2, <3>1, <3>2 DEF TradeMoves, Moved
    <3>3. CASE u # t
      BY <3>1, <3>3 DEF TradeMoves, Moved
    <3>4. QED
      BY <3>2, <3>3
  <2>4. QED
    BY <1>2, <1>11, <2>3 DEF TablesStep
<1>18. StoreInv'
  <2>1. RequestsOK'
    BY <1>1, <1>2 DEF RequestsOK
  <2>2. QED
    BY <1>1, <1>2, <1>17, <2>1, WriteKeeps
<1>19. QED
  BY <1>16, <1>17, <1>18 DEF SyncInv

-----------------------------------------------------------------------------
\* SyncStep: every step moves the tables as they may move and keeps the
\* invariant.
LEMMA SyncStep ==
  ASSUME SyncInv, [SyncNext]_syncVars
  PROVE  (TablesStep \/ ErasureStep) /\ SyncInv'
<1>1. StoreInv /\ StoreTypeOK /\ ListenerInv /\ requests \in 0..MaxRequests
  BY DEF SyncInv, StoreInv, StoreTypeOK
<1>2. ASSUME UNCHANGED storeVars, ListenerInv'
      PROVE  TablesStep /\ SyncInv'
  <2>1. UNCHANGED <<tradeRow, dispute, requestVars, overridden, erased>> /\ requests' \in 0..MaxRequests
    BY <1>1, <1>2 DEF storeVars
  <2>2. QED
    BY <1>2, <2>1, StillTables DEF SyncInv
<1>3. ASSUME TablesStep \/ ErasureStep, StoreInv', UNCHANGED listenerVars
      PROVE  SyncInv'
  <2>1. UNCHANGED <<chain, contract, memoryVars, outbox, processed, applied>>
    BY <1>3 DEF listenerVars
  <2>2. \A t \in TradeIds : Cased(t) => Cased(t)'
    BY <1>3, CasesStand DEF TablesStep
  <2>3. Onward
    BY <2>1, <2>2 DEF Onward, Seen
  <2>4. outbox' \in [Events -> OutboxRow]
    BY <1>1, <2>1 DEF ListenerInv, MemoryOK
  <2>5. ListenerInv'
    BY <1>1, <2>1, <2>3, <2>4, WorldKeeps
  <2>6. QED
    BY <1>3, <2>5 DEF SyncInv
<1>4. CASE StoreNext /\ UNCHANGED listenerVars
  BY <1>1, <1>3, <1>4, StoreStep
<1>5. CASE UNCHANGED syncVars
  <2>1. UNCHANGED storeVars /\ UNCHANGED listenerVars
    BY <1>5 DEF syncVars
  <2>2. UNCHANGED <<tradeRow, dispute, requestVars, overridden, erased>> /\ requests' \in 0..MaxRequests
    BY <1>1, <2>1 DEF storeVars
  <2>3. QED
    BY <1>3, <2>1, <2>2, StillTables
<1>6. ASSUME NEW t \in TradeIds, Emit(t)
      PROVE  TablesStep /\ SyncInv'
  <2>1. UNCHANGED storeVars
    BY <1>6 DEF Emit
  <2>2. QED
    BY <1>1, <1>2, <1>6, <2>1, EmitKeeps
<1>7. ASSUME NEW i \in Listeners, Start(i) \/ Crash(i) \/ AbortPoll(i) \/ Poll(i)
      PROVE  TablesStep /\ SyncInv'
  <2>1. UNCHANGED storeVars
    BY <1>7 DEF Start, Crash, AbortPoll, Poll
  <2>2. ListenerInv'
    BY <1>1, <1>7, StartKeeps, DropKeeps, PollKeeps
  <2>3. QED
    BY <1>2, <2>1, <2>2
<1>8. ASSUME NEW i \in Listeners,
             Take(i) \/ Begin(i) \/ UniqueViolation(i) \/ RecordOutboxFailure(i)
      PROVE  TablesStep /\ SyncInv'
  <2>1. UNCHANGED storeVars
    BY <1>8 DEF Take, Begin, UniqueViolation, RecordOutboxFailure
  <2>2. ListenerInv'
    BY <1>1, <1>8, TakeKeeps, BeginKeeps, ViolationKeeps, FailureKeeps
  <2>3. QED
    BY <1>2, <2>1, <2>2
<1>9. ASSUME NEW e \in Events, BackoffElapses(e)
      PROVE  TablesStep /\ SyncInv'
  <2>1. UNCHANGED storeVars
    BY <1>9 DEF BackoffElapses
  <2>2. QED
    BY <1>1, <1>2, <1>9, <2>1, BackoffKeeps
<1>10. ASSUME NEW e \in Events, Replay(e)
       PROVE  TablesStep /\ SyncInv'
  <2>1. UNCHANGED <<tradeRow, dispute, requestVars, overridden, erased>> /\ requests' \in 0..MaxRequests
    BY <1>1, <1>10, StartedOK DEF Replay
  <2>2. ListenerInv'
    BY <1>1, <1>10, ReplayKeeps
  <2>3. QED
    BY <2>1, <2>2, StillTables DEF SyncInv
<1>11. QED
  BY <1>4, <1>5, <1>6, <1>7, <1>8, <1>9, <1>10, CommitKeeps DEF SyncNext, ListenerNext

\* SyncInvariant: the inductive invariant of tables, log and replicas together.
THEOREM SyncInvariant == SyncSpec => []SyncInv
<1>1. SyncInv /\ [SyncNext]_syncVars => SyncInv'
  BY SyncStep
<1>2. QED
  BY <1>1, SyncStarts, PTL DEF SyncSpec

\* SyncTypesAlways: tables, log, outbox and the replicas' memory keep their
\* types, and a replica has a page in hand exactly while its loop is in one.
THEOREM SyncTypesAlways == SyncSpec => []SyncTypeOK
<1>1. SyncInv => SyncTypeOK
  BY SyncInvImplies
<1>2. QED
  BY <1>1, SyncInvariant, PTL

\* AppliedAtMostOnce: whatever replicas, crashes, retries and replays do, the
\* handlers of an event commit at most once, and no replica's cache skips an
\* event that the database has not settled (EventListenerService.processEvent).
THEOREM AppliedAtMostOnce == SyncSpec => []AppliedOnce
<1>1. SyncInv => AppliedOnce
  BY SyncInvImplies
<1>2. QED
  BY <1>1, SyncInvariant, PTL

\* MissedOnlyInSharedLedgers: a cursor passes an event nobody has taken only
\* beside one that was taken, in the same ledger (pollEvents and start()).
THEOREM MissedOnlyInSharedLedgers == SyncSpec => []UnseenOnlyInSharedLedgers
<1>1. SyncInv => UnseenOnlyInSharedLedgers
  BY SyncInvImplies
<1>2. QED
  BY <1>1, SyncInvariant, PTL

\* TablesAlwaysAdvance: in every race of listeners, endpoints, sweep, batch, purge
\* and erasure, trade rows go forward under a new version, ended disputes stay or
\* go with their trade, a live case keeps its reason, a disputed trade its case,
\* and no case outlives its trade (eventHandlers.ts, dispute.service.ts,
\* privacy.service.ts, the jobs).
THEOREM TablesAlwaysAdvance == SyncSpec => TablesOnlyAdvance
<1>1. SyncInv /\ [SyncNext]_syncVars =>
        [\A t \in TradeIds : (tradeRow[t] # NoRow /\ tradeRow'[t] # tradeRow[t]) =>
           \/ BlindUpsert(t) \/ OrphanBatch(t) \/ ErasedNow(t)
           \/ /\ tradeRow'[t].version > tradeRow[t].version
              /\ tradeRow'[t].status \in Forward[tradeRow[t].status]]_syncVars
  <2> SUFFICES ASSUME SyncInv, [SyncNext]_syncVars, NEW t \in TradeIds,
                      tradeRow[t] # NoRow, tradeRow'[t] # tradeRow[t]
               PROVE  \/ BlindUpsert(t) \/ OrphanBatch(t) \/ ErasedNow(t)
                      \/ /\ tradeRow'[t].version > tradeRow[t].version
                         /\ tradeRow'[t].status \in Forward[tradeRow[t].status]
    OBVIOUS
  <2>1. TradeMoves(t, Unguarded(t)) \/ ErasedNow(t)
    BY SyncStep DEF TablesStep, ErasureStep
  <2>2. QED
    BY <2>1 DEF TradeMoves, Moved, Unguarded
<1>2. SyncInv /\ [SyncNext]_syncVars =>
        [\A t \in TradeIds :
           (dispute[t] # NoRow /\ dispute[t].status \in EndedStatuses) =>
             \/ ErasedNow(t)
             \/ /\ dispute'[t] # NoRow
                /\ dispute'[t].status = dispute[t].status
                /\ dispute'[t].version = dispute[t].version]_syncVars
  <2> SUFFICES ASSUME SyncInv, [SyncNext]_syncVars, NEW t \in TradeIds,
                      dispute[t] # NoRow, dispute[t].status \in EndedStatuses, ~ErasedNow(t)
               PROVE  /\ dispute'[t] # NoRow
                      /\ dispute'[t].status = dispute[t].status
                      /\ dispute'[t].version = dispute[t].version
    OBVIOUS
  <2>1. CaseMoves(t) \/ dispute'[t] = dispute[t]
    BY SyncStep DEF TablesStep, ErasureStep
  <2>2. QED
    BY <2>1, NoRowIsNoRow DEF CaseMoves
<1>3. SyncInv => ReasonKeptWhileLive /\ DisputedHasCase /\ CasesHaveTrades
  BY SyncInvImplies
<1>4. QED
  BY <1>1, <1>2, <1>3, SyncInvariant, PTL
  DEF SyncSpec, TablesOnlyAdvance, RowsMoveForward, EndedDisputesStay
=============================================================================
