---------------------------- MODULE EscrowProofs ----------------------------
(***************************************************************************)
(* The escrow contract implements the vault of Custody, and so is solvent, *)
(* and every party's wallet shows what its trades paid, for every number   *)
(* of trades, as long as no path payment is started.                       *)
(***************************************************************************)
EXTENDS EscrowTradeProofs

\* Most leaves are first-order and go to Zenon; a leaf with arithmetic, records or
\* EXCEPT in it names SMT.
USE Zenon

\* No path payment is pending.
NoPaths == \A t \in Trades : pathPaymentIntent[t] = None

\* The inductive invariant.
CustodyInv == TypeOK /\ Fresh /\ NoPaths

\* A step the vault does not see.
VaultUnseen == token'[Escrow] = token[Escrow] /\ UNCHANGED <<accruedFees, Owed, Phase>>

\* What every step is shown to be.
CustodyStep == Fresh' /\ NoPaths' /\ (Vault!Next \/ VaultUnseen)

\* VaultTypes: the figures of the vault are whole numbers.
LEMMA VaultTypes ==
  ASSUME TypeOK
  PROVE  /\ token[Escrow] \in Nat /\ accruedFees \in Nat
         /\ Owed \in [Trades -> Nat]
         /\ \A t \in Trades : trade[t].amount \in Nat
<1>1. \A t \in Trades : trade[t].amount \in Nat
  BY DEF TypeOK, TradeType
<1>2. token[Escrow] \in Nat
  BY DEF TypeOK, Address
<1>3. Owed \in [Trades -> Nat]
  BY <1>1 DEF Owed
<1>4. QED
  BY <1>1, <1>2, <1>3 DEF TypeOK

\* OneTrade: saving one trade's record changes one entry of the vault's books.
LEMMA OneTrade ==
  ASSUME TypeOK, NEW t \in Trades, NEW record, SaveTrade(t, record)
  PROVE  /\ trade'[t] = record
         /\ Owed' = [Owed EXCEPT ![t] = IF record.status \in Live THEN record.amount ELSE 0]
         /\ Phase' = [Phase EXCEPT ![t] = IF record.status \in Live THEN "locked"
                        ELSE IF record.status \in Terminal THEN "closed" ELSE "open"]
<1>1. trade \in [Trades -> TradeType]
  BY DEF TypeOK
<1>2. trade' = [trade EXCEPT ![t] = record]
  BY DEF SaveTrade
<1>3. trade'[t] = record /\ \A u \in Trades : u # t => trade'[u] = trade[u]
  BY <1>1, <1>2
<1>4. Owed' = [Owed EXCEPT ![t] = IF record.status \in Live THEN record.amount ELSE 0]
  BY <1>3 DEF Owed
<1>5. Phase' = [Phase EXCEPT ![t] = IF record.status \in Live THEN "locked"
                  ELSE IF record.status \in Terminal THEN "closed" ELSE "open"]
  BY <1>3 DEF Phase
<1>6. QED
  BY <1>3, <1>4, <1>5

\* StatusOnly: a call that only sets a status moves one entry of the vault's
\* books.
LEMMA StatusOnly ==
  ASSUME TypeOK, NEW t \in Trades, NEW status \in Status, SetStatus(t, status)
  PROVE  /\ Owed' = [Owed EXCEPT ![t] = IF status \in Live THEN trade[t].amount ELSE 0]
         /\ Phase' = [Phase EXCEPT ![t] = IF status \in Live THEN "locked"
                        ELSE IF status \in Terminal THEN "closed" ELSE "open"]
<1> DEFINE record == [trade[t] EXCEPT !.status = status]
<1>1. record.status = status /\ record.amount = trade[t].amount
  BY SMTT(30) DEF TypeOK, TradeType
<1>2. SaveTrade(t, record)
  BY DEF SetStatus
<1> HIDE DEF record
<1>3. QED
  BY <1>1, <1>2, OneTrade

\* PaidOut: a transfer out of escrow lowers its balance by at most the amount.
LEMMA PaidOut ==
  ASSUME TypeOK, NEW to, NEW amount \in Nat
  PROVE  /\ Transfer(Escrow, to, amount)[Escrow] \in Int
         /\ token[Escrow] <= Transfer(Escrow, to, amount)[Escrow] + amount
<1>1. Escrow \in Address /\ token[Escrow] \in Nat
  BY VaultTypes DEF Address
<1>2. Transfer(Escrow, to, amount)[Escrow]
        = token[Escrow] - amount + (IF Escrow = to THEN amount ELSE 0)
  BY <1>1 DEF Transfer
<1>3. QED
  BY <1>1, <1>2, SMT

\* SplitPaidOut: so does a payout, by at most what the parties get.
LEMMA SplitPaidOut ==
  ASSUME TypeOK, NEW t, NEW split, split.seller \in Nat, split.buyer \in Nat
  PROVE  /\ PaySplit(t, split)[Escrow] \in Int
         /\ token[Escrow] <= PaySplit(t, split)[Escrow] + (split.seller + split.buyer)
<1>1. Escrow \in Address /\ token[Escrow] \in Nat
  BY VaultTypes DEF Address
<1>2. PaySplit(t, split)[Escrow]
        = token[Escrow] - (split.seller + split.buyer)
          + (IF Escrow = trade[t].seller THEN split.seller ELSE 0)
          + (IF Escrow = trade[t].buyer THEN split.buyer ELSE 0)
  BY <1>1 DEF PaySplit
<1>3. QED
  BY <1>1, <1>2, SMT

-----------------------------------------------------------------------------
\* CloseStep: closing a live trade against at most its escrow is Close.
LEMMA CloseStep ==
  ASSUME TypeOK, NEW t \in Trades, trade[t].status \in Live,
         Owed' = [Owed EXCEPT ![t] = 0], Phase' = [Phase EXCEPT ![t] = "closed"],
         token'[Escrow] \in Int, accruedFees' \in Nat, accruedFees' >= accruedFees,
         token[Escrow] + accruedFees' <= token'[Escrow] + trade[t].amount + accruedFees
  PROVE  Vault!Close(t)
<1>1. Phase[t] = "locked" /\ Owed[t] = trade[t].amount
  BY DEF Phase, Owed
<1>2. QED
  BY <1>1 DEF Vault!Close, Vault!SetPhase

\* AbandonStep: closing a trade that was never funded is Abandon.
LEMMA AbandonStep ==
  ASSUME TypeOK, NEW t \in Trades, trade[t].status = "Created",
         Owed' = [Owed EXCEPT ![t] = 0], Phase' = [Phase EXCEPT ![t] = "closed"],
         token'[Escrow] = token[Escrow], accruedFees' = accruedFees
  PROVE  Vault!Abandon(t)
<1>1. Phase[t] = "open" /\ Owed[t] = 0
  BY DEF Phase, Owed, Live, Terminal
<1>2. Owed' = Owed
  BY <1>1 DEF Owed
<1>3. QED
  BY <1>1, <1>2 DEF Vault!Abandon, Vault!SetPhase

\* CancellationCloses: execute_cancellation with the whole escrow is Close.
LEMMA CancellationCloses ==
  ASSUME TypeOK, NEW t \in Trades, trade[t].status \in Live,
         token' = Transfer(Escrow, trade[t].buyer, trade[t].amount),
         SetStatus(t, "Cancelled"), accruedFees' = accruedFees
  PROVE  Vault!Close(t)
<1>1. trade[t].amount \in Nat /\ token[Escrow] \in Nat /\ accruedFees \in Nat
  BY VaultTypes
<1>2. token'[Escrow] \in Int /\ token[Escrow] <= token'[Escrow] + trade[t].amount
  BY <1>1, PaidOut
<1>3. /\ accruedFees' \in Nat /\ accruedFees' >= accruedFees
      /\ token[Escrow] + accruedFees' <= token'[Escrow] + trade[t].amount + accruedFees
  <2>1. PICK h, i, a, f \in Int : /\ h = token[Escrow] /\ i = token'[Escrow]
                                  /\ a = trade[t].amount /\ f = accruedFees
    BY <1>1, <1>2, NatIsInt
  <2>2. h <= i + a
    BY <1>2, <2>1
  <2>3. h + f <= i + a + f /\ f >= f
    BY <2>2, SMT
  <2>4. QED
    BY <1>1, <2>1, <2>3
<1>4. Owed' = [Owed EXCEPT ![t] = 0] /\ Phase' = [Phase EXCEPT ![t] = "closed"]
  BY StatusOnly, SMT DEF Status, Live, Terminal
<1>5. QED
  BY <1>1, <1>2, <1>3, <1>4, CloseStep

\* SettlementCloses: paying a split that conserves the escrow is Close.
LEMMA SettlementCloses ==
  ASSUME TypeOK, NEW t \in Trades, trade[t].status \in Live,
         NEW split, split.seller \in Int, split.buyer \in Int, split.fee \in Int,
         Conserves(split, trade[t].amount),
         token' = PaySplit(t, split), accruedFees' = accruedFees + split.fee,
         SetStatus(t, "Completed")
  PROVE  Vault!Close(t)
<1>1. trade[t].amount \in Nat /\ token[Escrow] \in Nat /\ accruedFees \in Nat
  BY VaultTypes
<1>2. split.seller \in Nat /\ split.buyer \in Nat /\ split.fee \in Nat
  BY SMT DEF Conserves
<1>3. token'[Escrow] \in Int /\ token[Escrow] <= token'[Escrow] + (split.seller + split.buyer)
  BY <1>2, SplitPaidOut
<1>4. /\ accruedFees' \in Nat /\ accruedFees' >= accruedFees
      /\ token[Escrow] + accruedFees' <= token'[Escrow] + trade[t].amount + accruedFees
  <2>1. PICK h, i, f, s, b, e \in Int :
           /\ h = token[Escrow] /\ i = token'[Escrow] /\ f = accruedFees
           /\ s = split.seller /\ b = split.buyer /\ e = split.fee
    BY <1>1, <1>3, NatIsInt
  <2>2. h <= i + (s + b) /\ e >= 0 /\ f >= 0
    BY <1>1, <1>2, <1>3, <2>1, SMT
  <2>3. h + (f + e) <= i + (s + b + e) + f /\ f + e >= f /\ f + e \in Nat
    BY <2>2, SMT
  <2>4. accruedFees' = f + e /\ trade[t].amount = s + b + e
    BY <2>1 DEF Conserves
  <2>5. QED
    BY <2>1, <2>3, <2>4
<1>5. Owed' = [Owed EXCEPT ![t] = 0] /\ Phase' = [Phase EXCEPT ![t] = "closed"]
  BY StatusOnly, SMT DEF Status, Live, Terminal
<1>6. QED
  BY <1>1, <1>3, <1>4, <1>5, CloseStep

-----------------------------------------------------------------------------
\* Bystander: a call that saves no trade and moves no cNGN is not seen.
LEMMA Bystander ==
  ASSUME CustodyInv, UNCHANGED <<trade, metrics, pathPaymentIntent, token, accruedFees>>
  PROVE  CustodyStep
BY DEF CustodyInv, CustodyStep, VaultUnseen, Fresh, NoPaths, Owed, Phase

\* Kept: saving an existing trade keeps the ids fresh.
LEMMA Kept ==
  ASSUME CustodyInv, NEW t \in Trades, trade[t].status # "None", NEW record,
         SaveTrade(t, record), metrics'.trades = metrics.trades,
         UNCHANGED pathPaymentIntent
  PROVE  Fresh' /\ NoPaths'
<1>1. NoPaths'
  BY DEF CustodyInv, NoPaths
<1>2. ASSUME NEW u \in Trades, u > metrics'.trades
      PROVE  trade'[u].status = "None"
  <2>1. u > metrics.trades
    BY <1>2
  <2>2. trade[u].status = "None" /\ u # t
    BY <2>1 DEF CustodyInv, Fresh
  <2>3. trade'[u] = trade[u]
    BY <2>2 DEF SaveTrade, CustodyInv, TypeOK
  <2>4. QED
    BY <2>2, <2>3
<1>3. QED
  BY <1>1, <1>2 DEF Fresh

\* StaysLive: moving a trade among the live statuses is not seen.
LEMMA StaysLive ==
  ASSUME CustodyInv, NEW t \in Trades, trade[t].status \in Live, NEW status \in Live,
         SetStatus(t, status), metrics'.trades = metrics.trades,
         UNCHANGED <<pathPaymentIntent, token, accruedFees>>
  PROVE  CustodyStep
<1>1. TypeOK
  BY DEF CustodyInv
<1>2. Fresh' /\ NoPaths'
  BY Kept DEF SetStatus, Live
<1>3. /\ Owed' = [Owed EXCEPT ![t] = trade[t].amount]
      /\ Phase' = [Phase EXCEPT ![t] = "locked"]
  BY <1>1, StatusOnly DEF Status
<1>4. Owed[t] = trade[t].amount /\ Phase[t] = "locked"
  BY DEF Owed, Phase
<1>5. Owed' = Owed /\ Phase' = Phase
  BY <1>3, <1>4 DEF Owed, Phase
<1>6. QED
  BY <1>2, <1>5 DEF CustodyStep, VaultUnseen

\* GovernanceCustody: the admin's calls are not seen, but for withdrawn fees.
LEMMA GovernanceCustody == CustodyInv /\ GovernanceNext => CustodyStep
<1> SUFFICES ASSUME CustodyInv, GovernanceNext
             PROVE  CustodyStep
  OBVIOUS
<1>1. ASSUME NEW new, Configure(new)
      PROVE  CustodyStep
  BY <1>1, Bystander DEF Configure, tradeVars, cashVars, pendingVars
<1>2. ASSUME NEW a \in WithdrawAmounts, NEW d \in Destinations, WithdrawFees(a, d)
      PROVE  CustodyStep
  <2>0. TypeOK
    BY DEF CustodyInv
  <2>1. a \in Nat /\ token[Escrow] \in Nat /\ accruedFees \in Nat /\ a <= accruedFees
    <3>1. a \in Int /\ a > 0 /\ a <= accruedFees
      BY <1>2, InputTypes DEF WithdrawFees
    <3>2. a \in Nat
      BY <3>1, SMT
    <3>3. QED
      BY <2>0, <3>1, <3>2, VaultTypes
  <2>2. token' = Transfer(Escrow, d, a) /\ accruedFees' = accruedFees - a
    BY <1>2 DEF WithdrawFees
  <2>3. token'[Escrow] \in Int /\ token[Escrow] <= token'[Escrow] + a
    BY <2>0, <2>1, <2>2, PaidOut
  <2>4. /\ accruedFees' \in Nat /\ accruedFees' <= accruedFees
        /\ token[Escrow] + accruedFees' <= token'[Escrow] + accruedFees
    <3>1. PICK h, i, f \in Int : h = token[Escrow] /\ i = token'[Escrow] /\ f = accruedFees
      BY <2>1, <2>3, SMT
    <3>2. h <= i + a /\ a <= f /\ f - a \in Nat
      BY <2>1, <2>3, <3>1, SMT
    <3>3. h + (f - a) <= i + f /\ f - a <= f
      BY <2>1, <3>2, SMT
    <3>4. QED
      BY <2>2, <3>1, <3>2, <3>3
  <2>5. Owed' = Owed /\ Phase' = Phase /\ Fresh' /\ NoPaths'
    BY <1>2 DEF WithdrawFees, tradeVars, pendingVars, Owed, Phase, CustodyInv, Fresh, NoPaths
  <2>6. Vault!Withdraw
    BY <2>3, <2>4, <2>5 DEF Vault!Withdraw
  <2>7. QED
    BY <2>5, <2>6 DEF CustodyStep, Vault!Next
<1>3. QED
  BY <1>1, <1>2 DEF GovernanceNext, Initialize, UpdateFeeBps, SetMediator, AddMediator,
    RemoveMediator, AddGuardian, RemoveGuardian, Pause, Unpause, AllowAsset, DisallowAsset,
    SetExtensionPolicy, SetQuorumConfig, SetMediatorWeight, AdminConfigures

\* CreateCustody: a new trade holds nothing.
LEMMA CreateCustody ==
  ASSUME CustodyInv, NEW b, NEW s, NEW a, NEW l, NEW e, NEW k, CreateTrade(b, s, a, k, l, e)
  PROVE  CustodyStep
<1> DEFINE t == metrics.trades + 1
           record == [status |-> "Created", amount |-> a, buyer |-> b, seller |-> s,
                      sellerLossBps |-> l, expiresAt |-> e]
<1>0. TypeOK /\ metrics.trades \in Nat
  <2>1. TypeOK /\ MetricsOK
    BY TypeByGroup DEF CustodyInv
  <2>2. QED
    BY <2>1, ConstantTypes, SMT DEF MetricsOK
<1>1. /\ t \in Trades /\ SaveTrade(t, record) /\ metrics' = [metrics EXCEPT !.trades = t]
      /\ UNCHANGED <<pathPaymentIntent, token, accruedFees>>
  BY DEF CreateTrade, pendingVars, cashVars
<1>2. trade[t].status = "None"
  <2>1. t > metrics.trades
    BY <1>0, SMT
  <2>2. QED
    BY <1>1, <2>1 DEF CustodyInv, Fresh
<1>3. record.status = "Created"
  OBVIOUS
<1>4. t > metrics.trades /\ t \in Int
  BY <1>0, SMT
<1>5. metrics'.trades = t
  BY <1>0, <1>1 DEF TypeOK
<1> HIDE DEF t, record
<1>6. Owed' = [Owed EXCEPT ![t] = 0] /\ Phase' = [Phase EXCEPT ![t] = "open"]
  BY <1>0, <1>1, <1>3, OneTrade DEF Live, Terminal
<1>7. Owed[t] = 0 /\ Phase[t] = "open"
  BY <1>1, <1>2 DEF Owed, Phase, Live, Terminal
<1>8. Owed' = Owed /\ Phase' = Phase
  BY <1>6, <1>7 DEF Owed, Phase
<1>9. NoPaths'
  BY <1>1 DEF CustodyInv, NoPaths
<1>10. Fresh'
  <2>1. ASSUME NEW u \in Trades, u > metrics'.trades
        PROVE  trade'[u].status = "None"
    <3>1. u > metrics.trades /\ u # t
      BY <1>0, <1>4, <1>5, <2>1, SMT DEF Trades
    <3>2. trade'[u] = trade[u]
      BY <1>0, <1>1, <3>1 DEF SaveTrade, TypeOK
    <3>3. QED
      BY <3>1, <3>2 DEF CustodyInv, Fresh
  <2>2. QED
    BY <2>1 DEF Fresh
<1>11. QED
  BY <1>1, <1>8, <1>9, <1>10 DEF CustodyStep, VaultUnseen

\* Closing: a step that closes trade t in the vault is a step of the vault.
LEMMA Closing ==
  ASSUME CustodyInv, NEW t \in Trades, trade[t].status # "None", NEW status,
         SetStatus(t, status), metrics'.trades = metrics.trades, UNCHANGED pathPaymentIntent,
         Vault!Close(t) \/ Vault!Abandon(t)
  PROVE  CustodyStep
<1>1. Fresh' /\ NoPaths'
  BY Kept DEF SetStatus
<1>2. Vault!Next
  BY DEF Vault!Next, Trades
<1>3. QED
  BY <1>1, <1>2 DEF CustodyStep

\* DepositCustody: a deposit locks the trade's amount.  The contract is never
\* the buyer, so the transfer really brings it in.
LEMMA DepositCustody ==
  ASSUME CustodyInv, NEW t \in Trades, Deposit(t)
  PROVE  CustodyStep
<1>0. TypeOK /\ trade[t].status = "Created" /\ TakeDeposit(t)
  BY DEF CustodyInv, Deposit
<1>1. Fresh' /\ NoPaths'
  BY <1>0, Kept DEF TakeDeposit, SetStatus, pendingVars
<1>2. trade[t].amount \in Nat /\ token[Escrow] \in Nat
  BY <1>0, VaultTypes
<1>3. Escrow \in Address /\ trade[t].buyer # Escrow
  <2>1. trade[t].buyer \in Buyers \cup {None}
    BY <1>0 DEF TypeOK, TradeType
  <2>2. Escrow \in Address
    BY DEF Address
  <2>3. QED
    BY <2>1, <2>2, EscrowSignsNothing, NoneIsNothingElse
<1>4. token'[Escrow] = token[Escrow] + trade[t].amount
  BY <1>0, <1>2, <1>3, SMTT(30) DEF TakeDeposit, Transfer
<1>5. /\ Owed' = [Owed EXCEPT ![t] = trade[t].amount]
      /\ Phase' = [Phase EXCEPT ![t] = "locked"]
  BY <1>0, StatusOnly DEF TakeDeposit, Status, Live
<1>6. Phase[t] = "open"
  BY <1>0 DEF Phase, Live, Terminal
<1>7. Owed'[t] = trade[t].amount
  BY <1>5 DEF Owed
<1>8. Vault!Lock(t)
  BY <1>0, <1>2, <1>4, <1>5, <1>6, <1>7 DEF Vault!Lock, Vault!SetPhase, TakeDeposit
<1>9. QED
  BY <1>1, <1>8 DEF CustodyStep, Vault!Next, Trades

\* CancellingCustody: cancelling abandons an unfunded trade, and closes a
\* funded one against its whole escrow; so do the two refunds.
LEMMA CancellingCustody ==
  ASSUME CustodyInv, NEW t \in Trades
  PROVE  /\ \A c \in Address : CancelTrade(t, c) => CustodyStep
         /\ CancelByBuyer(t) => CustodyStep
         /\ Refund(t) => CustodyStep
         /\ ClaimExpiryRefund(t) => CustodyStep
<1>0. TypeOK
  BY DEF CustodyInv
<1>1. ASSUME trade[t].status \in Live, SetStatus(t, "Cancelled"),
             token' = Transfer(Escrow, trade[t].buyer, trade[t].amount),
             UNCHANGED <<accruedFees, metrics, pathPaymentIntent>>
      PROVE  CustodyStep
  <2>1. Vault!Close(t)
    BY <1>0, <1>1, CancellationCloses
  <2>2. QED
    BY <1>1, <2>1, Closing DEF Live
<1>2. ASSUME trade[t].status = "Created", SetStatus(t, "Cancelled"),
             token'[Escrow] = token[Escrow],
             UNCHANGED <<accruedFees, metrics, pathPaymentIntent>>
      PROVE  CustodyStep
  <2>1. Owed' = [Owed EXCEPT ![t] = 0] /\ Phase' = [Phase EXCEPT ![t] = "closed"]
    BY <1>0, <1>2, StatusOnly, SMT DEF Status, Live, Terminal
  <2>2. Vault!Abandon(t)
    BY <1>0, <1>2, <2>1, AbandonStep
  <2>3. QED
    BY <1>2, <2>2, Closing
<1>3. ASSUME NEW c \in Address, CancelTrade(t, c)
      PROVE  CustodyStep
  <2>1. UNCHANGED <<accruedFees, metrics, pathPaymentIntent>>
    BY <1>3 DEF CancelTrade
  <2>2. CASE trade[t].status = "Created" /\ ExecuteCancellation(t, 0)
    <3>1. token' = Transfer(Escrow, trade[t].buyer, 0)
      BY <2>2 DEF ExecuteCancellation
    <3>2. token'[Escrow] = token[Escrow]
      BY <1>0, <3>1, VaultTypes, SMTT(30) DEF Transfer, Address
    <3>3. QED
      BY <1>2, <2>1, <2>2, <3>2 DEF ExecuteCancellation
  <2>3. CASE trade[t].status = "Funded" /\ ExecuteCancellation(t, trade[t].amount)
    BY <1>1, <2>1, <2>3 DEF ExecuteCancellation, Live
  <2>4. CASE RequestCancel(t, c)
    BY <2>1, <2>4, Bystander DEF RequestCancel, tradeVars
  <2>5. QED
    BY <1>3, <2>2, <2>3, <2>4 DEF CancelTrade
<1>4. ASSUME CancelByBuyer(t)
      PROVE  CustodyStep
  BY <1>2, <1>4 DEF CancelByBuyer, CloseUnpaid, cashVars, pendingVars
<1>5. ASSUME Refund(t)
      PROVE  CustodyStep
  BY <1>1, <1>5 DEF Refund, ReturnEscrow, ExecuteCancellation, pendingVars, Live
<1>6. ASSUME ClaimExpiryRefund(t)
      PROVE  CustodyStep
  BY <1>1, <1>6 DEF ClaimExpiryRefund, PayExpiryRefund, pendingVars, Live
<1>7. QED
  BY <1>3, <1>4, <1>5, <1>6

\* DeliveryCustody: a release closes the trade against seller and fee; the
\* deadline, delivery and the filings are not seen.
LEMMA DeliveryCustody ==
  ASSUME CustodyInv, NEW t \in Trades
  PROVE  /\ \A d : ExtendDeadline(t, d) => CustodyStep
         /\ ConfirmDelivery(t) => CustodyStep
         /\ ReleaseFunds(t) => CustodyStep
         /\ \A h : SubmitManifest(t, h) \/ SubmitVideoProof(t, h) => CustodyStep
<1>0. TypeOK
  BY DEF CustodyInv
<1>1. ASSUME NEW d, ExtendDeadline(t, d)
      PROVE  CustodyStep
  <2> DEFINE record == [trade[t] EXCEPT !.expiresAt = d]
  <2>1. /\ SaveTrade(t, record) /\ trade[t].status = "Funded"
        /\ UNCHANGED <<metrics, pathPaymentIntent, token, accruedFees>>
    BY <1>1 DEF ExtendDeadline, MayExtend, cashVars, pendingVars
  <2>2. record.status = trade[t].status /\ record.amount = trade[t].amount
    BY <1>0, SMTT(30) DEF TypeOK, TradeType
  <2> HIDE DEF record
  <2>3. Fresh' /\ NoPaths'
    BY <2>1, Kept
  <2>4. Owed' = [Owed EXCEPT ![t] = trade[t].amount] /\ Phase' = [Phase EXCEPT ![t] = "locked"]
    BY <1>0, <2>1, <2>2, OneTrade, SMTT(30) DEF Live
  <2>5. Owed[t] = trade[t].amount /\ Phase[t] = "locked"
    BY <2>1 DEF Owed, Phase, Live
  <2>6. Owed' = Owed /\ Phase' = Phase
    BY <2>4, <2>5 DEF Owed, Phase
  <2>7. QED
    BY <2>1, <2>3, <2>6 DEF CustodyStep, VaultUnseen
<1>2. ASSUME ConfirmDelivery(t)
      PROVE  CustodyStep
  <2>1. /\ trade[t].status \in Live /\ "Delivered" \in Live /\ SetStatus(t, "Delivered")
        /\ UNCHANGED <<metrics, pathPaymentIntent, token, accruedFees>>
    BY <1>2 DEF ConfirmDelivery, MarkDelivered, cashVars, pendingVars, Live
  <2>2. QED
    BY <2>1, StaysLive
<1>3. ASSUME ReleaseFunds(t)
      PROVE  CustodyStep
  <2> DEFINE split == ReleaseSplit(trade[t].amount, config.feeBps)
  <2>1. split.seller \in Int /\ split.buyer \in Int /\ split.fee \in Int
    BY <1>0, ReleaseSplitType, SMTT(30)
  <2>2. /\ trade[t].status \in Live /\ Conserves(split, trade[t].amount)
        /\ token' = PaySplit(t, split) /\ accruedFees' = accruedFees + split.fee
        /\ SetStatus(t, "Completed") /\ UNCHANGED <<metrics, pathPaymentIntent>>
    BY <1>3 DEF ReleaseFunds, Live, pendingVars
  <2> HIDE DEF split
  <2>3. Vault!Close(t)
    BY <1>0, <2>1, <2>2, SettlementCloses
  <2>4. QED
    BY <2>2, <2>3, Closing DEF Live
<1>4. ASSUME NEW h, SubmitManifest(t, h) \/ SubmitVideoProof(t, h)
      PROVE  CustodyStep
  BY <1>4, Bystander DEF SubmitManifest, SubmitVideoProof, cashVars, pendingVars, tradeVars
<1>5. QED
  BY <1>1, <1>2, <1>3, <1>4

\* SettleCustody: all three ways a dispute is decided close the trade against
\* seller, buyer and fee.
LEMMA SettleCustody ==
  ASSUME CustodyInv, NEW t \in Trades, NEW bps \in 0..BPS_DIVISOR, NEW how,
         SettleDispute(t, bps, how), UNCHANGED pathPaymentIntent
  PROVE  CustodyStep
<1> DEFINE split == SettleSplit(trade[t].amount, bps, trade[t].sellerLossBps, config.feeBps)
<1>0. TypeOK /\ MetricsOK
  BY TypeByGroup DEF CustodyInv
<1>1. split.seller \in Int /\ split.buyer \in Int /\ split.fee \in Int
  BY <1>0, SettleSplitType
<1>2. /\ trade[t].status \in Live /\ Conserves(split, trade[t].amount)
      /\ token' = PaySplit(t, split) /\ accruedFees' = accruedFees + split.fee
      /\ SetStatus(t, "Completed") /\ metrics' = [metrics EXCEPT !.resolved = @ + 1]
  BY DEF SettleDispute, Live
<1> HIDE DEF split
<1>3. metrics'.trades = metrics.trades
  BY <1>0, <1>2 DEF MetricsOK
<1>4. Vault!Close(t)
  BY <1>0, <1>1, <1>2, SettlementCloses
<1>5. QED
  BY <1>2, <1>3, <1>4, Closing DEF Live

\* DisputeCustody: of a dispute, only its settlement is seen.
LEMMA DisputeCustody == CustodyInv /\ DisputeNext => CustodyStep
<1> SUFFICES ASSUME CustodyInv, NEW t \in Trades,
                    \/ InitiateDispute(t)
                    \/ \E m \in Mediators, r \in Rulings :
                         ResolveDispute(t, m, r) \/ CastDisputeVote(t, m, r)
                    \/ ResolveDisputeByFallback(t)
                    \/ \E c \in Address, h \in Hashes : SubmitEvidence(t, c, h)
             PROVE  CustodyStep
  BY DEF DisputeNext
<1>0. TypeOK /\ MetricsOK /\ CaseOK
  BY TypeByGroup DEF CustodyInv
<1>1. CASE InitiateDispute(t)
  <2>1. /\ trade[t].status \in Live /\ "Disputed" \in Live /\ SetStatus(t, "Disputed")
        /\ UNCHANGED <<pathPaymentIntent, token, accruedFees>>
        /\ metrics' = [metrics EXCEPT !.disputes = @ + 1]
    BY <1>1 DEF InitiateDispute, cashVars, pendingVars, Live
  <2>2. metrics'.trades = metrics.trades
    BY <1>0, <2>1 DEF MetricsOK
  <2>3. QED
    BY <2>1, <2>2, StaysLive
<1>2. ASSUME NEW m \in Mediators, NEW r \in Rulings, ResolveDispute(t, m, r)
      PROVE  CustodyStep
  <2>1. r \in 0..BPS_DIVISOR
    BY <1>2, InputTypes, BpsRange DEF ResolveDispute
  <2>2. QED
    BY <1>2, <2>1, SettleCustody DEF ResolveDispute, pendingVars
<1>3. ASSUME NEW m \in Mediators, NEW r \in Rulings, CastDisputeVote(t, m, r)
      PROVE  CustodyStep
  <2>1. r \in 0..BPS_DIVISOR /\ UNCHANGED pathPaymentIntent
    BY <1>3, InputTypes, BpsRange DEF CastDisputeVote, pendingVars
  <2>2. CASE SettleDispute(t, r, "quorum")
    BY <2>1, <2>2, SettleCustody
  <2>3. CASE UNCHANGED <<token, accruedFees, tradeVars, metrics, published>>
    BY <2>1, <2>3, Bystander DEF tradeVars
  <2>4. QED
    BY <1>3, <2>2, <2>3 DEF CastDisputeVote
<1>4. CASE ResolveDisputeByFallback(t)
  <2> DEFINE bps == PluralityOutcome(quorumState[t].votes).bps
  <2>1. bps \in 0..BPS_DIVISOR
    <3>1. quorumState[t].votes \in Seq(VoteOf(Mediators)) /\ quorumState[t].votes # <<>>
      BY <1>0, <1>4 DEF ResolveDisputeByFallback, CaseOK, VoteOf, VoteType
    <3>2. QED
      BY <3>1, PluralityCorrect
  <2>2. SettleDispute(t, bps, "fallback") /\ UNCHANGED pathPaymentIntent
    BY <1>4 DEF ResolveDisputeByFallback, pendingVars
  <2> HIDE DEF bps
  <2>3. QED
    BY <2>1, <2>2, SettleCustody
<1>5. ASSUME NEW c, NEW h, SubmitEvidence(t, c, h)
      PROVE  CustodyStep
  BY <1>5, Bystander DEF SubmitEvidence, cashVars, tradeVars, pendingVars
<1>6. QED
  BY <1>1, <1>2, <1>3, <1>4, <1>5

\* ClawOutCustody: a clawback draws on the trade's escrow; one that takes all
\* of it closes the trade.
LEMMA ClawOutCustody ==
  ASSUME CustodyInv, NEW t \in Trades, NEW amount \in Nat, NEW d, ClawOut(t, amount, d),
         UNCHANGED <<metrics, pathPaymentIntent, accruedFees>>
  PROVE  CustodyStep
<1> DEFINE record == [trade[t] EXCEPT !.amount = @ - amount,
                        !.status = IF trade[t].amount = amount THEN "Cancelled" ELSE @]
<1>0. TypeOK
  BY DEF CustodyInv
<1>1. trade[t].amount \in Nat /\ token[Escrow] \in Nat /\ accruedFees \in Nat
  BY <1>0, VaultTypes
<1>2. /\ trade[t].status \in Live /\ amount <= trade[t].amount
      /\ token' = Transfer(Escrow, d, amount) /\ SaveTrade(t, record)
  BY DEF ClawOut, Clawable, Live
<1>3. /\ record.amount = trade[t].amount - amount
      /\ record.status = IF trade[t].amount = amount THEN "Cancelled" ELSE trade[t].status
  BY <1>0, SMTT(30) DEF TypeOK, TradeType
<1> HIDE DEF record
<1>4. Fresh' /\ NoPaths'
  BY <1>2, Kept DEF Live
<1>5. token'[Escrow] \in Int /\ token[Escrow] <= token'[Escrow] + amount
  BY <1>0, <1>2, PaidOut
<1>6. PICK h, i, x, f \in Int : /\ h = token[Escrow] /\ i = token'[Escrow]
                                /\ x = trade[t].amount /\ f = accruedFees
  BY <1>1, <1>5, SMT
<1>7. h <= i + amount /\ amount <= x
  BY <1>2, <1>5, <1>6
<1>8. CASE trade[t].amount = amount
  <2>1. Owed' = [Owed EXCEPT ![t] = 0] /\ Phase' = [Phase EXCEPT ![t] = "closed"]
    BY <1>0, <1>2, <1>3, <1>8, OneTrade DEF Live, Terminal
  <2>2. h + f <= i + x + f
    BY <1>6, <1>7, <1>8, SMT
  <2>3. /\ accruedFees' \in Nat /\ accruedFees' >= accruedFees
        /\ token[Escrow] + accruedFees' <= token'[Escrow] + trade[t].amount + accruedFees
    BY <1>1, <1>6, <2>2, SMT
  <2>4. Vault!Close(t)
    BY <1>0, <1>1, <1>2, <1>5, <2>1, <2>3, CloseStep
  <2>5. QED
    BY <1>4, <2>4 DEF CustodyStep, Vault!Next, Trades
<1>9. CASE trade[t].amount # amount
  <2>1. /\ Owed' = [Owed EXCEPT ![t] = trade[t].amount - amount]
        /\ Phase' = [Phase EXCEPT ![t] = "locked"]
    BY <1>0, <1>2, <1>3, <1>9, OneTrade
  <2>2. Phase[t] = "locked" /\ Owed[t] = trade[t].amount
    BY <1>2 DEF Phase, Owed
  <2>3. Phase' = Phase /\ Owed'[t] = trade[t].amount - amount
    BY <2>1, <2>2 DEF Phase, Owed
  <2>4. h + (x - amount) <= i + x /\ x - amount \in Nat
    BY <1>7, SMT
  <2>5. Owed'[t] \in Nat /\ token[Escrow] + Owed'[t] <= token'[Escrow] + Owed[t]
    BY <1>6, <2>2, <2>3, <2>4
  <2>6. Vault!Draw(t)
    BY <1>5, <2>1, <2>2, <2>3, <2>5 DEF Vault!Draw
  <2>7. QED
    BY <1>4, <2>6 DEF CustodyStep, Vault!Next, Trades
<1>10. QED
  BY <1>8, <1>9

\* TimelockCustody: of the timelock, only an executed clawback is seen.
LEMMA TimelockCustody == CustodyInv /\ TimelockNext => CustodyStep
<1> SUFFICES ASSUME CustodyInv, TimelockNext
             PROVE  CustodyStep
  OBVIOUS
<1>0. TypeOK /\ queue \in Seq(OpType)
  BY DEF CustodyInv, TypeOK
<1>1. ASSUME NEW b \in ClawbackFlags, SetClawbackEnabled(b)
      PROVE  CustodyStep
  BY <1>1, Bystander DEF SetClawbackEnabled, AdminConfigures, Configure, tradeVars, cashVars,
                         pendingVars
<1>2. ASSUME NEW t \in Trades, NEW a \in ClawbackAmounts, NEW d \in Destinations,
             AdminClawback(t, a, d)
      PROVE  CustodyStep
  <2>0. a \in Int /\ a > 0
    BY <1>2, InputTypes DEF AdminClawback
  <2>1. a \in Nat
    BY <2>0, SMT
  <2>2. QED
    BY <1>2, <2>1, ClawOutCustody DEF AdminClawback, pendingVars
<1>3. ASSUME NEW op, Enqueue(op)
      PROVE  CustodyStep
  BY <1>3, Bystander DEF Enqueue, cashVars, tradeVars, pendingVars
<1>4. ASSUME NEW i \in 1..Len(queue), ExecuteClawback(i)
      PROVE  CustodyStep
  <2>1. queue[i] \in OpType /\ queue[i].kind = "clawback"
    BY <1>0, <1>4, SMT DEF ExecuteClawback
  <2>2. queue[i].amount \in Nat /\ queue[i].trade \in Trades
    BY <2>1 DEF OpType, OpOf
  <2>3. QED
    BY <1>4, <2>2, ClawOutCustody DEF ExecuteClawback, pendingVars
<1>5. ASSUME NEW i \in 1..Len(queue), ExecuteUpgrade(i) \/ CancelQueuedOperation(i)
      PROVE  CustodyStep
  BY <1>5, Bystander DEF ExecuteUpgrade, CancelQueuedOperation, cashVars, tradeVars, pendingVars
<1>6. QED
  BY <1>1, <1>2, <1>3, <1>4, <1>5 DEF TimelockNext, QueueClawback, QueueUpgrade

-----------------------------------------------------------------------------
\* NextCustody: every step of the contract is a step of the vault or not seen
\* by it, if no path payment can be started.
LEMMA NextCustody ==
  ASSUME SourceAmounts = {}
  PROVE  CustodyInv /\ [Next]_vars => CustodyInv' /\ [Vault!Next]_(Vault!cvars)
<1> SUFFICES ASSUME CustodyInv, [Next]_vars
             PROVE  CustodyInv' /\ [Vault!Next]_(Vault!cvars)
  OBVIOUS
<1>1. TypeOK'
  BY NextType DEF CustodyInv
<1>2. ASSUME Tick \/ UNCHANGED vars
      PROVE  CustodyStep
  BY <1>2, Bystander DEF Tick, vars, cashVars, tradeVars, pendingVars
<1>3. ASSUME NEW a \in Arrivals, ReceiveCngn(a)
      PROVE  CustodyStep
  <2>0. token[Escrow] \in Nat /\ Escrow \in Address
    BY VaultTypes DEF CustodyInv, Address
  <2>1. a \in Nat /\ token[Escrow] \in Nat /\ Escrow \in Address
    BY <1>3, <2>0, InputTypes, SMT DEF ReceiveCngn
  <2>2. token'[Escrow] = token[Escrow] + a
    BY <1>3, <2>1, EscrowSignsNothing, SMT DEF ReceiveCngn, Transfer
  <2>3. Owed' = Owed /\ Phase' = Phase /\ Fresh' /\ NoPaths' /\ accruedFees' = accruedFees
    BY <1>3 DEF ReceiveCngn, tradeVars, pendingVars, Owed, Phase, CustodyInv, Fresh, NoPaths
  <2>4. Vault!Receive
    <3>1. token'[Escrow] \in Int /\ token'[Escrow] >= token[Escrow]
      BY <2>1, <2>2, SMT
    <3>2. QED
      BY <2>3, <3>1 DEF Vault!Receive
  <2>5. QED
    BY <2>3, <2>4 DEF CustodyStep, Vault!Next
<1>4. ASSUME LifecycleNext
      PROVE  CustodyStep
  <2>1. ASSUME NEW t \in Trades, FinalizePathPayment(t)
        PROVE  FALSE
    BY <2>1 DEF FinalizePathPayment, CustodyInv, NoPaths
  <2>2. QED
    BY <1>4, <2>1, CreateCustody, DepositCustody, CancellingCustody, DeliveryCustody
       DEF LifecycleNext
<1>5. CustodyStep
  BY <1>2, <1>3, <1>4, GovernanceCustody, DisputeCustody, TimelockCustody DEF Next
<1>6. QED
  BY <1>1, <1>5 DEF CustodyInv, CustodyStep, VaultUnseen, Vault!cvars

\* InitCustody: an uninitialised contract is an empty vault.
LEMMA InitCustody == Init => CustodyInv /\ Vault!Init
<1> SUFFICES ASSUME Init
             PROVE  CustodyInv /\ Vault!Init
  OBVIOUS
<1>1. TypeOK
  BY InitType
<1>2. \A t \in Trades : trade[t].status = "None" /\ pathPaymentIntent[t] = None
  BY DEF Init, NoTrade
<1>3. token[Escrow] = 0 /\ accruedFees = 0
  BY DEF Init, Address
<1>4. Owed = [t \in Trades |-> 0] /\ Phase = [t \in Trades |-> "open"]
  BY <1>2 DEF Owed, Phase, Live, Terminal
<1>5. QED
  BY <1>1, <1>2, <1>3, <1>4 DEF CustodyInv, Fresh, NoPaths, Vault!Init, Trades

\* ImplementsCustody: without path payments, the contract implements the
\* vault: every entrypoint locks, draws on, closes or abandons one trade,
\* withdraws fees, or moves none of the escrowed cNGN.
THEOREM ImplementsCustody ==
  ASSUME SourceAmounts = {}
  PROVE  Spec => RefinesCustody
<1>1. Init => CustodyInv /\ Vault!Init
  BY InitCustody
<1>2. CustodyInv /\ [Next]_vars => CustodyInv' /\ [Vault!Next]_(Vault!cvars)
  BY NextCustody
<1>3. QED
  BY <1>1, <1>2, PTL DEF Spec, RefinesCustody, Vault!Spec

-----------------------------------------------------------------------------
\* What a has of an amount x that goes to p.
Share(a, p, x) == IF p = a THEN x ELSE 0

\* What t brought a so far: payouts less deposits.
FlowOf(a, seller, buyer, s, b, f) == Share(a, seller, s) + Share(a, buyer, b - f)

Flow(t, a) == FlowOf(a, trade[t].seller, trade[t].buyer,
                     published[t].seller, published[t].buyer, published[t].funded)

\* DepositFlow, PayoutFlow, RefundFlow: what a deposit of x, payouts of y and z,
\* and a refund of z add to a flow.
LEMMA DepositFlow ==
  ASSUME NEW a, NEW seller, NEW buyer, NEW s \in Int, NEW b \in Int, NEW f \in Int, NEW x \in Int
  PROVE  FlowOf(a, seller, buyer, s, b, f + x)
           = FlowOf(a, seller, buyer, s, b, f) - Share(a, buyer, x)
BY SMT DEF FlowOf, Share

LEMMA PayoutFlow ==
  ASSUME NEW a, NEW seller, NEW buyer, NEW s \in Int, NEW b \in Int, NEW f \in Int,
         NEW y \in Int, NEW z \in Int
  PROVE  FlowOf(a, seller, buyer, s + y, b + z, f)
           = FlowOf(a, seller, buyer, s, b, f) + Share(a, seller, y) + Share(a, buyer, z)
BY SMT DEF FlowOf, Share

LEMMA RefundFlow ==
  ASSUME NEW a, NEW seller, NEW buyer, NEW s \in Int, NEW b \in Int, NEW f \in Int, NEW z \in Int
  PROVE  FlowOf(a, seller, buyer, s, b + z, f)
           = FlowOf(a, seller, buyer, s, b, f) + Share(a, buyer, z)
BY SMT DEF FlowOf, Share

\* ShareTypes, FlowTypes: a share and a flow are numbers; NoFlow: a trade that
\* was never funded has none.
LEMMA ShareTypes ==
  ASSUME NEW a, NEW p, NEW x \in Int
  PROVE  Share(a, p, x) \in Int
BY SMT DEF Share

LEMMA FlowIsInt ==
  ASSUME NEW a, NEW seller, NEW buyer, NEW s \in Int, NEW b \in Int, NEW f \in Int
  PROVE  FlowOf(a, seller, buyer, s, b, f) \in Int
BY SMT DEF FlowOf, Share

LEMMA FlowTypes ==
  ASSUME TypeOK, NEW t \in Trades, NEW a
  PROVE  Flow(t, a) \in Int
BY BalanceTypes, NatIsInt, FlowIsInt DEF Flow

LEMMA ZeroFlow ==
  ASSUME NEW a, NEW seller, NEW buyer
  PROVE  FlowOf(a, seller, buyer, 0, 0, 0) = 0
BY SMT DEF FlowOf, Share

LEMMA NoFlow ==
  ASSUME TypeOK, NEW t \in Trades, NEW a, Balanced(t), trade[t].status \in {"None", "Created"}
  PROVE  /\ published[t].funded = 0 /\ published[t].seller = 0 /\ published[t].buyer = 0
         /\ Flow(t, a) = 0
<1>1. published[t].funded = 0 /\ published[t].seller = 0 /\ published[t].buyer = 0
  BY DEF Balanced, Terminal
<1>2. QED
  BY <1>1, ZeroFlow DEF Flow

\* PaidTo: what a transfer does to one party's wallet.
LEMMA PaidTo ==
  ASSUME TypeOK, NEW a \in Parties, NEW from, NEW to, NEW x \in Int, token' = Transfer(from, to, x)
  PROVE  /\ token[a] \in Int
         /\ token'[a] = token[a] + Share(a, to, x) - Share(a, from, x)
<1>1. a \in Address
  BY DEF Parties, Address
<1>2. token[a] \in Int
  BY <1>1, SMTT(30) DEF TypeOK
<1>3. token'[a] = token[a] - (IF a = from THEN x ELSE 0) + (IF a = to THEN x ELSE 0)
  BY <1>1 DEF Transfer
<1>4. token'[a] = token[a] - Share(a, from, x) + Share(a, to, x)
  BY <1>3 DEF Share
<1>5. PICK o, i \in Int : o = Share(a, from, x) /\ i = Share(a, to, x)
  BY ShareTypes
<1>6. token'[a] = token[a] + i - o
  BY <1>2, <1>4, <1>5, SMT
<1>7. QED
  BY <1>2, <1>5, <1>6

\* MoveFlows: a move changes a party's wallet by what its trade's flow changes.
LEMMA MoveFlows ==
  ASSUME TypeOK, NEW t \in Trades, Balanced(t), pathPaymentIntent[t] = None,
         NEW a \in Parties, Moves(t)
  PROVE  token'[a] = token[a] + (Flow(t, a)' - Flow(t, a))
<1>0. /\ trade[t] \in TradeType /\ published[t] \in PublishedType
      /\ trade[t].amount \in Nat /\ published[t].funded \in Nat
      /\ published[t].seller \in Nat /\ published[t].buyer \in Nat
  BY BalanceTypes
<1>a. a # Escrow /\ a \in Address /\ a \notin Destinations
  BY DEF Parties, Address
<1>b. token[a] \in Int /\ Flow(t, a) \in Int
  <2>1. token \in [Address -> Nat]
    BY DEF TypeOK
  <2>2. QED
    BY <1>a, <2>1, FlowTypes, SMT
<1>d. \A x : Share(a, Escrow, x) = 0 /\ \A d \in Destinations : Share(a, d, x) = 0
  BY <1>a DEF Share
<1>c. /\ trade[t].amount \in Int /\ published[t].funded \in Int
      /\ published[t].seller \in Int /\ published[t].buyer \in Int
  BY <1>0, NatIsInt
<1>e. Flow(t, a) = FlowOf(a, trade[t].seller, trade[t].buyer, published[t].seller,
                          published[t].buyer, published[t].funded)
  BY DEF Flow
<1>1. ASSUME token' = token, Flow(t, a)' = Flow(t, a)
      PROVE  token'[a] = token[a] + (Flow(t, a)' - Flow(t, a))
  BY <1>1, <1>b, SMT
<1>2. CASE Opens(t)
  <2>1. Flow(t, a) = 0 /\ published[t].funded = 0 /\ published[t].seller = 0 /\ published[t].buyer = 0
    BY <1>2, NoFlow DEF Opens
  <2>2. published'[t] = published[t] /\ token' = token
    BY <1>2 DEF Opens, SameMoney
  <2>3. Flow(t, a)' = 0
    BY <2>1, <2>2, ZeroFlow DEF Flow
  <2>4. QED
    BY <1>1, <2>1, <2>2, <2>3
<1>3. ASSUME NEW x \in Nat, Funds(t, x)
      PROVE  token'[a] = token[a] + (Flow(t, a)' - Flow(t, a))
  <2>1. /\ trade'[t].buyer = trade[t].buyer /\ trade'[t].seller = trade[t].seller
        /\ published'[t].funded = published[t].funded + x
        /\ published'[t].seller = published[t].seller /\ published'[t].buyer = published[t].buyer
        /\ token' = Transfer(trade[t].buyer, Escrow, x)
    BY <1>0, <1>3 DEF Funds, TradeType, PublishedType
  <2>0. x \in Int
    BY NatIsInt
  <2>2. PICK z \in Int : z = Share(a, trade[t].buyer, x)
    BY <2>0, ShareTypes
  <2>3. token'[a] = token[a] + 0 - z
    <3>1. token'[a] = token[a] + Share(a, Escrow, x) - Share(a, trade[t].buyer, x)
      BY <2>0, <2>1, PaidTo, SMTT(30)
    <3>2. QED
      BY <2>2, <3>1, <1>d
  <2>4. Flow(t, a)' = Flow(t, a) - z
    <3>1. FlowOf(a, trade[t].seller, trade[t].buyer, published[t].seller, published[t].buyer,
                 published[t].funded + x)
            = FlowOf(a, trade[t].seller, trade[t].buyer, published[t].seller, published[t].buyer,
                     published[t].funded) - Share(a, trade[t].buyer, x)
      BY <1>c, <2>0, DepositFlow, SMTT(30)
    <3>2. Flow(t, a)' = FlowOf(a, trade[t].seller, trade[t].buyer, published[t].seller,
                               published[t].buyer, published[t].funded + x)
      BY <2>1 DEF Flow
    <3>3. QED
      BY <1>e, <2>2, <3>1, <3>2
  <2>5. QED
    BY <1>b, <2>3, <2>4, SMTT(30)
<1>4. ASSUME trade'[t].buyer = trade[t].buyer, trade'[t].seller = trade[t].seller,
             published'[t] = published[t]
      PROVE  Flow(t, a)' = Flow(t, a)
  BY <1>4 DEF Flow
<1>5. CASE Delivers(t) \/ Contests(t) \/ Drops(t)
  BY <1>0, <1>1, <1>4, <1>5 DEF Delivers, Contests, Drops, SameMoney, TradeType
<1>6. ASSUME NEW d \in Nat, Extends(t, d)
      PROVE  token'[a] = token[a] + (Flow(t, a)' - Flow(t, a))
  BY <1>0, <1>1, <1>4, <1>6 DEF Extends, SameMoney, TradeType
<1>7. ASSUME NEW m, NEW bps, Votes(t, m, bps)
      PROVE  token'[a] = token[a] + (Flow(t, a)' - Flow(t, a))
  BY <1>1, <1>4, <1>7 DEF Votes, SameMoney
<1>8. ASSUME NEW split \in Splits, NEW ruling, Settles(t, split, ruling)
      PROVE  token'[a] = token[a] + (Flow(t, a)' - Flow(t, a))
  <2>1. /\ trade'[t].buyer = trade[t].buyer /\ trade'[t].seller = trade[t].seller
        /\ published'[t].funded = published[t].funded
        /\ published'[t].seller = published[t].seller + split.seller
        /\ published'[t].buyer = published[t].buyer + split.buyer
        /\ split.seller \in Nat /\ split.buyer \in Nat
    BY <1>0, <1>8, SMTT(30) DEF Settles, Splits, TradeType
  <2>2. PICK s, b \in Int : /\ s = Share(a, trade[t].seller, split.seller)
                            /\ b = Share(a, trade[t].buyer, split.buyer)
    BY <2>1, NatIsInt, ShareTypes
  <2>3. token'[a] = token[a] - 0 + s + b
    BY <1>8, <1>a, <2>2 DEF Settles, PaySplit, Share
  <2>4. Flow(t, a)' = Flow(t, a) + s + b
    <3>1. FlowOf(a, trade[t].seller, trade[t].buyer, published[t].seller + split.seller,
                 published[t].buyer + split.buyer, published[t].funded)
            = FlowOf(a, trade[t].seller, trade[t].buyer, published[t].seller, published[t].buyer,
                     published[t].funded)
              + Share(a, trade[t].seller, split.seller) + Share(a, trade[t].buyer, split.buyer)
      BY <1>c, <2>1, NatIsInt, PayoutFlow, SMTT(30)
    <3>2. Flow(t, a)' = FlowOf(a, trade[t].seller, trade[t].buyer,
                               published[t].seller + split.seller,
                               published[t].buyer + split.buyer, published[t].funded)
      BY <2>1 DEF Flow
    <3>3. QED
      BY <1>e, <2>2, <3>1, <3>2
  <2>5. QED
    BY <1>b, <2>3, <2>4, SMTT(30)
<1>9. CASE Refunds(t)
  <2>1. /\ trade'[t].buyer = trade[t].buyer /\ trade'[t].seller = trade[t].seller
        /\ published'[t].funded = published[t].funded
        /\ published'[t].seller = published[t].seller
        /\ published'[t].buyer = published[t].buyer + trade[t].amount
        /\ token' = Transfer(Escrow, trade[t].buyer, trade[t].amount)
    BY <1>0, <1>9 DEF Refunds, TradeType, PublishedType
  <2>2. PICK z \in Int : z = Share(a, trade[t].buyer, trade[t].amount)
    BY <1>c, ShareTypes
  <2>3. token'[a] = token[a] + z - 0
    <3>1. token'[a] = token[a] + Share(a, trade[t].buyer, trade[t].amount)
                               - Share(a, Escrow, trade[t].amount)
      BY <1>c, <2>1, PaidTo, SMTT(30)
    <3>2. QED
      BY <2>2, <3>1, <1>d
  <2>4. Flow(t, a)' = Flow(t, a) + z
    <3>1. FlowOf(a, trade[t].seller, trade[t].buyer, published[t].seller,
                 published[t].buyer + trade[t].amount, published[t].funded)
            = FlowOf(a, trade[t].seller, trade[t].buyer, published[t].seller, published[t].buyer,
                     published[t].funded) + Share(a, trade[t].buyer, trade[t].amount)
      BY <1>c, RefundFlow, SMTT(30)
    <3>2. Flow(t, a)' = FlowOf(a, trade[t].seller, trade[t].buyer, published[t].seller,
                               published[t].buyer + trade[t].amount, published[t].funded)
      BY <2>1 DEF Flow
    <3>3. QED
      BY <1>e, <2>2, <3>1, <3>2
  <2>5. QED
    BY <1>b, <2>3, <2>4, SMTT(30)
<1>10. ASSUME NEW x \in Nat, Claws(t, x)
       PROVE  token'[a] = token[a] + (Flow(t, a)' - Flow(t, a))
  <2>1. PICK d \in Destinations : token' = Transfer(Escrow, d, x)
    BY <1>10 DEF Claws
  <2>2. token'[a] = token[a]
    <3>0. x \in Int
      BY NatIsInt
    <3>1. token'[a] = token[a] + Share(a, d, x) - Share(a, Escrow, x)
      BY <2>1, <3>0, PaidTo
    <3>2. token'[a] = token[a] + 0 - 0
      BY <1>d, <3>1
    <3>3. QED
      BY <1>b, <3>2, SMTT(30)
  <2>3. Flow(t, a)' = Flow(t, a)
    BY <1>0, <1>4, <1>10 DEF Claws, TradeType
  <2>4. QED
    BY <1>b, <2>2, <2>3, SMTT(30)
<1>11. QED
  BY <1>2, <1>3, <1>5, <1>6, <1>7, <1>8, <1>9, <1>10 DEF Moves

\* The wallet of a shows the flows of all trades.
Reconciled(a) == token[a] = Wallet + SumTo([t \in Trades |-> Flow(t, a)], MaxTrades)

\* WalletStep: every step keeps every party's wallet reconciled.
LEMMA WalletStep ==
  ASSUME BookInv, NoPaths, BookStep, TypeOK', NEW a \in Parties, Reconciled(a)
  PROVE  Reconciled(a)'
<1> DEFINE F == [t \in Trades |-> Flow(t, a)]
           G == [t \in Trades |-> Flow(t, a)']
<1>0. TypeOK /\ MaxTrades \in Nat /\ \A t \in Trades : Balanced(t)
  BY ConstantTypes DEF BookInv
<1>1. F \in [1..MaxTrades -> Int] /\ \A t \in Trades : F[t] = Flow(t, a)
  BY <1>0, FlowTypes DEF Trades
<1>2. ASSUME NEW t \in Trades, Rests(t)
      PROVE  Flow(t, a)' = Flow(t, a)
  BY <1>2 DEF Rests, SameMoney, Flow
<1>3. CASE /\ \A t \in Trades : Rests(t)
           /\ \A b \in Parties : token'[b] = token[b]
  <2>1. G = F
    BY <1>2, <1>3
  <2>2. QED
    BY <1>3, <2>1 DEF Reconciled
<1>4. ASSUME NEW t \in Trades, Moves(t), \A u \in Trades \ {t} : Rests(u)
      PROVE  Reconciled(a)'
  <2>1. token'[a] = token[a] + (Flow(t, a)' - Flow(t, a))
    BY <1>0, <1>4, MoveFlows DEF NoPaths
  <2>2. \A u \in Trades : u # t => Flow(u, a)' = Flow(u, a)
    BY <1>2, <1>4
  <2>3. PICK v \in Int : v = Flow(t, a)'
    <3>1. trade'[t] \in TradeType /\ published'[t] \in PublishedType
      BY DEF TypeOK
    <3>2. /\ published'[t].seller \in Int /\ published'[t].buyer \in Int
          /\ published'[t].funded \in Int
      BY <3>1, NatIsInt DEF PublishedType
    <3>3. Flow(t, a)' \in Int
      BY <3>2, FlowIsInt DEF Flow
    <3>4. QED
      BY <3>3
  <2>4. G = [F EXCEPT ![t] = v]
    BY <2>2, <2>3
  <2>5. PICK f \in Int : f = Flow(t, a) /\ F[t] = f
    BY <1>0, FlowTypes
  <2>6. PICK h \in Int : h = SumTo(F, MaxTrades)
    BY <1>0, <1>1, SumIsInt
  <2> HIDE DEF F, G
  <2>7. SumTo(G, MaxTrades) + f = h + v
    <3>1. t \in 1..MaxTrades
      BY DEF Trades
    <3>2. SumTo([F EXCEPT ![t] = v], MaxTrades) + F[t] = SumTo(F, MaxTrades) + v
      BY <1>0, <1>1, <3>1, SumUpdate
    <3>3. QED
      BY <2>4, <2>5, <2>6, <3>2
  <2>8. PICK g \in Int : g = SumTo(G, MaxTrades)
    <3>1. G \in [1..MaxTrades -> Int]
      BY <1>1, <2>4
    <3>2. QED
      BY <1>0, <3>1, SumIsInt
  <2>9. token[a] = Wallet + h /\ Wallet \in Int
    BY <2>6, ConstantTypes, SMTT(30) DEF Reconciled, F
  <2>10. token'[a] = (Wallet + h) + (v - f)
    BY <2>1, <2>3, <2>5, <2>9
  <2>11. token'[a] = Wallet + g
    BY <2>7, <2>8, <2>9, <2>10, SMTT(30)
  <2>12. QED
    BY <2>8, <2>11 DEF Reconciled, G
<1>5. QED
  BY <1>3, <1>4 DEF BookStep

\* WalletsAlwaysReconcile: without path payments, the balance of a buyer or
\* seller is at all times its first balance, less its deposits, plus the
\* payouts its trades published, however many trades it is in and on whichever
\* side.  (The contract and the market are parties to none.)
THEOREM WalletsAlwaysReconcile ==
  ASSUME SourceAmounts = {}, {Escrow, Market} \cap (Buyers \cup Sellers) = {}
  PROVE  Spec => []WalletsReconcile
<1> DEFINE Inv == \A a \in Parties : Reconciled(a)
<1>1. Init => Inv
  <2> SUFFICES ASSUME Init, NEW a \in Parties
               PROVE  Reconciled(a)
    OBVIOUS
  <2>1. token[a] = Wallet
    BY DEF Init, Parties, Address
  <2>2. ASSUME NEW t \in Trades
        PROVE  Flow(t, a) = 0
    <3>1. /\ published[t].seller = 0 /\ published[t].buyer = 0 /\ published[t].funded = 0
      BY DEF Init
    <3>2. QED
      BY <3>1, ZeroFlow DEF Flow
  <2>3. [t \in Trades |-> Flow(t, a)] = [t \in 1..MaxTrades |-> 0]
    BY <2>2 DEF Trades
  <2>4. SumTo([t \in Trades |-> Flow(t, a)], MaxTrades) = 0
    BY <2>3, ConstantTypes, SumZero
  <2>5. QED
    BY <2>1, <2>4, ConstantTypes, SMTT(30) DEF Reconciled
<1>2. Inv /\ BookInv /\ CustodyInv /\ [Next]_vars => Inv'
  <2>1. BookInv /\ [Next]_vars => BookStep /\ TypeOK'
    BY BookInvStep DEF BookInv
  <2>2. QED
    BY <2>1, WalletStep DEF CustodyInv
<1>3. Inv => WalletsReconcile
  BY DEF Parties, Reconciled, Flow, FlowOf, Share, WalletsReconcile
<1>4. Init => CustodyInv
  BY InitCustody
<1>5. CustodyInv /\ [Next]_vars => CustodyInv'
  BY NextCustody
<1> HIDE DEF Inv
<1>6. QED
  BY <1>1, <1>2, <1>3, <1>4, <1>5, BooksKept, PTL DEF Spec

-----------------------------------------------------------------------------
\* The theorems of the vault, read for the contract.
Ledger == INSTANCE CustodyProofs WITH
  N <- MaxTrades, held <- token[Escrow], owed <- Owed, fees <- accruedFees, phase <- Phase

\* AlwaysSolvent: without path payments, the contract's cNGN always covers the
\* escrow of every live trade and all fees not yet withdrawn.
THEOREM AlwaysSolvent ==
  ASSUME SourceAmounts = {}
  PROVE  Spec => []Solvency
<1>1. Init => CustodyInv /\ Ledger!Init
  BY InitCustody DEF Vault!Init, Ledger!Init
<1>2. CustodyInv /\ [Next]_vars => CustodyInv' /\ [Ledger!Next]_(Ledger!cvars)
  <2>1. ASSUME NEW t
        PROVE  /\ Vault!Lock(t) <=> Ledger!Lock(t)
               /\ Vault!Draw(t) <=> Ledger!Draw(t)
               /\ Vault!Close(t) <=> Ledger!Close(t)
               /\ Vault!Abandon(t) <=> Ledger!Abandon(t)
    BY DEF Vault!Lock, Ledger!Lock, Vault!Draw, Ledger!Draw, Vault!Close, Ledger!Close,
           Vault!Abandon, Ledger!Abandon, Vault!SetPhase, Ledger!SetPhase
  <2>2. Vault!Next <=> Ledger!Next
    BY <2>1 DEF Vault!Next, Ledger!Next, Vault!Receive, Ledger!Receive, Vault!Withdraw,
                Ledger!Withdraw
  <2>3. QED
    BY <2>2, NextCustody DEF Vault!cvars, Ledger!cvars
<1>3. Spec => Ledger!Spec
  BY <1>1, <1>2, PTL DEF Spec, Ledger!Spec
<1>4. Ledger!Spec => []Ledger!Backed
  BY ConstantTypes, Ledger!VaultBacked
<1>5. Ledger!Backed => Solvency
  BY DEF Ledger!Backed, Ledger!SumTo, SumTo, Solvency
<1>6. QED
  BY <1>3, <1>4, <1>5, PTL
=============================================================================
