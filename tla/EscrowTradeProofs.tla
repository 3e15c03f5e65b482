------------------------- MODULE EscrowTradeProofs -------------------------
(***************************************************************************)
(* The life of a trade: every step of the contract either leaves the books *)
(* alone or makes one of a few moves on one trade.  From the moves alone   *)
(* follow the status diagram, the conservation of each trade's money, the  *)
(* cap on its deadline, and the counters.                                  *)
(***************************************************************************)
EXTENDS EscrowTypeProofs

\* Most leaves are first-order and go to Zenon; a leaf with arithmetic, records or
\* EXCEPT in it names SMT.
USE Zenon

\* The extension, the votes and the dispute stamp of t stay.
SameCase(t) ==
  /\ extension'[t] = extension[t]
  /\ quorumState'[t] = quorumState[t]
  /\ "disputed" \in releaseSequence'[t] <=> "disputed" \in releaseSequence[t]

SameMoney(t) == published'[t] = published[t] /\ clawbackTotal'[t] = clawbackTotal[t]

\* The parties that are paid by trades alone: no fee, clawback or market account.
Parties == (Buyers \cup Sellers) \ (Destinations \cup {Admin, Escrow, Market})

\* Nothing the books say of t changes.
Rests(t) == trade'[t] = trade[t] /\ SameMoney(t) /\ SameCase(t)

\* create_trade
Opens(t) ==
  /\ trade[t].status = "None"
  /\ trade'[t].status = "Created"
  /\ t = metrics.trades + 1
  /\ metrics' = [metrics EXCEPT !.trades = t]
  /\ SameMoney(t) /\ SameCase(t) /\ UNCHANGED token

\* deposit, finalize_path_payment
Funds(t, x) ==
  /\ trade[t].status = "Created"
  /\ trade'[t] = [trade[t] EXCEPT !.status = "Funded", !.amount = x]
  /\ published'[t] = [published[t] EXCEPT !.funded = @ + x]
  /\ clawbackTotal'[t] = clawbackTotal[t]
  /\ SameCase(t) /\ UNCHANGED metrics
  /\ \/ token' = Transfer(trade[t].buyer, Escrow, x)
     \/ pathPaymentIntent[t] # None

\* extend_deadline
Extends(t, deadline) ==
  /\ MayExtend(t, deadline)
  /\ trade'[t] = [trade[t] EXCEPT !.expiresAt = deadline]
  /\ extension'[t] = [count    |-> extension[t].count + 1,
                      original |-> IF extension[t].count = 0 THEN ExtensionOrigin(t)
                                   ELSE extension[t].original]
  /\ quorumState'[t] = quorumState[t]
  /\ "disputed" \in releaseSequence'[t] <=> "disputed" \in releaseSequence[t]
  /\ SameMoney(t) /\ UNCHANGED <<metrics, token>>

\* confirm_delivery
Delivers(t) ==
  /\ trade[t].status = "Funded"
  /\ trade'[t] = [trade[t] EXCEPT !.status = "Delivered"]
  /\ SameMoney(t) /\ SameCase(t) /\ UNCHANGED <<metrics, token>>

\* initiate_dispute
Contests(t) ==
  /\ trade[t].status = "Funded"
  /\ trade'[t] = [trade[t] EXCEPT !.status = "Disputed"]
  /\ "disputed" \in releaseSequence'[t]
  /\ metrics' = [metrics EXCEPT !.disputes = @ + 1] /\ UNCHANGED token
  /\ SameMoney(t) /\ extension'[t] = extension[t] /\ quorumState'[t] = quorumState[t]

\* A vote of m for bps is added to those of t.
VoteCast(t, m, bps) ==
  /\ trade[t].status = "Disputed"
  /\ RequiresQuorum(t)
  /\ MayVote(t, m)
  /\ quorumState'[t] =
       [votes    |-> Append(quorumState[t].votes,
                            [mediator |-> m, bps |-> bps, weight |-> config.weight[m]]),
        openedAt |-> IF quorumState[t].openedAt = None THEN now ELSE quorumState[t].openedAt]

\* cast_dispute_vote, short of the quorum
Votes(t, m, bps) ==
  /\ VoteCast(t, m, bps)
  /\ ~(WeightForOutcome(quorumState'[t].votes, bps) >= config.quorum.requiredWeight)
  /\ trade'[t] = trade[t] /\ SameMoney(t) /\ extension'[t] = extension[t]
  /\ "disputed" \in releaseSequence'[t] <=> "disputed" \in releaseSequence[t]
  /\ UNCHANGED <<metrics, token>>

\* How a payout came about: a release, a mediator, a quorum or the fallback.
Decided(t, ruling) ==
  \/ trade[t].status = "Delivered" /\ ruling = None /\ quorumState'[t] = quorumState[t]
  \/ /\ trade[t].status = "Disputed" /\ quorumState'[t] = quorumState[t]
     /\ \E bps \in 0..BPS_DIVISOR : ruling = [how |-> "mediator", bps |-> bps]
  \/ \E m \in Mediators, bps \in 0..BPS_DIVISOR :
       /\ VoteCast(t, m, bps)
       /\ WeightForOutcome(quorumState'[t].votes, bps) >= config.quorum.requiredWeight
       /\ ruling = [how |-> "quorum", bps |-> bps]
  \/ /\ trade[t].status = "Disputed" /\ quorumState'[t] = quorumState[t]
     /\ quorumState[t].votes # <<>> /\ VoteWindowClosed(t)
     /\ ruling = [how |-> "fallback", bps |-> PluralityOutcome(quorumState[t].votes).bps]

\* release_funds, settle_dispute
Settles(t, split, ruling) ==
  /\ Conserves(split, trade[t].amount)
  /\ Decided(t, ruling)
  /\ trade'[t] = [trade[t] EXCEPT !.status = "Completed"]
  /\ published'[t] = [funded |-> published[t].funded,
                      seller |-> published[t].seller + split.seller,
                      buyer |-> published[t].buyer + split.buyer,
                      fee |-> published[t].fee + split.fee, ruling |-> ruling]
  /\ clawbackTotal'[t] = clawbackTotal[t]
  /\ extension'[t] = extension[t]
  /\ "disputed" \in releaseSequence'[t] <=> "disputed" \in releaseSequence[t]
  /\ metrics' = IF ruling = None THEN metrics ELSE [metrics EXCEPT !.resolved = @ + 1]
  /\ token' = PaySplit(t, split)

\* cancel_trade, refund, claim_expiry_refund
Refunds(t) ==
  /\ trade[t].status \in {"Funded", "Delivered"}
  /\ trade'[t] = [trade[t] EXCEPT !.status = "Cancelled"]
  /\ published'[t] = [published[t] EXCEPT !.buyer = @ + trade[t].amount]
  /\ clawbackTotal'[t] = clawbackTotal[t]
  /\ SameCase(t) /\ UNCHANGED metrics
  /\ token' = Transfer(Escrow, trade[t].buyer, trade[t].amount)

\* cancel_trade and cancel_by_buyer before the deposit
Drops(t) ==
  /\ trade[t].status = "Created"
  /\ trade'[t] = [trade[t] EXCEPT !.status = "Cancelled"]
  /\ SameMoney(t) /\ SameCase(t) /\ UNCHANGED <<metrics, token>>

\* admin_clawback, execute_clawback
Claws(t, x) ==
  /\ trade[t].status \in Clawable
  /\ x <= trade[t].amount
  /\ trade'[t] = [trade[t] EXCEPT !.amount = @ - x,
                    !.status = IF trade[t].amount = x THEN "Cancelled" ELSE @]
  /\ published'[t] = published[t]
  /\ clawbackTotal'[t] = clawbackTotal[t] + x
  /\ SameCase(t) /\ UNCHANGED metrics
  /\ \E d \in Destinations : token' = Transfer(Escrow, d, x)

Splits == [seller : Nat, buyer : Nat, fee : Nat]

Moves(t) ==
  \/ Opens(t)
  \/ \E x \in Nat : Funds(t, x)
  \/ \E d \in Nat : Extends(t, d)
  \/ Delivers(t)
  \/ Contests(t)
  \/ \E m \in Mediators, bps \in 0..BPS_DIVISOR : Votes(t, m, bps)
  \/ \E split \in Splits, ruling \in RulingType \cup {None} : Settles(t, split, ruling)
  \/ Refunds(t)
  \/ Drops(t)
  \/ \E x \in Nat : Claws(t, x)

\* What every step does to the books.
BookStep ==
  \/ /\ \A t \in Trades : Rests(t)
     /\ \A a \in Parties : token'[a] = token[a]
     /\ UNCHANGED metrics
  \/ \E t \in Trades : Moves(t) /\ \A u \in Trades \ {t} : Rests(u)

\* CounterTypes: the counters are numbers.
LEMMA CounterTypes ==
  ASSUME TypeOK
  PROVE  /\ metrics \in [trades : 0..MaxTrades, disputes : Nat, resolved : Nat]
         /\ metrics.trades \in Nat /\ metrics.disputes \in Nat /\ metrics.resolved \in Nat
<1>1. metrics \in [trades : 0..MaxTrades, disputes : Nat, resolved : Nat]
  BY DEF TypeOK
<1>2. MaxTrades \in Nat
  BY ConstantTypes
<1>3. QED
  BY <1>1, <1>2, SMT

\* Idle: a step that writes none of the books.
LEMMA Idle ==
  ASSUME UNCHANGED <<trade, published, clawbackTotal, extension, quorumState, metrics>>,
         \A t \in Trades : "disputed" \in releaseSequence'[t] <=> "disputed" \in releaseSequence[t],
         \A a \in Parties : token'[a] = token[a]
  PROVE  BookStep
BY DEF BookStep, Rests, SameMoney, SameCase

\* Elsewhere: a transfer between two accounts that are no party's.
LEMMA Elsewhere ==
  ASSUME TypeOK, NEW from \in Destinations \cup {Escrow, Market},
         NEW to \in Destinations \cup {Escrow, Market}, NEW x \in Int,
         token' = Transfer(from, to, x), NEW a \in Parties
  PROVE  token'[a] = token[a]
<1>1. a \in Address /\ a # from /\ a # to
  BY DEF Parties, Address
<1>2. token[a] \in Int
  BY <1>1, SMT DEF TypeOK
<1>3. QED
  BY <1>1, <1>2, SMT DEF Transfer

\* TransferNothing: a transfer of zero moves nothing.
LEMMA TransferNothing ==
  ASSUME TypeOK, NEW from, NEW to
  PROVE  Transfer(from, to, 0) = token
<1>1. token \in [Address -> Nat]
  BY DEF TypeOK
<1>2. \A a \in Address : Transfer(from, to, 0)[a] = token[a]
  BY <1>1, SMT DEF Transfer
<1>3. Transfer(from, to, 0) = [a \in Address |-> token[a]]
  BY <1>2 DEF Transfer
<1>4. QED
  BY <1>1, <1>3

\* GovernanceMoves: no setting of the contract touches a trade.
LEMMA GovernanceMoves == TypeOK /\ GovernanceNext => BookStep
<1> SUFFICES ASSUME TypeOK, GovernanceNext
             PROVE  BookStep
  OBVIOUS
<1>1. ASSUME NEW new, Configure(new)
      PROVE  BookStep
  BY <1>1, Idle DEF Configure, tradeVars, caseVars, cashVars
<1>2. ASSUME NEW x \in WithdrawAmounts, NEW d \in Destinations, WithdrawFees(x, d)
      PROVE  BookStep
  <2>1. \A a \in Parties : token'[a] = token[a]
    BY <1>2, InputTypes, Elsewhere DEF WithdrawFees
  <2>2. QED
    BY <1>2, <2>1, Idle DEF WithdrawFees, tradeVars, caseVars
<1>3. QED
  BY <1>1, <1>2 DEF GovernanceNext, Initialize, UpdateFeeBps, SetMediator, AddMediator,
    RemoveMediator, AddGuardian, RemoveGuardian, Pause, Unpause, AllowAsset, DisallowAsset,
    SetExtensionPolicy, SetQuorumConfig, SetMediatorWeight, AdminConfigures

\* CreateMoves: create_trade opens the next trade.
LEMMA CreateMoves ==
  ASSUME TypeOK, Fresh, NEW b, NEW s, NEW a, NEW k, NEW l, NEW e, CreateTrade(b, s, a, k, l, e)
  PROVE  BookStep
<1> DEFINE t == metrics.trades + 1
<1>1. metrics.trades \in Nat /\ t \in Trades /\ t > metrics.trades
  BY ConstantTypes, SMTT(30) DEF TypeOK, CreateTrade
<1>2. trade[t].status = "None"
  BY <1>1 DEF Fresh
<1>3. /\ trade' = [trade EXCEPT ![t] = [status |-> "Created", amount |-> a, buyer |-> b,
                       seller |-> s, sellerLossBps |-> l, expiresAt |-> e]]
      /\ releaseSequence' = [releaseSequence EXCEPT ![t] = @ \cup {"created"}]
      /\ metrics' = [metrics EXCEPT !.trades = t]
      /\ UNCHANGED <<published, clawbackTotal, extension, quorumState, token>>
  BY DEF CreateTrade, SaveTrade, Stamp, caseVars, cashVars
<1> HIDE DEF t
<1>4. Opens(t)
  BY <1>1, <1>2, <1>3 DEF Opens, SameMoney, SameCase, TypeOK, t
<1>5. \A u \in Trades \ {t} : Rests(u)
  BY <1>1, <1>3 DEF Rests, SameMoney, SameCase, TypeOK
<1>6. QED
  BY <1>1, <1>4, <1>5 DEF BookStep, Moves

\* DepositMoves, FinalizeMoves: the two ways a trade is funded.
LEMMA DepositMoves ==
  ASSUME TypeOK, NEW t \in Trades, Deposit(t)
  PROVE  BookStep
<1>1. /\ trade[t].status = "Created" /\ trade[t] \in TradeType /\ published[t] \in PublishedType
      /\ trade[t].amount \in Nat
  BY DEF Deposit, TypeOK, TradeType
<1>2. /\ trade' = [trade EXCEPT ![t] = [trade[t] EXCEPT !.status = "Funded"]]
      /\ published' = [published EXCEPT ![t].funded = @ + trade[t].amount]
      /\ releaseSequence' = [releaseSequence EXCEPT ![t] = @ \cup {"funded"}]
      /\ token' = Transfer(trade[t].buyer, Escrow, trade[t].amount)
      /\ UNCHANGED <<clawbackTotal, extension, quorumState, metrics>>
  BY DEF Deposit, TakeDeposit, SetStatus, SaveTrade, Stamp, caseVars
<1>3. Funds(t, trade[t].amount)
  BY <1>1, <1>2 DEF Funds, SameCase, TypeOK, TradeType
<1>4. \A u \in Trades \ {t} : Rests(u)
  BY <1>2 DEF Rests, SameMoney, SameCase, TypeOK
<1>5. QED
  BY <1>1, <1>3, <1>4 DEF BookStep, Moves

LEMMA FinalizeMoves ==
  ASSUME TypeOK, NEW t \in Trades, FinalizePathPayment(t)
  PROVE  BookStep
<1> DEFINE x == token[Escrow] - pathPaymentIntent[t].balanceBefore
<1>1. /\ trade[t].status = "Created" /\ pathPaymentIntent[t] # None
      /\ x \in Nat
  <2>1. pathPaymentIntent[t] \in [destMin : Nat, balanceBefore : Nat]
    BY DEF FinalizePathPayment, TypeOK
  <2>2. token[Escrow] \in Nat
    BY DEF TypeOK, Address
  <2>3. QED
    BY <2>1, <2>2, SMT DEF FinalizePathPayment
<1>2. /\ trade' = [trade EXCEPT ![t] = [trade[t] EXCEPT !.status = "Funded", !.amount = x]]
      /\ published' = [published EXCEPT ![t].funded = @ + x]
      /\ UNCHANGED <<releaseSequence, clawbackTotal, extension, quorumState, metrics>>
  BY DEF FinalizePathPayment, SaveTrade, caseVars
<1> HIDE DEF x
<1>3. Funds(t, x)
  BY <1>1, <1>2 DEF Funds, SameCase, TypeOK
<1>4. \A u \in Trades \ {t} : Rests(u)
  BY <1>2 DEF Rests, SameMoney, SameCase, TypeOK
<1>5. QED
  BY <1>1, <1>3, <1>4 DEF BookStep, Moves

\* CancellationMoves: execute_cancellation refunds a funded trade and drops an
\* unfunded one.
LEMMA CancellationMoves ==
  ASSUME TypeOK, NEW t \in Trades, NEW refund, ExecuteCancellation(t, refund),
         UNCHANGED <<clawbackTotal, extension, quorumState, metrics>>,
         \/ trade[t].status \in {"Funded", "Delivered"} /\ refund = trade[t].amount
         \/ trade[t].status = "Created" /\ refund = 0
  PROVE  BookStep
<1>1. trade[t] \in TradeType /\ published[t] \in PublishedType /\ trade[t].amount \in Nat
  BY DEF TypeOK, TradeType
<1>2. /\ trade' = [trade EXCEPT ![t] = [trade[t] EXCEPT !.status = "Cancelled"]]
      /\ published' = [published EXCEPT ![t].buyer = @ + refund]
      /\ releaseSequence' = [releaseSequence EXCEPT ![t] = @ \cup {"cancelled"}]
      /\ token' = Transfer(Escrow, trade[t].buyer, refund)
  BY DEF ExecuteCancellation, SetStatus, SaveTrade, Stamp
<1>3. \A u \in Trades \ {t} : Rests(u)
  BY <1>2 DEF Rests, SameMoney, SameCase, TypeOK
<1>4. CASE trade[t].status \in {"Funded", "Delivered"} /\ refund = trade[t].amount
  <2>1. Refunds(t)
    BY <1>1, <1>2, <1>4 DEF Refunds, SameCase, TypeOK
  <2>2. QED
    BY <1>3, <2>1 DEF BookStep, Moves
<1>5. CASE trade[t].status = "Created" /\ refund = 0
  <2>1. token' = token
    BY <1>2, <1>5, TransferNothing
  <2>2. published'[t] = published[t]
    BY <1>1, <1>2, <1>5, SMTT(30) DEF TypeOK, PublishedType
  <2>3. Drops(t)
    BY <1>1, <1>2, <1>5, <2>1, <2>2 DEF Drops, SameMoney, SameCase, TypeOK
  <2>4. QED
    BY <1>3, <2>3 DEF BookStep, Moves
<1>6. QED
  BY <1>4, <1>5

\* CancelMoves: cancel_trade cancels, or only files a request.
LEMMA CancelMoves ==
  ASSUME TypeOK, NEW t \in Trades, NEW c, CancelTrade(t, c)
  PROVE  BookStep
<1>1. UNCHANGED <<clawbackTotal, extension, quorumState, metrics>>
  BY DEF CancelTrade, caseVars
<1>2. CASE trade[t].status = "Created" /\ ExecuteCancellation(t, 0)
  BY <1>1, <1>2, CancellationMoves
<1>3. CASE trade[t].status = "Funded" /\ ExecuteCancellation(t, trade[t].amount)
  BY <1>1, <1>3, CancellationMoves
<1>4. CASE RequestCancel(t, c)
  BY <1>1, <1>4, Idle DEF RequestCancel, tradeVars
<1>5. QED
  BY <1>2, <1>3, <1>4 DEF CancelTrade

\* BuyerCancelMoves, RefundMoves, ExpiryMoves: the other three ways to Cancelled.
LEMMA BuyerCancelMoves ==
  ASSUME TypeOK, NEW t \in Trades, CancelByBuyer(t)
  PROVE  BookStep
<1>1. /\ trade[t].status = "Created"
      /\ trade' = [trade EXCEPT ![t] = [trade[t] EXCEPT !.status = "Cancelled"]]
      /\ releaseSequence' = [releaseSequence EXCEPT ![t] = @ \cup {"cancelled"}]
      /\ UNCHANGED <<published, clawbackTotal, extension, quorumState, metrics, token>>
  BY DEF CancelByBuyer, CloseUnpaid, SetStatus, SaveTrade, Stamp, caseVars, cashVars
<1>2. Drops(t)
  BY <1>1 DEF Drops, SameMoney, SameCase, TypeOK
<1>3. \A u \in Trades \ {t} : Rests(u)
  BY <1>1 DEF Rests, SameMoney, SameCase, TypeOK
<1>4. QED
  BY <1>2, <1>3 DEF BookStep, Moves

LEMMA RefundMoves ==
  ASSUME TypeOK, NEW t \in Trades, Refund(t)
  PROVE  BookStep
BY CancellationMoves DEF Refund, ReturnEscrow, caseVars

LEMMA ExpiryMoves ==
  ASSUME TypeOK, NEW t \in Trades, ClaimExpiryRefund(t)
  PROVE  BookStep
<1>1. /\ trade[t].status = "Funded"
      /\ trade' = [trade EXCEPT ![t] = [trade[t] EXCEPT !.status = "Cancelled"]]
      /\ releaseSequence' = [releaseSequence EXCEPT ![t] = @ \cup {"expired", "cancelled"}]
      /\ published' = [published EXCEPT ![t].buyer = @ + trade[t].amount]
      /\ token' = Transfer(Escrow, trade[t].buyer, trade[t].amount)
      /\ UNCHANGED <<clawbackTotal, extension, quorumState, metrics>>
  BY DEF ClaimExpiryRefund, PayExpiryRefund, SetStatus, SaveTrade, Stamp, caseVars
<1>2. Refunds(t)
  BY <1>1 DEF Refunds, SameCase, TypeOK
<1>3. \A u \in Trades \ {t} : Rests(u)
  BY <1>1 DEF Rests, SameMoney, SameCase, TypeOK
<1>4. QED
  BY <1>2, <1>3 DEF BookStep, Moves

\* ExtendMoves: extend_deadline.
LEMMA ExtendMoves ==
  ASSUME TypeOK, NEW t \in Trades, NEW d \in Extensions,
         ExtendDeadline(t, trade[t].expiresAt + d)
  PROVE  BookStep
<1> DEFINE deadline == trade[t].expiresAt + d
<1>1. deadline \in Nat
  <2>1. trade[t].expiresAt \in Nat
    BY DEF ExtendDeadline, MayExtend, TypeOK, TradeType
  <2>2. d \in Nat
    BY ConstantTypes
  <2>3. QED
    BY <2>1, <2>2, SMT
<1>2. /\ MayExtend(t, deadline)
      /\ trade' = [trade EXCEPT ![t] = [trade[t] EXCEPT !.expiresAt = deadline]]
      /\ extension' = [extension EXCEPT ![t] =
                     [count    |-> @.count + 1,
                      original |-> IF @.count = 0 THEN ExtensionOrigin(t) ELSE @.original]]
      /\ UNCHANGED <<published, clawbackTotal, quorumState, metrics, releaseSequence, token>>
  BY DEF ExtendDeadline, SaveTrade, caseVars, cashVars
<1> HIDE DEF deadline
<1>3. Extends(t, deadline)
  BY <1>2 DEF Extends, SameMoney, TypeOK
<1>4. \A u \in Trades \ {t} : Rests(u)
  BY <1>2 DEF Rests, SameMoney, SameCase, TypeOK
<1>5. QED
  BY <1>1, <1>3, <1>4 DEF BookStep, Moves

\* DeliverMoves: confirm_delivery.
LEMMA DeliverMoves ==
  ASSUME TypeOK, NEW t \in Trades, ConfirmDelivery(t)
  PROVE  BookStep
<1>1. /\ trade[t].status = "Funded"
      /\ trade' = [trade EXCEPT ![t] = [trade[t] EXCEPT !.status = "Delivered"]]
      /\ releaseSequence' = [releaseSequence EXCEPT ![t] = @ \cup {"delivered"}]
      /\ UNCHANGED <<published, clawbackTotal, extension, quorumState, metrics, token>>
  BY DEF ConfirmDelivery, MarkDelivered, SetStatus, SaveTrade, Stamp, caseVars, cashVars
<1>2. Delivers(t)
  BY <1>1 DEF Delivers, SameMoney, SameCase, TypeOK
<1>3. \A u \in Trades \ {t} : Rests(u)
  BY <1>1 DEF Rests, SameMoney, SameCase, TypeOK
<1>4. QED
  BY <1>2, <1>3 DEF BookStep, Moves

\* PayoutMoves: what a payout writes, whoever decided it.
LEMMA PayoutMoves ==
  ASSUME TypeOK, NEW t \in Trades, NEW split, NEW ruling \in RulingType \cup {None},
         NEW step \in {"released", "resolved"},
         split = [seller |-> split.seller, buyer |-> split.buyer, fee |-> split.fee],
         split.seller \in Int, split.buyer \in Int, split.fee \in Int,
         Conserves(split, trade[t].amount), Decided(t, ruling),
         SetStatus(t, "Completed"), Stamp(t, {step}), PublishPayout(t, split, ruling),
         token' = PaySplit(t, split),
         \A u \in Trades \ {t} : quorumState'[u] = quorumState[u],
         metrics' = IF ruling = None THEN metrics ELSE [metrics EXCEPT !.resolved = @ + 1],
         UNCHANGED <<clawbackTotal, extension>>
  PROVE  BookStep
<1>1. split \in Splits
  <2>1. split.seller \in Nat /\ split.buyer \in Nat /\ split.fee \in Nat
    BY SMT DEF Conserves
  <2>2. QED
    BY <2>1 DEF Splits
<1>2. /\ trade' = [trade EXCEPT ![t] = [trade[t] EXCEPT !.status = "Completed"]]
      /\ releaseSequence' = [releaseSequence EXCEPT ![t] = @ \cup {step}]
      /\ published' = [published EXCEPT ![t] =
           [funded |-> @.funded, seller |-> @.seller + split.seller,
            buyer |-> @.buyer + split.buyer, fee |-> @.fee + split.fee, ruling |-> ruling]]
  BY DEF SetStatus, SaveTrade, Stamp, PublishPayout
<1>3. Settles(t, split, ruling)
  <2>1. "disputed" \in releaseSequence'[t] <=> "disputed" \in releaseSequence[t]
    BY <1>2 DEF TypeOK
  <2>2. QED
    BY <1>2, <2>1 DEF Settles, TypeOK
<1>4. \A u \in Trades \ {t} : Rests(u)
  BY <1>2 DEF Rests, SameMoney, SameCase, TypeOK
<1>5. QED
  BY <1>1, <1>3, <1>4 DEF BookStep, Moves

\* ReleaseMoves: release_funds.
LEMMA ReleaseMoves ==
  ASSUME TypeOK, NEW t \in Trades, ReleaseFunds(t)
  PROVE  BookStep
<1> DEFINE split == ReleaseSplit(trade[t].amount, config.feeBps)
<1>1. split.seller \in Int /\ split.buyer \in Int /\ split.fee \in Int
  BY ReleaseSplitType, SMT
<1>2. split = [seller |-> split.seller, buyer |-> split.buyer, fee |-> split.fee]
  BY DEF ReleaseSplit
<1>3. /\ Conserves(split, trade[t].amount) /\ token' = PaySplit(t, split)
      /\ PublishPayout(t, split, None)
      /\ trade[t].status = "Delivered" /\ SetStatus(t, "Completed") /\ Stamp(t, {"released"})
      /\ UNCHANGED <<metrics, extension, clawbackTotal, quorumState>>
  BY DEF ReleaseFunds, caseVars
<1>4. Decided(t, None)
  BY <1>3 DEF Decided
<1> HIDE DEF split
<1>5. QED
  BY <1>1, <1>2, <1>3, <1>4, PayoutMoves

\* DocumentMoves: a manifest, a video or a piece of evidence is none of the books.
LEMMA DocumentMoves ==
  ASSUME TypeOK, NEW t \in Trades, NEW h, NEW c,
         SubmitManifest(t, h) \/ SubmitVideoProof(t, h) \/ SubmitEvidence(t, c, h)
  PROVE  BookStep
<1>1. UNCHANGED <<trade, published, clawbackTotal, extension, quorumState, metrics, token>>
  BY DEF SubmitManifest, SubmitVideoProof, SubmitEvidence, tradeVars, cashVars
<1>2. releaseSequence' = releaseSequence
        \/ releaseSequence' = [releaseSequence EXCEPT ![t] = @ \cup {"manifest"}]
  BY DEF SubmitManifest, SubmitVideoProof, SubmitEvidence, tradeVars, Stamp
<1>3. \A u \in Trades : "disputed" \in releaseSequence'[u] <=> "disputed" \in releaseSequence[u]
  <2>1. releaseSequence \in [Trades -> SUBSET Steps]
    BY DEF TypeOK
  <2>2. CASE releaseSequence' = releaseSequence
    BY <2>2
  <2>3. CASE releaseSequence' = [releaseSequence EXCEPT ![t] = @ \cup {"manifest"}]
    BY <2>1, <2>3
  <2>4. QED
    BY <1>2, <2>2, <2>3
<1>4. QED
  BY <1>1, <1>3, Idle

\* ContestMoves: initiate_dispute.
LEMMA ContestMoves ==
  ASSUME TypeOK, NEW t \in Trades, InitiateDispute(t)
  PROVE  BookStep
<1>1. /\ trade[t].status = "Funded"
      /\ trade' = [trade EXCEPT ![t] = [trade[t] EXCEPT !.status = "Disputed"]]
      /\ releaseSequence' = [releaseSequence EXCEPT ![t] = @ \cup {"disputed"}]
      /\ metrics' = [metrics EXCEPT !.disputes = @ + 1]
      /\ UNCHANGED <<published, clawbackTotal, extension, quorumState, token>>
  BY DEF InitiateDispute, SetStatus, SaveTrade, Stamp, caseVars, cashVars
<1>2. Contests(t)
  BY <1>1 DEF Contests, SameMoney, TypeOK
<1>3. \A u \in Trades \ {t} : Rests(u)
  BY <1>1 DEF Rests, SameMoney, SameCase, TypeOK
<1>4. QED
  BY <1>2, <1>3 DEF BookStep, Moves

\* SettleMoves: settle_dispute, for each of its three callers.
LEMMA SettleMoves ==
  ASSUME TypeOK, NEW t \in Trades, NEW bps \in 0..BPS_DIVISOR,
         NEW how \in {"mediator", "quorum", "fallback"}, SettleDispute(t, bps, how),
         Decided(t, [how |-> how, bps |-> bps]),
         \A u \in Trades \ {t} : quorumState'[u] = quorumState[u],
         UNCHANGED <<clawbackTotal, extension>>
  PROVE  BookStep
<1> DEFINE split == SettleSplit(trade[t].amount, bps, trade[t].sellerLossBps, config.feeBps)
           ruling == [how |-> how, bps |-> bps]
<1>1. split.seller \in Int /\ split.buyer \in Int /\ split.fee \in Int
  BY SettleSplitType
<1>2. split = [seller |-> split.seller, buyer |-> split.buyer, fee |-> split.fee]
  BY DEF SettleSplit
<1>3. ruling \in RulingType
  BY DEF RulingType
<1>4. ruling # None
  BY <1>3, NoneIsNoRuling
<1>5. /\ Conserves(split, trade[t].amount) /\ token' = PaySplit(t, split)
      /\ PublishPayout(t, split, ruling) /\ Decided(t, ruling)
      /\ SetStatus(t, "Completed") /\ Stamp(t, {"resolved"})
      /\ metrics' = [metrics EXCEPT !.resolved = @ + 1]
  BY DEF SettleDispute
<1> HIDE DEF split, ruling
<1>6. QED
  BY <1>1, <1>2, <1>3, <1>4, <1>5, PayoutMoves

\* ResolveMoves, VoteMoves, FallbackMoves: the three ways out of a dispute.
LEMMA ResolveMoves ==
  ASSUME TypeOK, NEW t \in Trades, NEW m, NEW r \in Rulings, ResolveDispute(t, m, r)
  PROVE  BookStep
<1>1. r \in 0..BPS_DIVISOR
  BY InputTypes, BpsRange DEF ResolveDispute
<1>2. /\ SettleDispute(t, r, "mediator") /\ trade[t].status = "Disputed"
      /\ UNCHANGED <<clawbackTotal, extension, quorumState>>
  BY DEF ResolveDispute, SettleDispute, caseVars
<1>3. Decided(t, [how |-> "mediator", bps |-> r])
  BY <1>1, <1>2 DEF Decided
<1>4. QED
  BY <1>1, <1>2, <1>3, SettleMoves

LEMMA VoteMoves ==
  ASSUME TypeOK, NEW t \in Trades, NEW m \in Mediators, NEW r \in Rulings,
         CastDisputeVote(t, m, r)
  PROVE  BookStep
<1>1. r \in 0..BPS_DIVISOR
  BY InputTypes, BpsRange DEF CastDisputeVote
<1> DEFINE cast == [votes |-> Append(quorumState[t].votes,
                                     [mediator |-> m, bps |-> r, weight |-> config.weight[m]]),
                    openedAt |-> IF quorumState[t].openedAt = None THEN now
                                 ELSE quorumState[t].openedAt]
<1>2. /\ trade[t].status = "Disputed" /\ RequiresQuorum(t) /\ MayVote(t, m)
      /\ quorumState' = [quorumState EXCEPT ![t] = cast]
      /\ UNCHANGED <<clawbackTotal, extension>>
  BY DEF CastDisputeVote
<1>3. /\ quorumState'[t] = cast
      /\ \A u \in Trades \ {t} : quorumState'[u] = quorumState[u]
  BY <1>2 DEF TypeOK
<1>4. VoteCast(t, m, r)
  BY <1>2, <1>3 DEF VoteCast
<1>5. CASE WeightForOutcome(cast.votes, r) >= config.quorum.requiredWeight
  <2>1. SettleDispute(t, r, "quorum")
    BY <1>5 DEF CastDisputeVote
  <2>2. Decided(t, [how |-> "quorum", bps |-> r])
    BY <1>1, <1>3, <1>4, <1>5 DEF Decided
  <2>3. QED
    BY <1>1, <1>2, <1>3, <2>1, <2>2, SettleMoves
<1>6. CASE ~(WeightForOutcome(cast.votes, r) >= config.quorum.requiredWeight)
  <2>1. UNCHANGED <<token, trade, releaseSequence, metrics, published>>
    BY <1>6 DEF CastDisputeVote, tradeVars
  <2>2. Votes(t, m, r)
    BY <1>2, <1>3, <1>4, <1>6, <2>1 DEF Votes, SameMoney
  <2>3. \A u \in Trades \ {t} : Rests(u)
    BY <1>2, <1>3, <2>1 DEF Rests, SameMoney, SameCase
  <2>4. QED
    BY <1>1, <2>2, <2>3 DEF BookStep, Moves
<1>7. QED
  BY <1>5, <1>6

LEMMA FallbackMoves ==
  ASSUME TypeOK, NEW t \in Trades, ResolveDisputeByFallback(t)
  PROVE  BookStep
<1> DEFINE r == PluralityOutcome(quorumState[t].votes).bps
<1>1. /\ SettleDispute(t, r, "fallback") /\ trade[t].status = "Disputed"
      /\ quorumState[t].votes # <<>> /\ VoteWindowClosed(t)
      /\ UNCHANGED <<clawbackTotal, extension, quorumState>>
  BY DEF ResolveDisputeByFallback, caseVars
<1>2. r \in 0..BPS_DIVISOR
  <2>1. quorumState[t].votes \in Seq(VoteOf(Mediators))
    BY DEF TypeOK, VoteType, VoteOf
  <2>2. QED
    BY <1>1, <2>1, PluralityCorrect
<1>3. Decided(t, [how |-> "fallback", bps |-> r])
  BY <1>1 DEF Decided
<1> HIDE DEF r
<1>4. QED
  BY <1>1, <1>2, <1>3, SettleMoves

\* ClawMoves: the two clawbacks.
LEMMA ClawMoves ==
  ASSUME TypeOK, NEW t \in Trades, NEW x \in Int, x > 0, NEW d \in Destinations,
         ClawOut(t, x, d), NEW steps \in {{}, {"cancelled"}},
         releaseSequence' = [releaseSequence EXCEPT ![t] = @ \cup steps],
         UNCHANGED <<published, extension, quorumState, metrics>>
  PROVE  BookStep
<1>1. /\ trade[t].status \in Clawable /\ x <= trade[t].amount
      /\ trade' = [trade EXCEPT ![t] = [trade[t] EXCEPT !.amount = @ - x,
                     !.status = IF trade[t].amount = x THEN "Cancelled" ELSE @]]
      /\ clawbackTotal' = [clawbackTotal EXCEPT ![t] = @ + x]
      /\ token' = Transfer(Escrow, d, x)
  BY DEF ClawOut, SaveTrade
<1>2. \A u \in Trades : "disputed" \in releaseSequence'[u] <=> "disputed" \in releaseSequence[u]
  <2>1. releaseSequence \in [Trades -> SUBSET Steps] /\ "disputed" \notin steps
    BY DEF TypeOK
  <2>2. QED
    BY <2>1
<1>3. Claws(t, x)
  BY <1>1, <1>2 DEF Claws, SameCase, TypeOK
<1>4. \A u \in Trades \ {t} : Rests(u)
  BY <1>1, <1>2 DEF Rests, SameMoney, SameCase, TypeOK
<1>5. x \in Nat
  BY SMT
<1>6. QED
  BY <1>3, <1>4, <1>5 DEF BookStep, Moves

\* TimelockMoves: of the admin's operations only a clawback touches a trade.
LEMMA TimelockMoves == TypeOK /\ TimelockNext => BookStep
<1> SUFFICES ASSUME TypeOK, TimelockNext
             PROVE  BookStep
  OBVIOUS
<1>1. ASSUME NEW b, SetClawbackEnabled(b)
      PROVE  BookStep
  BY <1>1, Idle DEF SetClawbackEnabled, AdminConfigures, Configure, tradeVars, caseVars, cashVars
<1>2. ASSUME NEW t \in Trades, NEW x \in ClawbackAmounts, NEW d \in Destinations,
             AdminClawback(t, x, d)
      PROVE  BookStep
  <2>1. /\ x \in Int /\ x > 0 /\ ClawOut(t, x, d)
        /\ UNCHANGED <<published, extension, quorumState, metrics>>
    BY <1>2, InputTypes DEF AdminClawback, caseVars
  <2>2. PICK steps \in {{}, {"cancelled"}} :
          releaseSequence' = [releaseSequence EXCEPT ![t] = @ \cup steps]
    <3>1. releaseSequence \in [Trades -> SUBSET Steps]
      BY DEF TypeOK
    <3>2. CASE Stamp(t, {"cancelled"})
      BY <3>2 DEF Stamp
    <3>3. CASE UNCHANGED releaseSequence
      <4>1. releaseSequence' = [releaseSequence EXCEPT ![t] = @ \cup {}]
        BY <3>1, <3>3
      <4>2. QED
        BY <4>1
    <3>4. QED
      BY <1>2, <3>2, <3>3 DEF AdminClawback
  <2>3. QED
    BY <2>1, <2>2, ClawMoves
<1>3. ASSUME NEW op, Enqueue(op)
      PROVE  BookStep
  BY <1>3, Idle DEF Enqueue, tradeVars, caseVars, cashVars
<1>4. ASSUME NEW i \in 1..Len(queue), ExecuteClawback(i)
      PROVE  BookStep
  <2> DEFINE op == queue[i]
  <2>1. op \in OpOf("clawback", Trades, Destinations, {None})
    BY <1>4, SMTT(30) DEF TypeOK, ExecuteClawback, OpType, OpOf
  <2>2. op.trade \in Trades /\ op.destination \in Destinations /\ op.amount \in Int
    BY <2>1, SMT DEF OpOf
  <2>3. /\ op.amount > 0 /\ ClawOut(op.trade, op.amount, op.destination)
        /\ UNCHANGED <<published, extension, quorumState, metrics, releaseSequence>>
    BY <1>4 DEF ExecuteClawback, caseVars
  <2> HIDE DEF op
  <2>4. releaseSequence' = [releaseSequence EXCEPT ![op.trade] = @ \cup {}]
    BY <2>2, <2>3 DEF TypeOK
  <2>5. QED
    BY <2>2, <2>3, <2>4, ClawMoves
<1>5. ASSUME NEW i, ExecuteUpgrade(i) \/ CancelQueuedOperation(i)
      PROVE  BookStep
  BY <1>5, Idle DEF ExecuteUpgrade, CancelQueuedOperation, tradeVars, caseVars, cashVars
<1>6. QED
  BY <1>1, <1>2, <1>3, <1>4, <1>5 DEF TimelockNext, QueueClawback, QueueUpgrade

\* BookMoves: every step of the contract is a move on one trade, or none at all.
LEMMA BookMoves == TypeOK /\ Fresh /\ [Next]_vars => BookStep
<1> SUFFICES ASSUME TypeOK, Fresh, [Next]_vars
             PROVE  BookStep
  OBVIOUS
<1>1. CASE UNCHANGED vars
  BY <1>1, Idle DEF vars, tradeVars, caseVars, cashVars
<1>2. CASE Tick
  BY <1>2, Idle DEF Tick, tradeVars, caseVars, cashVars
<1>3. ASSUME NEW x \in Arrivals, ReceiveCngn(x)
      PROVE  BookStep
  <2>1. \A a \in Parties : token'[a] = token[a]
    BY <1>3, InputTypes, Elsewhere DEF ReceiveCngn
  <2>2. QED
    BY <1>3, <2>1, Idle DEF ReceiveCngn, tradeVars, caseVars
<1>4. CASE GovernanceNext
  BY <1>4, GovernanceMoves
<1>5. CASE LifecycleNext
  <2>1. ASSUME NEW t \in Trades, NEW x, NEW d, DepositWithPath(t, x, d)
        PROVE  BookStep
    BY <2>1, Idle DEF DepositWithPath, tradeVars, caseVars
  <2>2. QED
    BY <1>5, <2>1, CreateMoves, DepositMoves, FinalizeMoves, CancelMoves, BuyerCancelMoves,
       RefundMoves, ExpiryMoves, ExtendMoves, DeliverMoves, ReleaseMoves, DocumentMoves
       DEF LifecycleNext
<1>6. CASE DisputeNext
  BY <1>6, ContestMoves, ResolveMoves, VoteMoves, FallbackMoves, DocumentMoves DEF DisputeNext
<1>7. CASE TimelockNext
  BY <1>7, TimelockMoves
<1>8. QED
  BY <1>1, <1>2, <1>3, <1>4, <1>5, <1>6, <1>7 DEF Next

-----------------------------------------------------------------------------
\* The books of t balance, and nothing is paid on it before its time.
Balanced(t) ==
  /\ published[t].funded = Owed[t] + clawbackTotal[t]
       + published[t].seller + published[t].buyer + published[t].fee
  /\ trade[t].status \in {"None", "Created"} => published[t].funded = 0
  /\ trade[t].status # "Completed" =>
       published[t].seller = 0 /\ published[t].fee = 0 /\ published[t].ruling = None
  /\ trade[t].status \notin Terminal => published[t].buyer = 0

\* BalanceTypes: the figures of a trade are numbers.
LEMMA BalanceTypes ==
  ASSUME TypeOK, NEW t \in Trades
  PROVE  /\ trade[t] \in TradeType /\ published[t] \in PublishedType
         /\ trade[t].amount \in Nat /\ clawbackTotal[t] \in Nat
         /\ published[t].funded \in Nat /\ published[t].seller \in Nat
         /\ published[t].buyer \in Nat /\ published[t].fee \in Nat
         /\ Owed[t] = IF trade[t].status \in Live THEN trade[t].amount ELSE 0
         /\ Owed'[t] = IF trade'[t].status \in Live THEN trade'[t].amount ELSE 0
BY DEF TypeOK, TradeType, PublishedType, Owed

\* RestKeepsBalance, MoveKeepsBalance: every move keeps the books of its trade
\* balanced, as does no move.
LEMMA RestKeepsBalance ==
  ASSUME TypeOK, NEW t \in Trades, Balanced(t), Rests(t)
  PROVE  Balanced(t)'
BY BalanceTypes DEF Balanced, Rests, SameMoney

LEMMA MoveKeepsBalance ==
  ASSUME TypeOK, NEW t \in Trades, Balanced(t), Moves(t)
  PROVE  Balanced(t)'
<1>0. /\ trade[t] \in TradeType /\ published[t] \in PublishedType
      /\ trade[t].amount \in Nat /\ clawbackTotal[t] \in Nat
      /\ published[t].funded \in Nat /\ published[t].seller \in Nat
      /\ published[t].buyer \in Nat /\ published[t].fee \in Nat
  BY BalanceTypes
<1>w. /\ Owed[t] = IF trade[t].status \in Live THEN trade[t].amount ELSE 0
      /\ Owed'[t] = IF trade'[t].status \in Live THEN trade'[t].amount ELSE 0
  BY BalanceTypes
<1>1. CASE Opens(t) \/ Drops(t)
  BY <1>0, <1>w, <1>1 DEF Opens, Drops, SameMoney, Balanced, Live, Terminal, TradeType
<1>2. ASSUME NEW x \in Nat, Funds(t, x)
      PROVE  Balanced(t)'
  BY <1>0, <1>w, <1>2, SMTT(30) DEF Funds, Balanced, Live, Terminal, TradeType, PublishedType
<1>3. ASSUME NEW d \in Nat, Extends(t, d)
      PROVE  Balanced(t)'
  BY <1>0, <1>w, <1>3, SMTT(30) DEF Extends, SameMoney, Balanced, TradeType
<1>4. CASE Delivers(t) \/ Contests(t)
  BY <1>0, <1>w, <1>4, SMTT(30) DEF Delivers, Contests, SameMoney, Balanced, Live, Terminal, TradeType
<1>5. ASSUME NEW m, NEW bps, Votes(t, m, bps)
      PROVE  Balanced(t)'
  BY <1>0, <1>w, <1>5 DEF Votes, SameMoney, Balanced
<1>6. ASSUME NEW split \in Splits, NEW ruling, Settles(t, split, ruling)
      PROVE  Balanced(t)'
  <2>1. trade[t].status \in {"Delivered", "Disputed"}
    BY <1>6 DEF Settles, Decided, VoteCast
  <2>2. trade'[t].status = "Completed"
    BY <1>0, <1>6 DEF Settles, TradeType
  <2>3. /\ published'[t].funded = published[t].funded
        /\ published'[t].seller = published[t].seller + split.seller
        /\ published'[t].buyer = published[t].buyer + split.buyer
        /\ published'[t].fee = published[t].fee + split.fee
        /\ clawbackTotal'[t] = clawbackTotal[t]
        /\ split.seller + split.buyer + split.fee = trade[t].amount
        /\ split.seller \in Nat /\ split.buyer \in Nat /\ split.fee \in Nat
    BY <1>6, SMTT(30) DEF Settles, Conserves, Splits
  <2>4. /\ Owed[t] = trade[t].amount /\ Owed'[t] = 0
        /\ trade'[t].status \notin {"None", "Created"} /\ trade'[t].status \in Terminal
    BY <1>w, <2>1, <2>2 DEF Live, Terminal
  <2>5. published'[t].funded = Owed'[t] + clawbackTotal'[t]
          + published'[t].seller + published'[t].buyer + published'[t].fee
    <3>1. published[t].funded = Owed[t] + clawbackTotal[t]
            + published[t].seller + published[t].buyer + published[t].fee
      BY DEF Balanced
    <3>2. PICK c, s, b, e \in Int : /\ c = clawbackTotal[t] /\ s = published[t].seller
                                    /\ b = published[t].buyer /\ e = published[t].fee
      BY <1>0, SMT
    <3>3. PICK x, y, z \in Int : x = split.seller /\ y = split.buyer /\ z = split.fee
      BY <2>3, SMT
    <3>4. published'[t].funded = (x + y + z) + c + s + b + e
      BY <2>3, <2>4, <3>1, <3>2, <3>3
    <3>5. published'[t].funded = 0 + c + (s + x) + (b + y) + (e + z)
      BY <3>4, SMT
    <3>6. QED
      BY <2>3, <2>4, <3>2, <3>3, <3>5
  <2>6. QED
    BY <2>2, <2>4, <2>5 DEF Balanced
<1>7. CASE Refunds(t)
  BY <1>0, <1>w, <1>7, SMTT(30) DEF Refunds, Balanced, Live, Terminal, TradeType, PublishedType
<1>8. ASSUME NEW x \in Nat, Claws(t, x)
      PROVE  Balanced(t)'
  BY <1>0, <1>w, <1>8, SMTT(30) DEF Claws, Clawable, Balanced, Live, Terminal, TradeType
<1>9. QED
  BY <1>1, <1>2, <1>3, <1>4, <1>5, <1>6, <1>7, <1>8 DEF Moves

\* MoveFollowsDiagram: a move starts from an open trade, goes along an edge of
\* the diagram, and moves a deadline only as extend_deadline may.
LEMMA MoveFollowsDiagram ==
  ASSUME TypeOK, NEW t \in Trades, Moves(t)
  PROVE  /\ trade[t].status \notin Terminal
         /\ trade'[t].status # trade[t].status =>
              <<trade[t].status, trade'[t].status>> \in Transitions
         /\ trade[t].status # "None" => trade'[t].status # "None"
         /\ trade[t].status # "None" /\ trade'[t].expiresAt # trade[t].expiresAt =>
              /\ trade[t].status = "Funded"
              /\ now < trade[t].expiresAt
              /\ trade[t].expiresAt < trade'[t].expiresAt
<1>0. trade[t] \in TradeType
  BY BalanceTypes
<1> DEFINE Goal ==
  /\ trade[t].status \notin Terminal
  /\ trade'[t].status # trade[t].status =>
       <<trade[t].status, trade'[t].status>> \in Transitions
  /\ trade[t].status # "None" => trade'[t].status # "None"
  /\ trade[t].status # "None" /\ trade'[t].expiresAt # trade[t].expiresAt =>
       /\ trade[t].status = "Funded"
       /\ now < trade[t].expiresAt
       /\ trade[t].expiresAt < trade'[t].expiresAt
<1>1. ASSUME NEW from, NEW to, <<from, to>> \in Transitions,
             trade[t].status = from, trade'[t].status = to,
             from = "None" \/ trade'[t].expiresAt = trade[t].expiresAt
      PROVE  Goal
  BY <1>1 DEF Transitions, Terminal, Live
<1>2. CASE Opens(t)
  BY <1>2, <1>1 DEF Opens, Transitions
<1>3. ASSUME NEW x \in Nat, Funds(t, x)
      PROVE  Goal
  <2>1. /\ trade[t].status = "Created" /\ trade'[t].status = "Funded"
        /\ trade'[t].expiresAt = trade[t].expiresAt
    BY <1>0, <1>3 DEF Funds, TradeType
  <2>2. QED
    BY <2>1, <1>1 DEF Transitions
<1>4. ASSUME NEW d \in Nat, Extends(t, d)
      PROVE  Goal
  <2>1. /\ trade[t].status = "Funded" /\ trade'[t].status = "Funded"
        /\ trade'[t].expiresAt = d /\ trade[t].expiresAt # None
        /\ now < trade[t].expiresAt /\ d > trade[t].expiresAt
    BY <1>0, <1>4 DEF Extends, MayExtend, DeadlineAhead, TradeType
  <2>2. trade[t].expiresAt \in Nat
    BY <1>0, <2>1 DEF TradeType
  <2>3. QED
    BY <2>1, <2>2 DEF Terminal
<1>5. CASE Delivers(t)
  <2>1. /\ trade[t].status = "Funded" /\ trade'[t].status = "Delivered"
        /\ trade'[t].expiresAt = trade[t].expiresAt
    BY <1>0, <1>5 DEF Delivers, TradeType
  <2>2. QED
    BY <2>1, <1>1 DEF Transitions
<1>6. CASE Contests(t)
  <2>1. /\ trade[t].status = "Funded" /\ trade'[t].status = "Disputed"
        /\ trade'[t].expiresAt = trade[t].expiresAt
    BY <1>0, <1>6 DEF Contests, TradeType
  <2>2. QED
    BY <2>1, <1>1 DEF Transitions
<1>7. ASSUME NEW m, NEW bps, Votes(t, m, bps)
      PROVE  Goal
  BY <1>7 DEF Votes, VoteCast, Terminal
<1>8. ASSUME NEW split, NEW ruling, Settles(t, split, ruling)
      PROVE  Goal
  <2>1. /\ trade[t].status \in {"Delivered", "Disputed"} /\ trade'[t].status = "Completed"
        /\ trade'[t].expiresAt = trade[t].expiresAt
    BY <1>0, <1>8 DEF Settles, Decided, VoteCast, TradeType
  <2>2. QED
    BY <2>1, <1>1 DEF Transitions, Terminal
<1>9. CASE Refunds(t) \/ Drops(t)
  <2>1. /\ trade[t].status \in {"Created", "Funded", "Delivered"}
        /\ trade'[t].status = "Cancelled"
        /\ trade'[t].expiresAt = trade[t].expiresAt
    BY <1>0, <1>9 DEF Refunds, Drops, TradeType
  <2>2. QED
    BY <2>1, <1>1 DEF Transitions, Terminal
<1>10. ASSUME NEW x \in Nat, Claws(t, x)
       PROVE  Goal
  <2>1. /\ trade[t].status \in {"Funded", "Disputed"}
        /\ trade'[t].status = trade[t].status \/ trade'[t].status = "Cancelled"
        /\ trade'[t].expiresAt = trade[t].expiresAt
    BY <1>0, <1>10 DEF Claws, Clawable, TradeType
  <2>2. CASE trade'[t].status = trade[t].status
    BY <2>1, <2>2 DEF Terminal
  <2>3. CASE trade'[t].status = "Cancelled"
    BY <2>1, <2>3, <1>1 DEF Transitions, Terminal
  <2>4. QED
    BY <2>1, <2>2, <2>3
<1>11. QED
  BY <1>2, <1>3, <1>4, <1>5, <1>6, <1>7, <1>8, <1>9, <1>10 DEF Moves

\* DiagramStep: so every trade of a step follows the diagram.
LEMMA DiagramStep ==
  ASSUME TypeOK, BookStep, NEW t \in Trades
  PROVE  /\ trade'[t].status # trade[t].status =>
              <<trade[t].status, trade'[t].status>> \in Transitions
         /\ trade[t].status # "None" => trade'[t].status # "None"
         /\ trade[t].status \in Terminal => Rests(t)
         /\ trade[t].status # "None" /\ trade'[t].expiresAt # trade[t].expiresAt =>
              /\ trade[t].status = "Funded"
              /\ now < trade[t].expiresAt
              /\ trade[t].expiresAt < trade'[t].expiresAt
<1>1. CASE Rests(t)
  BY <1>1 DEF Rests
<1>2. CASE Moves(t)
  BY <1>2, MoveFollowsDiagram
<1>3. QED
  BY <1>1, <1>2 DEF BookStep

\* FreshStep: no step reuses a trade id.
LEMMA FreshStep ==
  ASSUME TypeOK, Fresh, BookStep
  PROVE  Fresh'
<1> SUFFICES ASSUME NEW u \in Trades, u > metrics'.trades
             PROVE  trade'[u].status = "None"
  BY DEF Fresh
<1>0. metrics.trades \in Nat /\ metrics \in [trades : 0..MaxTrades, disputes : Nat, resolved : Nat]
  BY CounterTypes
<1>1. CASE UNCHANGED metrics /\ Rests(u)
  BY <1>1 DEF Fresh, Rests
<1>2. ASSUME NEW t \in Trades, Moves(t), u # t => Rests(u)
      PROVE  trade'[u].status = "None"
  <2>1. CASE Opens(t)
    <3>1. metrics'.trades = t /\ t = metrics.trades + 1
      BY <1>0, <2>1 DEF Opens
    <3>2. u # t /\ u > metrics.trades
      BY <1>0, <3>1, SMT DEF Trades
    <3>3. QED
      BY <1>2, <3>2 DEF Fresh, Rests
  <2>2. CASE ~Opens(t)
    <3>1. metrics'.trades = metrics.trades
      BY <1>0, <1>2, <2>2 DEF Moves, Funds, Extends, Delivers, Contests, Votes, Settles,
                              Refunds, Drops, Claws
    <3>2. trade[t].status # "None"
      BY <1>2, <2>2 DEF Moves, Funds, Extends, MayExtend, Delivers, Contests, Votes, VoteCast,
                        Settles, Decided, Refunds, Drops, Claws, Clawable
    <3>3. u # t
      BY <3>1, <3>2 DEF Fresh
    <3>4. QED
      BY <1>2, <3>1, <3>3 DEF Fresh, Rests
  <2>3. QED
    BY <2>1, <2>2
<1>3. QED
  BY <1>1, <1>2 DEF BookStep

-----------------------------------------------------------------------------
\* What set_quorum_config accepts.
ValidQuorum(q) ==
  q.requiredWeight > 0 /\ q.voteWindow > 0 /\ q.fallbackMinWeight > 0
    /\ q.fallbackMinWeight <= q.requiredWeight

\* What holds of the settings in every reachable state.
Governed ==
  /\ config.extensionPolicy.maxExtensions <= ExtensionCeilingCount
  /\ config.extensionPolicy.maxTotalSecs <= ExtensionCeilingSecs
  /\ config.mediator \in config.registry \cup {None}
  /\ \/ config.quorum = DefaultQuorumConfig
     \/ config.quorum \in QuorumConfigs /\ ValidQuorum(config.quorum)
  /\ \A m \in Mediators : config.weight[m] > 0 /\ config.weight[m] <= MaxMediatorWeight

\* GovernedStep: every setting keeps to it, and only set_quorum_config changes
\* the quorum policy.
LEMMA GovernedStep ==
  ASSUME TypeOK, Governed, [Next]_vars
  PROVE  Governed' /\ config'.quorum \in {config.quorum} \cup QuorumConfigs
<1> DEFINE Goal == Governed' /\ config'.quorum \in {config.quorum} \cup QuorumConfigs
<1>0. config \in ConfigType
  BY DEF TypeOK
<1>1. CASE UNCHANGED config
  BY <1>1 DEF Governed
<1>2. ASSUME NEW f, Initialize(f) \/ UpdateFeeBps(f)
      PROVE  Goal
  BY <1>0, <1>2 DEF Initialize, UpdateFeeBps, AdminConfigures, Configure, Governed, ConfigType
<1>3. ASSUME NEW m \in Mediators, SetMediator(m)
      PROVE  Goal
  BY <1>0, <1>3 DEF SetMediator, AdminConfigures, Configure, Governed, ConfigType
<1>4. ASSUME NEW m \in Mediators, AddMediator(m)
      PROVE  Goal
  BY <1>0, <1>4 DEF AddMediator, AdminConfigures, Configure, Governed, ConfigType
<1>5. ASSUME NEW m \in Mediators, RemoveMediator(m)
      PROVE  Goal
  BY <1>0, <1>5 DEF RemoveMediator, AdminConfigures, Configure, Governed, ConfigType
<1>6. ASSUME NEW g, AddGuardian(g) \/ RemoveGuardian(g) \/ Pause(g) \/ Unpause(g)
      PROVE  Goal
  BY <1>0, <1>6 DEF AddGuardian, RemoveGuardian, Pause, Unpause, AdminConfigures, Configure,
                    Governed, ConfigType
<1>7. ASSUME NEW a, AllowAsset(a) \/ DisallowAsset(a)
      PROVE  Goal
  BY <1>0, <1>7 DEF AllowAsset, DisallowAsset, AdminConfigures, Configure, Governed, ConfigType
<1>8. ASSUME NEW p, SetExtensionPolicy(p)
      PROVE  Goal
  BY <1>0, <1>8 DEF SetExtensionPolicy, AdminConfigures, Configure, Governed, ConfigType
<1>9. ASSUME NEW q \in QuorumConfigs, SetQuorumConfig(q)
      PROVE  Goal
  BY <1>0, <1>9 DEF SetQuorumConfig, AdminConfigures, Configure, Governed, ConfigType, ValidQuorum
<1>10. ASSUME NEW m, NEW w, SetMediatorWeight(m, w)
       PROVE  Goal
  BY <1>0, <1>10 DEF SetMediatorWeight, AdminConfigures, Configure, Governed, ConfigType
<1>11. ASSUME NEW b, SetClawbackEnabled(b)
       PROVE  Goal
  BY <1>0, <1>11 DEF SetClawbackEnabled, AdminConfigures, Configure, Governed, ConfigType
<1>12. CASE GovernanceNext
  <2>1. ASSUME NEW x, NEW d, WithdrawFees(x, d)
        PROVE  UNCHANGED config
    BY <2>1 DEF WithdrawFees
  <2>2. LegacyMediators \subseteq Mediators
    BY ConstantTypes
  <2>3. QED
    BY <1>12, <1>1, <1>2, <1>3, <1>4, <1>5, <1>6, <1>7, <1>8, <1>9, <1>10, <2>1, <2>2
       DEF GovernanceNext
<1>13. CASE LifecycleNext
  <2>1. ASSUME NEW b, NEW x, NEW a, NEW k, NEW l, NEW e, CreateTrade(b, x, a, k, l, e)
        PROVE  UNCHANGED config
    BY <2>1 DEF CreateTrade
  <2>2. ASSUME NEW t \in Trades, NEW x, NEW d, NEW h,
               \/ Deposit(t) \/ DepositWithPath(t, x, d) \/ FinalizePathPayment(t)
               \/ CancelTrade(t, x) \/ CancelByBuyer(t) \/ Refund(t) \/ ClaimExpiryRefund(t)
               \/ ExtendDeadline(t, d) \/ ConfirmDelivery(t) \/ ReleaseFunds(t)
               \/ SubmitManifest(t, h) \/ SubmitVideoProof(t, h)
        PROVE  UNCHANGED config
    BY <2>2 DEF Deposit, TakeDeposit, DepositWithPath, FinalizePathPayment, CancelTrade,
      CancelByBuyer, CloseUnpaid, Refund, ReturnEscrow, ClaimExpiryRefund, PayExpiryRefund,
      ExtendDeadline, ConfirmDelivery, MarkDelivered, ReleaseFunds, SubmitManifest,
      SubmitVideoProof
  <2>3. QED
    BY <1>13, <1>1, <2>1, <2>2 DEF LifecycleNext
<1>14. CASE DisputeNext
  <2>1. UNCHANGED config
    <3>1. \A t : InitiateDispute(t) \/ ResolveDisputeByFallback(t) => UNCHANGED config
      BY DEF InitiateDispute, ResolveDisputeByFallback
    <3>2. \A t, m, r : ResolveDispute(t, m, r) => UNCHANGED config
      BY DEF ResolveDispute
    <3>3. \A t, m, r : CastDisputeVote(t, m, r) => UNCHANGED config
      BY DEF CastDisputeVote
    <3>4. \A t, c, h : SubmitEvidence(t, c, h) => UNCHANGED config
      BY DEF SubmitEvidence
    <3>5. QED
      BY <1>14, <3>1, <3>2, <3>3, <3>4 DEF DisputeNext
  <2>2. QED
    BY <1>1, <2>1
<1>15. CASE TimelockNext
  BY <1>15, <1>1, <1>11 DEF TimelockNext, AdminClawback, QueueClawback, QueueUpgrade, Enqueue,
    ExecuteClawback, ExecuteUpgrade, CancelQueuedOperation
<1>16. QED
  BY <1>1, <1>12, <1>13, <1>14, <1>15 DEF Next, vars, Tick, ReceiveCngn

\* The deadline of t and what extend_deadline remembers of it.
Capped(t) ==
  /\ extension[t].count = 0 => extension[t].original = None
  /\ extension[t].count > 0 =>
       /\ trade[t].status # "None"
       /\ extension[t].original # None
       /\ trade[t].expiresAt \in Nat
       /\ trade[t].expiresAt > extension[t].original
       /\ trade[t].expiresAt - extension[t].original <= ExtensionCeilingSecs
       /\ extension[t].count <= ExtensionCeilingCount

\* ExtendKeepsCap: the checks of extend_deadline keep to the cap.
LEMMA ExtendKeepsCap ==
  ASSUME TypeOK, Governed, NEW t \in Trades, NEW d \in Nat, Capped(t), Extends(t, d)
  PROVE  Capped(t)'
<1>1. /\ trade[t] \in TradeType /\ extension[t] \in [count : Nat, original : Nat \cup {None}]
      /\ config.extensionPolicy \in PolicyType
  BY DEF TypeOK, ConfigType
<1>2. /\ trade'[t].expiresAt = d /\ trade'[t].status = "Funded"
      /\ trade[t].expiresAt \in Nat /\ d > trade[t].expiresAt
      /\ extension[t].count < config.extensionPolicy.maxExtensions
      /\ d - ExtensionOrigin(t) <= config.extensionPolicy.maxTotalSecs
      /\ extension'[t].count = extension[t].count + 1
      /\ extension'[t].original = IF extension[t].count = 0 THEN ExtensionOrigin(t)
                                  ELSE extension[t].original
  BY <1>1, SMT DEF Extends, MayExtend, TradeType
<1>3. /\ config.extensionPolicy.maxExtensions \in Nat
      /\ config.extensionPolicy.maxTotalSecs \in Nat
      /\ extension[t].count \in Nat
      /\ extension[t].original \in Nat \cup {None}
  BY <1>1 DEF PolicyType
<1>4. ExtensionOrigin(t) \in Nat /\ d > ExtensionOrigin(t)
        /\ extension'[t].original = ExtensionOrigin(t)
  <2>1. CASE extension[t].count = 0
    <3>1. ExtensionOrigin(t) = trade[t].expiresAt
      BY <2>1 DEF ExtensionOrigin, Capped
    <3>2. QED
      BY <1>2, <2>1, <3>1
  <2>2. CASE extension[t].count # 0
    <3>1. extension[t].count > 0
      BY <1>3, <2>2, SMT
    <3>2. extension[t].original \in Nat /\ trade[t].expiresAt > extension[t].original
      BY <1>3, <3>1 DEF Capped
    <3>3. ExtensionOrigin(t) = extension[t].original
      BY <3>1 DEF ExtensionOrigin, Capped
    <3>4. d > extension[t].original
      BY <1>2, <3>2, SMT
    <3>5. extension'[t].original = extension[t].original
      BY <1>2, <2>2
    <3>6. QED
      BY <3>2, <3>3, <3>4, <3>5
  <2>3. QED
    BY <2>1, <2>2
<1>5. ExtensionOrigin(t) # None
  BY <1>4, NoneIsNothingElse, SMT
<1>6. extension'[t].count <= ExtensionCeilingCount /\ extension'[t].count > 0
  BY <1>2, <1>3, DefaultWithinCeiling, SMTT(30) DEF Governed
<1>7. d - ExtensionOrigin(t) <= ExtensionCeilingSecs
  BY <1>2, <1>3, <1>4, DefaultWithinCeiling, SMTT(30) DEF Governed
<1>8. extension'[t].count \in Int /\ extension'[t].count # 0
  BY <1>2, <1>3, SMTT(30)
<1>9. trade'[t].status # "None" /\ trade'[t].expiresAt \in Nat
  BY <1>2
<1>10. /\ extension'[t].original # None
       /\ trade'[t].expiresAt > extension'[t].original
       /\ trade'[t].expiresAt - extension'[t].original <= ExtensionCeilingSecs
  BY <1>2, <1>4, <1>5, <1>7
<1>11. QED
  BY <1>6, <1>8, <1>9, <1>10 DEF Capped

\* CapStep: nothing else moves a deadline.
LEMMA CapStep ==
  ASSUME TypeOK, Governed, BookStep, NEW t \in Trades, Capped(t)
  PROVE  Capped(t)'
<1>1. CASE Rests(t)
  BY <1>1 DEF Rests, SameCase, Capped
<1>2. ASSUME NEW d \in Nat, Extends(t, d)
      PROVE  Capped(t)'
  BY <1>2, ExtendKeepsCap
<1>3. CASE Opens(t)
  <2>0. extension[t].count \in Nat /\ ~(extension[t].count > 0)
    BY <1>3 DEF Opens, Capped, TypeOK
  <2>1. extension[t].count = 0
    BY <2>0, SMT
  <2>2. QED
    BY <1>3, <2>1 DEF Opens, SameCase, Capped
<1>4. CASE Moves(t) /\ ~Opens(t) /\ ~(\E d \in Nat : Extends(t, d))
  <2>1. trade[t] \in TradeType
    BY BalanceTypes
  <2>2. trade'[t].expiresAt = trade[t].expiresAt /\ extension'[t] = extension[t]
    BY <1>4, <2>1 DEF Moves, Funds, Delivers, Contests, Votes, Settles, Refunds, Drops, Claws,
                      SameCase, TradeType
  <2>3. trade[t].status # "None" => trade'[t].status # "None"
    BY DiagramStep
  <2>4. QED
    BY <2>2, <2>3 DEF Capped
<1>5. QED
  BY <1>1, <1>2, <1>3, <1>4 DEF BookStep

-----------------------------------------------------------------------------
\* The trades the counters count.
Known     == {t \in Trades : trade[t].status # "None"}
Contested == {t \in Trades : "disputed" \in releaseSequence[t]}
Ruled     == {t \in Trades : published[t].ruling # None}

\* The counters, with what tells that a trade has not been counted yet.
Counted ==
  /\ Known = 1..metrics.trades
  /\ metrics.disputes = Cardinality(Contested)
  /\ metrics.resolved = Cardinality(Ruled)
  /\ \A t \in Contested : trade[t].status \in {"Disputed"} \cup Terminal

\* CountOne: counting a trade of a set of trades once more.
LEMMA CountOne ==
  ASSUME NEW S \in SUBSET Trades, NEW t \in Trades, t \notin S
  PROVE  Cardinality(S \cup {t}) = Cardinality(S) + 1
<1>1. IsFiniteSet(Trades)
  BY ConstantTypes, FS_Interval, SMT DEF Trades
<1>2. IsFiniteSet(S)
  BY <1>1, FS_Subset
<1>3. QED
  BY <1>2, FS_AddElement

\* KnownStep: a step makes known the trade it opens, and no other.
LEMMA KnownStep ==
  ASSUME TypeOK, Fresh, BookStep, Known = 1..metrics.trades
  PROVE  Known' = 1..metrics'.trades
<1>0. /\ metrics \in [trades : 0..MaxTrades, disputes : Nat, resolved : Nat]
      /\ metrics.trades \in Nat
  BY CounterTypes
<1>1. CASE UNCHANGED metrics /\ \A t \in Trades : Rests(t)
  BY <1>1 DEF Known, Rests
<1>2. ASSUME NEW t \in Trades, Moves(t), \A u \in Trades \ {t} : Rests(u)
      PROVE  Known' = 1..metrics'.trades
  <2>1. \A u \in Trades \ {t} : trade'[u].status = trade[u].status
    BY <1>2 DEF Rests
  <2>2. CASE Opens(t)
    <3>1. metrics'.trades = t /\ t = metrics.trades + 1 /\ trade'[t].status # "None"
      BY <1>0, <2>2 DEF Opens
    <3>2. Known' = Known \cup {t}
      BY <2>1, <3>1 DEF Known
    <3>3. QED
      BY <1>0, <3>1, <3>2, SMT
  <2>3. CASE ~Opens(t)
    <3>1. metrics'.trades = metrics.trades
      BY <1>0, <1>2, <2>3 DEF Moves, Funds, Extends, Delivers, Contests, Votes, Settles,
                              Refunds, Drops, Claws
    <3>2. trade[t].status # "None"
      BY <1>2, <2>3 DEF Moves, Funds, Extends, MayExtend, Delivers, Contests, Votes, VoteCast,
                        Settles, Decided, Refunds, Drops, Claws, Clawable
    <3>3. trade'[t].status # "None"
      BY <1>2, <3>2, MoveFollowsDiagram
    <3>4. Known' = Known
      BY <2>1, <3>2, <3>3 DEF Known
    <3>5. QED
      BY <3>1, <3>4
  <2>4. QED
    BY <2>2, <2>3
<1>3. QED
  BY <1>1, <1>2 DEF BookStep

\* CountedStep: the counters stay in step with the trades.
LEMMA CountedStep ==
  ASSUME TypeOK, Fresh, BookStep, Counted, \A t \in Trades : Balanced(t)
  PROVE  Counted'
<1>0. /\ metrics \in [trades : 0..MaxTrades, disputes : Nat, resolved : Nat]
      /\ metrics.disputes \in Nat /\ metrics.resolved \in Nat
  BY CounterTypes
<1>1. Known' = 1..metrics'.trades
  BY KnownStep DEF Counted
<1>2. ASSUME NEW t \in Contested', t \in Contested \/ trade'[t].status = "Disputed"
      PROVE  trade'[t].status \in {"Disputed"} \cup Terminal
  <2>1. t \in Trades
    BY DEF Contested
  <2>2. CASE t \in Contested
    <3>1. trade[t].status \in {"Disputed"} \cup Terminal
      BY <2>2 DEF Counted
    <3>2. trade'[t].status # trade[t].status =>
            <<trade[t].status, trade'[t].status>> \in Transitions
      BY <2>1, DiagramStep
    <3>3. QED
      BY <3>1, <3>2 DEF Transitions, Terminal, Live
  <2>3. QED
    BY <1>2, <2>2
<1>3. CASE UNCHANGED metrics /\ \A t \in Trades : Rests(t)
  <2>1. Contested' = Contested /\ Ruled' = Ruled
    BY <1>3 DEF Contested, Ruled, Rests, SameMoney, SameCase
  <2>2. QED
    BY <1>1, <1>2, <1>3, <2>1 DEF Counted
<1>4. ASSUME NEW t \in Trades, Moves(t), \A u \in Trades \ {t} : Rests(u)
      PROVE  Counted'
  <2>1. \A u \in Trades \ {t} : /\ u \in Contested' <=> u \in Contested
                                /\ u \in Ruled' <=> u \in Ruled
    BY <1>4 DEF Contested, Ruled, Rests, SameMoney, SameCase
  <2>2. t \notin Ruled
    <3>1. trade[t].status # "Completed"
      BY <1>4, MoveFollowsDiagram DEF Terminal
    <3>2. QED
      BY <3>1 DEF Ruled, Balanced
  <2>3. CASE Contests(t)
    <3>1. t \in Contested' /\ t \notin Contested /\ t \notin Ruled'
      BY <2>2, <2>3 DEF Contests, SameMoney, Contested, Ruled, Counted, Terminal
    <3>2. Contested' = Contested \cup {t} /\ Ruled' = Ruled
      BY <2>1, <2>2, <3>1 DEF Contested, Ruled
    <3>3. metrics'.disputes = metrics.disputes + 1 /\ metrics'.resolved = metrics.resolved
      BY <1>0, <2>3 DEF Contests
    <3>4. Cardinality(Contested \cup {t}) = Cardinality(Contested) + 1
      BY <3>1, CountOne DEF Contested
    <3>5. trade'[t].status = "Disputed"
      BY <2>3, BalanceTypes DEF Contests, TradeType
    <3>6. \A u \in Contested' : u \in Contested \/ trade'[u].status = "Disputed"
      BY <3>2, <3>5
    <3>7. QED
      BY <1>1, <1>2, <3>2, <3>3, <3>4, <3>6 DEF Counted
  <2>4. ASSUME NEW split, NEW ruling, Settles(t, split, ruling)
        PROVE  Counted'
    <3>1. t \in Contested' <=> t \in Contested
      BY <2>4 DEF Settles, Contested
    <3>2. Contested' = Contested
      BY <2>1, <3>1 DEF Contested
    <3>3. published'[t].ruling = ruling
      BY <2>4, SMT DEF Settles
    <3>4. CASE ruling = None
      <4>1. Ruled' = Ruled /\ metrics' = metrics
        BY <2>1, <2>2, <2>4, <3>3, <3>4 DEF Ruled, Settles
      <4>2. QED
        BY <1>1, <1>2, <3>2, <4>1 DEF Counted
    <3>5. CASE ruling # None
      <4>1. Ruled' = Ruled \cup {t}
        BY <2>1, <3>3, <3>5 DEF Ruled
      <4>2. metrics'.disputes = metrics.disputes /\ metrics'.resolved = metrics.resolved + 1
        BY <1>0, <2>4, <3>5 DEF Settles
      <4>3. Cardinality(Ruled \cup {t}) = Cardinality(Ruled) + 1
        BY <2>2, CountOne DEF Ruled
      <4>4. QED
        BY <1>1, <1>2, <3>2, <4>1, <4>2, <4>3 DEF Counted
    <3>6. QED
      BY <3>4, <3>5
  <2>5. CASE ~Contests(t) /\ ~(\E split, ruling : Settles(t, split, ruling))
    <3>1. /\ published'[t].ruling = published[t].ruling
          /\ t \in Contested' <=> t \in Contested
          /\ metrics'.disputes = metrics.disputes /\ metrics'.resolved = metrics.resolved
      <4>1. published[t] \in PublishedType
        BY BalanceTypes
      <4>2. published'[t].ruling = published[t].ruling
        BY <1>4, <2>5, <4>1 DEF Moves, Opens, Funds, Extends, Delivers, Votes, Refunds, Drops,
                                Claws, SameMoney, PublishedType
      <4>3. t \in Contested' <=> t \in Contested
        BY <1>4, <2>5 DEF Moves, Opens, Funds, Extends, Delivers, Votes, Refunds, Drops,
                          Claws, SameCase, Contested
      <4>4. metrics'.disputes = metrics.disputes /\ metrics'.resolved = metrics.resolved
        BY <1>0, <1>4, <2>5 DEF Moves, Opens, Funds, Extends, Delivers, Votes, Refunds, Drops,
                                Claws
      <4>5. QED
        BY <4>2, <4>3, <4>4
    <3>2. Contested' = Contested /\ Ruled' = Ruled
      BY <2>1, <3>1 DEF Contested, Ruled
    <3>3. QED
      BY <1>1, <1>2, <3>1, <3>2 DEF Counted
  <2>6. QED
    BY <2>3, <2>4, <2>5
<1>5. QED
  BY <1>3, <1>4 DEF BookStep


-----------------------------------------------------------------------------
\* The inductive invariant of the books.
BookInv ==
  /\ TypeOK /\ Fresh /\ Governed /\ Counted
  /\ \A t \in Trades : Balanced(t) /\ Capped(t)

\* BookInit, BookInvStep: it holds at first, and every call keeps it.
LEMMA BookInit == Init => BookInv
<1> SUFFICES ASSUME Init
             PROVE  BookInv
  OBVIOUS
<1>1. TypeOK
  BY InitType
<1>2. Fresh
  BY DEF Init, Fresh, NoTrade
<1>3. Governed
  <2>1. /\ config.extensionPolicy = DefaultExtensionPolicy /\ config.mediator = None
        /\ config.quorum = DefaultQuorumConfig /\ \A m \in Mediators : config.weight[m] = 1
    BY DEF Init
  <2>2. QED
    BY <2>1, DefaultWithinCeiling, DefaultWeightAllowed, SMT DEF Governed
<1>4. Counted
  <2>1. Known = {} /\ Contested = {} /\ Ruled = {}
    BY DEF Init, NoTrade, Known, Contested, Ruled
  <2>2. metrics.trades = 0 /\ metrics.disputes = 0 /\ metrics.resolved = 0
    BY DEF Init
  <2>3. 1..0 = {}
    BY SMT
  <2>4. Cardinality({}) = 0
    BY FS_EmptySet
  <2>5. QED
    BY <2>1, <2>2, <2>3, <2>4 DEF Counted
<1>5. ASSUME NEW t \in Trades
      PROVE  Balanced(t) /\ Capped(t)
  <2>1. /\ trade[t].status = "None" /\ clawbackTotal[t] = 0
        /\ extension[t].count = 0 /\ extension[t].original = None
        /\ published[t] = [funded |-> 0, seller |-> 0, buyer |-> 0, fee |-> 0, ruling |-> None]
    BY DEF Init, NoTrade
  <2>2. Owed[t] = 0
    BY <2>1 DEF Owed, Live
  <2>3. QED
    BY <2>1, <2>2, SMTT(30) DEF Balanced, Capped
<1>6. QED
  BY <1>1, <1>2, <1>3, <1>4, <1>5 DEF BookInv

LEMMA BookInvStep == BookInv /\ [Next]_vars => BookInv' /\ BookStep
<1> SUFFICES ASSUME BookInv, [Next]_vars
             PROVE  BookInv' /\ BookStep
  OBVIOUS
<1>0. /\ TypeOK /\ Fresh /\ Governed /\ Counted
      /\ \A t \in Trades : Balanced(t) /\ Capped(t)
  BY DEF BookInv
<1>1. TypeOK'
  BY <1>0, NextType
<1>2. BookStep
  BY <1>0, BookMoves
<1>3. Fresh' /\ Governed' /\ Counted'
  BY <1>0, <1>2, FreshStep, GovernedStep, CountedStep
<1>4. ASSUME NEW t \in Trades
      PROVE  Balanced(t)'
  <2>1. Rests(t) \/ Moves(t)
    BY <1>2 DEF BookStep
  <2>2. QED
    BY <1>0, <2>1, RestKeepsBalance, MoveKeepsBalance
<1>5. ASSUME NEW t \in Trades
      PROVE  Capped(t)'
  BY <1>0, <1>2, CapStep
<1>6. QED
  BY <1>1, <1>2, <1>3, <1>4, <1>5 DEF BookInv

\* BooksKept: so it always holds.
LEMMA BooksKept == Spec => []BookInv
BY BookInit, BookInvStep, PTL DEF Spec

\* TradesConserve: for every number of trades and every input, path payments
\* included, what the funding event of a trade announced is what it holds plus
\* what left it.
THEOREM TradesConserve == Spec => []TradeConservation
<1>1. BookInv => TradeConservation
  BY DEF BookInv, Balanced, TradeConservation
<1>2. QED
  BY <1>1, BooksKept, PTL

\* RefundsWhole: a cancelled trade never paid its seller or a fee (cancel_trade,
\* refund, claim_expiry_refund and the full clawback).
THEOREM RefundsWhole == Spec => []RefundIsWhole
<1>1. BookInv => RefundIsWhole
  <2> SUFFICES ASSUME BookInv, NEW t \in Trades, trade[t].status = "Cancelled"
               PROVE  published[t].buyer + clawbackTotal[t] = published[t].funded
    BY DEF RefundIsWhole
  <2>1. TypeOK /\ Balanced(t)
    BY DEF BookInv
  <2>2. /\ Owed[t] = 0 /\ published[t].seller = 0 /\ published[t].fee = 0
        /\ published[t].buyer \in Nat /\ clawbackTotal[t] \in Nat /\ published[t].funded \in Nat
    BY <2>1, BalanceTypes DEF Balanced, Live
  <2>3. published[t].funded = Owed[t] + clawbackTotal[t]
          + published[t].seller + published[t].buyer + published[t].fee
    BY <2>1 DEF Balanced
  <2>4. PICK c, b \in Int : c = clawbackTotal[t] /\ b = published[t].buyer
    BY <2>2, SMTT(30)
  <2>5. published[t].funded = 0 + c + 0 + b + 0
    BY <2>2, <2>3, <2>4
  <2>6. QED
    BY <2>4, <2>5, SMTT(30)
<1>2. QED
  BY <1>1, BooksKept, PTL

\* DeadlinesCapped: extend_deadline never takes a deadline further from the
\* first one than the ceiling, under whatever policies are set in between.
THEOREM DeadlinesCapped == Spec => []DeadlineCap
<1>1. BookInv => DeadlineCap
  BY DEF BookInv, Capped, DeadlineCap
<1>2. QED
  BY <1>1, BooksKept, PTL

\* RevocationAlways: require_mediator and is_mediator always agree.
THEOREM RevocationAlways == Spec => []RevocationComplete
<1>1. BookInv => RevocationComplete
  <2>1. None \notin Mediators
    BY NoneIsNothingElse DEF Address
  <2>2. QED
    BY <2>1 DEF BookInv, Governed, RevocationComplete, RequireMediator, IsMediator
<1>2. QED
  BY <1>1, BooksKept, PTL

\* CountersExact: TotalTrades, TotalDisputes and TotalResolved count what the
\* contract did, whichever way each dispute ends.
THEOREM CountersExact == Spec => []MetricsMatch
<1>1. BookInv => MetricsMatch
  <2> SUFFICES ASSUME BookInv
               PROVE  MetricsMatch
    OBVIOUS
  <2>1. metrics.trades \in Nat
    BY CounterTypes DEF BookInv
  <2>2. Cardinality(1..metrics.trades) = metrics.trades
    BY <2>1, FS_Interval, SMT
  <2>3. QED
    BY <2>2 DEF BookInv, Counted, Known, Contested, Ruled, MetricsMatch
<1>2. QED
  BY <1>1, BooksKept, PTL

\* DiagramKept, ClosedForGood, DeadlinesOnlyMoveLater: the three action
\* properties of a trade's record, for every call in every order.
THEOREM DiagramKept == Spec => StatusMachine
<1>1. BookInv /\ [Next]_vars =>
        [\A t \in Trades : trade'[t].status # trade[t].status =>
           <<trade[t].status, trade'[t].status>> \in Transitions]_vars
  BY BookInvStep, DiagramStep DEF BookInv
<1>2. QED
  BY <1>1, BooksKept, PTL DEF Spec, StatusMachine

THEOREM ClosedForGood == Spec => SettledForGood
<1>1. BookInv /\ [Next]_vars =>
        [\A t \in Trades : trade[t].status \in Terminal =>
           /\ trade'[t] = trade[t]
           /\ published'[t] = published[t]
           /\ clawbackTotal'[t] = clawbackTotal[t]]_vars
  BY BookInvStep, DiagramStep DEF BookInv, Rests, SameMoney
<1>2. QED
  BY <1>1, BooksKept, PTL DEF Spec, SettledForGood

THEOREM DeadlinesOnlyMoveLater == Spec => ExpiredStaysExpired
<1>1. BookInv /\ [Next]_vars =>
        [\A t \in Trades :
           trade[t].status # "None" /\ trade'[t].expiresAt # trade[t].expiresAt =>
             /\ trade[t].status = "Funded"
             /\ now < trade[t].expiresAt
             /\ trade[t].expiresAt < trade'[t].expiresAt]_vars
  BY BookInvStep, DiagramStep DEF BookInv
<1>2. QED
  BY <1>1, BooksKept, PTL DEF Spec, ExpiredStaysExpired
=============================================================================
