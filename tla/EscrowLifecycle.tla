-------------------------- MODULE EscrowLifecycle --------------------------
(***************************************************************************)
(* The buyer's and the seller's entrypoints: creating and funding a trade, *)
(* directly or through a path payment, cancelling and refunding it,        *)
(* expiry and deadline extension, delivery, release, manifest and video.   *)
(***************************************************************************)
EXTENDS EscrowState

\* trade_id is the next value of the counter; MaxTrades bounds it here.
CreateTrade(buyer, seller, amount, buyerLossBps, sellerLossBps, expiresAt) ==
  LET t == metrics.trades + 1 IN
  /\ config.initialized
  /\ NotPaused
  /\ t \in Trades
  /\ amount > 0
  /\ amount <= MaxTradeValue
  /\ buyer # seller
  /\ buyerLossBps <= BPS_DIVISOR
  /\ sellerLossBps <= BPS_DIVISOR
  /\ buyerLossBps + sellerLossBps = BPS_DIVISOR
  /\ expiresAt # None => expiresAt > now
  /\ metrics' = [metrics EXCEPT !.trades = t]
  /\ SaveTrade(t, [status |-> "Created", amount |-> amount, buyer |-> buyer,
                   seller |-> seller, sellerLossBps |-> sellerLossBps,
                   expiresAt |-> expiresAt])
  /\ Stamp(t, {"created"})
  /\ RecordTradeEvent(t, "created")
  /\ UNCHANGED <<now, config, cashVars, pendingVars, extension, clawbackTotal,
                 caseVars, opVars, published>>

\* What deposit does once its checks pass.
TakeDeposit(t) ==
  /\ CanPay(trade[t].buyer, trade[t].amount)
  /\ token' = Transfer(trade[t].buyer, Escrow, trade[t].amount)
  /\ SetStatus(t, "Funded")
  /\ Stamp(t, {"funded"})
  /\ RecordTradeEvent(t, "funded")
  /\ published' = [published EXCEPT ![t].funded = @ + trade[t].amount]
  /\ UNCHANGED <<now, config, metrics, sourceHeld, accruedFees, pendingVars,
                 extension, clawbackTotal, caseVars, opVars>>

\* Accepts a second deposit while the trade is Funded.
DepositTwice(t) == NotPaused /\ trade[t].status \in {"Created", "Funded"} /\ TakeDeposit(t)

Deposit(t) == NotPaused /\ trade[t].status = "Created" /\ TakeDeposit(t)

\* The first half of a path payment: the source token moves in, and the
\* contract's whole cNGN balance is remembered.  The trade stays Created.
DepositWithPath(t, sourceAmount, destMin) ==
  /\ sourceAmount > 0
  /\ destMin > 0
  /\ trade[t].status = "Created"
  /\ pathPaymentIntent[t] = None
  /\ sourceHeld' = sourceHeld + sourceAmount
  /\ pathPaymentIntent' = [pathPaymentIntent EXCEPT ![t] =
                             [destMin |-> destMin, balanceBefore |-> token[Escrow]]]
  /\ UNCHANGED <<now, config, metrics, token, accruedFees, tradeVars, cancelRequest,
                 extension, clawbackTotal, caseVars, opVars, published>>

\* The second half: whatever the balance gained since is this trade's escrow.
\* Neither the release sequence nor the history is written.
FinalizePathPayment(t) ==
  LET destAmount == token[Escrow] - pathPaymentIntent[t].balanceBefore IN
  /\ pathPaymentIntent[t] # None
  /\ trade[t].status = "Created"
  /\ destAmount >= pathPaymentIntent[t].destMin
  /\ SaveTrade(t, [trade[t] EXCEPT !.status = "Funded", !.amount = destAmount])
  /\ pathPaymentIntent' = [pathPaymentIntent EXCEPT ![t] = None]
  /\ published' = [published EXCEPT ![t].funded = @ + destAmount]
  /\ UNCHANGED <<now, config, metrics, cashVars, releaseSequence, tradeHistory,
                 cancelRequest, extension, clawbackTotal, caseVars, opVars>>

-----------------------------------------------------------------------------
\* A party's first request on a Funded trade is only recorded.
RequestCancel(t, caller) ==
  /\ cancelRequest' = [cancelRequest EXCEPT ![t] = @ \cup {caller}]
  /\ UNCHANGED <<token, tradeVars, published>>

\* Created: buyer, seller or admin, no funds move.  Funded: the admin at
\* once, the parties when both have asked.  A request, once stored, stays
\* until the pair of them is used.
CancelTrade(t, caller) ==
  /\ NotPaused
  /\ trade[t].status \in {"Created", "Funded"}
  /\ caller \in Party(t) \cup {Admin}
  /\ \/ /\ trade[t].status = "Created"
        /\ ExecuteCancellation(t, 0)
        /\ UNCHANGED cancelRequest
     \/ /\ trade[t].status = "Funded"
        /\ caller = Admin
        /\ ExecuteCancellation(t, trade[t].amount)
        /\ UNCHANGED cancelRequest
     \/ /\ trade[t].status = "Funded"
        /\ caller # Admin
        /\ IF cancelRequest[t] \cup {caller} = Party(t)
           THEN /\ ExecuteCancellation(t, trade[t].amount)
                /\ cancelRequest' = [cancelRequest EXCEPT ![t] = {}]
           ELSE RequestCancel(t, caller)
  /\ UNCHANGED <<now, config, metrics, sourceHeld, accruedFees, pathPaymentIntent,
                 extension, clawbackTotal, caseVars, opVars>>

CloseUnpaid(t) ==
  /\ SetStatus(t, "Cancelled")
  /\ Stamp(t, {"cancelled"})
  /\ UNCHANGED <<now, config, metrics, cashVars, tradeHistory, pendingVars, extension,
                 clawbackTotal, caseVars, opVars, published>>

\* Lets the buyer close a funded trade this way.
CancelByBuyerFunded(t) == trade[t].status \in {"Created", "Funded"} /\ CloseUnpaid(t)

CancelByBuyer(t) == trade[t].status = "Created" /\ CloseUnpaid(t)

ReturnEscrow(t) ==
  /\ ExecuteCancellation(t, trade[t].amount)
  /\ UNCHANGED <<now, config, metrics, sourceHeld, accruedFees, pendingVars,
                 extension, clawbackTotal, caseVars, opVars>>

\* Returns the escrow of a trade that was already paid out.
RefundCompleted(t) == trade[t].status \in {"Funded", "Delivered", "Completed"} /\ ReturnEscrow(t)

\* The seller returns the whole escrow to the buyer.
Refund(t) == trade[t].status \in {"Funded", "Delivered"} /\ ReturnEscrow(t)

PayExpiryRefund(t) ==
  /\ trade[t].expiresAt # None
  /\ now >= trade[t].expiresAt
  /\ CanPay(Escrow, trade[t].amount)
  /\ token' = Transfer(Escrow, trade[t].buyer, trade[t].amount)
  /\ SetStatus(t, "Cancelled")
  /\ Stamp(t, {"expired", "cancelled"})
  /\ published' = [published EXCEPT ![t].buyer = @ + trade[t].amount]
  /\ UNCHANGED <<now, config, metrics, sourceHeld, accruedFees, tradeHistory, pendingVars,
                 extension, clawbackTotal, caseVars, opVars>>

ClaimExpiryRefund(t) == trade[t].status = "Funded" /\ PayExpiryRefund(t)

\* Measures the lifetime cap from the current deadline.
ExtensionOriginCurrent(t) == trade[t].expiresAt

\* The first deadline, once captured; before that, the current one.
ExtensionOrigin(t) ==
  IF extension[t].original = None THEN trade[t].expiresAt ELSE extension[t].original

\* Still counts a deadline that passes now as ahead.
DeadlineNotPast(t) == now <= trade[t].expiresAt

DeadlineAhead(t) == now < trade[t].expiresAt

\* The checks of extend_deadline.  new > old >= origin, so the saturating_sub
\* of the code never saturates.
MayExtend(t, newDeadline) ==
  /\ trade[t].status = "Funded"
  /\ trade[t].expiresAt # None
  /\ DeadlineAhead(t)
  /\ newDeadline > now
  /\ newDeadline > trade[t].expiresAt
  /\ extension[t].count < config.extensionPolicy.maxExtensions
  /\ newDeadline - ExtensionOrigin(t) <= config.extensionPolicy.maxTotalSecs

\* Both parties sign.
ExtendDeadline(t, newDeadline) ==
  /\ MayExtend(t, newDeadline)
  /\ extension' = [extension EXCEPT ![t] =
                     [count    |-> @.count + 1,
                      original |-> IF @.count = 0 THEN ExtensionOrigin(t) ELSE @.original]]
  /\ SaveTrade(t, [trade[t] EXCEPT !.expiresAt = newDeadline])
  /\ RecordTradeEvent(t, "deadline_extended")
  /\ UNCHANGED <<now, config, metrics, cashVars, releaseSequence, pendingVars,
                 clawbackTotal, caseVars, opVars, published>>

SaturatingSub(a, b) == IF a > b THEN a - b ELSE 0

\* The view get_extension_status, read by clients to offer an extension.
GetExtensionStatus(t) ==
  LET extendedBy == IF trade[t].expiresAt = None THEN 0
                    ELSE SaturatingSub(trade[t].expiresAt, ExtensionOrigin(t))
      count == SaturatingSub(config.extensionPolicy.maxExtensions, extension[t].count)
      secs  == SaturatingSub(config.extensionPolicy.maxTotalSecs, extendedBy)
  IN  [extensionsRemaining |-> count, secsRemaining |-> secs,
       isFinalExtension |-> count = 1, isExhausted |-> count = 0 \/ secs = 0]

-----------------------------------------------------------------------------
MarkDelivered(t) ==
  /\ SetStatus(t, "Delivered")
  /\ Stamp(t, {"delivered"})
  /\ RecordTradeEvent(t, "delivered")
  /\ UNCHANGED <<now, config, metrics, cashVars, pendingVars, extension,
                 clawbackTotal, caseVars, opVars, published>>

\* Lets the buyer confirm a delivery that is under dispute.
ConfirmDeliveryDisputed(t) == trade[t].status \in {"Funded", "Disputed"} /\ MarkDelivered(t)

ConfirmDelivery(t) == trade[t].status = "Funded" /\ MarkDelivered(t)

\* The buyer or the admin releases: the seller is paid, the fee stays in the
\* contract as accrued fees.
ReleaseFunds(t) ==
  LET split == ReleaseSplit(trade[t].amount, config.feeBps) IN
  /\ NotPaused
  /\ trade[t].status = "Delivered"
  /\ Conserves(split, trade[t].amount)
  /\ CanPay(Escrow, split.seller)
  /\ token' = PaySplit(t, split)
  /\ accruedFees' = accruedFees + split.fee
  /\ SetStatus(t, "Completed")
  /\ Stamp(t, {"released"})
  /\ RecordTradeEvent(t, "released")
  /\ PublishPayout(t, split, None)
  /\ UNCHANGED <<now, config, metrics, sourceHeld, pendingVars, extension,
                 clawbackTotal, caseVars, opVars>>

\* The seller files the manifest once; non-empty, short enough hashes are opaque.
SubmitManifest(t, hash) ==
  /\ trade[t].status = "Funded"
  /\ exhibits[t].manifest = None
  /\ exhibits' = [exhibits EXCEPT ![t].manifest = hash]
  /\ Stamp(t, {"manifest"})
  /\ UNCHANGED <<now, config, metrics, cashVars, trade, tradeHistory, pendingVars,
                 extension, clawbackTotal, quorumState, opVars, published>>

\* Either party, once per trade.
SubmitVideoProof(t, hash) ==
  /\ trade[t].status \in {"Funded", "Disputed"}
  /\ exhibits[t].video = None
  /\ exhibits' = [exhibits EXCEPT ![t].video = hash]
  /\ UNCHANGED <<now, config, metrics, cashVars, tradeVars, pendingVars,
                 extension, clawbackTotal, quorumState, opVars, published>>
=============================================================================
