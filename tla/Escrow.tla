------------------------------- MODULE Escrow -------------------------------
(***************************************************************************)
(* The amana_escrow contract: every entrypoint that changes state, the     *)
(* clock of the ledger, and cNGN arriving from outside.                    *)
(***************************************************************************)
EXTENDS EscrowGovernance, EscrowLifecycle, EscrowDispute, EscrowTimelock

\* Ledgers close and time passes; MaxTime bounds the instance.
Tick ==
  /\ now < MaxTime
  /\ now' = now + 1
  /\ UNCHANGED <<config, metrics, cashVars, tradeVars, pendingVars, extension,
                 clawbackTotal, caseVars, opVars, published>>

\* cNGN sent to the contract outside its entrypoints, as the conversion of a
\* path payment does.
ReceiveCngn(amount) ==
  /\ amount > 0
  /\ CanPay(Market, amount)
  /\ token' = Transfer(Market, Escrow, amount)
  /\ UNCHANGED <<now, config, metrics, sourceHeld, accruedFees, tradeVars, pendingVars,
                 extension, clawbackTotal, caseVars, opVars, published>>

Deadlines == {None} \cup {now + d : d \in Lifetimes}

GovernanceNext ==
  \/ \E f \in FeeRates : Initialize(f) \/ UpdateFeeBps(f)
  \/ \E m \in LegacyMediators : SetMediator(m)
  \/ \E m \in Mediators : AddMediator(m) \/ RemoveMediator(m)
  \/ \E g \in Guardians : AddGuardian(g) \/ RemoveGuardian(g) \/ Pause(g) \/ Unpause(g)
  \/ \E a \in Assets : AllowAsset(a) \/ DisallowAsset(a)
  \/ \E p \in ExtensionPolicies : SetExtensionPolicy(p)
  \/ \E q \in QuorumConfigs : SetQuorumConfig(q)
  \/ \E m \in Mediators, w \in Weights : SetMediatorWeight(m, w)
  \/ \E a \in WithdrawAmounts, d \in Destinations : WithdrawFees(a, d)

LifecycleNext ==
  \/ \E b \in Buyers, s \in Sellers, a \in Amounts, l \in LossShares, e \in Deadlines :
       CreateTrade(b, s, a, BPS_DIVISOR - l, l, e)
  \/ \E t \in Trades :
       \/ Deposit(t)
       \/ \E a \in SourceAmounts, d \in DestMins : DepositWithPath(t, a, d)
       \/ FinalizePathPayment(t)
       \/ \E c \in Address : CancelTrade(t, c)
       \/ CancelByBuyer(t)
       \/ Refund(t)
       \/ ClaimExpiryRefund(t)
       \/ \E d \in Extensions : ExtendDeadline(t, trade[t].expiresAt + d)
       \/ ConfirmDelivery(t)
       \/ ReleaseFunds(t)
       \/ \E h \in Hashes : SubmitManifest(t, h) \/ SubmitVideoProof(t, h)

DisputeNext ==
  \E t \in Trades :
    \/ InitiateDispute(t)
    \/ \E m \in Mediators, r \in Rulings : ResolveDispute(t, m, r) \/ CastDisputeVote(t, m, r)
    \/ ResolveDisputeByFallback(t)
    \/ \E c \in Address, h \in Hashes : SubmitEvidence(t, c, h)

TimelockNext ==
  \/ \E b \in ClawbackFlags : SetClawbackEnabled(b)
  \/ \E t \in Trades, a \in ClawbackAmounts, d \in Destinations :
       AdminClawback(t, a, d) \/ QueueClawback(t, a, d)
  \/ \E h \in WasmHashes : QueueUpgrade(h)
  \/ \E i \in 1..Len(queue) : ExecuteClawback(i) \/ ExecuteUpgrade(i) \/ CancelQueuedOperation(i)

Next ==
  \/ Tick
  \/ \E a \in Arrivals : ReceiveCngn(a)
  \/ GovernanceNext
  \/ LifecycleNext
  \/ DisputeNext
  \/ TimelockNext

Spec == Init /\ [][Next]_vars

\* Time goes on, and the parties, whose funds are held, claim the fallback
\* when it is open to them: no other signature is needed for it.
FairSpec == Spec /\ WF_vars(Tick) /\ \A t \in Trades : WF_vars(ResolveDisputeByFallback(t))
=============================================================================
