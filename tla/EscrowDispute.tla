--------------------------- MODULE EscrowDispute ---------------------------
(***************************************************************************)
(* Disputes: opening one, evidence, and its three ways out, a single       *)
(* mediator's ruling, a quorum of weighted votes, and the fallback once    *)
(* the vote window has closed.  All three settle through SettleDispute.    *)
(***************************************************************************)
EXTENDS EscrowState

InitiateDispute(t) ==
  /\ trade[t].status = "Funded"
  /\ SetStatus(t, "Disputed")
  /\ Stamp(t, {"disputed"})
  /\ RecordTradeEvent(t, "disputed")
  /\ metrics' = [metrics EXCEPT !.disputes = @ + 1]
  /\ UNCHANGED <<now, config, cashVars, pendingVars, extension, clawbackTotal,
                 caseVars, opVars, published>>

\* Registry or legacy slot.
RequireMediator(m) == m \in config.registry \/ m = config.mediator

\* The fallback and the evidence only look at the registry.
IsMediator(m) == m \in config.registry

RequiresQuorum(t) ==
  config.quorum.enabled /\ trade[t].amount >= config.quorum.valueThreshold

\* Pays the ruling but leaves the trade Disputed.
SettleWithoutClosing(t, sellerGetsBps, how) ==
  LET split == SettleSplit(trade[t].amount, sellerGetsBps, trade[t].sellerLossBps,
                           config.feeBps) IN
  /\ trade[t].status = "Disputed"
  /\ Conserves(split, trade[t].amount)
  /\ CanPay(Escrow, split.seller + split.buyer)
  /\ token' = PaySplit(t, split)
  /\ accruedFees' = accruedFees + split.fee
  /\ metrics' = [metrics EXCEPT !.resolved = @ + 1]
  /\ UNCHANGED <<tradeVars, published>>

SettleDispute(t, sellerGetsBps, how) ==
  LET split == SettleSplit(trade[t].amount, sellerGetsBps, trade[t].sellerLossBps,
                           config.feeBps) IN
  /\ trade[t].status = "Disputed"
  /\ Conserves(split, trade[t].amount)
  /\ CanPay(Escrow, split.seller + split.buyer)
  /\ token' = PaySplit(t, split)
  /\ accruedFees' = accruedFees + split.fee
  /\ SetStatus(t, "Completed")
  /\ Stamp(t, {"resolved"})
  /\ RecordTradeEvent(t, "resolved")
  /\ metrics' = [metrics EXCEPT !.resolved = @ + 1]
  /\ PublishPayout(t, split, [how |-> how, bps |-> sellerGetsBps])

ResolveDispute(t, m, sellerGetsBps) ==
  /\ RequireMediator(m)
  /\ sellerGetsBps <= BPS_DIVISOR
  /\ ~RequiresQuorum(t)
  /\ SettleDispute(t, sellerGetsBps, "mediator")
  /\ UNCHANGED <<now, config, sourceHeld, pendingVars, extension, clawbackTotal,
                 caseVars, opVars>>

\* Lets a mediator vote again.
MayVoteAgain(t, m) == RequireMediator(m)

MayVote(t, m) ==
  /\ RequireMediator(m)
  /\ \A i \in 1..Len(quorumState[t].votes) : quorumState[t].votes[i].mediator # m

\* A vote carries the weight the mediator has now, and the first one opens
\* the window.  The vote that brings its outcome to the required weight
\* settles the dispute in the same call.
CastDisputeVote(t, m, sellerGetsBps) ==
  LET votes == Append(quorumState[t].votes,
                      [mediator |-> m, bps |-> sellerGetsBps, weight |-> config.weight[m]])
  IN
  /\ MayVote(t, m)
  /\ sellerGetsBps <= BPS_DIVISOR
  /\ trade[t].status = "Disputed"
  /\ RequiresQuorum(t)
  /\ quorumState' = [quorumState EXCEPT ![t] =
       [votes    |-> votes,
        openedAt |-> IF @.openedAt = None THEN now ELSE @.openedAt]]
  /\ IF WeightForOutcome(votes, sellerGetsBps) >= config.quorum.requiredWeight
     THEN SettleDispute(t, sellerGetsBps, "quorum")
     ELSE UNCHANGED <<token, accruedFees, tradeVars, metrics, published>>
  /\ UNCHANGED <<now, config, sourceHeld, pendingVars, extension, clawbackTotal,
                 exhibits, opVars>>

\* The window is open forever.
VoteWindowIgnored(t) == TRUE

VoteWindowClosed(t) == now >= quorumState[t].openedAt + config.quorum.voteWindow

\* Asks of the fallback what a quorum needs.
FallbackNeedsQuorum(t) ==
  TotalVoteWeight(quorumState[t].votes) >= config.quorum.requiredWeight

EnoughForFallback(t) ==
  TotalVoteWeight(quorumState[t].votes) >= config.quorum.fallbackMinWeight

\* Either party or a mediator of the registry calls; a party always can.
ResolveDisputeByFallback(t) ==
  /\ trade[t].status = "Disputed"
  /\ RequiresQuorum(t)
  /\ quorumState[t].votes # <<>>
  /\ VoteWindowClosed(t)
  /\ EnoughForFallback(t)
  /\ SettleDispute(t, PluralityOutcome(quorumState[t].votes).bps, "fallback")
  /\ UNCHANGED <<now, config, sourceHeld, pendingVars, extension, clawbackTotal,
                 caseVars, opVars>>

\* Appended without limit by the code; MaxEvidence bounds the list here.
SubmitEvidence(t, caller, hash) ==
  /\ trade[t].status = "Disputed"
  /\ caller \in Party(t) \/ IsMediator(caller)
  /\ Len(exhibits[t].evidence) < MaxEvidence
  /\ exhibits' = [exhibits EXCEPT ![t].evidence = Append(@, [submitter |-> caller, hash |-> hash])]
  /\ UNCHANGED <<now, config, metrics, cashVars, tradeVars, pendingVars, extension,
                 clawbackTotal, quorumState, opVars, published>>
=============================================================================
