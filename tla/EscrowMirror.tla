---------------------------- MODULE EscrowMirror ----------------------------
(***************************************************************************)
(* The backend's copies of the contract's quorum and deadline-extension    *)
(* rules, evaluated on the state of the contract they are a copy of:       *)
(* mediatorQuorum.service and deadlineExtension.service.                   *)
(***************************************************************************)
EXTENDS EscrowProperties

MirrorRequiresQuorum(t) ==
  config.quorum.enabled /\ trade[t].amount >= config.quorum.valueThreshold

\* The outcomes voted for; tallyVotes puts the heavier first and, of two as
\* heavy, the one that gives the seller less.
TallyVotes(votes) ==
  {[bps |-> votes[i].bps, weight |-> WeightForOutcome(votes, votes[i].bps)] : i \in 1..Len(votes)}

Before(a, b) == a.weight > b.weight \/ (a.weight = b.weight /\ a.bps < b.bps)

\* Mutant: of two as heavy, the seller's side first.
BeforeSellerFirst(a, b) == a.weight > b.weight \/ (a.weight = b.weight /\ a.bps > b.bps)

SortsBefore(a, b) == Before(a, b)

Leader(votes) ==
  LET tallies == TallyVotes(votes)
  IN CHOOSE l \in tallies : \A o \in tallies : o = l \/ SortsBefore(l, o)

QuorumStatus(t) ==
  LET votes   == quorumState[t].votes
      reached == votes # <<>> /\ Leader(votes).weight >= config.quorum.requiredWeight
  IN [quorumReached |-> reached,
      fallbackAvailable |->
        /\ ~reached
        /\ quorumState[t].openedAt # None
        /\ now >= quorumState[t].openedAt + config.quorum.voteWindow
        /\ TotalVoteWeight(votes) >= config.quorum.fallbackMinWeight]

\* [via, bps], via "none" while the dispute is open.
PendingResolution(t) ==
  LET status == QuorumStatus(t)
  IN [via |-> IF status.quorumReached THEN "quorum"
              ELSE IF status.fallbackAvailable THEN "fallback" ELSE "none",
      bps |-> IF quorumState[t].votes = <<>> THEN 0 ELSE Leader(quorumState[t].votes).bps]

EvaluateVote(t, m, sellerGetsBps) ==
  IF sellerGetsBps > BPS_DIVISOR THEN "INVALID_BPS"
  ELSE IF ~MirrorRequiresQuorum(t) THEN "QUORUM_NOT_REQUIRED"
  ELSE IF \E i \in 1..Len(quorumState[t].votes) : quorumState[t].votes[i].mediator = m THEN "ALREADY_VOTED"
  ELSE "allowed"

AssertQuorumConfigValid(q) ==
  /\ q.valueThreshold >= 0
  /\ q.requiredWeight > 0 /\ q.voteWindow > 0 /\ q.fallbackMinWeight > 0
  /\ q.fallbackMinWeight <= q.requiredWeight

AssertMediatorWeightValid(w) == w > 0 /\ w <= MaxMediatorWeight

-----------------------------------------------------------------------------
(* deadlineExtension.service                                               *)

FirstDeadline(t) == IF extension[t].original = None THEN trade[t].expiresAt ELSE extension[t].original

ExtensionBudget(t) ==
  LET extendedBy == IF trade[t].expiresAt = None THEN 0
                    ELSE SaturatingSub(trade[t].expiresAt, FirstDeadline(t))
      left == SaturatingSub(config.extensionPolicy.maxExtensions, extension[t].count)
      secs == SaturatingSub(config.extensionPolicy.maxTotalSecs, extendedBy)
  IN [extensionsRemaining |-> left, extensionSecsRemaining |-> secs,
      isFinalExtension |-> left = 1, isExhausted |-> left = 0 \/ secs = 0]

PastLifetimeCap(t, newDeadline) ==
  newDeadline - FirstDeadline(t) > config.extensionPolicy.maxTotalSecs

\* Mutant: the cap is measured from the deadline in force.
PastCapFromCurrent(t, newDeadline) ==
  newDeadline - trade[t].expiresAt > config.extensionPolicy.maxTotalSecs

ExceedsLifetimeCap(t, newDeadline) == PastLifetimeCap(t, newDeadline)

EvaluateExtension(t, newDeadline) ==
  IF trade[t].expiresAt = None THEN "NO_DEADLINE"
  ELSE IF now >= trade[t].expiresAt THEN "ALREADY_EXPIRED"
  ELSE IF newDeadline <= now THEN "NOT_IN_FUTURE"
  ELSE IF newDeadline <= trade[t].expiresAt THEN "NOT_LATER_THAN_CURRENT"
  ELSE IF extension[t].count >= config.extensionPolicy.maxExtensions THEN "COUNT_EXHAUSTED"
  ELSE IF ExceedsLifetimeCap(t, newDeadline) THEN "LIFETIME_CAP_EXCEEDED"
  ELSE "allowed"

AssertPolicyWithinCeilings(policy) ==
  policy.maxExtensions <= ExtensionCeilingCount /\ policy.maxTotalSecs <= ExtensionCeilingSecs

-----------------------------------------------------------------------------

MirrorFollowsVotes ==
  \A t \in Trades : trade[t].status = "Disputed" /\ RequiresQuorum(t) =>
    LET votes == quorumState[t].votes
        onChain == votes # <<>> /\ VoteWindowClosed(t) /\ EnoughForFallback(t)
    IN /\ PendingResolution(t).via = (IF onChain THEN "fallback" ELSE "none")
       /\ onChain => PendingResolution(t).bps = PluralityOutcome(votes).bps
       /\ \A m \in Mediators, bps \in Rulings : RequireMediator(m) =>
            (EvaluateVote(t, m, bps) = "allowed" <=> MayVote(t, m) /\ bps <= BPS_DIVISOR)

\* Under one quorum policy the mirror offers the fallback of a dispute exactly
\* when the contract would take it, never shows a quorum the contract has not
\* settled, and names the outcome the contract would apply. (Were the admin to
\* lower required_weight under a vote, the contract would leave the dispute
\* open and take the fallback, while the mirror reports a quorum and none.)
\* And it lets a mediator vote exactly when the contract would count the vote.
MirrorOffersFallback ==
  /\ config.quorum = DefaultQuorumConfig \/ AssertQuorumConfigValid(config.quorum)
  /\ \A m \in Mediators : AssertMediatorWeightValid(config.weight[m])
  /\ MirrorFollowsVotes

\* For a funded trade the mirror allows the extensions the contract allows,
\* at every distance from the first deadline and under every policy the admin
\* set meanwhile, each of which passes the mirror's own ceilings; and a budget
\* it shows as exhausted allows none.
MirrorExtensionVerdict ==
  /\ AssertPolicyWithinCeilings(config.extensionPolicy)
  /\ \A t \in Trades : trade[t].status = "Funded" =>
       \A d \in 0..(MaxTime + ExtensionCeilingSecs) :
         /\ EvaluateExtension(t, d) = "allowed" <=> MayExtend(t, d)
         /\ EvaluateExtension(t, d) = "allowed" => ~ExtensionBudget(t).isExhausted

\* Entrypoint, view and mirror give one verdict on an extension: the view of the
\* contract agrees with extend_deadline, and so does the backend's mirror.
ExtensionVerdictsAgree == BudgetViewAgrees /\ MirrorExtensionVerdict
=============================================================================
