-------------------------- MODULE EscrowRuleProofs --------------------------
(***************************************************************************)
(* The rules of a vote, of the timelock and of an extension, the backend's *)
(* copies of them included, for every reachable state of the contract.     *)
(***************************************************************************)
EXTENDS EscrowTradeProofs, EscrowMirror

\* Most leaves are first-order and go to Zenon; a leaf with arithmetic, records or
\* EXCEPT in it names SMT.
USE Zenon

\* QuorumMoves: the votes of a dispute change by one vote at a time.
LEMMA QuorumMoves ==
  ASSUME BookStep, NEW t \in Trades
  PROVE  \/ quorumState'[t] = quorumState[t]
         \/ \E m \in Mediators, bps \in 0..BPS_DIVISOR : VoteCast(t, m, bps)
<1>1. CASE Rests(t)
  BY <1>1 DEF Rests, SameCase
<1>2. CASE Moves(t)
  BY <1>2 DEF Moves, Opens, Funds, Extends, Delivers, Contests, Votes, Settles, Decided,
              Refunds, Drops, Claws, SameCase
<1>3. QED
  BY <1>1, <1>2 DEF BookStep

\* No two votes of t are one mediator's.
OneVote(t) ==
  \A i, j \in 1..Len(quorumState[t].votes) :
    i # j => quorumState[t].votes[i].mediator # quorumState[t].votes[j].mediator

\* QuorumTypes, VoteTypes: what a vote is about.
LEMMA QuorumTypes ==
  ASSUME TypeOK
  PROVE  /\ config.quorum.requiredWeight \in Nat /\ config.quorum.voteWindow \in Nat
         /\ config.quorum.fallbackMinWeight \in Nat
         /\ now \in Nat /\ now # None
<1>1. config.quorum \in QuorumType /\ now \in Nat
  BY DEF TypeOK, ConfigType
<1>2. QED
  BY <1>1, NoneIsNothingElse, SMT DEF QuorumType

LEMMA VoteTypes ==
  ASSUME TypeOK, NEW t \in Trades
  PROVE  /\ quorumState[t].votes \in Seq(VoteOf(Mediators))
         /\ quorumState[t].openedAt \in Nat \cup {None}
         /\ published[t].ruling \in RulingType \cup {None}
<1>1. VoteType = VoteOf(Mediators)
  BY DEF VoteType, VoteOf
<1>2. QED
  BY <1>1 DEF TypeOK, PublishedType

\* What cast_dispute_vote appends to the votes v: the vote x, the first of its
\* mediator.
AddsVote(v, x, w) ==
  /\ v \in Seq(VoteOf(Mediators)) /\ x \in VoteOf(Mediators) /\ Len(v) \in Nat
  /\ w = Append(v, x) /\ w \in Seq(VoteOf(Mediators)) /\ w # <<>>
  /\ Len(w) = Len(v) + 1
  /\ \A i \in 1..Len(v) : w[i] = v[i] /\ v[i].mediator # x.mediator
  /\ w[Len(v) + 1] = x

VoteBy(m, bps) == [mediator |-> m, bps |-> bps, weight |-> config.weight[m]]

\* VoteAppended: a vote is added so.
LEMMA VoteAppended ==
  ASSUME TypeOK, NEW t \in Trades, NEW m \in Mediators, NEW bps \in 0..BPS_DIVISOR,
         VoteCast(t, m, bps)
  PROVE  /\ AddsVote(quorumState[t].votes, VoteBy(m, bps), quorumState'[t].votes)
         /\ VoteBy(m, bps).mediator = m /\ VoteBy(m, bps).bps = bps
         /\ quorumState'[t].openedAt # None
<1> DEFINE v == quorumState[t].votes
           x == VoteBy(m, bps)
           w == quorumState'[t].votes
<1>1. v \in Seq(VoteOf(Mediators))
  BY VoteTypes
<1>2. config.weight[m] \in Nat
  BY DEF TypeOK, ConfigType
<1>3. x \in VoteOf(Mediators) /\ x.mediator = m /\ x.bps = bps
  BY <1>2 DEF VoteOf, VoteBy
<1>4. w = Append(v, x)
  BY SMTT(30) DEF VoteCast, VoteBy
<1>5. \A i \in 1..Len(v) : v[i].mediator # m
  BY DEF VoteCast, MayVote
<1>6. quorumState'[t].openedAt # None
  <2>1. now # None
    BY QuorumTypes
  <2>2. quorumState'[t].openedAt
          = IF quorumState[t].openedAt = None THEN now ELSE quorumState[t].openedAt
    BY SMT DEF VoteCast
  <2>3. QED
    BY <2>1, <2>2
<1> HIDE DEF v, x, w
<1>7. /\ Append(v, x) \in Seq(VoteOf(Mediators)) /\ Append(v, x) # <<>> /\ Len(v) \in Nat
      /\ Len(Append(v, x)) = Len(v) + 1
      /\ \A i \in 1..Len(v) : Append(v, x)[i] = v[i]
      /\ Append(v, x)[Len(v) + 1] = x
  BY <1>1, <1>3, Appended, SMT
<1>8. AddsVote(v, x, w)
  BY <1>1, <1>3, <1>4, <1>5, <1>7 DEF AddsVote
<1>9. QED
  BY <1>3, <1>6, <1>8 DEF v, x, w

\* OneVoteStep: a vote is only appended for a mediator that has none.
LEMMA OneVoteStep ==
  ASSUME TypeOK, BookStep, NEW t \in Trades, OneVote(t)
  PROVE  OneVote(t)'
<1>1. CASE quorumState'[t] = quorumState[t]
  BY <1>1 DEF OneVote
<1>2. ASSUME NEW m \in Mediators, NEW bps \in 0..BPS_DIVISOR, VoteCast(t, m, bps)
      PROVE  OneVote(t)'
  <2> DEFINE v == quorumState[t].votes
             x == VoteBy(m, bps)
             w == quorumState'[t].votes
  <2>1. AddsVote(v, x, w)
    BY <1>2, VoteAppended
  <2>2. /\ Len(v) \in Nat /\ Len(w) = Len(v) + 1
        /\ \A i \in 1..Len(v) : w[i] = v[i] /\ v[i].mediator # x.mediator
        /\ w[Len(v) + 1] = x
    <3> HIDE DEF v, x, w
    <3>1. QED
      BY <2>1 DEF AddsVote
  <2>3. \A i, j \in 1..Len(v) : i # j => v[i].mediator # v[j].mediator
    BY DEF OneVote
  <2> HIDE DEF v, x, w
  <2>4. ASSUME NEW i \in 1..Len(w), NEW j \in 1..Len(w), i # j
        PROVE  w[i].mediator # w[j].mediator
    <3>1. i \in 1..Len(v) \/ i = Len(v) + 1
      BY <2>2, SMT
    <3>2. j \in 1..Len(v) \/ j = Len(v) + 1
      BY <2>2, SMT
    <3>3. QED
      BY <2>2, <2>3, <2>4, <3>1, <3>2
  <2>5. QED
    BY <2>4 DEF OneVote, w
<1>3. QED
  BY <1>1, <1>2, QuorumMoves

\* EachVotesOnce: for every set of mediators and any order of calls, a dispute
\* holds at most one vote of each (cast_dispute_vote).
THEOREM EachVotesOnce == Spec => []OneVoteEach
<1>1. Init => OneVoteEach
  <2>1. Init => quorumState = [t \in Trades |-> [votes |-> <<>>, openedAt |-> None]]
    BY DEF Init
  <2>2. QED
    BY <2>1, SMT DEF OneVoteEach
<1>2. BookInv /\ OneVoteEach /\ [Next]_vars => OneVoteEach'
  <2> SUFFICES ASSUME BookInv, OneVoteEach, [Next]_vars
               PROVE  OneVoteEach'
    OBVIOUS
  <2>1. TypeOK /\ BookStep
    BY BookInvStep DEF BookInv
  <2>2. \A t \in Trades : OneVote(t)
    BY DEF OneVoteEach, OneVote
  <2>3. \A t \in Trades : OneVote(t)'
    BY <2>1, <2>2, OneVoteStep
  <2>4. QED
    BY <2>3 DEF OneVoteEach, OneVote
<1>3. QED
  BY <1>1, <1>2, BooksKept, PTL DEF Spec

-----------------------------------------------------------------------------
\* What the votes of t say, under one quorum policy.
Voted(t) ==
  /\ quorumState[t].votes = <<>> <=> quorumState[t].openedAt = None
  /\ quorumState[t].votes # <<>> => config.quorum.enabled
  /\ quorumState[t].votes # <<>> /\ published[t].ruling = None =>
       \A b \in 0..BPS_DIVISOR :
         WeightForOutcome(quorumState[t].votes, b) < config.quorum.requiredWeight
  /\ published[t].ruling # None /\ published[t].ruling.how \in {"quorum", "fallback"} =>
       /\ quorumState[t].votes # <<>>
       /\ IsPlurality(quorumState[t].votes, published[t].ruling.bps)
  /\ published[t].ruling # None /\ published[t].ruling.how = "fallback" =>
       /\ now >= quorumState[t].openedAt + config.quorum.voteWindow
       /\ WeightForOutcome(quorumState[t].votes, published[t].ruling.bps)
            < config.quorum.requiredWeight

\* One quorum policy, and quorums off until it is set.
OneQuorumPolicy ==
  /\ \A q, r \in QuorumConfigs : q = r
  /\ ~DefaultQuorumConfig.enabled

\* PolicyStays: once it is set it stays as it is.
LEMMA PolicyStays ==
  ASSUME OneQuorumPolicy, TypeOK, Governed, [Next]_vars, config.quorum.enabled
  PROVE  config'.quorum = config.quorum
<1>1. config.quorum \in QuorumConfigs
  BY DEF Governed, OneQuorumPolicy
<1>2. config'.quorum = config.quorum \/ config'.quorum \in QuorumConfigs
  BY GovernedStep
<1>3. QED
  BY <1>1, <1>2 DEF OneQuorumPolicy

\* Aside: only the ledger's clock and the admin's operations touch these.
Aside == UNCHANGED <<now, queue, clawbackTotal>>

LEMMA OnlyClockAndAdmin ==
  ASSUME [Next]_vars
  PROVE  Aside \/ Tick \/ TimelockNext
<1>1. CASE GovernanceNext
  <2>1. ASSUME NEW new, Configure(new)
        PROVE  Aside
    BY <2>1 DEF Configure, opVars, Aside
  <2>2. ASSUME NEW x, NEW d, WithdrawFees(x, d)
        PROVE  Aside
    BY <2>2 DEF WithdrawFees, opVars, Aside
  <2>3. QED
    BY <1>1, <2>1, <2>2 DEF GovernanceNext, Initialize, UpdateFeeBps, SetMediator, AddMediator,
      RemoveMediator, AddGuardian, RemoveGuardian, Pause, Unpause, AllowAsset, DisallowAsset,
      SetExtensionPolicy, SetQuorumConfig, SetMediatorWeight, AdminConfigures
<1>2. CASE LifecycleNext
  <2>1. ASSUME NEW b, NEW x, NEW a, NEW k, NEW l, NEW e, CreateTrade(b, x, a, k, l, e)
        PROVE  Aside
    BY <2>1 DEF CreateTrade, opVars, Aside
  <2>2. ASSUME NEW t \in Trades, NEW x, NEW d, NEW h,
               \/ Deposit(t) \/ DepositWithPath(t, x, d) \/ FinalizePathPayment(t)
               \/ CancelTrade(t, x) \/ CancelByBuyer(t) \/ Refund(t) \/ ClaimExpiryRefund(t)
        PROVE  Aside
    BY <2>2 DEF Deposit, TakeDeposit, DepositWithPath, FinalizePathPayment, CancelTrade,
      CancelByBuyer, CloseUnpaid, Refund, ReturnEscrow, ClaimExpiryRefund, PayExpiryRefund,
      opVars, Aside
  <2>3. ASSUME NEW t \in Trades, NEW d, NEW h,
               \/ ExtendDeadline(t, d) \/ ConfirmDelivery(t) \/ ReleaseFunds(t)
               \/ SubmitManifest(t, h) \/ SubmitVideoProof(t, h)
        PROVE  Aside
    BY <2>3 DEF ExtendDeadline, ConfirmDelivery, MarkDelivered, ReleaseFunds, SubmitManifest,
      SubmitVideoProof, opVars, Aside
  <2>4. QED
    BY <1>2, <2>1, <2>2, <2>3 DEF LifecycleNext
<1>3. CASE DisputeNext
  <2>1. ASSUME NEW t, NEW m, NEW r, ResolveDispute(t, m, r) \/ CastDisputeVote(t, m, r)
        PROVE  Aside
    BY <2>1 DEF ResolveDispute, CastDisputeVote, opVars, Aside
  <2>2. ASSUME NEW t, NEW c, NEW h,
               InitiateDispute(t) \/ ResolveDisputeByFallback(t) \/ SubmitEvidence(t, c, h)
        PROVE  Aside
    BY <2>2 DEF InitiateDispute, ResolveDisputeByFallback, SubmitEvidence, opVars, Aside
  <2>3. QED
    BY <1>3, <2>1, <2>2 DEF DisputeNext
<1>4. CASE UNCHANGED vars \/ \E a \in Arrivals : ReceiveCngn(a)
  BY <1>4 DEF vars, ReceiveCngn, opVars, Aside
<1>5. QED
  BY <1>1, <1>2, <1>3, <1>4 DEF Next

\* ClockStep: time never goes back.
LEMMA ClockStep ==
  ASSUME [Next]_vars
  PROVE  now' = now \/ now' = now + 1
<1>1. CASE TimelockNext
  BY <1>1 DEF TimelockNext, SetClawbackEnabled, AdminConfigures, Configure, AdminClawback,
    QueueClawback, QueueUpgrade, Enqueue, ExecuteClawback, ExecuteUpgrade, CancelQueuedOperation
<1>2. QED
  BY <1>1, OnlyClockAndAdmin DEF Aside, Tick

\* VotesRest: nothing said of the votes changes while they and the ruling stay.
LEMMA VotesRest ==
  ASSUME OneQuorumPolicy, TypeOK, Governed, [Next]_vars, NEW t \in Trades, Voted(t),
         quorumState'[t] = quorumState[t], published'[t].ruling = published[t].ruling
  PROVE  Voted(t)'
<1>1. quorumState[t].votes # <<>> => config'.quorum = config.quorum
  BY PolicyStays DEF Voted
<1>2. now \in Nat /\ config.quorum.voteWindow \in Nat /\ quorumState[t].openedAt \in Nat \cup {None}
  BY VoteTypes, QuorumTypes
<1>3. now' >= now /\ now' \in Nat
  BY <1>2, ClockStep, SMT
<1>4. CASE quorumState[t].votes = <<>>
  BY <1>4 DEF Voted
<1>5. CASE quorumState[t].votes # <<>>
  <2>1. quorumState[t].openedAt \in Nat
    BY <1>2, <1>5 DEF Voted
  <2>2. now >= quorumState[t].openedAt + config.quorum.voteWindow =>
          now' >= quorumState'[t].openedAt + config'.quorum.voteWindow
    BY <1>1, <1>2, <1>3, <1>5, <2>1, SMTT(30)
  <2>3. QED
    BY <1>1, <1>5, <2>2 DEF Voted
<1>6. QED
  BY <1>4, <1>5

\* LightVotes: an outcome without a quorum stays without one unless the vote
\* is for it.
LEMMA LightVotes ==
  ASSUME TypeOK, NEW t \in Trades, Voted(t), published[t].ruling = None,
         config.quorum.requiredWeight > 0,
         NEW m \in Mediators, NEW bps \in 0..BPS_DIVISOR, VoteCast(t, m, bps),
         NEW b \in 0..BPS_DIVISOR, b # bps
  PROVE  WeightForOutcome(quorumState'[t].votes, b) < config.quorum.requiredWeight
<1> DEFINE v == quorumState[t].votes
           x == VoteBy(m, bps)
<1>0. AddsVote(v, x, quorumState'[t].votes)
  BY VoteAppended
<1>1. /\ v \in Seq(VoteOf(Mediators)) /\ x \in VoteOf(Mediators)
      /\ quorumState'[t].votes = Append(v, x)
  <2> HIDE DEF v, x
  <2>1. QED
    BY <1>0 DEF AddsVote
<1>2. x.bps # b
  BY VoteAppended, SMT
<1>3. WeightForOutcome(v, b) < config.quorum.requiredWeight
  <2>1. CASE v = <<>>
    BY <2>1, WeightOfNone
  <2>2. CASE v # <<>>
    BY <2>2 DEF Voted
  <2>3. QED
    BY <2>1, <2>2
<1> HIDE DEF v, x
<1>4. WeightForOutcome(Append(v, x), b) = WeightForOutcome(v, b) + 0
  BY <1>1, <1>2, WeightAppend
<1>5. WeightForOutcome(v, b) \in Int
  BY <1>1, WeightIsInt
<1>6. QED
  BY <1>1, <1>3, <1>4, <1>5, SMT

\* VoteStep: a vote short of the quorum.
LEMMA VoteStep ==
  ASSUME OneQuorumPolicy, TypeOK, Governed, [Next]_vars, NEW t \in Trades, Voted(t), Balanced(t),
         NEW m \in Mediators, NEW bps \in 0..BPS_DIVISOR, Votes(t, m, bps)
  PROVE  Voted(t)'
<1>1. VoteCast(t, m, bps) /\ config.quorum.enabled
  BY DEF Votes, VoteCast, RequiresQuorum
<1>2. config'.quorum = config.quorum /\ config.quorum.requiredWeight > 0
  BY <1>1, PolicyStays DEF Governed, ValidQuorum, OneQuorumPolicy
<1>3. published[t].ruling = None /\ published'[t].ruling = None
  BY <1>1 DEF Votes, VoteCast, Balanced, SameMoney
<1>4. quorumState'[t].votes # <<>> /\ quorumState'[t].votes \in Seq(VoteOf(Mediators))
  BY <1>1, VoteAppended DEF AddsVote
<1>5. quorumState'[t].openedAt # None
  BY <1>1, VoteAppended
<1>6. WeightForOutcome(quorumState'[t].votes, bps) < config.quorum.requiredWeight
  <2>1. WeightForOutcome(quorumState'[t].votes, bps) \in Int
    BY <1>4, WeightIsInt
  <2>2. config.quorum.requiredWeight \in Int
    BY QuorumTypes, SMT
  <2>3. ~(WeightForOutcome(quorumState'[t].votes, bps) >= config.quorum.requiredWeight)
    BY DEF Votes
  <2>4. QED
    BY <2>1, <2>2, <2>3, SMT
<1>7. \A b \in 0..BPS_DIVISOR :
        WeightForOutcome(quorumState'[t].votes, b) < config.quorum.requiredWeight
  BY <1>1, <1>2, <1>3, <1>6, LightVotes
<1>8. QED
  BY <1>1, <1>2, <1>3, <1>4, <1>5, <1>7 DEF Voted

\* RulingNamed: the fields of a ruling.
LEMMA RulingNamed ==
  ASSUME NEW how \in {"mediator", "quorum", "fallback"}, NEW bps \in 0..BPS_DIVISOR, NEW ruling,
         ruling = [how |-> how, bps |-> bps]
  PROVE  ruling # None /\ ruling.how = how /\ ruling.bps = bps
<1>1. ruling \in RulingType
  BY DEF RulingType
<1>2. QED
  BY <1>1, NoneIsNoRuling

\* SettleStep: a payout, whoever decided it.
LEMMA SettleStep ==
  ASSUME OneQuorumPolicy, TypeOK, Governed, [Next]_vars, NEW t \in Trades, Voted(t), Balanced(t),
         NEW split, NEW ruling, Settles(t, split, ruling)
  PROVE  Voted(t)'
<1>1. published'[t].ruling = ruling /\ Decided(t, ruling)
  BY SMT DEF Settles
<1>2. published[t].ruling = None
  BY <1>1 DEF Decided, VoteCast, Balanced
<1>3. now' >= now /\ now \in Nat /\ now' \in Nat
  BY ClockStep, QuorumTypes, SMT
<1>4. CASE trade[t].status = "Delivered" /\ ruling = None /\ quorumState'[t] = quorumState[t]
  BY <1>1, <1>2, <1>4, VotesRest
<1>5. ASSUME NEW bps \in 0..BPS_DIVISOR, quorumState'[t] = quorumState[t],
             ruling = [how |-> "mediator", bps |-> bps]
      PROVE  Voted(t)'
  <2>1. ruling # None
    BY <1>5, RulingNamed
  <2>2. quorumState[t].votes # <<>> => config'.quorum = config.quorum
    BY PolicyStays DEF Voted
  <2>3. ruling.how = "mediator"
    BY <1>5
  <2>4. QED
    BY <1>1, <1>5, <2>1, <2>2, <2>3 DEF Voted
<1>6. ASSUME NEW m \in Mediators, NEW bps \in 0..BPS_DIVISOR, VoteCast(t, m, bps),
             WeightForOutcome(quorumState'[t].votes, bps) >= config.quorum.requiredWeight,
             ruling = [how |-> "quorum", bps |-> bps]
      PROVE  Voted(t)'
  <2> DEFINE w == quorumState'[t].votes
             n == Len(quorumState[t].votes) + 1
  <2>1. ruling # None /\ ruling.how = "quorum" /\ ruling.bps = bps
    BY <1>6, RulingNamed
  <2>2. config'.quorum = config.quorum /\ config.quorum.enabled /\ config.quorum.requiredWeight > 0
    BY <1>6, PolicyStays DEF VoteCast, RequiresQuorum, Governed, ValidQuorum, OneQuorumPolicy
  <2>3. w # <<>> /\ w \in Seq(VoteOf(Mediators)) /\ n \in 1..Len(w) /\ w[n].bps = bps
    <3> DEFINE v == quorumState[t].votes
               x == VoteBy(m, bps)
    <3>0. AddsVote(v, x, w) /\ x.bps = bps /\ n = Len(v) + 1
      <4>1. /\ AddsVote(quorumState[t].votes, VoteBy(m, bps), quorumState'[t].votes)
            /\ VoteBy(m, bps).bps = bps
        BY <1>6, VoteAppended, SMTT(30)
      <4>2. QED
        BY <4>1
    <3> HIDE DEF v, x, w, n
    <3>1. w # <<>> /\ w \in Seq(VoteOf(Mediators)) /\ Len(v) \in Nat /\ Len(w) = n /\ w[n] = x
      BY <3>0 DEF AddsVote
    <3>2. n \in Nat /\ 1 <= n
      BY <3>0, <3>1, SMT
    <3>3. n \in 1..Len(w)
      BY <3>1, <3>2, SMT
    <3>4. w[n].bps = bps
      BY <3>0, <3>1
    <3>5. QED
      BY <3>1, <3>3, <3>4
  <2>4. quorumState'[t].openedAt # None
    BY <1>6, VoteAppended
  <2>5. ASSUME NEW k \in 1..Len(w), w[k].bps # w[n].bps
        PROVE  WeightForOutcome(w, w[k].bps) < WeightForOutcome(w, w[n].bps)
    <3>1. w[k].bps \in 0..BPS_DIVISOR
      BY <2>3, VoteFields
    <3>2. WeightForOutcome(w, w[k].bps) < config.quorum.requiredWeight
      BY <1>2, <1>6, <2>2, <2>3, <2>5, <3>1, LightVotes
    <3>3. /\ WeightForOutcome(w, w[k].bps) \in Int /\ WeightForOutcome(w, bps) \in Int
          /\ config.quorum.requiredWeight \in Int
      <4> HIDE DEF w, n
      <4>1. \A b : WeightForOutcome(w, b) \in Int
        BY <2>3, WeightIsInt
      <4>2. config.quorum.requiredWeight \in Int
        BY QuorumTypes, NatIsInt
      <4>3. QED
        BY <4>1, <4>2
    <3>4. WeightForOutcome(w, bps) >= config.quorum.requiredWeight
      BY <1>6
    <3>5. w[n].bps = bps
      BY <2>3
    <3> HIDE DEF w, n
    <3>6. WeightForOutcome(w, w[k].bps) < WeightForOutcome(w, bps)
      BY <3>2, <3>3, <3>4, SMTT(30)
    <3>7. QED
      BY <3>5, <3>6
  <2>6. IsPlurality(w, bps)
    <3> HIDE DEF w, n
    <3>1. QED
      BY <2>3, <2>5, OutweighsAll
  <2>7. QED
    BY <1>1, <2>1, <2>2, <2>3, <2>4, <2>6 DEF Voted
<1>7. ASSUME quorumState'[t] = quorumState[t], quorumState[t].votes # <<>>, VoteWindowClosed(t),
             ruling = [how |-> "fallback", bps |-> PluralityOutcome(quorumState[t].votes).bps]
      PROVE  Voted(t)'
  <2> DEFINE bps == PluralityOutcome(quorumState[t].votes).bps
  <2>1. bps \in 0..BPS_DIVISOR /\ IsPlurality(quorumState[t].votes, bps)
    BY <1>7, VoteTypes, PluralityCorrect
  <2>2. ruling # None /\ ruling.how = "fallback" /\ ruling.bps = bps
    BY <1>7, <2>1, RulingNamed
  <2>3. config'.quorum = config.quorum
    BY <1>7, PolicyStays DEF Voted
  <2>4. WeightForOutcome(quorumState[t].votes, bps) < config.quorum.requiredWeight
    BY <1>2, <1>7, <2>1 DEF Voted
  <2>5. now' >= quorumState[t].openedAt + config.quorum.voteWindow
    <3>1. quorumState[t].openedAt \in Nat /\ config.quorum.voteWindow \in Nat
      BY <1>7, VoteTypes, QuorumTypes DEF Voted
    <3>2. now >= quorumState[t].openedAt + config.quorum.voteWindow
      BY <1>7 DEF VoteWindowClosed
    <3>3. PICK e \in Int : e = quorumState[t].openedAt + config.quorum.voteWindow
      BY <3>1, SMTT(30)
    <3>4. now' >= e
      BY <1>3, <3>2, <3>3, SMTT(30)
    <3>5. QED
      BY <3>3, <3>4
  <2> HIDE DEF bps
  <2>6. QED
    BY <1>1, <1>7, <2>1, <2>2, <2>3, <2>4, <2>5 DEF Voted
<1>8. QED
  BY <1>1, <1>4, <1>5, <1>6, <1>7 DEF Decided

\* VotedStep: every step keeps what the votes say.
LEMMA VotedStep ==
  ASSUME OneQuorumPolicy, BookInv, [Next]_vars, NEW t \in Trades, Voted(t)
  PROVE  Voted(t)'
<1>0. TypeOK /\ Governed /\ Balanced(t) /\ BookStep
  BY BookInvStep DEF BookInv
<1>1. CASE Rests(t)
  BY <1>0, <1>1, VotesRest DEF Rests, SameMoney, SameCase
<1>2. CASE \E m \in Mediators, bps \in 0..BPS_DIVISOR : Votes(t, m, bps)
  BY <1>0, <1>2, VoteStep
<1>3. CASE \E split \in Splits, ruling \in RulingType \cup {None} : Settles(t, split, ruling)
  BY <1>0, <1>3, SettleStep
<1>4. CASE /\ Moves(t)
           /\ ~(\E m \in Mediators, bps \in 0..BPS_DIVISOR : Votes(t, m, bps))
           /\ ~(\E split \in Splits, ruling \in RulingType \cup {None} : Settles(t, split, ruling))
  <2>1. published[t] \in PublishedType
    BY <1>0, BalanceTypes
  <2>2. quorumState'[t] = quorumState[t] /\ published'[t].ruling = published[t].ruling
    BY <1>4, <2>1 DEF Moves, Opens, Funds, Extends, Delivers, Contests, Refunds, Drops, Claws,
                      SameCase, SameMoney, PublishedType
  <2>3. QED
    BY <1>0, <2>2, VotesRest
<1>5. QED
  BY <1>0, <1>1, <1>2, <1>3, <1>4 DEF BookStep

\* VotesAlways: so under one policy it always holds.
LEMMA VotesAlways == OneQuorumPolicy /\ Spec => [](\A t \in Trades : Voted(t))
<1> SUFFICES ASSUME OneQuorumPolicy
             PROVE  Spec => [](\A t \in Trades : Voted(t))
  OBVIOUS
<1>1. Init => \A t \in Trades : Voted(t)
  <2> SUFFICES ASSUME Init, NEW t \in Trades
               PROVE  Voted(t)
    OBVIOUS
  <2>1. quorumState[t].votes = <<>> /\ quorumState[t].openedAt = None /\ published[t].ruling = None
    BY DEF Init
  <2>2. QED
    BY <2>1 DEF Voted
<1>2. BookInv /\ (\A t \in Trades : Voted(t)) /\ [Next]_vars => (\A t \in Trades : Voted(t))'
  BY VotedStep
<1>3. QED
  BY <1>1, <1>2, BooksKept, PTL DEF Spec

\* VotesDecide: under one quorum policy a dispute decided by votes, at the
\* quorum or by the fallback, went to the plurality, and a fallback was neither
\* early nor instead of a quorum (cast_dispute_vote, resolve_dispute_by_fallback).
THEOREM VotesDecide == OneQuorumPolicy /\ Spec => []VotedRulingsHold
<1>1. (\A t \in Trades : Voted(t)) => VotedRulingsHold
  BY DEF Voted, VotedRulingsHold, RulingIsPlurality, NoEarlyFallback
<1>2. QED
  BY <1>1, VotesAlways, PTL

-----------------------------------------------------------------------------
\* What holds of every queued operation.
OpSound(op) ==
  /\ op.executeAfter = op.queuedAt
       + (IF op.kind = "clawback" THEN ClawbackDelay ELSE UpgradeDelay)
  /\ op.executed => ~op.cancelled /\ now >= op.executeAfter

Queued == \A i \in 1..Len(queue) : OpSound(queue[i])

\* OpTypes: the figures of an operation are numbers.
LEMMA OpTypes ==
  ASSUME TypeOK
  PROVE  /\ queue \in Seq(OpType) /\ Len(queue) \in Nat /\ now \in Nat
         /\ \A i \in 1..Len(queue) : queue[i] \in OpType /\ queue[i].executeAfter \in Nat
<1>1. queue \in Seq(OpType) /\ now \in Nat
  BY DEF TypeOK
<1>2. \A i \in 1..Len(queue) : queue[i] \in OpType
  BY <1>1, SMTT(30)
<1>3. \A op \in OpType : op.executeAfter \in Nat
  BY DEF OpType, OpOf
<1>4. Len(queue) \in Nat
  BY <1>1, SMT
<1>5. QED
  BY <1>1, <1>2, <1>3, <1>4

\* MarkedOp: setting the executed or the cancelled flag of one operation.
LEMMA MarkedOp ==
  ASSUME TypeOK, NEW i \in 1..Len(queue), NEW op,
         queue' = [queue EXCEPT ![i] = op]
  PROVE  /\ Len(queue') = Len(queue) /\ queue'[i] = op
         /\ \A j \in 1..Len(queue) : j # i => queue'[j] = queue[j]
BY OpTypes, SMT

\* QueueStep: no step makes an operation unsound.
LEMMA QueueStep ==
  ASSUME TypeOK, Queued, [Next]_vars
  PROVE  Queued'
<1>0. /\ queue \in Seq(OpType) /\ Len(queue) \in Nat /\ now \in Nat
      /\ \A i \in 1..Len(queue) : queue[i] \in OpType /\ queue[i].executeAfter \in Nat
  BY OpTypes
<1>1. ASSUME UNCHANGED queue
      PROVE  Queued'
  <2>1. now' >= now
    BY <1>0, ClockStep, SMT
  <2>2. now' \in Nat
    BY <1>0, ClockStep, SMT
  <2>3. QED
    BY <1>0, <1>1, <2>1, <2>2, SMTT(30) DEF Queued, OpSound
<1>2. ASSUME NEW op, Enqueue(op), op.executed = FALSE,
             op.executeAfter = op.queuedAt
               + (IF op.kind = "clawback" THEN ClawbackDelay ELSE UpgradeDelay)
      PROVE  Queued'
  <2>1. queue' = Append(queue, op) /\ now' = now
    BY <1>2 DEF Enqueue
  <2>2. /\ Len(queue') = Len(queue) + 1 /\ queue'[Len(queue) + 1] = op
        /\ \A i \in 1..Len(queue) : queue'[i] = queue[i]
    BY <1>0, <2>1, SMTT(30)
  <2>3. \A i \in 1..Len(queue') : i \in 1..Len(queue) \/ i = Len(queue) + 1
    BY <1>0, <2>2, SMT
  <2>4. QED
    BY <1>2, <2>1, <2>2, <2>3 DEF Queued, OpSound
<1>3. ASSUME NEW i \in 1..Len(queue), NEW op, queue' = [queue EXCEPT ![i] = op], now' = now,
             op.executeAfter = queue[i].executeAfter, op.queuedAt = queue[i].queuedAt,
             op.kind = queue[i].kind,
             op.executed => ~op.cancelled /\ now >= op.executeAfter
      PROVE  Queued'
  <2>1. /\ Len(queue') = Len(queue) /\ queue'[i] = op
        /\ \A j \in 1..Len(queue) : j # i => queue'[j] = queue[j]
    BY <1>3, MarkedOp
  <2>2. QED
    BY <1>3, <2>1, SMTT(30) DEF Queued, OpSound
<1>4. CASE TimelockNext
  <2>1. ASSUME NEW t, NEW a, NEW d, QueueClawback(t, a, d)
        PROVE  Queued'
    BY <1>2, <2>1 DEF QueueClawback
  <2>2. ASSUME NEW h, QueueUpgrade(h)
        PROVE  Queued'
    BY <1>2, <2>2 DEF QueueUpgrade
  <2>3. ASSUME NEW i \in 1..Len(queue), ExecuteClawback(i) \/ ExecuteUpgrade(i)
        PROVE  Queued'
    <3> DEFINE op == [queue[i] EXCEPT !.executed = TRUE]
    <3>1. queue' = [queue EXCEPT ![i] = op] /\ now' = now /\ Ready(queue[i])
      BY <2>3 DEF ExecuteClawback, ExecuteUpgrade
    <3>2. /\ op.executeAfter = queue[i].executeAfter /\ op.queuedAt = queue[i].queuedAt
          /\ op.kind = queue[i].kind /\ op.cancelled = queue[i].cancelled
      BY <1>0 DEF OpType, OpOf
    <3> HIDE DEF op
    <3>3. QED
      BY <1>3, <3>1, <3>2 DEF Ready
  <2>4. ASSUME NEW i \in 1..Len(queue), CancelQueuedOperation(i)
        PROVE  Queued'
    <3> DEFINE op == [queue[i] EXCEPT !.cancelled = TRUE]
    <3>1. queue' = [queue EXCEPT ![i] = op] /\ now' = now /\ ~queue[i].executed
      BY <2>4 DEF CancelQueuedOperation
    <3>2. /\ op.executeAfter = queue[i].executeAfter /\ op.queuedAt = queue[i].queuedAt
          /\ op.kind = queue[i].kind /\ op.executed = queue[i].executed
      BY <1>0 DEF OpType, OpOf
    <3> HIDE DEF op
    <3>3. QED
      BY <1>3, <3>1, <3>2
  <2>5. ASSUME NEW b, SetClawbackEnabled(b)
        PROVE  Queued'
    BY <1>1, <2>5 DEF SetClawbackEnabled, AdminConfigures, Configure, opVars
  <2>6. ASSUME NEW t, NEW a, NEW d, AdminClawback(t, a, d)
        PROVE  Queued'
    BY <1>1, <2>6 DEF AdminClawback, opVars
  <2>7. QED
    BY <1>4, <2>1, <2>2, <2>3, <2>4, <2>5, <2>6 DEF TimelockNext
<1>5. CASE Aside \/ Tick
  BY <1>1, <1>5 DEF Aside, Tick, opVars
<1>6. QED
  BY <1>4, <1>5, OnlyClockAndAdmin

\* DelaysHonoured: whatever is queued, executed and cancelled in whatever order,
\* no operation is executed before its delay or after it was cancelled
\* (execute_clawback, execute_upgrade, cancel_queued_operation).
THEOREM DelaysHonoured == Spec => []TimelockHonoured
<1>1. Init => Queued
  <2>1. Init => queue = <<>>
    BY DEF Init
  <2>2. queue = <<>> => 1..Len(queue) = {}
    BY SMT
  <2>3. QED
    BY <2>1, <2>2 DEF Queued
<1>2. TypeOK /\ Queued /\ [Next]_vars => Queued'
  BY QueueStep
<1>3. TypeOK /\ Queued => TimelockHonoured
  <2> SUFFICES ASSUME TypeOK, Queued, NEW i \in 1..Len(queue), queue[i].executed
               PROVE  /\ ~queue[i].cancelled
                      /\ now >= queue[i].queuedAt
                           + (IF queue[i].kind = "clawback" THEN ClawbackDelay ELSE UpgradeDelay)
    BY DEF TimelockHonoured
  <2>1. OpSound(queue[i])
    BY DEF Queued
  <2>2. QED
    BY <2>1 DEF OpSound
<1>4. BookInv => TypeOK
  BY DEF BookInv
<1>5. QED
  BY <1>1, <1>2, <1>3, <1>4, BooksKept, PTL DEF Spec

\* ClawbackRecorded: what a step that claws back from t leaves behind.
LEMMA ClawbackRecorded ==
  ASSUME TypeOK, [Next]_vars, NEW t \in Trades, clawbackTotal'[t] # clawbackTotal[t]
  PROVE  \/ Len(tradeHistory'[t]) = Len(tradeHistory[t]) + 1
         \/ \E i \in 1..Len(queue) :
              /\ ~queue[i].executed /\ queue'[i].executed
              /\ queue[i].trade = t
              /\ queue[i].amount = clawbackTotal'[t] - clawbackTotal[t]
<1>0. /\ clawbackTotal \in [Trades -> Nat] /\ tradeHistory \in [Trades -> Seq(EventKinds)]
      /\ tradeHistory[t] \in Seq(EventKinds)
  BY DEF TypeOK
<1>1. TimelockNext
  BY OnlyClockAndAdmin DEF Aside, Tick
<1>2. ASSUME NEW u \in Trades, NEW a, NEW d, AdminClawback(u, a, d)
      PROVE  Len(tradeHistory'[t]) = Len(tradeHistory[t]) + 1
  <2>1. clawbackTotal' = [clawbackTotal EXCEPT ![u] = @ + a]
    BY <1>2 DEF AdminClawback, ClawOut
  <2>2. u = t
    BY <1>0, <2>1
  <2>3. PICK kind : tradeHistory' = [tradeHistory EXCEPT ![t] = Append(@, kind)]
    BY <1>2, <2>2 DEF AdminClawback, RecordTradeEvent
  <2>4. tradeHistory'[t] = Append(tradeHistory[t], kind)
    BY <1>0, <2>3
  <2>5. QED
    BY <1>0, <2>4, SMT
<1>3. ASSUME NEW i \in 1..Len(queue), ExecuteClawback(i)
      PROVE  /\ ~queue[i].executed /\ queue'[i].executed
             /\ queue[i].trade = t
             /\ queue[i].amount = clawbackTotal'[t] - clawbackTotal[t]
  <2> DEFINE op == queue[i]
  <2>1. op \in OpType /\ op.kind = "clawback"
    BY <1>3, OpTypes DEF ExecuteClawback
  <2>2. op.trade \in Trades /\ op.amount \in Nat
    BY <2>1 DEF OpType, OpOf
  <2>3. clawbackTotal' = [clawbackTotal EXCEPT ![op.trade] = @ + op.amount]
    BY <1>3 DEF ExecuteClawback, ClawOut
  <2>4. ~op.executed /\ queue' = [queue EXCEPT ![i] = [op EXCEPT !.executed = TRUE]]
    BY <1>3 DEF ExecuteClawback, Ready
  <2>5. queue'[i] = [op EXCEPT !.executed = TRUE]
    BY <2>4, MarkedOp
  <2>6. queue'[i].executed
    BY <2>1, <2>5 DEF OpType, OpOf
  <2> HIDE DEF op
  <2>7. op.trade = t
    BY <1>0, <2>2, <2>3
  <2>8. clawbackTotal'[t] = clawbackTotal[t] + op.amount
    BY <1>0, <2>3, <2>7
  <2>9. op.amount = clawbackTotal'[t] - clawbackTotal[t]
    BY <1>0, <2>2, <2>8, SMTT(30)
  <2>10. QED
    BY <2>4, <2>6, <2>7, <2>9 DEF op
<1>4. ASSUME \/ \E b \in ClawbackFlags : SetClawbackEnabled(b)
             \/ \E u \in Trades, a \in ClawbackAmounts, d \in Destinations : QueueClawback(u, a, d)
             \/ \E h \in WasmHashes : QueueUpgrade(h)
             \/ \E i \in 1..Len(queue) : ExecuteUpgrade(i) \/ CancelQueuedOperation(i)
      PROVE  FALSE
  BY <1>4 DEF SetClawbackEnabled, AdminConfigures, Configure, QueueClawback, QueueUpgrade, Enqueue,
              ExecuteUpgrade, CancelQueuedOperation
<1>5. QED
  BY <1>1, <1>2, <1>3, <1>4 DEF TimelockNext

\* ClawbacksAccounted: no clawback goes unrecorded and no queued one pays twice
\* (admin_clawback, execute_clawback).
THEOREM ClawbacksAccounted == Spec => ClawbackAccountable
<1>1. BookInv /\ [Next]_vars =>
        [\A t \in Trades : clawbackTotal'[t] # clawbackTotal[t] =>
           \/ Len(tradeHistory'[t]) = Len(tradeHistory[t]) + 1
           \/ \E i \in 1..Len(queue) :
                /\ ~queue[i].executed /\ queue'[i].executed
                /\ queue[i].trade = t
                /\ queue[i].amount = clawbackTotal'[t] - clawbackTotal[t]]_vars
  BY ClawbackRecorded DEF BookInv
<1>2. QED
  BY <1>1, BooksKept, PTL DEF Spec, ClawbackAccountable

-----------------------------------------------------------------------------
\* ExtensionFacts: the figures an extension is judged by.
LEMMA ExtensionFacts ==
  ASSUME TypeOK, NEW t \in Trades, Capped(t), trade[t].expiresAt # None
  PROVE  /\ now \in Nat /\ trade[t].expiresAt \in Nat /\ extension[t].count \in Nat
         /\ config.extensionPolicy.maxExtensions \in Nat
         /\ config.extensionPolicy.maxTotalSecs \in Nat
         /\ ExtensionOrigin(t) \in Nat /\ ExtensionOrigin(t) <= trade[t].expiresAt
         /\ FirstDeadline(t) = ExtensionOrigin(t)
<1>1. /\ trade[t] \in TradeType /\ extension[t] \in [count : Nat, original : Nat \cup {None}]
      /\ config.extensionPolicy \in PolicyType /\ now \in Nat
  BY DEF TypeOK, ConfigType
<1>2. /\ trade[t].expiresAt \in Nat /\ extension[t].count \in Nat
      /\ extension[t].original \in Nat \cup {None}
      /\ config.extensionPolicy.maxExtensions \in Nat
      /\ config.extensionPolicy.maxTotalSecs \in Nat
  BY <1>1 DEF TradeType, PolicyType
<1>3. ExtensionOrigin(t) \in Nat /\ ExtensionOrigin(t) <= trade[t].expiresAt
  <2>0. PICK e \in Nat : e = trade[t].expiresAt
    BY <1>2
  <2>1. CASE extension[t].original = None
    <3>1. ExtensionOrigin(t) = e
      BY <2>0, <2>1 DEF ExtensionOrigin
    <3>2. QED
      BY <2>0, <3>1, SMT
  <2>2. CASE extension[t].original # None
    <3>0. PICK c \in Nat : c = extension[t].count
      BY <1>2
    <3>1. c # 0
      BY <2>2, <3>0 DEF Capped
    <3>2. extension[t].count > 0
      BY <3>0, <3>1, SMT
    <3>3. trade[t].expiresAt > extension[t].original
      BY <3>2 DEF Capped
    <3>4. PICK o \in Nat : o = extension[t].original
      BY <1>2, <2>2
    <3>5. ExtensionOrigin(t) = o
      BY <2>2, <3>4 DEF ExtensionOrigin
    <3>6. e > o
      BY <2>0, <3>3, <3>4
    <3>7. QED
      BY <2>0, <3>5, <3>6, SMTT(30)
  <2>3. QED
    BY <2>1, <2>2
<1>4. QED
  BY <1>1, <1>2, <1>3 DEF FirstDeadline, ExtensionOrigin

\* ViewAgrees: get_extension_status and extend_deadline.
LEMMA ViewAgrees ==
  ASSUME TypeOK, NEW t \in Trades, Capped(t),
         trade[t].status = "Funded", trade[t].expiresAt # None, now < trade[t].expiresAt
  PROVE  GetExtensionStatus(t).isExhausted <=> ~MayExtend(t, trade[t].expiresAt + 1)
<1> DEFINE e == trade[t].expiresAt
           o == ExtensionOrigin(t)
           k == extension[t].count
           most == config.extensionPolicy.maxExtensions
           secs == config.extensionPolicy.maxTotalSecs
<1>1. now \in Nat /\ e \in Nat /\ k \in Nat /\ most \in Nat /\ secs \in Nat /\ o \in Nat /\ o <= e
  BY ExtensionFacts
<1>2. GetExtensionStatus(t).isExhausted
        <=> \/ SaturatingSub(most, k) = 0
            \/ SaturatingSub(secs, SaturatingSub(e, o)) = 0
  BY DEF GetExtensionStatus
<1>3. MayExtend(t, e + 1) <=> e + 1 > now /\ e + 1 > e /\ k < most /\ (e + 1) - o <= secs
  BY DEF MayExtend, DeadlineAhead
<1>e. now < e
  OBVIOUS
<1> HIDE DEF e, o, k, most, secs
<1>4. SaturatingSub(most, k) = 0 <=> ~(k < most)
  BY <1>1, SMTT(30) DEF SaturatingSub
<1>5. SaturatingSub(e, o) = e - o
  BY <1>1, SMTT(30) DEF SaturatingSub
<1>6. SaturatingSub(secs, e - o) = 0 <=> ~((e + 1) - o <= secs)
  BY <1>1, SMT DEF SaturatingSub
<1>7. e + 1 > now /\ e + 1 > e
  BY <1>1, <1>e, SMTT(30)
<1>8. QED
  BY <1>2, <1>3, <1>4, <1>5, <1>6, <1>7 DEF e

\* MirrorAgrees: evaluateExtension and extend_deadline.
LEMMA MirrorAgrees ==
  ASSUME TypeOK, NEW t \in Trades, Capped(t), trade[t].status = "Funded", NEW d \in Nat
  PROVE  /\ EvaluateExtension(t, d) = "allowed" <=> MayExtend(t, d)
         /\ EvaluateExtension(t, d) = "allowed" => ~ExtensionBudget(t).isExhausted
<1>1. CASE trade[t].expiresAt = None
  BY <1>1 DEF EvaluateExtension, MayExtend
<1>2. CASE trade[t].expiresAt # None
  <2> DEFINE e == trade[t].expiresAt
             o == ExtensionOrigin(t)
             k == extension[t].count
             most == config.extensionPolicy.maxExtensions
             secs == config.extensionPolicy.maxTotalSecs
  <2>1. /\ now \in Nat /\ e \in Nat /\ k \in Nat /\ most \in Nat /\ secs \in Nat
        /\ o \in Nat /\ o <= e /\ FirstDeadline(t) = o
    BY <1>2, ExtensionFacts
  <2>2. EvaluateExtension(t, d) = "allowed"
          <=> ~(now >= e) /\ ~(d <= now) /\ ~(d <= e) /\ ~(k >= most) /\ ~(d - o > secs)
    BY <1>2, <2>1 DEF EvaluateExtension, ExceedsLifetimeCap, PastLifetimeCap
  <2>3. MayExtend(t, d) <=> now < e /\ d > now /\ d > e /\ k < most /\ d - o <= secs
    BY <1>2 DEF MayExtend, DeadlineAhead
  <2>4. ExtensionBudget(t).isExhausted
          <=> \/ SaturatingSub(most, k) = 0
              \/ SaturatingSub(secs, SaturatingSub(e, o)) = 0
    BY <1>2, <2>1 DEF ExtensionBudget
  <2> HIDE DEF e, o, k, most, secs
  <2>5. EvaluateExtension(t, d) = "allowed" <=> MayExtend(t, d)
    <3>1. PICK n, x, y, i, j, l, u \in Int :
            /\ n = now /\ x = e /\ y = d
            /\ i = k /\ j = most /\ l = o /\ u = secs
      BY <2>1, SMTT(30)
    <3>2. ~(n >= x) /\ ~(y <= n) /\ ~(y <= x) /\ ~(i >= j) /\ ~(y - l > u)
            <=> n < x /\ y > n /\ y > x /\ i < j /\ y - l <= u
      BY SMTT(30)
    <3>3. QED
      BY <2>2, <2>3, <3>1, <3>2
  <2>6. SaturatingSub(e, o) = e - o
    <3>1. PICK x, y \in Int : x = e /\ y = o /\ y <= x
      BY <2>1, SMT
    <3>2. SaturatingSub(x, y) = x - y
      BY <3>1, SMTT(30) DEF SaturatingSub
    <3>3. QED
      BY <3>1, <3>2
  <2>7. d > e /\ k < most /\ d - o <= secs =>
          SaturatingSub(most, k) # 0 /\ SaturatingSub(secs, e - o) # 0
    <3>1. PICK x, y, i, j, l, u \in Int :
            x = e /\ y = d /\ i = k /\ j = most /\ l = o /\ u = secs
      BY <2>1, NatIsInt
    <3>2. y > x /\ i < j /\ y - l <= u => SaturatingSub(j, i) # 0 /\ SaturatingSub(u, x - l) # 0
      BY SMTT(30) DEF SaturatingSub
    <3>3. QED
      BY <3>1, <3>2
  <2>8. QED
    BY <2>3, <2>4, <2>5, <2>6, <2>7
<1>3. QED
  BY <1>1, <1>2

\* ExtensionsAgree: at every distance from the first deadline and whatever
\* policies were set meanwhile, extend_deadline, its view get_extension_status
\* and the backend's evaluateExtension give one verdict.
THEOREM ExtensionsAgree == Spec => []ExtensionVerdictsAgree
<1>1. BookInv => ExtensionVerdictsAgree
  <2> SUFFICES ASSUME BookInv
               PROVE  ExtensionVerdictsAgree
    OBVIOUS
  <2>1. TypeOK /\ Governed /\ \A t \in Trades : Capped(t)
    BY DEF BookInv
  <2>2. BudgetViewAgrees
    BY <2>1, ViewAgrees DEF BudgetViewAgrees
  <2>3. AssertPolicyWithinCeilings(config.extensionPolicy)
    BY <2>1 DEF Governed, AssertPolicyWithinCeilings
  <2>4. \A d \in 0..(MaxTime + ExtensionCeilingSecs) : d \in Nat
    BY SMT
  <2>5. MirrorExtensionVerdict
    BY <2>1, <2>3, <2>4, MirrorAgrees DEF MirrorExtensionVerdict
  <2>6. QED
    BY <2>2, <2>5 DEF ExtensionVerdictsAgree
<1>2. QED
  BY <1>1, BooksKept, PTL

-----------------------------------------------------------------------------
\* SortOrder: of two tallies the heavier, or of two as heavy the lower, is first,
\* and no two are each before the other.
LEMMA SortOrder ==
  ASSUME NEW b \in Int, NEW w \in Int, NEW c \in Int, NEW v \in Int
  PROVE  LET x == [bps |-> b, weight |-> w]
             y == [bps |-> c, weight |-> v]
         IN /\ v <= w /\ (v = w => b <= c) => y = x \/ Before(x, y)
            /\ ~(Before(x, y) /\ Before(y, x))
<1> DEFINE x == [bps |-> b, weight |-> w]
           y == [bps |-> c, weight |-> v]
<1>1. Before(x, y) <=> w > v \/ (w = v /\ b < c)
  BY DEF Before
<1>2. Before(y, x) <=> v > w \/ (v = w /\ c < b)
  BY DEF Before
<1>3. v = w /\ b = c => y = x
  OBVIOUS
<1> HIDE DEF x, y
<1>4. v <= w /\ (v = w => b <= c) => (v = w /\ b = c) \/ Before(x, y)
  BY <1>1, SMTT(30)
<1>5. ~(Before(x, y) /\ Before(y, x))
  BY <1>1, <1>2, SMT
<1>6. QED
  BY <1>3, <1>4, <1>5 DEF x, y

\* LeaderLeads: the outcome the mirror's sort puts first is the plurality.
LEMMA LeaderLeads ==
  ASSUME NEW votes \in Seq(VoteOf(Mediators)), NEW p, IsPlurality(votes, p)
  PROVE  Leader(votes) = [bps |-> p, weight |-> WeightForOutcome(votes, p)]
<1> DEFINE W(b) == WeightForOutcome(votes, b)
           l == [bps |-> p, weight |-> W(p)]
           tallies == {[bps |-> votes[i].bps, weight |-> W(votes[i].bps)] : i \in 1..Len(votes)}
<1>1. PICK j \in 1..Len(votes) : /\ p = votes[j].bps
                                 /\ \A k \in 1..Len(votes) : W(votes[k].bps) <= W(p)
  BY DEF IsPlurality, HeaviestOutcomes
<1>2. \A k \in 1..Len(votes) : W(votes[k].bps) \in Int /\ votes[k].bps \in Int
  BY WeightIsInt, VoteFields, SMTT(30)
<1>3. ASSUME NEW k \in 1..Len(votes), W(votes[k].bps) = W(p)
      PROVE  p <= votes[k].bps
  <2>1. votes[k].bps \in HeaviestOutcomes(votes)
    BY <1>1, <1>3 DEF HeaviestOutcomes
  <2>2. QED
    BY <2>1 DEF IsPlurality
<1> HIDE DEF W
<1>4. l \in tallies
  BY <1>1
<1>5. ASSUME NEW o \in tallies
      PROVE  o = l \/ Before(l, o)
  <2>1. PICK k \in 1..Len(votes) : o = [bps |-> votes[k].bps, weight |-> W(votes[k].bps)]
    BY <1>5
  <2>2. /\ W(votes[k].bps) <= W(p) /\ W(votes[k].bps) \in Int /\ W(p) \in Int
        /\ votes[k].bps \in Int /\ p \in Int
    BY <1>1, <1>2
  <2>3. W(votes[k].bps) = W(p) => p <= votes[k].bps
    BY <1>3
  <2>4. l = [bps |-> p, weight |-> W(p)]
    OBVIOUS
  <2> HIDE DEF l
  <2>5. PICK w, b, v \in Int : w = W(p) /\ b = votes[k].bps /\ v = W(votes[k].bps)
    BY <2>2
  <2>6. \/ [bps |-> b, weight |-> v] = [bps |-> p, weight |-> w]
        \/ Before([bps |-> p, weight |-> w], [bps |-> b, weight |-> v])
    <3>1. v <= w /\ (v = w => p <= b)
      BY <2>2, <2>3, <2>5
    <3>2. QED
      BY <2>2, <3>1, SortOrder
  <2>7. QED
    BY <2>1, <2>4, <2>5, <2>6
<1>6. ASSUME NEW f \in tallies, \A o \in tallies : o = f \/ Before(f, o)
      PROVE  f = l
  <2>1. PICK k \in 1..Len(votes) : f = [bps |-> votes[k].bps, weight |-> W(votes[k].bps)]
    BY <1>6
  <2>2. W(votes[k].bps) \in Int /\ W(p) \in Int /\ votes[k].bps \in Int /\ p \in Int
    BY <1>1, <1>2
  <2>3. (f = l \/ Before(l, f)) /\ (l = f \/ Before(f, l))
    BY <1>4, <1>5, <1>6
  <2>4. ~(Before(l, f) /\ Before(f, l))
    <3>1. l = [bps |-> p, weight |-> W(p)]
      OBVIOUS
    <3> HIDE DEF l
    <3>2. PICK w, b, v \in Int : w = W(p) /\ b = votes[k].bps /\ v = W(votes[k].bps)
      BY <2>2
    <3>3. ~(/\ Before([bps |-> p, weight |-> w], [bps |-> b, weight |-> v])
            /\ Before([bps |-> b, weight |-> v], [bps |-> p, weight |-> w]))
      BY <2>2, SortOrder
    <3>4. QED
      BY <2>1, <3>1, <3>2, <3>3
  <2>5. QED
    BY <2>3, <2>4
<1> HIDE DEF l, tallies
<1>7. l = CHOOSE f \in tallies : \A o \in tallies : o = f \/ Before(f, o)
  BY <1>4, <1>5, <1>6
<1>8. Leader(votes) = CHOOSE f \in tallies : \A o \in tallies : o = f \/ Before(f, o)
  BY DEF Leader, TallyVotes, SortsBefore, tallies, W
<1>9. QED
  BY <1>7, <1>8 DEF l, W

\* MirrorFollows: the mirror's view of one dispute.
LEMMA MirrorFollows ==
  ASSUME TypeOK, NEW t \in Trades, Voted(t), Balanced(t), trade[t].status = "Disputed"
  PROVE  LET votes == quorumState[t].votes
             onChain == votes # <<>> /\ VoteWindowClosed(t) /\ EnoughForFallback(t)
         IN /\ PendingResolution(t).via = (IF onChain THEN "fallback" ELSE "none")
            /\ onChain => PendingResolution(t).bps = PluralityOutcome(votes).bps
<1> DEFINE votes == quorumState[t].votes
           onChain == votes # <<>> /\ VoteWindowClosed(t) /\ EnoughForFallback(t)
<1>1. published[t].ruling = None
  BY DEF Balanced
<1>2. CASE votes = <<>>
  <2>1. quorumState[t].openedAt = None
    BY <1>2 DEF Voted
  <2>2. QuorumStatus(t).quorumReached = FALSE /\ QuorumStatus(t).fallbackAvailable = FALSE
    BY <1>2, <2>1 DEF QuorumStatus
  <2>3. PendingResolution(t).via = "none"
    BY <2>2 DEF PendingResolution
  <2>4. QED
    BY <1>2, <2>3
<1>3. CASE votes # <<>>
  <2> DEFINE p == PluralityOutcome(votes).bps
  <2>1. votes \in Seq(VoteOf(Mediators)) /\ quorumState[t].openedAt # None
    BY <1>3, VoteTypes DEF Voted
  <2>2. IsPlurality(votes, p) /\ p \in 0..BPS_DIVISOR
    BY <1>3, <2>1, PluralityCorrect
  <2>3. Leader(votes).bps = p /\ Leader(votes).weight = WeightForOutcome(votes, p)
    <3>1. Leader(votes) = [bps |-> p, weight |-> WeightForOutcome(votes, p)]
      BY <2>1, <2>2, LeaderLeads
    <3> HIDE DEF votes, p
    <3>2. QED
      BY <3>1, SMTT(30)
  <2>4. WeightForOutcome(votes, p) < config.quorum.requiredWeight
    BY <1>1, <1>3, <2>2 DEF Voted
  <2>5. ~(Leader(votes).weight >= config.quorum.requiredWeight)
    <3>1. WeightForOutcome(votes, p) \in Int /\ config.quorum.requiredWeight \in Int
      BY <2>1, WeightIsInt, QuorumTypes, SMTT(30)
    <3>2. PICK x, y \in Int : x = WeightForOutcome(votes, p) /\ y = config.quorum.requiredWeight
      BY <3>1
    <3>3. x < y
      BY <2>4, <3>2
    <3>4. ~(x >= y)
      BY <3>3, SMTT(30)
    <3> HIDE DEF votes, p
    <3>5. QED
      BY <2>3, <3>2, <3>4
  <2>6. /\ QuorumStatus(t).quorumReached = FALSE
        /\ QuorumStatus(t).fallbackAvailable <=> VoteWindowClosed(t) /\ EnoughForFallback(t)
    BY <2>1, <2>5 DEF QuorumStatus, VoteWindowClosed, EnoughForFallback
  <2>7. PendingResolution(t).via = IF onChain THEN "fallback" ELSE "none"
    BY <1>3, <2>6 DEF PendingResolution
  <2>8. PendingResolution(t).bps = p
    BY <1>3, <2>3 DEF PendingResolution
  <2>9. QED
    BY <2>7, <2>8
<1>4. QED
  BY <1>2, <1>3

\* MirrorKeepsUp: under one quorum policy the backend's mediatorQuorum.service
\* gives the contract's verdict on every vote and every fallback, and every
\* setting the contract accepts passes the mirror's own checks.
THEOREM MirrorKeepsUp == OneQuorumPolicy /\ Spec => []MirrorOffersFallback
<1>1. BookInv /\ (\A t \in Trades : Voted(t)) => MirrorOffersFallback
  <2> SUFFICES ASSUME BookInv, \A t \in Trades : Voted(t)
               PROVE  MirrorOffersFallback
    OBVIOUS
  <2>1. TypeOK /\ Governed /\ \A t \in Trades : Balanced(t)
    BY DEF BookInv
  <2>2. config.quorum = DefaultQuorumConfig \/ AssertQuorumConfigValid(config.quorum)
    <3>0. config.quorum \in QuorumType
      BY <2>1 DEF TypeOK, ConfigType
    <3>1. config.quorum.valueThreshold >= 0
      BY <3>0, SMT DEF QuorumType
    <3>2. QED
      BY <2>1, <3>1 DEF Governed, ValidQuorum, AssertQuorumConfigValid
  <2>3. \A m \in Mediators : AssertMediatorWeightValid(config.weight[m])
    BY <2>1 DEF Governed, AssertMediatorWeightValid
  <2>4. ASSUME NEW t \in Trades, RequiresQuorum(t), NEW m \in Mediators, NEW bps \in Rulings,
               RequireMediator(m)
        PROVE  EvaluateVote(t, m, bps) = "allowed" <=> MayVote(t, m) /\ bps <= BPS_DIVISOR
    <3>1. bps \in Int /\ BPS_DIVISOR \in Int
      BY InputTypes, SMT DEF BPS_DIVISOR
    <3>2. MirrorRequiresQuorum(t)
      BY <2>4 DEF MirrorRequiresQuorum, RequiresQuorum
    <3>3. bps <= BPS_DIVISOR <=> ~(bps > BPS_DIVISOR)
      BY <3>1, SMTT(30)
    <3>4. QED
      BY <2>4, <3>2, <3>3 DEF EvaluateVote, MayVote
  <2>5. MirrorFollowsVotes
    BY <2>1, <2>4, MirrorFollows DEF MirrorFollowsVotes
  <2>6. QED
    BY <2>2, <2>3, <2>5 DEF MirrorOffersFallback
<1>2. QED
  BY <1>1, BooksKept, VotesAlways, PTL
=============================================================================
