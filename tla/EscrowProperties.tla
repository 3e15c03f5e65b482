-------------------------- MODULE EscrowProperties --------------------------
(***************************************************************************)
(* What the amana_escrow contract is meant to guarantee, and what its      *)
(* documents say of it.                                                    *)
(***************************************************************************)
EXTENDS Escrow

Status == {"None", "Created"} \cup Live \cup Terminal
Steps  == {"created", "funded", "manifest", "delivered", "disputed", "released",
           "resolved", "cancelled", "expired"}
EventKinds == {"created", "funded", "cancelled", "deadline_extended", "delivered", "released",
               "disputed", "resolved", "clawback_full", "clawback_partial"}

ConfigType ==
  [initialized : BOOLEAN, feeBps : 0..BPS_DIVISOR, paused : BOOLEAN,
   guardians : SUBSET Guardians, mediator : Mediators \cup {None}, registry : SUBSET Mediators,
   weight : [Mediators -> Nat], assets : SUBSET Assets, extensionPolicy : PolicyType,
   quorum : QuorumType, clawbackEnabled : BOOLEAN]
TradeType ==
  [status : Status, amount : Nat, buyer : Buyers \cup {None}, seller : Sellers \cup {None},
   sellerLossBps : 0..BPS_DIVISOR, expiresAt : Nat \cup {None}]
VoteType == [mediator : Mediators, bps : 0..BPS_DIVISOR, weight : Nat]
OpOf(kind, trades, destinations, hashes) ==
  [kind : {kind}, trade : trades, amount : Nat, destination : destinations, hash : hashes,
   queuedAt : Nat, executeAfter : Nat, executed : BOOLEAN, cancelled : BOOLEAN]
OpType == OpOf("clawback", Trades, Destinations, {None})
            \cup OpOf("upgrade", {None}, {None}, WasmHashes)
RulingType == [how : {"mediator", "quorum", "fallback"}, bps : 0..BPS_DIVISOR]

\* A ruling is never mistaken for its absence.
ASSUME NoneIsNoRuling == None \notin RulingType

PublishedType ==
  [funded : Nat, seller : Nat, buyer : Nat, fee : Nat, ruling : RulingType \cup {None}]

\* TypeOK: every storage entry has the shape the contract's types give it; in
\* particular no balance, amount or payout is ever negative.
TypeOK ==
  /\ now \in Nat
  /\ config \in ConfigType
  /\ metrics \in [trades : 0..MaxTrades, disputes : Nat, resolved : Nat]
  /\ token \in [Address -> Nat]
  /\ sourceHeld \in Nat
  /\ accruedFees \in Nat
  /\ trade \in [Trades -> TradeType]
  /\ releaseSequence \in [Trades -> SUBSET Steps]
  /\ tradeHistory \in [Trades -> Seq(EventKinds)]
  /\ cancelRequest \in [Trades -> SUBSET Address]
  /\ pathPaymentIntent \in [Trades -> [destMin : Nat, balanceBefore : Nat] \cup {None}]
  /\ extension \in [Trades -> [count : Nat, original : Nat \cup {None}]]
  /\ clawbackTotal \in [Trades -> Nat]
  /\ quorumState \in [Trades -> [votes : Seq(VoteType), openedAt : Nat \cup {None}]]
  /\ exhibits \in [Trades -> [evidence : Seq([submitter : Address, hash : Hashes]),
                              video : Hashes \cup {None}, manifest : Hashes \cup {None}]]
  /\ queue \in Seq(OpType)
  /\ wasm \in WasmHashes \cup {None}
  /\ published \in [Trades -> PublishedType]

\* What the contract owes the parties of a trade.
Owed == [t \in Trades |-> IF trade[t].status \in Live THEN trade[t].amount ELSE 0]

\* Solvency: the contract's cNGN covers the escrow of every live trade and
\* the fees not yet withdrawn, whatever deposits, releases, rulings, refunds,
\* clawbacks and withdrawals have interleaved on them.
Solvency == token[Escrow] >= SumTo(Owed, MaxTrades) + accruedFees

\* The contract seen as the abstract vault.
Phase == [t \in Trades |-> IF trade[t].status \in Live THEN "locked"
                           ELSE IF trade[t].status \in Terminal THEN "closed" ELSE "open"]

Vault == INSTANCE Custody WITH
  N <- MaxTrades, held <- token[Escrow], owed <- Owed, fees <- accruedFees, phase <- Phase

\* RefinesCustody: seen from the vault, every call is a step of Custody: a
\* deposit locks a trade's funds once, and nothing leaves the contract that a
\* trade or the accrued fees do not give up in the same call.
RefinesCustody == Vault!Spec

\* TradeConservation: what the funding event of a trade announced is, to the
\* unit, what it still holds plus what its payout, refund, fee and clawbacks
\* took out.
TradeConservation ==
  \A t \in Trades :
    published[t].funded = Owed[t] + clawbackTotal[t]
      + published[t].seller + published[t].buyer + published[t].fee

\* RefundIsWhole: a trade that ends Cancelled never pays the seller nor a fee;
\* all its escrow went back to the buyer or was clawed back.
RefundIsWhole ==
  \A t \in Trades : trade[t].status = "Cancelled" =>
    published[t].buyer + clawbackTotal[t] = published[t].funded

\* WalletsReconcile: a party's cNGN balance differs from the one it started
\* with by exactly the deposits and payouts of its own trades.
WalletsReconcile ==
  \A a \in (Buyers \cup Sellers) \ (Destinations \cup {Admin}) :
    token[a] = Wallet + SumTo([t \in Trades |->
        (IF trade[t].seller = a THEN published[t].seller ELSE 0)
      + (IF trade[t].buyer = a THEN published[t].buyer - published[t].funded ELSE 0)], MaxTrades)

\* The edges of the status diagram.
Transitions ==
  ({"None"} \X {"Created"}) \cup ({"Created"} \X {"Funded", "Cancelled"})
    \cup ({"Funded"} \X {"Delivered", "Disputed", "Cancelled"})
    \cup ({"Delivered", "Disputed"} \X Terminal)

\* StatusMachine: a trade moves only along the edges of the status diagram
\* that the entrypoints implement; Completed and Cancelled have none.
StatusMachine ==
  [][\A t \in Trades : trade'[t].status # trade[t].status =>
       <<trade[t].status, trade'[t].status>> \in Transitions]_vars

\* SettledForGood: once a trade is closed, no later call changes its record,
\* pays on its account again or claws anything back from it.
SettledForGood ==
  [][\A t \in Trades : trade[t].status \in Terminal =>
       /\ trade'[t] = trade[t]
       /\ published'[t] = published[t]
       /\ clawbackTotal'[t] = clawbackTotal[t]]_vars

\* DeadlineCap: however the policy changes between extensions, a deadline is
\* never further from the trade's first one than the ceiling, nor moved more
\* often than the ceiling allows.
DeadlineCap ==
  \A t \in Trades : extension[t].count > 0 =>
    /\ extension[t].original # None
    /\ trade[t].expiresAt > extension[t].original
    /\ trade[t].expiresAt - extension[t].original <= ExtensionCeilingSecs
    /\ extension[t].count <= ExtensionCeilingCount

\* BudgetViewAgrees: while a deadline can still be moved at all, the view
\* get_extension_status calls the budget exhausted exactly when extend_deadline
\* would refuse the smallest extension, also after the policy was tightened
\* below what the trade has already used.
BudgetViewAgrees ==
  \A t \in Trades :
    trade[t].status = "Funded" /\ trade[t].expiresAt # None /\ now < trade[t].expiresAt =>
      (GetExtensionStatus(t).isExhausted <=> ~MayExtend(t, trade[t].expiresAt + 1))

\* ExpiredStaysExpired: a deadline only moves later, only while the trade is
\* Funded, and never again once it has passed.
ExpiredStaysExpired ==
  [][\A t \in Trades :
       trade[t].status # "None" /\ trade'[t].expiresAt # trade[t].expiresAt =>
         /\ trade[t].status = "Funded"
         /\ now < trade[t].expiresAt
         /\ trade[t].expiresAt < trade'[t].expiresAt]_vars

\* RevocationComplete: the two mediator checks of the contract, registry or
\* legacy slot in require_mediator and registry alone in is_mediator, always
\* agree, whichever way a mediator was registered and removed.
RevocationComplete == \A m \in Mediators : RequireMediator(m) <=> IsMediator(m)

\* MetricsMatch: the aggregate counters agree with the trades they count,
\* through every way a dispute can end, a full clawback included.
MetricsMatch ==
  /\ metrics.trades = Cardinality({t \in Trades : trade[t].status # "None"})
  /\ metrics.disputes = Cardinality({t \in Trades : "disputed" \in releaseSequence[t]})
  /\ metrics.resolved = Cardinality({t \in Trades : published[t].ruling # None})

-----------------------------------------------------------------------------
\* OneVoteEach: no mediator counts twice in a dispute, even one that was
\* removed, re-added or re-weighted between two calls.
OneVoteEach ==
  \A t \in Trades : \A i, j \in 1..Len(quorumState[t].votes) :
    i # j => quorumState[t].votes[i].mediator # quorumState[t].votes[j].mediator

\* FallbackOutcomeIsPlurality: for every set of votes the contract can hold,
\* the loop of plurality_outcome returns the heaviest outcome, and the lowest
\* one of a tie, in whatever order the votes came.
FallbackOutcomeIsPlurality ==
  \A t \in Trades : quorumState[t].votes # <<>> =>
    IsPlurality(quorumState[t].votes, PluralityOutcome(quorumState[t].votes).bps)

\* RulingIsPlurality: under one quorum policy, a dispute that votes decided,
\* by quorum or by fallback, was decided for the outcome with most weight.
RulingIsPlurality ==
  \A t \in Trades :
    published[t].ruling # None /\ published[t].ruling.how \in {"quorum", "fallback"} =>
      IsPlurality(quorumState[t].votes, published[t].ruling.bps)

\* NoEarlyFallback: a ruling by fallback always comes a full vote window after
\* the first vote, and never when one outcome already had quorum.
NoEarlyFallback ==
  \A t \in Trades :
    published[t].ruling # None /\ published[t].ruling.how = "fallback" =>
      /\ now >= quorumState[t].openedAt + config.quorum.voteWindow
      /\ WeightForOutcome(quorumState[t].votes, published[t].ruling.bps)
           < config.quorum.requiredWeight

\* VotedRulingsHold: a ruling by vote is the plurality's, and one by fallback is
\* neither early nor instead of a quorum (cast_dispute_vote,
\* resolve_dispute_by_fallback).
VotedRulingsHold == RulingIsPlurality /\ NoEarlyFallback

\* FallbackResolves: a dispute whose votes reach the fallback weight is not
\* stranded; it ends once the window closes, because either party can call
\* resolve_dispute_by_fallback.  (Windows that close within MaxTime: the
\* instance has no later ledgers.)
FallbackResolves ==
  \A t \in Trades :
    (/\ trade[t].status = "Disputed"
     /\ RequiresQuorum(t)
     /\ quorumState[t].votes # <<>>
     /\ quorumState[t].openedAt + config.quorum.voteWindow <= MaxTime
     /\ TotalVoteWeight(quorumState[t].votes) >= config.quorum.fallbackMinWeight)
      ~> trade[t].status # "Disputed"

-----------------------------------------------------------------------------
\* TimelockHonoured: an operation that was executed was never cancelled, and
\* its delay had passed.
TimelockHonoured ==
  \A i \in 1..Len(queue) : queue[i].executed =>
    /\ ~queue[i].cancelled
    /\ now >= queue[i].queuedAt
         + (IF queue[i].kind = "clawback" THEN ClawbackDelay ELSE UpgradeDelay)

\* ClawbackAccountable: each time a trade's ClawbackTotal grows, either the
\* trade's history records it or a queued operation for that very trade
\* and amount turns from pending to executed; no operation pays twice.
ClawbackAccountable ==
  [][\A t \in Trades : clawbackTotal'[t] # clawbackTotal[t] =>
       \/ Len(tradeHistory'[t]) = Len(tradeHistory[t]) + 1
       \/ \E i \in 1..Len(queue) :
            /\ ~queue[i].executed /\ queue'[i].executed
            /\ queue[i].trade = t
            /\ queue[i].amount = clawbackTotal'[t] - clawbackTotal[t]]_vars

-----------------------------------------------------------------------------
(* Statements of the repository's documents and comments that the code     *)
(* does not keep.                                                          *)

\* GetClaimedAmount: the view get_claimed_amount.
GetClaimedAmount(t) ==
  IF trade[t].status = "Completed" THEN trade[t].amount - clawbackTotal[t] ELSE 0

\* ClaimedIsReleased: get_claimed_amount "Returns amount released to seller
\* (accounting for clawbacks)": for a trade released without a dispute it is
\* what the release event paid out of escrow.
ClaimedIsReleased ==
  \A t \in Trades : "released" \in releaseSequence[t] =>
    GetClaimedAmount(t) = published[t].seller + published[t].fee

\* PathsNotMixed: "the two paths cannot be confused or used to bypass one
\* another": one mediator never decides a dispute that is under vote.
PathsNotMixed ==
  \A t \in Trades :
    published[t].ruling # None /\ published[t].ruling.how = "mediator" =>
      quorumState[t].votes = <<>>

\* PathFundsCustodied: deposit_with_path ends in "custodying required trade
\* amount in escrow": the contract holds the escrow of every live trade, those
\* funded by a path payment included.
PathFundsCustodied == token[Escrow] >= SumTo(Owed, MaxTrades)
=============================================================================
