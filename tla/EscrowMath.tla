----------------------------- MODULE EscrowMath -----------------------------
(***************************************************************************)
(* The integer arithmetic of the amana_escrow contract: platform fee,      *)
(* loss-sharing split of a dispute, and the tallies of the mediator quorum.*)
(* Amounts are i128 in the code and every product of a legal amount stays  *)
(* below 2^127, so they are unbounded integers here; division truncates,   *)
(* as it does in the code on non-negative operands.                        *)
(***************************************************************************)
EXTENDS Integers, Sequences, Sums

BPS_DIVISOR == 10000
MIN_FEE_BPS == 1
MAX_FEE_BPS == 500

\* The platform's share of an amount.
CheckedFeeAmount(amount, feeBps) == (amount * feeBps) \div BPS_DIVISOR

\* The seller's share of a loss of lossBps.
CheckedLossAmount(total, lossBps, sellerLossBps) ==
  (total * lossBps * sellerLossBps) \div (BPS_DIVISOR * BPS_DIVISOR)

ReleaseSplit(amount, feeBps) ==
  LET fee == CheckedFeeAmount(amount, feeBps)
  IN  [seller |-> amount - fee, buyer |-> 0, fee |-> fee]

\* What a ruling pays: the seller bears its agreed share of the loss, the
\* buyer is refunded the rest, the fee comes out of the seller's part only.
SettleSplit(total, sellerGetsBps, sellerLossBps, feeBps) ==
  LET lossBps   == BPS_DIVISOR - sellerGetsBps
      sellerRaw == total - CheckedLossAmount(total, lossBps, sellerLossBps)
      fee       == CheckedFeeAmount(sellerRaw, feeBps)
  IN  [seller |-> sellerRaw - fee, buyer |-> total - sellerRaw, fee |-> fee]

\* The assertions release_funds and settle_dispute make before they pay.
Conserves(split, total) ==
  /\ split.seller >= 0
  /\ split.buyer >= 0
  /\ split.fee >= 0
  /\ split.seller + split.buyer + split.fee = total

-----------------------------------------------------------------------------
\* Votes are a sequence of [mediator, bps, weight], in the order cast.

TotalVoteWeight(votes) == SumTo([i \in 1..Len(votes) |-> votes[i].weight], Len(votes))

\* Weight pools per outcome, not across all votes.
WeightForOutcome(votes, bps) ==
  SumTo([i \in 1..Len(votes) |-> IF votes[i].bps = bps THEN votes[i].weight ELSE 0], Len(votes))

\* Lets a later candidate replace the best one on a tie.
PluralityLastTie(votes) ==
  LET best[i \in 0..Len(votes)] ==
        IF i = 0 THEN [bps |-> 0, weight |-> 0]
        ELSE LET w == WeightForOutcome(votes, votes[i].bps)
             IN  IF w >= best[i-1].weight
                 THEN [bps |-> votes[i].bps, weight |-> w] ELSE best[i-1]
  IN  best[Len(votes)]

\* The loop of plurality_outcome: candidates in voting order, a heavier
\* outcome replaces the best so far, a tie goes to the lower bps.
PluralityOutcome(votes) ==
  LET best[i \in 0..Len(votes)] ==
        IF i = 0 THEN [bps |-> 0, weight |-> 0]
        ELSE LET bps  == votes[i].bps
                 w    == WeightForOutcome(votes, bps)
                 wins == \/ i = 1
                         \/ w > best[i-1].weight
                         \/ w = best[i-1].weight /\ bps < best[i-1].bps
             IN  IF wins THEN [bps |-> bps, weight |-> w] ELSE best[i-1]
  IN  best[Len(votes)]

\* Reference definition: the outcomes voted for that no other one outweighs,
\* and of those the lowest.
HeaviestOutcomes(votes) ==
  {votes[i].bps : i \in {j \in 1..Len(votes) : \A k \in 1..Len(votes) :
      WeightForOutcome(votes, votes[k].bps) <= WeightForOutcome(votes, votes[j].bps)}}

IsPlurality(votes, bps) ==
  /\ bps \in HeaviestOutcomes(votes)
  /\ \A other \in HeaviestOutcomes(votes) : bps <= other
=============================================================================
