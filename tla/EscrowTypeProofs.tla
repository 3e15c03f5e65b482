-------------------------- MODULE EscrowTypeProofs --------------------------
(***************************************************************************)
(* What the vote count of a dispute computes, for any number of votes;     *)
(* then the type correctness of the escrow contract, for every set of      *)
(* parties, amounts, rates and policies and every number of trades:        *)
(* storage by groups, the shared helpers, one lemma per group of           *)
(* entrypoints.                                                            *)
(***************************************************************************)
EXTENDS EscrowProperties, SumLemmas

\* Most leaves are first-order and go to Zenon; a leaf with arithmetic, records or
\* EXCEPT in it names SMT.
USE Zenon

VoteOf(voters) == [mediator : voters, bps : 0..BPS_DIVISOR, weight : Nat]

\* BpsRange: a whole is a natural number of basis points, and every fee rate
\* update_fee_bps accepts is a part of it.
LEMMA BpsRange ==
  /\ BPS_DIVISOR \in Nat
  /\ \A f \in Nat : f <= BPS_DIVISOR => f \in 0..BPS_DIVISOR
  /\ \A f \in MIN_FEE_BPS..MAX_FEE_BPS : f \in 0..BPS_DIVISOR
<1>1. BPS_DIVISOR \in Nat
  BY SMT DEF BPS_DIVISOR
<1>2. MIN_FEE_BPS \in Nat /\ MAX_FEE_BPS \in Nat
  BY SMT DEF MIN_FEE_BPS, MAX_FEE_BPS
<1>3. MAX_FEE_BPS <= BPS_DIVISOR
  BY SMT DEF MAX_FEE_BPS, BPS_DIVISOR
<1>4. QED
  BY <1>1, <1>2, <1>3, SMT

\* ShareIsInt: a share in basis points is a whole number.
LEMMA ShareIsInt ==
  /\ \A n, m \in Int : (n * m) \div BPS_DIVISOR \in Int
  /\ \A n \in Int : n \div (BPS_DIVISOR * BPS_DIVISOR) \in Int
<1>1. BPS_DIVISOR \in Int /\ BPS_DIVISOR * BPS_DIVISOR \in Int
  BY BpsRange, SMT
<1>2. BPS_DIVISOR > 0 /\ BPS_DIVISOR * BPS_DIVISOR > 0
  BY SMT DEF BPS_DIVISOR
<1>3. \A n, d \in Int : d > 0 => n \div d \in Int
  BY SMT
<1>4. \A n, m \in Int : n * m \in Int
  BY SMT
<1>5. QED
  BY <1>1, <1>2, <1>3, <1>4

\* VoteFields: each vote names an outcome and carries a weight.
LEMMA VoteFields ==
  ASSUME NEW voters, NEW votes \in Seq(VoteOf(voters)), NEW i \in 1..Len(votes)
  PROVE  /\ votes[i].bps \in 0..BPS_DIVISOR /\ votes[i].bps \in Nat
         /\ votes[i].weight \in Nat
<1>1. votes[i] \in VoteOf(voters)
  BY SMT
<1>2. QED
  BY <1>1, BpsRange, SMT DEF VoteOf

\* WeightIsInt: the weight an outcome pools is a number.
LEMMA WeightIsInt ==
  ASSUME NEW voters, NEW votes \in Seq(VoteOf(voters)), NEW bps
  PROVE  WeightForOutcome(votes, bps) \in Int
<1> DEFINE f == [i \in 1..Len(votes) |-> IF votes[i].bps = bps THEN votes[i].weight ELSE 0]
<1>1. f \in [1..Len(votes) -> Int] /\ Len(votes) \in Nat
  BY VoteFields, SMT
<1> HIDE DEF f
<1>2. SumTo(f, Len(votes)) \in Int
  BY <1>1, SumIsInt
<1>3. QED
  BY <1>2 DEF f, WeightForOutcome

\* The candidate x is the best of the first k votes.
Leads(votes, x, k) ==
  /\ x.weight = WeightForOutcome(votes, x.bps)
  /\ \E j \in 1..k : votes[j].bps = x.bps
  /\ \A j \in 1..k :
       \/ WeightForOutcome(votes, votes[j].bps) < x.weight
       \/ WeightForOutcome(votes, votes[j].bps) = x.weight /\ x.bps <= votes[j].bps

\* The loop body of plurality_outcome.
Better(votes, i, best) ==
  LET bps == votes[i].bps
      w   == WeightForOutcome(votes, bps)
  IN  IF i = 1 \/ w > best.weight \/ (w = best.weight /\ bps < best.bps)
      THEN [bps |-> bps, weight |-> w] ELSE best

Candidates == [bps : 0..BPS_DIVISOR, weight : Int]

\* BetterIsCandidate: the loop body returns an outcome and its weight.
LEMMA BetterIsCandidate ==
  ASSUME NEW voters, NEW votes \in Seq(VoteOf(voters)), NEW i \in 1..Len(votes), NEW x \in Candidates
  PROVE  Better(votes, i, x) \in Candidates
<1>1. votes[i].bps \in 0..BPS_DIVISOR
  BY VoteFields
<1>2. WeightForOutcome(votes, votes[i].bps) \in Int
  BY WeightIsInt
<1>3. QED
  BY <1>1, <1>2 DEF Better, Candidates

\* NotOvertaken: of two candidates the heavier, or of two as heavy the lower, leads.
LEMMA NotOvertaken ==
  ASSUME NEW w \in Int, NEW b \in Int, NEW xw \in Int, NEW xb \in Int,
         ~(w > xw \/ (w = xw /\ b < xb))
  PROVE  w < xw \/ (w = xw /\ xb <= b)
BY SMT

\* BetterLeads: one turn of the loop keeps the best candidate so far.
LEMMA BetterLeads ==
  ASSUME NEW voters, NEW votes \in Seq(VoteOf(voters)), NEW i \in 1..Len(votes),
         NEW x \in Candidates, i = 1 \/ Leads(votes, x, i - 1)
  PROVE  Leads(votes, Better(votes, i, x), i)
<1> DEFINE W(j) == WeightForOutcome(votes, votes[j].bps)
<1>1. \A j \in 1..i : votes[j].bps \in Int /\ W(j) \in Int
  BY WeightIsInt, VoteFields, SMT
<1>a. i \in 1..i
  BY SMT
<1>2. x.bps \in Int /\ x.weight \in Int
  BY BpsRange, SMT DEF Candidates
<1>3. CASE i = 1
  BY <1>1, <1>3, SMT DEF Better, Leads
<1>4. CASE i # 1 /\ (W(i) > x.weight \/ (W(i) = x.weight /\ votes[i].bps < x.bps))
  <2> DEFINE y == [bps |-> votes[i].bps, weight |-> W(i)]
  <2>1. Better(votes, i, x) = y
    BY <1>4 DEF Better
  <2>2. Leads(votes, x, i - 1)
    BY <1>4
  <2>3. ASSUME NEW j \in 1..i
        PROVE  W(j) < y.weight \/ (W(j) = y.weight /\ y.bps <= votes[j].bps)
    <3>1. CASE j = i
      BY <1>1, <3>1, SMT
    <3>2. CASE j # i
      <4>1. j \in 1..(i-1)
        BY <3>2, SMT
      <4>2. W(j) < x.weight \/ (W(j) = x.weight /\ x.bps <= votes[j].bps)
        BY <2>2, <4>1 DEF Leads
      <4>3. votes[j].bps \in Int /\ W(j) \in Int /\ votes[i].bps \in Int /\ W(i) \in Int
        BY <1>1, <1>a
      <4>4. PICK w, b, v, c, xw, xb \in Int :
              /\ w = W(i) /\ b = votes[i].bps /\ v = W(j) /\ c = votes[j].bps
              /\ xw = x.weight /\ xb = x.bps
        BY <1>2, <4>3
      <4>5. (w > xw \/ (w = xw /\ b < xb)) /\ (v < xw \/ (v = xw /\ xb <= c))
        BY <1>4, <4>2, <4>4
      <4>6. v < w \/ (v = w /\ b <= c)
        BY <4>5, SMT
      <4>7. QED
        BY <4>4, <4>6
    <3>3. QED
      BY <3>1, <3>2
  <2>4. QED
    BY <2>1, <2>3, SMTT(30) DEF Leads
<1>5. CASE i # 1 /\ ~(W(i) > x.weight \/ (W(i) = x.weight /\ votes[i].bps < x.bps))
  <2>1. Better(votes, i, x) = x
    BY <1>5 DEF Better
  <2>2. Leads(votes, x, i - 1)
    BY <1>5
  <2>3. W(i) < x.weight \/ (W(i) = x.weight /\ x.bps <= votes[i].bps)
    BY <1>1, <1>2, <1>5, <1>a, NotOvertaken
  <2>4. \A j \in 1..i : j = i \/ j \in 1..(i-1)
    BY SMT
  <2>5. QED
    BY <2>1, <2>2, <2>3, <2>4, SMTT(30) DEF Leads
<1>6. QED
  BY <1>3, <1>4, <1>5

\* PluralityIsLoop: PluralityOutcome runs the loop body over all votes.
LEMMA PluralityIsLoop ==
  ASSUME NEW voters, NEW votes \in Seq(VoteOf(voters))
  PROVE  \E g : /\ g[0] = [bps |-> 0, weight |-> 0]
                /\ \A i \in 1..Len(votes) : g[i] = Better(votes, i, g[i-1])
                /\ PluralityOutcome(votes) = g[Len(votes)]
<1> DEFINE n == Len(votes)
           zero == [bps |-> 0, weight |-> 0]
           Body(g) == [i \in 0..n |->
             IF i = 0 THEN [bps |-> 0, weight |-> 0]
             ELSE LET bps  == votes[i].bps
                      w    == WeightForOutcome(votes, bps)
                      wins == \/ i = 1
                              \/ w > g[i-1].weight
                              \/ w = g[i-1].weight /\ bps < g[i-1].bps
                  IN  IF wins THEN [bps |-> bps, weight |-> w] ELSE g[i-1]]
           step == [p \in (1..n) \X Candidates |-> Better(votes, p[1], p[2])]
           best == CHOOSE g : g = Body(g)
<1>1. PluralityOutcome(votes) = best[n]
  BY DEF PluralityOutcome
<1>2. step \in [(1..n) \X Candidates -> Candidates]
  BY BetterIsCandidate
<1>3. \A k \in 1..n, x \in Candidates : step[<<k, x>>] = Better(votes, k, x)
  OBVIOUS
<1> HIDE DEF step
<1>4. zero \in Candidates
  BY BpsRange, SMT DEF Candidates
<1> HIDE DEF zero
<1>5. PICK g \in [0..n -> Candidates] : Unfolds(g, n, zero, step)
  <2>1. n \in Nat
    BY SMT
  <2> HIDE DEF n
  <2>2. QED
    BY <1>2, <1>4, <2>1, RecursionExists
<1>6. g[0] = zero /\ \A k \in 1..n : g[k] = Better(votes, k, g[k-1])
  <2>1. \A k \in 1..n : g[k-1] \in Candidates
    BY SMT
  <2>2. QED
    BY <1>3, <1>5, <2>1 DEF Unfolds
<1>7. ASSUME NEW h
      PROVE  h = Body(h) <=> /\ h = [i \in 0..n |-> h[i]]
                             /\ h[0] = zero
                             /\ \A k \in 1..n : h[k] = Better(votes, k, h[k-1])
  <2>1. \A k \in 1..n : Body(h)[k] = Better(votes, k, h[k-1])
    BY SMT DEF Better
  <2>2. Body(h)[0] = zero
    BY SMT DEF zero
  <2>3. Body(h) = [i \in 0..n |-> Body(h)[i]]
    OBVIOUS
  <2> HIDE DEF Body
  <2>4. CASE h = Body(h)
    BY <2>1, <2>2, <2>3, <2>4
  <2>5. ASSUME h = [i \in 0..n |-> h[i]], h[0] = zero,
               \A k \in 1..n : h[k] = Better(votes, k, h[k-1])
        PROVE  h = Body(h)
    <3>1. ASSUME NEW i \in 0..n
          PROVE  h[i] = Body(h)[i]
      <4>1. i = 0 \/ i \in 1..n
        BY SMT
      <4>2. QED
        BY <2>1, <2>2, <2>5, <4>1
    <3>2. QED
      BY <2>3, <2>5, <3>1
  <2>6. QED
    BY <2>4, <2>5
<1> HIDE DEF Body
<1>8. g = Body(g)
  BY <1>6, <1>7
<1>9. best = Body(best)
  BY <1>8
<1> HIDE DEF best
<1>10. best[0] = zero /\ \A k \in 1..n : best[k] = Better(votes, k, best[k-1])
  BY <1>7, <1>9
<1>11. QED
  BY <1>1, <1>10 DEF zero

\* PluralityCorrect: whatever the votes and their order, the loop of
\* plurality_outcome ends with the heaviest outcome, the lowest one of a tie.
THEOREM PluralityCorrect ==
  ASSUME NEW voters, NEW votes \in Seq(VoteOf(voters)), votes # <<>>
  PROVE  /\ IsPlurality(votes, PluralityOutcome(votes).bps)
         /\ PluralityOutcome(votes).bps \in 0..BPS_DIVISOR
<1> DEFINE n == Len(votes)
<1>1. PICK g : /\ g[0] = [bps |-> 0, weight |-> 0]
               /\ \A i \in 1..n : g[i] = Better(votes, i, g[i-1])
               /\ PluralityOutcome(votes) = g[n]
  BY PluralityIsLoop
<1> DEFINE Good == {k \in 0..n : g[k] \in Candidates /\ (k = 0 \/ Leads(votes, g[k], k))}
<1>2. 0 \in Good
  BY <1>1, BpsRange, SMT DEF Candidates
<1>3. ASSUME NEW k \in 1..n, k - 1 \in Good
      PROVE  k \in Good
  <2>1. g[k-1] \in Candidates /\ (k = 1 \/ Leads(votes, g[k-1], k - 1))
    BY <1>3, SMT
  <2>2. g[k] = Better(votes, k, g[k-1])
    BY <1>1
  <2>3. g[k] \in Candidates
    BY <2>1, <2>2, BetterIsCandidate
  <2>4. Leads(votes, g[k], k)
    BY <2>1, <2>2, BetterLeads
  <2>5. QED
    BY <2>3, <2>4, SMT
<1> HIDE DEF Good
<1>4. n \in Nat /\ n # 0
  BY SMT
<1>5. 0..n \subseteq Good
  BY <1>2, <1>3, <1>4, UpToN
<1>6. PICK x \in Candidates : x = PluralityOutcome(votes) /\ Leads(votes, x, n)
  BY <1>1, <1>4, <1>5, SMT DEF Good
<1>7. \A j \in 1..n : WeightForOutcome(votes, votes[j].bps) \in Int /\ votes[j].bps \in Int
  BY WeightIsInt, VoteFields, SMT
<1>8. x.bps \in HeaviestOutcomes(votes)
  <2>1. PICK j \in 1..n : votes[j].bps = x.bps
    BY <1>6 DEF Leads
  <2>2. \A k \in 1..n : WeightForOutcome(votes, votes[k].bps) <= WeightForOutcome(votes, votes[j].bps)
    BY <1>6, <1>7, <2>1, SMTT(30) DEF Leads
  <2>3. QED
    BY <2>1, <2>2 DEF HeaviestOutcomes
<1>9. ASSUME NEW other \in HeaviestOutcomes(votes)
      PROVE  x.bps <= other
  <2>1. PICK j \in 1..n : /\ other = votes[j].bps
                          /\ \A k \in 1..n : WeightForOutcome(votes, votes[k].bps)
                                               <= WeightForOutcome(votes, votes[j].bps)
    BY DEF HeaviestOutcomes
  <2>2. PICK i \in 1..n : votes[i].bps = x.bps
    BY <1>6 DEF Leads
  <2>3. x.weight <= WeightForOutcome(votes, votes[j].bps)
    BY <1>6, <2>1, <2>2 DEF Leads
  <2>4. ~(WeightForOutcome(votes, votes[j].bps) < x.weight)
    BY <1>7, <2>3, SMT DEF Candidates
  <2>5. QED
    BY <1>6, <2>1, <2>4 DEF Leads
<1>10. QED
  BY <1>6, <1>8, <1>9 DEF IsPlurality, Candidates

\* Appended: what a sequence holds once one element is added.
LEMMA Appended ==
  ASSUME NEW S, NEW seq \in Seq(S), NEW elt \in S
  PROVE  /\ Append(seq, elt) \in Seq(S) /\ Append(seq, elt) # <<>>
         /\ Len(seq) \in Nat /\ Len(Append(seq, elt)) = Len(seq) + 1
         /\ \A i \in 1..Len(seq) : Append(seq, elt)[i] = seq[i]
         /\ Append(seq, elt)[Len(seq) + 1] = elt
BY SMT

\* WeightAppend: a vote adds its weight to the outcome it names.
LEMMA WeightAppend ==
  ASSUME NEW voters, NEW votes \in Seq(VoteOf(voters)), NEW vote \in VoteOf(voters), NEW bps
  PROVE  WeightForOutcome(Append(votes, vote), bps)
           = WeightForOutcome(votes, bps) + (IF vote.bps = bps THEN vote.weight ELSE 0)
<1> DEFINE n == Len(votes)
           all == Append(votes, vote)
           f == [i \in 1..n |-> IF votes[i].bps = bps THEN votes[i].weight ELSE 0]
           h == [i \in 1..(n + 1) |-> IF all[i].bps = bps THEN all[i].weight ELSE 0]
<1>1. /\ n \in Nat /\ all \in Seq(VoteOf(voters)) /\ Len(all) = n + 1
      /\ \A i \in 1..n : all[i] = votes[i]
      /\ all[n + 1] = vote
  BY Appended, SMT
<1>2. f \in [1..n -> Int]
  BY VoteFields, SMT
<1>3. h \in [1..(n + 1) -> Int]
  <2> HIDE DEF all, n
  <2>1. \A i \in 1..(n + 1) : all[i].weight \in Int
    BY <1>1, VoteFields, SMT
  <2>2. QED
    BY <2>1, SMT
<1>4. \A k \in 1..n : h[k] = f[k]
  BY <1>1, SMT
<1>5. h[n + 1] = IF vote.bps = bps THEN vote.weight ELSE 0
  BY <1>1, SMT
<1>6. WeightForOutcome(votes, bps) = SumTo(f, n)
  BY DEF WeightForOutcome
<1>7. WeightForOutcome(all, bps) = SumTo(h, n + 1)
  BY <1>1 DEF WeightForOutcome
<1> HIDE DEF f, h, all, n
<1>8. SumTo(h, n + 1) = SumTo(f, n) + h[n + 1]
  BY <1>1, <1>2, <1>3, <1>4, SumAppend
<1>9. QED
  BY <1>5, <1>6, <1>7, <1>8 DEF all

\* WeightOfNone: without votes no outcome has weight.
LEMMA WeightOfNone ==
  ASSUME NEW bps
  PROVE  WeightForOutcome(<<>>, bps) = 0
<1> DEFINE f == [i \in 1..0 |-> IF (<<>>)[i].bps = bps THEN (<<>>)[i].weight ELSE 0]
<1>1. f \in [1..0 -> Int]
  BY SMT
<1>2. SumTo(f, 0) = 0
  BY <1>1, SumEmpty
<1>3. Len(<<>>) = 0
  OBVIOUS
<1>4. QED
  BY <1>2, <1>3 DEF WeightForOutcome

\* OutweighsAll: an outcome heavier than every other one is the plurality.
LEMMA OutweighsAll ==
  ASSUME NEW voters, NEW votes \in Seq(VoteOf(voters)), NEW i \in 1..Len(votes),
         \A k \in 1..Len(votes) : votes[k].bps # votes[i].bps =>
           WeightForOutcome(votes, votes[k].bps) < WeightForOutcome(votes, votes[i].bps)
  PROVE  IsPlurality(votes, votes[i].bps)
<1>1. \A k \in 1..Len(votes) : WeightForOutcome(votes, votes[k].bps) \in Int
  BY WeightIsInt
<1>2. \A k \in 1..Len(votes) :
        WeightForOutcome(votes, votes[k].bps) <= WeightForOutcome(votes, votes[i].bps)
  BY <1>1, SMT
<1>3. votes[i].bps \in HeaviestOutcomes(votes)
  BY <1>2 DEF HeaviestOutcomes
<1>4. ASSUME NEW other \in HeaviestOutcomes(votes)
      PROVE  other = votes[i].bps
  <2>1. PICK j \in 1..Len(votes) :
          /\ other = votes[j].bps
          /\ \A k \in 1..Len(votes) :
               WeightForOutcome(votes, votes[k].bps) <= WeightForOutcome(votes, votes[j].bps)
    BY <1>4 DEF HeaviestOutcomes
  <2>2. WeightForOutcome(votes, votes[i].bps) <= WeightForOutcome(votes, votes[j].bps)
    BY <2>1
  <2>3. QED
    BY <1>1, <2>1, <2>2, SMT
<1>5. votes[i].bps \in Int
  BY VoteFields, SMT
<1>6. QED
  BY <1>3, <1>4, <1>5, SMT DEF IsPlurality

-----------------------------------------------------------------------------
\* TypeOK by groups of storage entries that change together.
CashOK  == token \in [Address -> Nat] /\ sourceHeld \in Nat /\ accruedFees \in Nat
TradeOK == /\ trade \in [Trades -> TradeType]
           /\ releaseSequence \in [Trades -> SUBSET Steps]
           /\ tradeHistory \in [Trades -> Seq(EventKinds)]
PendingOK ==
  /\ cancelRequest \in [Trades -> SUBSET Address]
  /\ pathPaymentIntent \in [Trades -> [destMin : Nat, balanceBefore : Nat] \cup {None}]
CaseOK ==
  /\ quorumState \in [Trades -> [votes : Seq(VoteType), openedAt : Nat \cup {None}]]
  /\ exhibits \in [Trades -> [evidence : Seq([submitter : Address, hash : Hashes]),
                              video : Hashes \cup {None}, manifest : Hashes \cup {None}]]
OpsOK == queue \in Seq(OpType) /\ wasm \in WasmHashes \cup {None}
MetricsOK == metrics \in [trades : 0..MaxTrades, disputes : Nat, resolved : Nat]
ExtensionOK == extension \in [Trades -> [count : Nat, original : Nat \cup {None}]]
ClawbackOK == clawbackTotal \in [Trades -> Nat]
PublishedOK == published \in [Trades -> PublishedType]

\* InputTypes: the parameters of the entrypoints that take amounts and shares,
\* and the two timelock delays.
LEMMA InputTypes ==
  /\ \A a \in Amounts : a \in Int
  /\ \A a \in ClawbackAmounts : a \in Int
  /\ \A a \in WithdrawAmounts : a \in Int
  /\ \A a \in Arrivals : a \in Int
  /\ \A a \in SourceAmounts : a \in Int
  /\ \A a \in DestMins : a \in Int
  /\ \A r \in Rulings : r \in Nat
  /\ ClawbackDelay \in Nat /\ UpgradeDelay \in Nat
BY ConstantTypes

\* TypeByGroup: the groups are TypeOK, before and after a step.
LEMMA TypeByGroup ==
  /\ TypeOK <=> /\ now \in Nat /\ config \in ConfigType /\ MetricsOK /\ CashOK /\ TradeOK
                /\ PendingOK /\ ExtensionOK /\ ClawbackOK /\ CaseOK /\ OpsOK /\ PublishedOK
  /\ TypeOK' <=> /\ now' \in Nat /\ config' \in ConfigType /\ MetricsOK' /\ CashOK' /\ TradeOK'
                 /\ PendingOK' /\ ExtensionOK' /\ ClawbackOK' /\ CaseOK' /\ OpsOK' /\ PublishedOK'
BY DEF TypeOK, MetricsOK, CashOK, TradeOK, PendingOK, ExtensionOK, ClawbackOK, CaseOK,
       OpsOK, PublishedOK

\* Untouched: a group no step writes stays well typed.
LEMMA Untouched ==
  /\ MetricsOK /\ UNCHANGED metrics => MetricsOK'
  /\ CashOK /\ UNCHANGED cashVars => CashOK'
  /\ TradeOK /\ UNCHANGED tradeVars => TradeOK'
  /\ PendingOK /\ UNCHANGED pendingVars => PendingOK'
  /\ ExtensionOK /\ UNCHANGED extension => ExtensionOK'
  /\ ClawbackOK /\ UNCHANGED clawbackTotal => ClawbackOK'
  /\ CaseOK /\ UNCHANGED caseVars => CaseOK'
  /\ OpsOK /\ UNCHANGED opVars => OpsOK'
  /\ PublishedOK /\ UNCHANGED published => PublishedOK'
BY DEF MetricsOK, CashOK, TradeOK, PendingOK, ExtensionOK, ClawbackOK, CaseOK, OpsOK,
       PublishedOK, cashVars, tradeVars, pendingVars, caseVars, opVars

\* ConfigureType: an action that only configures keeps TypeOK if the new
\* settings are well typed.
LEMMA ConfigureType ==
  ASSUME TypeOK, NEW new \in ConfigType, Configure(new)
  PROVE  TypeOK'
BY TypeByGroup, Untouched DEF Configure

\* InitType: storage before initialize() is well typed.
LEMMA InitType == Init => TypeOK
<1> SUFFICES ASSUME Init
             PROVE  TypeOK
  OBVIOUS
<1>1. now \in Nat /\ MetricsOK /\ OpsOK
  <2>1. /\ now = 0 /\ metrics = [trades |-> 0, disputes |-> 0, resolved |-> 0]
        /\ queue = <<>> /\ wasm = None
    BY DEF Init
  <2>2. MaxTrades \in Nat
    BY ConstantTypes
  <2>3. now \in Nat /\ MetricsOK
    BY <2>1, <2>2, SMT DEF MetricsOK
  <2>4. QED
    BY <2>1, <2>3, SMT DEF OpsOK
<1>2. config \in ConfigType
  <2>1. config = [initialized |-> FALSE, feeBps |-> 0, paused |-> FALSE, guardians |-> {},
                  mediator |-> None, registry |-> {}, weight |-> [m \in Mediators |-> 1],
                  assets |-> {}, extensionPolicy |-> DefaultExtensionPolicy,
                  quorum |-> DefaultQuorumConfig, clawbackEnabled |-> TRUE]
    BY DEF Init
  <2>2. DefaultExtensionPolicy \in PolicyType /\ DefaultQuorumConfig \in QuorumType
    BY ConstantTypes
  <2>3. QED
    BY <2>1, <2>2, BpsRange, SMT DEF ConfigType
<1>3. CashOK
  BY ConstantTypes DEF Init, CashOK
<1>4. TradeOK
  <2>1. NoTrade \in TradeType
    BY BpsRange, SMT DEF NoTrade, TradeType, Status
  <2>2. /\ trade = [t \in Trades |-> NoTrade] /\ releaseSequence = [t \in Trades |-> {}]
        /\ tradeHistory = [t \in Trades |-> <<>>]
    BY DEF Init
  <2>3. QED
    BY <2>1, <2>2, SMT DEF TradeOK
<1>5. PendingOK /\ ExtensionOK /\ ClawbackOK /\ PublishedOK
  BY DEF Init, PendingOK, ExtensionOK, ClawbackOK, PublishedOK, PublishedType
<1>6. CaseOK
  <2>1. /\ quorumState = [t \in Trades |-> [votes |-> <<>>, openedAt |-> None]]
        /\ exhibits = [t \in Trades |-> [evidence |-> <<>>, video |-> None, manifest |-> None]]
    BY DEF Init
  <2>2. QED
    BY <2>1, SMT DEF CaseOK
<1>7. QED
  BY <1>1, <1>2, <1>3, <1>4, <1>5, <1>6, TypeByGroup

\* TransferType: a transfer the token contract accepts leaves no balance
\* negative.
LEMMA TransferType ==
  ASSUME token \in [Address -> Nat], NEW from, NEW to, NEW amount \in Nat, CanPay(from, amount)
  PROVE  Transfer(from, to, amount) \in [Address -> Nat]
<1>1. ASSUME NEW a \in Address
      PROVE  token[a] - (IF a = from THEN amount ELSE 0) + (IF a = to THEN amount ELSE 0) \in Nat
  BY SMT DEF CanPay
<1>2. QED
  BY <1>1 DEF Transfer

\* PaySplitType: nor does the payout of a split.
LEMMA PaySplitType ==
  ASSUME token \in [Address -> Nat], NEW t, NEW split,
         split.seller \in Nat, split.buyer \in Nat,
         CanPay(Escrow, split.seller + split.buyer)
  PROVE  PaySplit(t, split) \in [Address -> Nat]
<1>1. ASSUME NEW a \in Address
      PROVE  token[a] - (IF a = Escrow THEN split.seller + split.buyer ELSE 0)
                      + (IF a = trade[t].seller THEN split.seller ELSE 0)
                      + (IF a = trade[t].buyer THEN split.buyer ELSE 0) \in Nat
  BY SMT DEF CanPay
<1>2. QED
  BY <1>1 DEF PaySplit

\* StampType, RecordType, SaveType: the three writes most entrypoints make.
LEMMA StampType ==
  ASSUME TradeOK, NEW t \in Trades, NEW steps \in SUBSET Steps, Stamp(t, steps)
  PROVE  releaseSequence' \in [Trades -> SUBSET Steps]
BY DEF TradeOK, Stamp

LEMMA RecordType ==
  ASSUME TradeOK, NEW t \in Trades, NEW kind \in EventKinds, RecordTradeEvent(t, kind)
  PROVE  tradeHistory' \in [Trades -> Seq(EventKinds)]
BY SMT DEF TradeOK, RecordTradeEvent

LEMMA SaveType ==
  ASSUME TradeOK, NEW t \in Trades, NEW record \in TradeType, SaveTrade(t, record)
  PROVE  trade' \in [Trades -> TradeType]
BY DEF TradeOK, SaveTrade

LEMMA StatusType ==
  ASSUME TradeOK, NEW t \in Trades, NEW status \in Status, SetStatus(t, status)
  PROVE  trade' \in [Trades -> TradeType]
<1>1. [trade[t] EXCEPT !.status = status] \in TradeType
  BY DEF TradeOK, TradeType
<1>2. QED
  BY <1>1, SaveType DEF SetStatus

-----------------------------------------------------------------------------
\* GovernanceType: the admin's and the guardians' calls keep TypeOK.
LEMMA GovernanceType == TypeOK /\ GovernanceNext => TypeOK'
<1> SUFFICES ASSUME TypeOK, GovernanceNext
             PROVE  TypeOK'
  OBVIOUS
<1> USE DEF AdminConfigures
<1>0. config \in ConfigType
  BY DEF TypeOK
<1>1. ASSUME NEW f \in FeeRates, Initialize(f) \/ UpdateFeeBps(f)
      PROVE  TypeOK'
  <2>1. f \in Nat
    BY ConstantTypes
  <2>2. CASE Initialize(f)
    <3>0. f <= BPS_DIVISOR
      BY <2>2 DEF Initialize
    <3>1. f \in 0..BPS_DIVISOR
      BY <2>1, <3>0, BpsRange
    <3>2. [config EXCEPT !.initialized = TRUE, !.feeBps = f] \in ConfigType
      BY <1>0, <3>1 DEF ConfigType
    <3>3. QED
      BY <2>2, <3>2, ConfigureType DEF Initialize
  <2>3. CASE UpdateFeeBps(f)
    <3>0. f \in MIN_FEE_BPS..MAX_FEE_BPS
      BY <2>3 DEF UpdateFeeBps
    <3>1. f \in 0..BPS_DIVISOR
      BY <3>0, BpsRange
    <3>2. [config EXCEPT !.feeBps = f] \in ConfigType
      BY <1>0, <3>1 DEF ConfigType
    <3>3. QED
      BY <2>3, <3>2, ConfigureType DEF UpdateFeeBps
  <2>4. QED
    BY <1>1, <2>2, <2>3
<1>2. ASSUME NEW m \in LegacyMediators, SetMediator(m)
      PROVE  TypeOK'
  <2>1. m \in Mediators
    BY ConstantTypes
  <2>2. [config EXCEPT !.mediator = m, !.registry = @ \cup {m}] \in ConfigType
    BY <1>0, <2>1 DEF ConfigType
  <2>3. QED
    BY <1>2, <2>2, ConfigureType DEF SetMediator
<1>3. ASSUME NEW m \in Mediators, AddMediator(m) \/ RemoveMediator(m)
      PROVE  TypeOK'
  <2>1. [config EXCEPT !.registry = @ \cup {m}] \in ConfigType
    BY <1>0 DEF ConfigType
  <2>2. [config EXCEPT !.registry = @ \ {m}, !.mediator = IF @ = m THEN None ELSE @] \in ConfigType
    BY <1>0 DEF ConfigType
  <2>3. QED
    BY <1>3, <2>1, <2>2, ConfigureType DEF AddMediator, RemoveMediator
<1>4. ASSUME NEW g \in Guardians, AddGuardian(g) \/ RemoveGuardian(g) \/ Pause(g) \/ Unpause(g)
      PROVE  TypeOK'
  <2>1. /\ [config EXCEPT !.guardians = @ \cup {g}] \in ConfigType
        /\ [config EXCEPT !.guardians = @ \ {g}] \in ConfigType
    BY <1>0 DEF ConfigType
  <2>2. /\ [config EXCEPT !.paused = TRUE] \in ConfigType
        /\ [config EXCEPT !.paused = FALSE] \in ConfigType
    BY <1>0 DEF ConfigType
  <2>3. QED
    BY <1>4, <2>1, <2>2, ConfigureType DEF AddGuardian, RemoveGuardian, Pause, Unpause
<1>5. ASSUME NEW a \in Assets, AllowAsset(a) \/ DisallowAsset(a)
      PROVE  TypeOK'
  <2>1. /\ [config EXCEPT !.assets = @ \cup {a}] \in ConfigType
        /\ [config EXCEPT !.assets = @ \ {a}] \in ConfigType
    BY <1>0 DEF ConfigType
  <2>2. QED
    BY <1>5, <2>1, ConfigureType DEF AllowAsset, DisallowAsset
<1>6. ASSUME NEW p \in ExtensionPolicies, SetExtensionPolicy(p)
      PROVE  TypeOK'
  <2>1. [config EXCEPT !.extensionPolicy = p] \in ConfigType
    BY <1>0, ConstantTypes DEF ConfigType
  <2>2. QED
    BY <1>6, <2>1, ConfigureType DEF SetExtensionPolicy
<1>7. ASSUME NEW q \in QuorumConfigs, SetQuorumConfig(q)
      PROVE  TypeOK'
  <2>1. [config EXCEPT !.quorum = q] \in ConfigType
    BY <1>0, ConstantTypes DEF ConfigType
  <2>2. QED
    BY <1>7, <2>1, ConfigureType DEF SetQuorumConfig
<1>8. ASSUME NEW m \in Mediators, NEW w \in Weights, SetMediatorWeight(m, w)
      PROVE  TypeOK'
  <2>1. w \in Nat
    BY ConstantTypes
  <2>2. [config EXCEPT !.weight[m] = w] \in ConfigType
    BY <1>0, <2>1 DEF ConfigType
  <2>3. QED
    BY <1>8, <2>2, ConfigureType DEF SetMediatorWeight
<1>9. ASSUME NEW a \in WithdrawAmounts, NEW d \in Destinations, WithdrawFees(a, d)
      PROVE  TypeOK'
  <2>1. a \in Nat /\ accruedFees - a \in Nat
    <3>1. a > 0 /\ a <= accruedFees /\ a \in Int
      BY <1>9, InputTypes DEF WithdrawFees
    <3>2. accruedFees \in Nat
      BY TypeByGroup DEF CashOK
    <3>3. QED
      BY <3>1, <3>2, SMT
  <2>2. token' \in [Address -> Nat]
    BY <1>9, <2>1, TransferType DEF WithdrawFees, TypeOK
  <2>3. CashOK'
    BY <1>9, <2>1, <2>2 DEF WithdrawFees, CashOK, TypeOK
  <2>4. QED
    BY <1>9, <2>3, TypeByGroup, Untouched DEF WithdrawFees
<1>10. QED
  BY <1>1, <1>2, <1>3, <1>4, <1>5, <1>6, <1>7, <1>8, <1>9 DEF GovernanceNext
\* PayoutType: a payout event adds natural figures.
LEMMA PayoutType ==
  ASSUME PublishedOK, NEW t \in Trades, NEW split, NEW ruling \in RulingType \cup {None},
         split.seller \in Nat, split.buyer \in Nat, split.fee \in Nat,
         PublishPayout(t, split, ruling)
  PROVE  PublishedOK'
<1>1. published[t] \in PublishedType
  BY DEF PublishedOK
<1>2. [funded |-> published[t].funded, seller |-> published[t].seller + split.seller,
       buyer |-> published[t].buyer + split.buyer, fee |-> published[t].fee + split.fee,
       ruling |-> ruling] \in PublishedType
  <2>1. /\ published[t].funded \in Nat /\ published[t].seller \in Nat
        /\ published[t].buyer \in Nat /\ published[t].fee \in Nat
    BY <1>1 DEF PublishedType
  <2>2. /\ published[t].seller + split.seller \in Nat /\ published[t].buyer + split.buyer \in Nat
        /\ published[t].fee + split.fee \in Nat
    BY <2>1, SMT
  <2>3. QED
    BY <2>1, <2>2 DEF PublishedType
<1>3. QED
  BY <1>2 DEF PublishPayout, PublishedOK

\* ConservedParts: a split that the code's own check passes has no negative part.
LEMMA ConservedParts ==
  ASSUME NEW split, NEW total, Conserves(split, total),
         split.seller \in Int, split.buyer \in Int, split.fee \in Int
  PROVE  split.seller \in Nat /\ split.buyer \in Nat /\ split.fee \in Nat
BY SMT DEF Conserves

-----------------------------------------------------------------------------
\* ReleaseSplitType, SettleSplitType: what the fee and loss arithmetic returns
\* are whole numbers.
LEMMA ReleaseSplitType ==
  ASSUME TypeOK, NEW t \in Trades
  PROVE  LET split == ReleaseSplit(trade[t].amount, config.feeBps)
         IN  split.seller \in Int /\ split.buyer = 0 /\ split.fee \in Int
<1>1. config.feeBps \in Int /\ trade[t].amount \in Int
  <2>1. config.feeBps \in 0..BPS_DIVISOR /\ trade[t].amount \in Nat
    BY TypeByGroup DEF ConfigType, TradeOK, TradeType
  <2>2. QED
    BY <2>1, BpsRange, SMT
<1>2. CheckedFeeAmount(trade[t].amount, config.feeBps) \in Int
  BY <1>1, ShareIsInt DEF CheckedFeeAmount
<1>3. QED
  BY <1>1, <1>2, SMTT(30) DEF ReleaseSplit

LEMMA SettleSplitType ==
  ASSUME TypeOK, NEW t \in Trades, NEW bps \in 0..BPS_DIVISOR
  PROVE  LET split == SettleSplit(trade[t].amount, bps, trade[t].sellerLossBps, config.feeBps)
         IN  split.seller \in Int /\ split.buyer \in Int /\ split.fee \in Int
<1> DEFINE split == SettleSplit(trade[t].amount, bps, trade[t].sellerLossBps, config.feeBps)
<1>0. /\ config.feeBps \in 0..BPS_DIVISOR /\ trade[t].amount \in Nat
      /\ trade[t].sellerLossBps \in 0..BPS_DIVISOR
  BY TypeByGroup DEF ConfigType, TradeOK, TradeType
<1>1. trade[t].amount \in Int /\ trade[t].sellerLossBps \in Int /\ BPS_DIVISOR - bps \in Int
  BY <1>0, BpsRange, SMT
<1>2. config.feeBps \in Int
  BY <1>0, BpsRange, SMT
<1> DEFINE raw == trade[t].amount
                   - CheckedLossAmount(trade[t].amount, BPS_DIVISOR - bps, trade[t].sellerLossBps)
<1>3. raw \in Int
  <2>1. trade[t].amount * (BPS_DIVISOR - bps) * trade[t].sellerLossBps \in Int
    BY <1>1, SMT
  <2>2. QED
    BY <1>1, <2>1, ShareIsInt, SMT DEF CheckedLossAmount
<1>4. split = [seller |-> raw - CheckedFeeAmount(raw, config.feeBps),
               buyer |-> trade[t].amount - raw, fee |-> CheckedFeeAmount(raw, config.feeBps)]
  BY DEF SettleSplit
<1> HIDE DEF raw
<1>5. CheckedFeeAmount(raw, config.feeBps) \in Int
  BY <1>2, <1>3, ShareIsInt DEF CheckedFeeAmount
<1>6. QED
  BY <1>1, <1>3, <1>4, <1>5, SMTT(30)

\* CancellationType: execute_cancellation writes well-typed entries.
LEMMA CancellationType ==
  ASSUME TypeOK, NEW t \in Trades, NEW refund \in Nat, ExecuteCancellation(t, refund)
  PROVE  token' \in [Address -> Nat] /\ TradeOK' /\ PublishedOK'
<1>0. TradeOK /\ PublishedOK /\ token \in [Address -> Nat]
  BY TypeByGroup DEF CashOK
<1>1. token' \in [Address -> Nat]
  BY <1>0, TransferType DEF ExecuteCancellation
<1>2. trade' \in [Trades -> TradeType]
  BY <1>0, StatusType DEF ExecuteCancellation, Status, Terminal
<1>3. releaseSequence' \in [Trades -> SUBSET Steps]
  BY <1>0, StampType DEF ExecuteCancellation, Steps
<1>4. tradeHistory' \in [Trades -> Seq(EventKinds)]
  BY <1>0, RecordType DEF ExecuteCancellation, EventKinds
<1>5. PublishedOK'
  BY <1>0, SMT DEF ExecuteCancellation, PublishedOK, PublishedType
<1>6. QED
  BY <1>1, <1>2, <1>3, <1>4, <1>5 DEF TradeOK

\* FundingType: creating a trade and funding it, either way, keep TypeOK.
LEMMA FundingType ==
  ASSUME TypeOK
  PROVE  /\ \A b \in Buyers, s \in Sellers, a \in Amounts, l \in LossShares, e \in Deadlines :
              CreateTrade(b, s, a, BPS_DIVISOR - l, l, e) => TypeOK'
         /\ \A t \in Trades :
              /\ Deposit(t) => TypeOK'
              /\ \A a \in SourceAmounts, d \in DestMins : DepositWithPath(t, a, d) => TypeOK'
              /\ FinalizePathPayment(t) => TypeOK'
<1>0. TradeOK /\ PublishedOK /\ CashOK /\ PendingOK /\ MetricsOK /\ now \in Nat
  BY TypeByGroup
<1>1. ASSUME NEW b \in Buyers, NEW s \in Sellers, NEW a \in Amounts, NEW l \in LossShares,
             NEW e \in Deadlines, CreateTrade(b, s, a, BPS_DIVISOR - l, l, e)
      PROVE  TypeOK'
  <2> DEFINE t == metrics.trades + 1
             record == [status |-> "Created", amount |-> a, buyer |-> b, seller |-> s,
                        sellerLossBps |-> l, expiresAt |-> e]
  <2>1. t \in Trades /\ a \in Nat /\ l \in 0..BPS_DIVISOR
    <3>1. t \in Trades /\ a > 0 /\ l <= BPS_DIVISOR
      BY <1>1 DEF CreateTrade
    <3>2. a \in Int /\ l \in Nat
      BY ConstantTypes
    <3>3. QED
      BY <3>1, <3>2, BpsRange, SMT
  <2>2. e \in Nat \cup {None}
    BY <1>0, ConstantTypes, SMT DEF Deadlines
  <2>3. record \in TradeType
    BY <2>1, <2>2 DEF TradeType, Status
  <2>4. SaveTrade(t, record) /\ Stamp(t, {"created"}) /\ RecordTradeEvent(t, "created")
    BY <1>1 DEF CreateTrade
  <2>5. MetricsOK'
    BY <1>0, <1>1, <2>1, SMT DEF CreateTrade, MetricsOK, Trades
  <2> HIDE DEF t, record
  <2>6. trade' \in [Trades -> TradeType]
    BY <1>0, <2>1, <2>3, <2>4, SaveType
  <2>7. releaseSequence' \in [Trades -> SUBSET Steps]
    BY <1>0, <2>1, <2>4, StampType DEF Steps
  <2>8. tradeHistory' \in [Trades -> Seq(EventKinds)]
    BY <1>0, <2>1, <2>4, RecordType DEF EventKinds
  <2>9. TradeOK'
    BY <2>6, <2>7, <2>8 DEF TradeOK
  <2>10. QED
    BY <1>1, <2>5, <2>9, TypeByGroup, Untouched DEF CreateTrade
<1>2. ASSUME NEW t \in Trades, Deposit(t)
      PROVE  TypeOK'
  <2>0. TakeDeposit(t)
    BY <1>2 DEF Deposit
  <2>1. trade[t].amount \in Nat
    BY <1>0 DEF TradeOK, TradeType
  <2>2. CashOK'
    BY <1>0, <2>0, <2>1, TransferType DEF TakeDeposit, CashOK
  <2>3. trade' \in [Trades -> TradeType]
    BY <1>0, <2>0, StatusType DEF TakeDeposit, Status, Live
  <2>4. releaseSequence' \in [Trades -> SUBSET Steps]
    BY <1>0, <2>0, StampType DEF TakeDeposit, Steps
  <2>5. tradeHistory' \in [Trades -> Seq(EventKinds)]
    BY <1>0, <2>0, RecordType DEF TakeDeposit, EventKinds
  <2>6. PublishedOK'
    BY <1>0, <2>0, <2>1, SMT DEF TakeDeposit, PublishedOK, PublishedType
  <2>7. TradeOK'
    BY <2>3, <2>4, <2>5 DEF TradeOK
  <2>8. QED
    BY <2>0, <2>2, <2>6, <2>7, TypeByGroup, Untouched DEF TakeDeposit
<1>3. ASSUME NEW t \in Trades, NEW a \in SourceAmounts, NEW d \in DestMins, DepositWithPath(t, a, d)
      PROVE  TypeOK'
  <2>1. a \in Nat /\ d \in Nat
    <3>1. a > 0 /\ d > 0 /\ a \in Int /\ d \in Int
      BY <1>3, InputTypes DEF DepositWithPath
    <3>2. QED
      BY <3>1, SMT
  <2>2. token[Escrow] \in Nat
    BY <1>0 DEF CashOK, Address
  <2>3. CashOK'
    <3>1. /\ sourceHeld' = sourceHeld + a /\ token' = token /\ accruedFees' = accruedFees
      BY <1>3 DEF DepositWithPath
    <3>2. token \in [Address -> Nat] /\ sourceHeld \in Nat /\ accruedFees \in Nat
      BY <1>0 DEF CashOK
    <3>3. sourceHeld' \in Nat
      BY <2>1, <3>1, <3>2, SMT
    <3>4. QED
      BY <3>1, <3>2, <3>3 DEF CashOK
  <2>a. PendingOK'
    <3>1. /\ cancelRequest' = cancelRequest
          /\ pathPaymentIntent' = [pathPaymentIntent EXCEPT ![t] =
                                     [destMin |-> d, balanceBefore |-> token[Escrow]]]
      BY <1>3 DEF DepositWithPath
    <3>2. [destMin |-> d, balanceBefore |-> token[Escrow]] \in [destMin : Nat, balanceBefore : Nat]
      BY <2>1, <2>2
    <3>3. QED
      BY <1>0, <3>1, <3>2 DEF PendingOK
  <2>4. QED
    BY <1>3, <2>3, <2>a, TypeByGroup, Untouched DEF DepositWithPath
<1>4. ASSUME NEW t \in Trades, FinalizePathPayment(t)
      PROVE  TypeOK'
  <2> DEFINE destAmount == token[Escrow] - pathPaymentIntent[t].balanceBefore
             record == [trade[t] EXCEPT !.status = "Funded", !.amount = destAmount]
  <2>1. destAmount \in Nat
    <3>1. pathPaymentIntent[t] \in [destMin : Nat, balanceBefore : Nat]
      BY <1>0, <1>4 DEF FinalizePathPayment, PendingOK
    <3>2. token[Escrow] \in Nat
      BY <1>0 DEF CashOK, Address
    <3>3. QED
      BY <1>4, <3>1, <3>2, SMT DEF FinalizePathPayment
  <2>2. SaveTrade(t, record) /\ PublishedOK'
    BY <1>0, <1>4, <2>1, SMT DEF FinalizePathPayment, PublishedOK, PublishedType
  <2>3. PendingOK'
    BY <1>0, <1>4 DEF FinalizePathPayment, PendingOK
  <2> HIDE DEF destAmount
  <2>4. record \in TradeType
    BY <1>0, <2>1 DEF TradeOK, TradeType, Status, Live
  <2>5. trade' \in [Trades -> TradeType]
    BY <1>0, <2>2, <2>4, SaveType
  <2>6. TradeOK'
    BY <1>0, <1>4, <2>5 DEF FinalizePathPayment, TradeOK
  <2>7. QED
    BY <1>4, <2>2, <2>3, <2>6, TypeByGroup, Untouched DEF FinalizePathPayment
<1>5. QED
  BY <1>1, <1>2, <1>3, <1>4

\* CancellingType: the four ways a trade is cancelled or refunded keep TypeOK.
LEMMA CancellingType ==
  ASSUME TypeOK, NEW t \in Trades
  PROVE  /\ \A c \in Address : CancelTrade(t, c) => TypeOK'
         /\ CancelByBuyer(t) => TypeOK'
         /\ Refund(t) => TypeOK'
         /\ ClaimExpiryRefund(t) => TypeOK'
<1>0. TradeOK /\ PublishedOK /\ CashOK /\ PendingOK
  BY TypeByGroup
<1>1. trade[t].amount \in Nat
  BY <1>0 DEF TradeOK, TradeType
<1>2. ASSUME NEW c \in Address, CancelTrade(t, c)
      PROVE  TypeOK'
  <2>1. ASSUME NEW refund \in Nat, ExecuteCancellation(t, refund),
               cancelRequest' = cancelRequest \/ cancelRequest' = [cancelRequest EXCEPT ![t] = {}]
        PROVE  TypeOK'
    <3>1. CashOK' /\ TradeOK' /\ PublishedOK'
      BY <1>0, <1>2, <2>1, CancellationType DEF CancelTrade, CashOK
    <3>2. PendingOK'
      BY <1>0, <1>2, <2>1 DEF CancelTrade, PendingOK
    <3>3. QED
      BY <1>2, <3>1, <3>2, TypeByGroup, Untouched DEF CancelTrade
  <2>2. CASE RequestCancel(t, c)
    <3>1. CashOK' /\ PendingOK'
      BY <1>0, <1>2, <2>2 DEF RequestCancel, CancelTrade, CashOK, PendingOK
    <3>2. QED
      BY <1>2, <2>2, <3>1, TypeByGroup, Untouched DEF CancelTrade, RequestCancel
  <2>3. 0 \in Nat
    OBVIOUS
  <2>4. QED
    BY <1>1, <1>2, <2>1, <2>2, <2>3 DEF CancelTrade
<1>3. ASSUME CancelByBuyer(t)
      PROVE  TypeOK'
  <2>0. CloseUnpaid(t)
    BY <1>3 DEF CancelByBuyer
  <2>1. trade' \in [Trades -> TradeType]
    BY <1>0, <2>0, StatusType DEF CloseUnpaid, Status, Terminal
  <2>2. releaseSequence' \in [Trades -> SUBSET Steps]
    BY <1>0, <2>0, StampType DEF CloseUnpaid, Steps
  <2>3. TradeOK'
    BY <1>0, <2>0, <2>1, <2>2 DEF CloseUnpaid, TradeOK
  <2>4. QED
    BY <2>0, <2>3, TypeByGroup, Untouched DEF CloseUnpaid
<1>4. ASSUME Refund(t)
      PROVE  TypeOK'
  <2>0. ReturnEscrow(t)
    BY <1>4 DEF Refund
  <2>1. CashOK' /\ TradeOK' /\ PublishedOK'
    BY <1>0, <1>1, <2>0, CancellationType DEF ReturnEscrow, CashOK
  <2>2. QED
    BY <2>0, <2>1, TypeByGroup, Untouched DEF ReturnEscrow
<1>5. ASSUME ClaimExpiryRefund(t)
      PROVE  TypeOK'
  <2>0. PayExpiryRefund(t)
    BY <1>5 DEF ClaimExpiryRefund
  <2>1. CashOK'
    BY <1>0, <1>1, <2>0, TransferType DEF PayExpiryRefund, CashOK
  <2>2. trade' \in [Trades -> TradeType]
    BY <1>0, <2>0, StatusType DEF PayExpiryRefund, Status, Terminal
  <2>3. releaseSequence' \in [Trades -> SUBSET Steps]
    BY <1>0, <2>0, StampType DEF PayExpiryRefund, Steps
  <2>4. TradeOK'
    BY <1>0, <2>0, <2>2, <2>3 DEF PayExpiryRefund, TradeOK
  <2>5. PublishedOK'
    BY <1>0, <1>1, <2>0, SMT DEF PayExpiryRefund, PublishedOK, PublishedType
  <2>6. QED
    BY <2>0, <2>1, <2>4, <2>5, TypeByGroup, Untouched DEF PayExpiryRefund
<1>6. QED
  BY <1>2, <1>3, <1>4, <1>5

\* DeliveryType: extension, delivery, release and the seller's filings keep
\* TypeOK.
LEMMA DeliveryType ==
  ASSUME TypeOK, NEW t \in Trades
  PROVE  /\ \A d \in Extensions : ExtendDeadline(t, trade[t].expiresAt + d) => TypeOK'
         /\ ConfirmDelivery(t) => TypeOK'
         /\ ReleaseFunds(t) => TypeOK'
         /\ \A h \in Hashes : SubmitManifest(t, h) \/ SubmitVideoProof(t, h) => TypeOK'
<1>0. TradeOK /\ PublishedOK /\ CashOK /\ ExtensionOK /\ CaseOK
  BY TypeByGroup
<1>1. trade[t] \in TradeType /\ trade[t].amount \in Nat
  BY <1>0 DEF TradeOK, TradeType
<1>2. ASSUME NEW d \in Extensions, ExtendDeadline(t, trade[t].expiresAt + d)
      PROVE  TypeOK'
  <2> DEFINE deadline == trade[t].expiresAt + d
             record == [trade[t] EXCEPT !.expiresAt = deadline]
  <2>1. trade[t].expiresAt # None
    BY <1>2 DEF ExtendDeadline, MayExtend
  <2>2. deadline \in Nat
    <3>1. trade[t].expiresAt \in Nat
      BY <1>1, <2>1 DEF TradeType
    <3>2. d \in Nat
      BY ConstantTypes
    <3>3. QED
      BY <3>1, <3>2, SMT
  <2>3. SaveTrade(t, record) /\ RecordTradeEvent(t, "deadline_extended")
    BY <1>2 DEF ExtendDeadline
  <2>4. ExtensionOK'
    <3>1. ExtensionOrigin(t) \in Nat \cup {None}
      BY <1>0, <1>1 DEF ExtensionOrigin, ExtensionOK, TradeType
    <3>2. QED
      BY <1>0, <1>2, <3>1, SMT DEF ExtendDeadline, ExtensionOK
  <2> HIDE DEF deadline
  <2>5. record \in TradeType
    BY <1>1, <2>2 DEF TradeType
  <2> HIDE DEF record
  <2>6. trade' \in [Trades -> TradeType]
    BY <1>0, <2>3, <2>5, SaveType
  <2>7. tradeHistory' \in [Trades -> Seq(EventKinds)]
    BY <1>0, <2>3, RecordType DEF EventKinds
  <2>8. TradeOK'
    BY <1>0, <1>2, <2>6, <2>7 DEF ExtendDeadline, TradeOK
  <2>9. QED
    BY <1>2, <2>4, <2>8, TypeByGroup, Untouched DEF ExtendDeadline
<1>3. ASSUME ConfirmDelivery(t)
      PROVE  TypeOK'
  <2>0. MarkDelivered(t)
    BY <1>3 DEF ConfirmDelivery
  <2>1. trade' \in [Trades -> TradeType]
    BY <1>0, <2>0, StatusType DEF MarkDelivered, Status, Live
  <2>2. releaseSequence' \in [Trades -> SUBSET Steps]
    BY <1>0, <2>0, StampType DEF MarkDelivered, Steps
  <2>3. tradeHistory' \in [Trades -> Seq(EventKinds)]
    BY <1>0, <2>0, RecordType DEF MarkDelivered, EventKinds
  <2>4. TradeOK'
    BY <2>1, <2>2, <2>3 DEF TradeOK
  <2>5. QED
    BY <2>0, <2>4, TypeByGroup, Untouched DEF MarkDelivered
<1>4. ASSUME ReleaseFunds(t)
      PROVE  TypeOK'
  <2> DEFINE split == ReleaseSplit(trade[t].amount, config.feeBps)
  <2>1. split.seller \in Int /\ split.buyer = 0 /\ split.fee \in Int
    BY ReleaseSplitType
  <2>2. /\ Conserves(split, trade[t].amount) /\ CanPay(Escrow, split.seller)
        /\ token' = PaySplit(t, split) /\ accruedFees' = accruedFees + split.fee
        /\ PublishPayout(t, split, None)
    BY <1>4 DEF ReleaseFunds
  <2> HIDE DEF split
  <2>3. split.seller \in Nat /\ split.buyer \in Nat /\ split.fee \in Nat
    <3>1. split.buyer \in Int
      BY <2>1, SMT
    <3>2. QED
      BY <2>1, <2>2, <3>1, ConservedParts
  <2>4. token' \in [Address -> Nat]
    <3>1. split.seller + split.buyer = split.seller
      BY <2>1, SMT
    <3>2. CanPay(Escrow, split.seller + split.buyer)
      BY <2>2, <3>1
    <3>3. token \in [Address -> Nat]
      BY <1>0 DEF CashOK
    <3>4. PaySplit(t, split) \in [Address -> Nat]
      BY <2>3, <3>2, <3>3, PaySplitType
    <3>5. QED
      BY <2>2, <3>4
  <2>5. CashOK'
    <3>1. accruedFees \in Nat /\ sourceHeld \in Nat
      BY <1>0 DEF CashOK
    <3>2. accruedFees' \in Nat
      BY <2>2, <2>3, <3>1, SMT
    <3>3. sourceHeld' = sourceHeld
      BY <1>4 DEF ReleaseFunds
    <3>4. QED
      BY <2>4, <3>1, <3>2, <3>3 DEF CashOK
  <2>6. PublishedOK'
    BY <1>0, <2>2, <2>3, PayoutType
  <2>7. trade' \in [Trades -> TradeType]
    BY <1>0, <1>4, StatusType DEF ReleaseFunds, Status, Terminal
  <2>8. releaseSequence' \in [Trades -> SUBSET Steps]
    BY <1>0, <1>4, StampType DEF ReleaseFunds, Steps
  <2>9. tradeHistory' \in [Trades -> Seq(EventKinds)]
    BY <1>0, <1>4, RecordType DEF ReleaseFunds, EventKinds
  <2>10. TradeOK'
    BY <2>7, <2>8, <2>9 DEF TradeOK
  <2>11. QED
    BY <1>4, <2>5, <2>6, <2>10, TypeByGroup, Untouched DEF ReleaseFunds
<1>5. ASSUME NEW h \in Hashes, SubmitManifest(t, h)
      PROVE  TypeOK'
  <2>0. exhibits' = [exhibits EXCEPT ![t].manifest = h] /\ quorumState' = quorumState
    BY <1>5 DEF SubmitManifest
  <2>1. CaseOK'
    BY <1>0, <2>0 DEF CaseOK
  <2>2. releaseSequence' \in [Trades -> SUBSET Steps]
    BY <1>0, <1>5, StampType DEF SubmitManifest, Steps
  <2>3. TradeOK'
    BY <1>0, <1>5, <2>2 DEF SubmitManifest, TradeOK
  <2>4. QED
    BY <1>5, <2>1, <2>3, TypeByGroup, Untouched DEF SubmitManifest
<1>6. ASSUME NEW h \in Hashes, SubmitVideoProof(t, h)
      PROVE  TypeOK'
  <2>0. exhibits' = [exhibits EXCEPT ![t].video = h] /\ quorumState' = quorumState
    BY <1>6 DEF SubmitVideoProof
  <2>1. CaseOK'
    BY <1>0, <2>0 DEF CaseOK
  <2>2. QED
    BY <1>6, <2>1, TypeByGroup, Untouched DEF SubmitVideoProof
<1>7. QED
  BY <1>2, <1>3, <1>4, <1>5, <1>6

-----------------------------------------------------------------------------
\* SettleType: settle_dispute writes well-typed entries for any legal ruling.
LEMMA SettleType ==
  ASSUME TypeOK, NEW t \in Trades, NEW bps \in 0..BPS_DIVISOR,
         NEW how \in {"mediator", "quorum", "fallback"}, SettleDispute(t, bps, how)
  PROVE  /\ token' \in [Address -> Nat] /\ accruedFees' \in Nat
         /\ TradeOK' /\ MetricsOK' /\ PublishedOK'
<1>0. TradeOK /\ PublishedOK /\ CashOK /\ MetricsOK
  BY TypeByGroup
<1> DEFINE split == SettleSplit(trade[t].amount, bps, trade[t].sellerLossBps, config.feeBps)
<1>1. split.seller \in Int /\ split.buyer \in Int /\ split.fee \in Int
  BY SettleSplitType
<1>2. /\ Conserves(split, trade[t].amount) /\ CanPay(Escrow, split.seller + split.buyer)
      /\ token' = PaySplit(t, split) /\ accruedFees' = accruedFees + split.fee
      /\ PublishPayout(t, split, [how |-> how, bps |-> bps])
  BY DEF SettleDispute
<1> HIDE DEF split
<1>3. split.seller \in Nat /\ split.buyer \in Nat /\ split.fee \in Nat
  BY <1>1, <1>2, ConservedParts
<1>4. token' \in [Address -> Nat] /\ accruedFees' \in Nat
  <2>1. token \in [Address -> Nat] /\ accruedFees \in Nat
    BY <1>0 DEF CashOK
  <2>2. PaySplit(t, split) \in [Address -> Nat]
    BY <1>2, <1>3, <2>1, PaySplitType
  <2>3. QED
    BY <1>2, <1>3, <2>1, <2>2, SMT
<1>5. PublishedOK'
  <2>1. [how |-> how, bps |-> bps] \in RulingType
    BY DEF RulingType
  <2>2. QED
    BY <1>0, <1>2, <1>3, <2>1, PayoutType
<1>6. trade' \in [Trades -> TradeType]
  BY <1>0, StatusType DEF SettleDispute, Status, Terminal
<1>7. releaseSequence' \in [Trades -> SUBSET Steps]
  BY <1>0, StampType DEF SettleDispute, Steps
<1>8. tradeHistory' \in [Trades -> Seq(EventKinds)]
  BY <1>0, RecordType DEF SettleDispute, EventKinds
<1>9. MetricsOK'
  BY <1>0, SMTT(30) DEF SettleDispute, MetricsOK
<1>10. QED
  BY <1>4, <1>5, <1>6, <1>7, <1>8, <1>9 DEF TradeOK

\* DisputeType: disputes, votes, rulings and evidence keep TypeOK.
LEMMA DisputeType == TypeOK /\ DisputeNext => TypeOK'
<1> SUFFICES ASSUME TypeOK, NEW t \in Trades,
                    \/ InitiateDispute(t)
                    \/ \E m \in Mediators, r \in Rulings :
                         ResolveDispute(t, m, r) \/ CastDisputeVote(t, m, r)
                    \/ ResolveDisputeByFallback(t)
                    \/ \E c \in Address, h \in Hashes : SubmitEvidence(t, c, h)
             PROVE  TypeOK'
  BY DEF DisputeNext
<1>0. TradeOK /\ PublishedOK /\ CashOK /\ MetricsOK /\ CaseOK /\ now \in Nat
  BY TypeByGroup
<1>1. CASE InitiateDispute(t)
  <2>1. trade' \in [Trades -> TradeType]
    BY <1>0, <1>1, StatusType DEF InitiateDispute, Status, Live
  <2>2. releaseSequence' \in [Trades -> SUBSET Steps]
    BY <1>0, <1>1, StampType DEF InitiateDispute, Steps
  <2>3. tradeHistory' \in [Trades -> Seq(EventKinds)]
    BY <1>0, <1>1, RecordType DEF InitiateDispute, EventKinds
  <2>4. TradeOK'
    BY <2>1, <2>2, <2>3 DEF TradeOK
  <2>5. MetricsOK'
    BY <1>0, <1>1, SMT DEF InitiateDispute, MetricsOK
  <2>6. QED
    BY <1>1, <2>4, <2>5, TypeByGroup, Untouched DEF InitiateDispute
<1>2. ASSUME NEW m \in Mediators, NEW r \in Rulings, ResolveDispute(t, m, r)
      PROVE  TypeOK'
  <2>1. r \in 0..BPS_DIVISOR
    BY <1>2, InputTypes, BpsRange DEF ResolveDispute
  <2>2. token' \in [Address -> Nat] /\ accruedFees' \in Nat /\ TradeOK' /\ MetricsOK' /\ PublishedOK'
    BY <1>2, <2>1, SettleType DEF ResolveDispute
  <2>3. CashOK'
    BY <1>0, <1>2, <2>2 DEF ResolveDispute, CashOK
  <2>4. QED
    BY <1>2, <2>2, <2>3, TypeByGroup, Untouched DEF ResolveDispute
<1>3. ASSUME NEW m \in Mediators, NEW r \in Rulings, CastDisputeVote(t, m, r)
      PROVE  TypeOK'
  <2>1. r \in 0..BPS_DIVISOR
    BY <1>3, InputTypes, BpsRange DEF CastDisputeVote
  <2>2. CaseOK'
    <3> DEFINE vote == [mediator |-> m, bps |-> r, weight |-> config.weight[m]]
    <3>1. vote \in VoteType
      BY <2>1 DEF TypeOK, ConfigType, VoteType
    <3>2. quorumState' = [quorumState EXCEPT ![t] =
            [votes    |-> Append(quorumState[t].votes, vote),
             openedAt |-> IF @.openedAt = None THEN now ELSE @.openedAt]] /\ exhibits' = exhibits
      BY <1>3 DEF CastDisputeVote
    <3> HIDE DEF vote
    <3>3. Append(quorumState[t].votes, vote) \in Seq(VoteType)
      BY <1>0, <3>1, SMT DEF CaseOK
    <3>4. QED
      BY <1>0, <3>2, <3>3 DEF CaseOK
  <2>3. /\ token' \in [Address -> Nat] /\ accruedFees' \in Nat
        /\ TradeOK' /\ MetricsOK' /\ PublishedOK'
    <3>1. CASE SettleDispute(t, r, "quorum")
      BY <2>1, <3>1, SettleType
    <3>2. CASE UNCHANGED <<token, accruedFees, tradeVars, metrics, published>>
      BY <1>0, <3>2, Untouched DEF CashOK
    <3>3. QED
      BY <1>3, <3>1, <3>2 DEF CastDisputeVote
  <2>4. CashOK'
    BY <1>0, <1>3, <2>3 DEF CastDisputeVote, CashOK
  <2>5. QED
    BY <1>3, <2>2, <2>3, <2>4, TypeByGroup, Untouched DEF CastDisputeVote
<1>4. CASE ResolveDisputeByFallback(t)
  <2> DEFINE bps == PluralityOutcome(quorumState[t].votes).bps
  <2>1. bps \in 0..BPS_DIVISOR
    <3>1. quorumState[t].votes \in Seq(VoteOf(Mediators)) /\ quorumState[t].votes # <<>>
      BY <1>0, <1>4 DEF ResolveDisputeByFallback, CaseOK, VoteOf, VoteType
    <3>2. QED
      BY <3>1, PluralityCorrect
  <2>2. SettleDispute(t, bps, "fallback")
    BY <1>4 DEF ResolveDisputeByFallback
  <2> HIDE DEF bps
  <2>3. token' \in [Address -> Nat] /\ accruedFees' \in Nat /\ TradeOK' /\ MetricsOK' /\ PublishedOK'
    BY <2>1, <2>2, SettleType
  <2>4. CashOK'
    BY <1>0, <1>4, <2>3 DEF ResolveDisputeByFallback, CashOK
  <2>5. QED
    BY <1>4, <2>3, <2>4, TypeByGroup, Untouched DEF ResolveDisputeByFallback
<1>5. ASSUME NEW c \in Address, NEW h \in Hashes, SubmitEvidence(t, c, h)
      PROVE  TypeOK'
  <2>1. Append(exhibits[t].evidence, [submitter |-> c, hash |-> h])
          \in Seq([submitter : Address, hash : Hashes])
    <3>1. exhibits[t].evidence \in Seq([submitter : Address, hash : Hashes])
      BY <1>0 DEF CaseOK
    <3>2. [submitter |-> c, hash |-> h] \in [submitter : Address, hash : Hashes]
      OBVIOUS
    <3>3. \A S, e : \A q \in Seq(S) : e \in S => Append(q, e) \in Seq(S)
      BY SMT
    <3>4. QED
      BY <3>1, <3>2, <3>3
  <2>2. PICK filed \in Seq([submitter : Address, hash : Hashes]) :
          exhibits' = [exhibits EXCEPT ![t].evidence = filed]
    BY <1>5, <2>1 DEF SubmitEvidence
  <2>3. quorumState' = quorumState
    BY <1>5 DEF SubmitEvidence
  <2>4. CaseOK'
    BY <1>0, <2>2, <2>3 DEF CaseOK
  <2>5. QED
    BY <1>5, <2>4, TypeByGroup, Untouched DEF SubmitEvidence
<1>6. QED
  BY <1>1, <1>2, <1>3, <1>4, <1>5

-----------------------------------------------------------------------------
\* ClawOutType: a clawback of no more than the escrow leaves a natural amount.
LEMMA ClawOutType ==
  ASSUME TypeOK, NEW t \in Trades, NEW amount \in Nat, NEW d, ClawOut(t, amount, d)
  PROVE  /\ token' \in [Address -> Nat] /\ trade' \in [Trades -> TradeType] /\ ClawbackOK'
<1>0. TradeOK /\ CashOK /\ ClawbackOK
  BY TypeByGroup
<1> DEFINE record == [trade[t] EXCEPT !.amount = @ - amount,
                        !.status = IF trade[t].amount = amount THEN "Cancelled" ELSE @]
<1>1. trade[t] \in TradeType /\ trade[t].amount \in Nat
  BY <1>0 DEF TradeOK, TradeType
<1>2. /\ SaveTrade(t, record) /\ amount <= trade[t].amount
      /\ CanPay(Escrow, amount) /\ token' = Transfer(Escrow, d, amount)
      /\ clawbackTotal' = [clawbackTotal EXCEPT ![t] = @ + amount]
  BY DEF ClawOut
<1>3. record \in TradeType
  <2>1. trade[t].amount - amount \in Nat
    BY <1>1, <1>2, SMT
  <2>2. "Cancelled" \in Status
    BY DEF Status, Terminal
  <2>3. QED
    BY <1>1, <2>1, <2>2 DEF TradeType
<1> HIDE DEF record
<1>4. trade' \in [Trades -> TradeType]
  BY <1>0, <1>2, <1>3, SaveType
<1>5. token' \in [Address -> Nat]
  <2>1. token \in [Address -> Nat]
    BY <1>0 DEF CashOK
  <2>2. Transfer(Escrow, d, amount) \in [Address -> Nat]
    BY <1>2, <2>1, TransferType
  <2>3. QED
    BY <1>2, <2>2
<1>6. ClawbackOK'
  <2>1. clawbackTotal \in [Trades -> Nat]
    BY <1>0 DEF ClawbackOK
  <2>2. clawbackTotal[t] + amount \in Nat
    BY <2>1, SMT
  <2>3. QED
    BY <1>2, <2>1, <2>2 DEF ClawbackOK
<1>7. QED
  BY <1>4, <1>5, <1>6

\* EnqueueType: a well-typed operation can be queued.
LEMMA EnqueueType ==
  ASSUME TypeOK, NEW op \in OpType, Enqueue(op)
  PROVE  TypeOK'
<1>1. OpsOK
  BY TypeByGroup
<1>2. OpsOK'
  BY <1>1, SMT DEF Enqueue, OpsOK
<1>3. QED
  BY <1>2, TypeByGroup, Untouched DEF Enqueue

\* TimelockType: clawbacks, upgrades and the timelock queue keep TypeOK.
LEMMA TimelockType == TypeOK /\ TimelockNext => TypeOK'
<1> SUFFICES ASSUME TypeOK, TimelockNext
             PROVE  TypeOK'
  OBVIOUS
<1>0. TradeOK /\ CashOK /\ OpsOK /\ now \in Nat /\ config \in ConfigType
  BY TypeByGroup
<1>1. ASSUME NEW b \in ClawbackFlags, SetClawbackEnabled(b)
      PROVE  TypeOK'
  <2>1. b \in BOOLEAN
    BY ConstantTypes
  <2>2. [config EXCEPT !.clawbackEnabled = b] \in ConfigType
    BY <1>0, <2>1 DEF ConfigType
  <2>3. QED
    BY <1>1, <2>2, ConfigureType DEF SetClawbackEnabled, AdminConfigures
<1>2. ASSUME NEW t \in Trades, NEW a \in ClawbackAmounts, NEW d \in Destinations,
             AdminClawback(t, a, d)
      PROVE  TypeOK'
  <2>1. a \in Nat
    <3>1. a \in Int
      BY InputTypes
    <3>2. a > 0
      BY <1>2 DEF AdminClawback
    <3>3. QED
      BY <3>1, <3>2, SMT
  <2>2. token' \in [Address -> Nat] /\ trade' \in [Trades -> TradeType] /\ ClawbackOK'
    BY <1>2, <2>1, ClawOutType DEF AdminClawback
  <2>3. releaseSequence' \in [Trades -> SUBSET Steps]
    <3>1. CASE Stamp(t, {"cancelled"})
      BY <1>0, <3>1, StampType DEF Steps
    <3>2. CASE UNCHANGED releaseSequence
      BY <1>0, <3>2 DEF TradeOK
    <3>3. QED
      BY <1>2, <3>1, <3>2 DEF AdminClawback
  <2>4. tradeHistory' \in [Trades -> Seq(EventKinds)]
    BY <1>0, <1>2, RecordType DEF AdminClawback, EventKinds
  <2>5. TradeOK'
    BY <2>2, <2>3, <2>4 DEF TradeOK
  <2>6. CashOK'
    BY <1>0, <1>2, <2>2 DEF AdminClawback, CashOK
  <2>7. QED
    BY <1>2, <2>2, <2>5, <2>6, TypeByGroup, Untouched DEF AdminClawback
<1>3. ASSUME NEW t \in Trades, NEW a \in ClawbackAmounts, NEW d \in Destinations,
             QueueClawback(t, a, d)
      PROVE  TypeOK'
  <2> DEFINE op == [kind |-> "clawback", trade |-> t, amount |-> a,
                    destination |-> d, hash |-> None, queuedAt |-> now,
                    executeAfter |-> now + ClawbackDelay, executed |-> FALSE, cancelled |-> FALSE]
  <2>1. a \in Nat /\ now + ClawbackDelay \in Nat
    BY <1>0, <1>3, InputTypes, SMT DEF QueueClawback
  <2>2. op \in OpType
    BY <1>0, <2>1 DEF OpType, OpOf
  <2>3. Enqueue(op)
    BY <1>3 DEF QueueClawback
  <2> HIDE DEF op
  <2>4. QED
    BY <2>2, <2>3, EnqueueType
<1>4. ASSUME NEW h \in WasmHashes, QueueUpgrade(h)
      PROVE  TypeOK'
  <2> DEFINE op == [kind |-> "upgrade", trade |-> None, amount |-> 0,
                    destination |-> None, hash |-> h, queuedAt |-> now,
                    executeAfter |-> now + UpgradeDelay, executed |-> FALSE, cancelled |-> FALSE]
  <2>1. now + UpgradeDelay \in Nat
    BY <1>0, ConstantTypes, SMT
  <2>2. op \in OpType
    BY <1>0, <2>1 DEF OpType, OpOf
  <2>3. Enqueue(op)
    BY <1>4 DEF QueueUpgrade
  <2> HIDE DEF op
  <2>4. QED
    BY <2>2, <2>3, EnqueueType
<1>5. ASSUME NEW i \in 1..Len(queue)
      PROVE  /\ queue[i] \in OpType
             /\ [queue EXCEPT ![i].executed = TRUE] \in Seq(OpType)
             /\ [queue EXCEPT ![i].cancelled = TRUE] \in Seq(OpType)
  <2>1. queue \in Seq(OpType)
    BY <1>0 DEF OpsOK
  <2>2. queue[i] \in OpType
    BY <2>1, SMT
  <2>3. /\ [queue[i] EXCEPT !.executed = TRUE] \in OpType
        /\ [queue[i] EXCEPT !.cancelled = TRUE] \in OpType
    BY <2>2 DEF OpType, OpOf
  <2>4. QED
    BY <2>1, <2>2, <2>3, SMT
<1>6. ASSUME NEW i \in 1..Len(queue), ExecuteClawback(i)
      PROVE  TypeOK'
  <2>1. queue[i] \in OpType /\ queue[i].kind = "clawback"
    BY <1>5, <1>6 DEF ExecuteClawback
  <2>2. queue[i].amount \in Nat /\ queue[i].trade \in Trades
    BY <2>1 DEF OpType, OpOf
  <2>3. token' \in [Address -> Nat] /\ trade' \in [Trades -> TradeType] /\ ClawbackOK'
    BY <1>6, <2>2, ClawOutType DEF ExecuteClawback
  <2>4. TradeOK' /\ CashOK'
    BY <1>0, <1>6, <2>3 DEF ExecuteClawback, TradeOK, CashOK
  <2>5. OpsOK'
    BY <1>0, <1>5, <1>6 DEF ExecuteClawback, OpsOK
  <2>6. QED
    BY <1>6, <2>3, <2>4, <2>5, TypeByGroup, Untouched DEF ExecuteClawback
<1>7. ASSUME NEW i \in 1..Len(queue), ExecuteUpgrade(i)
      PROVE  TypeOK'
  <2>1. queue[i].hash \in WasmHashes \cup {None}
    BY <1>5 DEF OpType, OpOf
  <2>2. OpsOK'
    BY <1>5, <1>7, <2>1 DEF ExecuteUpgrade, OpsOK
  <2>3. QED
    BY <1>7, <2>2, TypeByGroup, Untouched DEF ExecuteUpgrade
<1>8. ASSUME NEW i \in 1..Len(queue), CancelQueuedOperation(i)
      PROVE  TypeOK'
  <2>1. OpsOK'
    BY <1>0, <1>5, <1>8 DEF CancelQueuedOperation, OpsOK
  <2>2. QED
    BY <1>8, <2>1, TypeByGroup, Untouched DEF CancelQueuedOperation
<1>9. QED
  BY <1>1, <1>2, <1>3, <1>4, <1>6, <1>7, <1>8 DEF TimelockNext

-----------------------------------------------------------------------------
\* NextType: every step of the contract and of the ledger keeps TypeOK.
LEMMA NextType == TypeOK /\ [Next]_vars => TypeOK'
<1> SUFFICES ASSUME TypeOK, [Next]_vars
             PROVE  TypeOK'
  OBVIOUS
<1>1. CASE Tick
  <2>1. now' \in Nat
    <3>1. now \in Nat
      BY TypeByGroup
    <3>2. QED
      BY <1>1, <3>1, SMT DEF Tick
  <2>2. QED
    BY <1>1, <2>1, TypeByGroup, Untouched DEF Tick
<1>2. ASSUME NEW a \in Arrivals, ReceiveCngn(a)
      PROVE  TypeOK'
  <2>1. a \in Nat
    BY <1>2, InputTypes, SMT DEF ReceiveCngn
  <2>2. CashOK'
    BY <1>2, <2>1, TypeByGroup, TransferType DEF ReceiveCngn, CashOK
  <2>3. QED
    BY <1>2, <2>2, TypeByGroup, Untouched DEF ReceiveCngn
<1>3. CASE LifecycleNext
  BY <1>3, FundingType, CancellingType, DeliveryType DEF LifecycleNext
<1>4. CASE UNCHANGED vars
  BY <1>4, TypeByGroup, Untouched DEF vars
<1>5. QED
  BY <1>1, <1>2, <1>3, <1>4, GovernanceType, DisputeType, TimelockType DEF Next

\* TypeCorrect: every storage entry of the contract keeps its type; no
\* balance, escrow or payout is ever negative.
THEOREM TypeCorrect == Spec => []TypeOK
<1>1. Init => TypeOK
  BY InitType
<1>2. TypeOK /\ [Next]_vars => TypeOK'
  BY NextType
<1>3. QED
  BY <1>1, <1>2, PTL DEF Spec

\* PluralityAlways: in every reachable state the loop of plurality_outcome
\* would settle each dispute under vote for the heaviest outcome.
THEOREM PluralityAlways == Spec => []FallbackOutcomeIsPlurality
<1>1. TypeOK => FallbackOutcomeIsPlurality
  <2> SUFFICES ASSUME TypeOK, NEW t \in Trades, quorumState[t].votes # <<>>
               PROVE  IsPlurality(quorumState[t].votes,
                                  PluralityOutcome(quorumState[t].votes).bps)
    BY DEF FallbackOutcomeIsPlurality
  <2>1. quorumState[t].votes \in Seq(VoteOf(Mediators))
    BY DEF TypeOK, VoteOf, VoteType
  <2>2. QED
    BY <2>1, PluralityCorrect
<1>2. QED
  BY <1>1, TypeCorrect, PTL

\* Trade ids are given out once.
Fresh == \A t \in Trades : t > metrics.trades => trade[t].status = "None"
=============================================================================
