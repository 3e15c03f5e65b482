------------------------------- MODULE Pricing -------------------------------
\* What a transfer costs: rounding and splits, quotes, network fees, and the retry
\* loop around the services that are asked.
EXTENDS Subject, Integers, Sequences, FiniteSets

-----------------------------------------------------------------------------
(***************************************************************************)
(* Money                                                                   *)
(*                                                                         *)
(* The money arithmetic of the backend: division under a rounding policy,  *)
(* the ledger that carries the residual of one accrual into the next, the  *)
(* fee breakdown of a trade's outcome, largest-remainder splits, and the   *)
(* conversion between decimal strings and stroops.                         *)
(***************************************************************************)

CONSTANTS
  DustDenominator,  \* the denominator a DustLedger is opened with
  Numerators,       \* magnitudes a window accrues, in numerator units
  MaxWindows,       \* bound: windows accrued
  SplitTotals,      \* totals to split, in stroops
  BpsShares,        \* shares to split them by
  MoneyDecimals,    \* MONEY_DECIMALS
  MaxI128           \* I128_MAX

Escrowed == INSTANCE EscrowMath

VARIABLES
  dust,      \* the DustLedger: policy and residual
  windows,   \* what was accrued and what was paid so far
  fees,      \* the last fee breakdown: its inputs and its parts
  shares,    \* the last largest-remainder allocation
  money      \* the last decimal string converted, and its canonical form

moneyVars == <<dust, windows, fees, shares, money>>

Policies == {"trunc", "floor", "ceil", "half-up", "half-even"}

-----------------------------------------------------------------------------
(* divideWithPolicy                                                        *)

\* BigInt division truncates toward zero.
Truncated(n, d) == IF n >= 0 THEN n \div d ELSE -((-n) \div d)

DivideWithPolicy(n, d, policy) ==
  LET truncated == Truncated(n, d)
      remainder == n - truncated * d
      step == IF remainder > 0 THEN 1 ELSE -1
      twice == IF remainder < 0 THEN -remainder * 2 ELSE remainder * 2
      value == CASE remainder = 0 -> truncated
                 [] remainder # 0 /\ policy = "trunc" -> truncated
                 [] remainder # 0 /\ policy = "floor" -> IF remainder < 0 THEN truncated - 1 ELSE truncated
                 [] remainder # 0 /\ policy = "ceil" -> IF remainder > 0 THEN truncated + 1 ELSE truncated
                 [] remainder # 0 /\ policy = "half-up" -> IF twice >= d THEN truncated + step
                     ELSE truncated
                 [] remainder # 0 /\ policy = "half-even" ->
                      IF twice > d THEN truncated + step
                      ELSE IF twice < d THEN truncated
                      ELSE IF truncated % 2 = 0 THEN truncated ELSE truncated + step
  IN [value |-> value, residual |-> n - value * d]

-----------------------------------------------------------------------------
(* DustLedger                                                              *)

OpenLedger(policy) ==
  /\ dust.policy = "none"
  /\ dust' = [policy |-> policy, residual |-> 0]
  /\ UNCHANGED <<windows, fees, shares, money>>

\* Mutant: the carried residual is replaced but not folded in.
WithoutCarry(n) == DivideWithPolicy(n, DustDenominator, dust.policy)

WithCarry(n) == DivideWithPolicy(n + dust.residual, DustDenominator, dust.policy)

Accrue(n) ==
  /\ dust.policy # "none" /\ windows.count < MaxWindows
  /\ LET result == WithCarry(n)
     IN /\ dust' = [dust EXCEPT !.residual = result.residual]
        /\ windows' = [count |-> windows.count + 1, accrued |-> windows.accrued + n,
                       paid |-> windows.paid + result.value]
  /\ UNCHANGED <<fees, shares, money>>

SettleDust ==
  /\ dust.policy # "none"
  /\ LET whole == Truncated(dust.residual, DustDenominator)
     IN /\ dust' = [dust EXCEPT !.residual = @ - whole * DustDenominator]
        /\ windows' = [windows EXCEPT !.paid = @ + whole]
  /\ UNCHANGED <<fees, shares, money>>

-----------------------------------------------------------------------------
(* computeFee: the backend's prediction of what the contract pays          *)

ApplyBps(amount, bps) == DivideWithPolicy(amount * bps, 10000, "trunc")

ReleaseFee(amount, feeBps) ==
  LET fee == ApplyBps(amount, feeBps).value
  IN [seller |-> amount - fee, buyer |-> 0, fee |-> fee]

RefundFee(amount) == [seller |-> 0, buyer |-> amount, fee |-> 0]

SplitFee(amount, sellerGetsBps, sellerLossBps, feeBps) ==
  LET sellerLoss == DivideWithPolicy(amount * (10000 - sellerGetsBps) * sellerLossBps,
                                     10000 * 10000, "trunc").value
      sellerRaw == amount - sellerLoss
      fee == ApplyBps(sellerRaw, feeBps).value
  IN [seller |-> sellerRaw - fee, buyer |-> amount - sellerRaw, fee |-> fee]

ComputeSplitFee(amount, sellerGetsBps, sellerLossBps, feeBps) ==
  SplitFee(amount, sellerGetsBps, sellerLossBps, feeBps)

FullSellerFee(amount, feeBps) == ReleaseFee(amount, feeBps)
FullBuyerFee(amount) == RefundFee(amount)

\* What the contract pays for the same outcome.
OnChain(outcome, amount, getsBps, lossBps, feeBps) ==
  CASE outcome = "release" -> Escrowed!ReleaseSplit(amount, feeBps)
    [] outcome = "refund" -> [seller |-> 0, buyer |-> amount, fee |-> 0]
    [] outcome = "split" -> Escrowed!SettleSplit(amount, getsBps, lossBps, feeBps)
    [] outcome = "full_seller" -> Escrowed!SettleSplit(amount, 10000, lossBps, feeBps)
    [] outcome = "full_buyer" -> Escrowed!SettleSplit(amount, 0, lossBps, feeBps)

ComputeFee(outcome, amount, getsBps, lossBps, feeBps) ==
  CASE outcome = "release" -> ReleaseFee(amount, feeBps)
    [] outcome = "refund" -> RefundFee(amount)
    [] outcome = "split" -> ComputeSplitFee(amount, getsBps, lossBps, feeBps)
    [] outcome = "full_seller" -> FullSellerFee(amount, feeBps)
    [] outcome = "full_buyer" -> FullBuyerFee(amount)

Outcomes == {"release", "refund", "split", "full_seller", "full_buyer"}

Predict(outcome, amount, getsBps, lossBps, feeBps) ==
  /\ fees' = [outcome |-> outcome, amount |-> amount, lossBps |-> lossBps,
              parts |-> ComputeFee(outcome, amount, getsBps, lossBps, feeBps),
              paid |-> OnChain(outcome, amount, getsBps, lossBps, feeBps)]
  /\ UNCHANGED <<dust, windows, shares, money>>

-----------------------------------------------------------------------------
(* largestRemainderAllocation                                              *)

Floored(total, bps) == [i \in DOMAIN bps |-> (total * bps[i]) \div 10000]
Remainder(total, bps, i) == (total * bps[i]) % 10000

SumOf(s) ==
  LET upTo[i \in 0..Len(s)] == IF i = 0 THEN 0 ELSE upTo[i - 1] + s[i]
  IN upTo[Len(s)]

\* The stable sort by falling remainder puts i behind these.
Ahead(total, bps, i) ==
  {k \in DOMAIN bps : \/ Remainder(total, bps, k) > Remainder(total, bps, i)
                      \/ Remainder(total, bps, k) = Remainder(total, bps, i) /\ k < i}

SortedBefore(total, bps, i) == Ahead(total, bps, i)

Allocated(total, bps) ==
  LET floored == Floored(total, bps)
      left == total - SumOf(floored)
  IN [i \in DOMAIN bps |->
        IF Cardinality(SortedBefore(total, bps, i)) < left THEN floored[i] + 1 ELSE floored[i]]

Allocate(total, bps) ==
  /\ SumOf(bps) = 10000
  /\ shares' = [total |-> total, bps |-> bps, allocated |-> Allocated(total, bps)]
  /\ UNCHANGED <<dust, windows, fees, money>>

-----------------------------------------------------------------------------
(* parseDecimalToStroops, formatStroopsToDecimal                           *)

Pow10(n) == 10^n

\* A string is a sign, a whole part and the digits of its fraction.
Digits(frac) == SumOf([i \in DOMAIN frac |-> frac[i] * Pow10(Len(frac) - i)])

Padded(frac) == Digits(frac) * Pow10(MoneyDecimals - Len(frac))

ParseDecimal(text) ==
  LET magnitude == text.whole * Pow10(MoneyDecimals) + Padded(text.frac)
  IN IF text.neg THEN -magnitude ELSE magnitude

Parses(text) ==
  /\ Len(text.frac) <= MoneyDecimals
  /\ ParseDecimal(text) \in (-MaxI128 - 1)..MaxI128

FormatStroops(stroops) ==
  LET magnitude == IF stroops < 0 THEN -stroops ELSE stroops
      fraction == magnitude % Pow10(MoneyDecimals)
  IN [neg |-> stroops < 0, whole |-> magnitude \div Pow10(MoneyDecimals),
      frac |-> [i \in 1..MoneyDecimals |-> (fraction \div Pow10(MoneyDecimals - i)) % 10]]

Normalize(text) ==
  /\ Parses(text)
  /\ money' = [text |-> text, canonical |-> FormatStroops(ParseDecimal(text))]
  /\ UNCHANGED <<dust, windows, fees, shares>>

-----------------------------------------------------------------------------

MoneyInit ==
  /\ dust = [policy |-> "none", residual |-> 0]
  /\ windows = [count |-> 0, accrued |-> 0, paid |-> 0]
  /\ fees = [outcome |-> "none"]
  /\ shares = [total |-> 0, bps |-> <<>>, allocated |-> <<>>]
  /\ money = [text |-> [neg |-> FALSE, whole |-> 0, frac |-> <<>>], canonical |-> FormatStroops(0)]

\* The pure functions are called once, on a ledger not yet opened.
Fresh == dust.policy = "none" /\ fees.outcome = "none" /\ shares.bps = <<>> /\ money.text.frac = <<>>
  /\ money.text.whole = 0

MoneyNext ==
  \/ Fresh /\ \E policy \in Policies : OpenLedger(policy)
  \/ \E n \in Numerators, sign \in {1, -1} : Accrue(sign * n)
  \/ SettleDust
  \/ Fresh /\ \E o \in Outcomes, a \in SplitTotals, g, l \in BpsShares, f \in {0, 100, 2500} :
       Predict(o, a, g, l, f)
  \/ Fresh /\ \E a \in SplitTotals, x, y, z \in BpsShares : Allocate(a, <<x, y, z>>)
  \/ Fresh /\ \E neg \in BOOLEAN, w \in {0, 1, 3}, n \in 0..(MoneyDecimals + 1) :
       \E frac \in [1..n -> {0, 5, 9}] : Normalize([neg |-> neg, whole |-> w, frac |-> frac])

-----------------------------------------------------------------------------

MoneyTypeOK ==
  /\ dust.policy \in Policies \cup {"none"} /\ dust.residual \in Int
  /\ windows.count \in 0..MaxWindows /\ windows.paid \in Int
  /\ fees.outcome \in Outcomes \cup {"none"}

\* Over any number of windows, whatever the policy and with negative windows
\* among them, a DustLedger accounts for every fraction: what it paid and the
\* residual it holds make up what was accrued, and the residual is less than
\* one stroop.
DustAccountedFor ==
  /\ windows.paid * DustDenominator + dust.residual = windows.accrued
  /\ -DustDenominator < dust.residual /\ dust.residual < DustDenominator

\* The backend predicts to the stroop what the contract pays - but for a full
\* win of the buyer, where it is right only if nothing is left to the seller:
\* the contract makes the seller bear just its agreed share of the loss.
FeePrediction ==
  fees.outcome # "none" =>
    /\ fees.parts.seller + fees.parts.buyer + fees.parts.fee = fees.amount
    /\ IF fees.outcome = "full_buyer"
       THEN fees.parts = fees.paid <=> fees.paid.buyer = fees.amount
       ELSE fees.parts = fees.paid

\* A largest-remainder split leaves no dust, gives nobody a stroop more or less
\* than its exact share, and rounds up no smaller fraction than one it rounds down.
SplitIsFair ==
  /\ SumOf(shares.allocated) = shares.total
  /\ \A i, k \in DOMAIN shares.bps :
       LET exact(j) == shares.total * shares.bps[j] IN
       /\ shares.allocated[i] * 10000 - exact(i) \in -9999..9999
       /\ shares.allocated[i] * 10000 > exact(i) /\ shares.allocated[k] * 10000 < exact(k)
            => exact(i) % 10000 >= exact(k) % 10000

\* Normalising keeps the amount, and strings for one amount normalise alike.
NormalizedKeepsAmount ==
  /\ ParseDecimal(money.canonical) = ParseDecimal(money.text)
  /\ Len(money.canonical.frac) = MoneyDecimals
  /\ money.canonical = FormatStroops(ParseDecimal(money.canonical))
  /\ LET exact == (money.text.whole * 1000 + Digits(money.text.frac) * Pow10(3 - Len(money.text.frac)))
     IN (IF money.text.neg THEN -exact ELSE exact) = ParseDecimal(money.text) * Pow10(3 - MoneyDecimals)

-----------------------------------------------------------------------------
(***************************************************************************)
(* Quotes                                                                  *)
(*                                                                         *)
(* Conversion quotes behind a Redis cache.  A quote is known by the request*)
(* it answers and the moment Horizon gave it; both moments the code        *)
(* stamps, the one in the entry and the one in the answer, are kept.       *)
(***************************************************************************)

CONSTANTS
  QuoteCalls,                    \* concurrent callers
  QuoteAssets, QuoteAmounts,     \* what a quote is asked for
  QuoteTtl, LastQuoteTick        \* QUOTE_CACHE_TTL_SECONDS; bound on the clock

VARIABLES
  quoteCalls,    \* the callers of getPathPaymentQuote
  quoteStore,    \* Redis, by cache key
  quoteTick      \* clock

quoteVars == <<quoteCalls, quoteStore, quoteTick>>

QuoteRequests == [asset : QuoteAssets, amount : QuoteAmounts]

NoEntryFor == [of |-> [asset |-> "", amount |-> 0], fetched |-> 0, quotedAt |-> 0, expires |-> -1]

IdleQuote == [stage |-> "idle", request |-> NoEntryFor.of, quote |-> NoEntryFor, at |-> 0, cached |-> FALSE]

cacheKey(request) == request

QuoteKeys == {cacheKey(request) : request \in QuoteRequests}

Stored(key) == quoteStore[key].expires >= quoteTick

YoungEnough(entry, now) == now - entry.quotedAt <= QuoteTtl

QuoteInit ==
  /\ quoteCalls = [c \in QuoteCalls |-> IdleQuote]
  /\ quoteStore = [k \in QuoteKeys |-> NoEntryFor]
  /\ quoteTick = 0

QuoteTickPasses == quoteTick < LastQuoteTick /\ quoteTick' = quoteTick + 1
  /\ UNCHANGED <<quoteCalls, quoteStore>>

QuoteMoved(c, next) == quoteCalls' = [quoteCalls EXCEPT ![c] = next] /\ UNCHANGED quoteTick

AskQuote(c) ==
  /\ quoteCalls[c].stage = "idle"
  /\ \E request \in QuoteRequests : QuoteMoved(c, [quoteCalls[c] EXCEPT !.stage = "looking",
                                                   !.request = request])
  /\ UNCHANGED quoteStore

\* redis.get; a failing Redis is a miss.
CacheRead(c) ==
  LET call == quoteCalls[c] key == cacheKey(call.request)
  IN  /\ call.stage = "looking"
      /\ \E hit \in {Stored(key), FALSE} :
            QuoteMoved(c, IF hit THEN [call EXCEPT !.stage = "judging", !.quote = quoteStore[key]]
                          ELSE [call EXCEPT !.stage = "asking"])
      /\ UNCHANGED quoteStore

\* The age is taken after the read, from the clock of this process.
CacheJudged(c) ==
  LET call == quoteCalls[c]
  IN  /\ call.stage = "judging"
      /\ QuoteMoved(c, IF YoungEnough(call.quote, quoteTick)
                       THEN [call EXCEPT !.stage = "answered", !.cached = TRUE, !.at = quoteTick]
                       ELSE [call EXCEPT !.stage = "asking", !.quote = NoEntryFor])
      /\ UNCHANGED quoteStore

\* Horizon answers through the breaker and the retries, or the call fails.
HorizonQuotes(c) ==
  LET call == quoteCalls[c]
  IN  /\ call.stage = "asking"
      /\ \/ QuoteMoved(c, [call EXCEPT !.stage = "stamping",
                                       !.quote = [NoEntryFor EXCEPT !.of = call.request,
                                                  !.fetched = quoteTick]])
         \/ QuoteMoved(c, [call EXCEPT !.stage = "failed"])
      /\ UNCHANGED quoteStore

\* setCachedQuote stamps the entry before it is sent to Redis.
QuoteStamped(c) ==
  LET call == quoteCalls[c]
  IN  /\ call.stage = "stamping"
      /\ QuoteMoved(c, [call EXCEPT !.stage = "storing", !.quote.quotedAt = quoteTick])
      /\ UNCHANGED quoteStore

\* Redis keeps the entry its full time from when it arrives; a failing Redis
\* keeps nothing.  The caller's own answer carries a stamp of its own.
QuoteStored(c) ==
  LET call == quoteCalls[c]
      entry == [call.quote EXCEPT !.expires = quoteTick + QuoteTtl]
  IN  /\ call.stage = "storing"
      /\ QuoteMoved(c, [call EXCEPT !.stage = "answered", !.at = quoteTick, !.quote.quotedAt = quoteTick])
      /\ \/ quoteStore' = [quoteStore EXCEPT ![cacheKey(call.request)] = entry]
         \/ UNCHANGED quoteStore

QuoteNext ==
  \/ QuoteTickPasses
  \/ \E c \in QuoteCalls :
        AskQuote(c) \/ CacheRead(c) \/ CacheJudged(c) \/ HorizonQuotes(c) \/ QuoteStamped(c)
            \/ QuoteStored(c)

QuoteSpec == QuoteInit /\ [][QuoteNext]_quoteVars

QuoteTypeOK ==
  /\ \A c \in QuoteCalls :
       quoteCalls[c].stage \in {"idle", "looking", "judging", "asking", "stamping", "storing",
                               "answered", "failed"}
  /\ DOMAIN quoteStore = QuoteKeys /\ quoteTick \in 0..LastQuoteTick

\* A quote handed to a caller is Horizon's answer to that caller's own asset
\* and amount, also when it comes from an entry another caller stored
\* (cacheKey in quoteCache.service.ts).
QuoteAnswersRequest ==
  \A c \in QuoteCalls : quoteCalls[c].stage = "answered" => quoteCalls[c].quote.of = quoteCalls[c].request

\* A cached quote is served no later than QUOTE_CACHE_TTL_SECONDS after the
\* stamp it is served with, although Redis counts its expiry from the later
\* moment the entry arrives (getCachedQuote's own age check).
CachedQuoteIsYoung ==
  \A c \in QuoteCalls : quoteCalls[c].stage = "answered" /\ quoteCalls[c].cached
    => quoteCalls[c].at - quoteCalls[c].quote.quotedAt <= QuoteTtl

-----------------------------------------------------------------------------
(***************************************************************************)
(* NetworkFees                                                             *)
(*                                                                         *)
(* The fee the backend recommends from Horizon's fee statistics.  The      *)
(* multipliers are the environment's defaults, 1.5 and 1.5 * 2, counted in *)
(* halves; a figure Horizon leaves out is 0.                               *)
(***************************************************************************)

CONSTANTS
  FeeLevels,             \* fees Horizon may report
  FeeFloor, FeeCeiling,  \* STELLAR_FEE_MIN_STROOPS, STELLAR_FEE_MAX_STROOPS
  FeeOperations          \* values of the operations parameter, 0 an unusable one

VARIABLE feeAnswer       \* the last recommendation and the statistics it is from

feeVars == <<feeAnswer>>

Larger(a, b) == IF a > b THEN a ELSE b
Smaller(a, b) == IF a < b THEN a ELSE b
Or(a, b) == IF a # 0 THEN a ELSE b

FeeStats == [base : FeeLevels, percentile : FeeLevels, max : FeeLevels, full : BOOLEAN]

DefaultBase(stats) == Or(stats.base, 100)

isCongested(stats) ==
  \/ stats.full
  \/ Or(stats.percentile, stats.max) >= DefaultBase(stats) * 4

Demanded(stats) ==
  Larger(Or(stats.percentile, Or(stats.max, DefaultBase(stats))), DefaultBase(stats))

computeBufferedFee(stats) ==
  LET halves == IF isCongested(stats) THEN 6 ELSE 3
      raw == (Demanded(stats) * halves + 1) \div 2
  IN  [fee |-> Smaller(FeeCeiling, Larger(FeeFloor, raw)), capped |-> raw > FeeCeiling]

\* operations is capped at 100; an unusable one counts as 1.
Operations(n) == Smaller(Or(n, 1), 100)

FeeInit == feeAnswer = [asked |-> FALSE, stats |-> CHOOSE s \in FeeStats : TRUE, fee |-> 0,
                        capped |-> FALSE, total |-> 0]

FeesAsked ==
  \E stats \in FeeStats, n \in FeeOperations :
    LET estimate == computeBufferedFee(stats)
    IN  feeAnswer' = [asked |-> TRUE, stats |-> stats, fee |-> estimate.fee, capped |-> estimate.capped,
                      total |-> estimate.fee * Operations(n)]

FeeNext == FeesAsked

FeeSpec == FeeInit /\ [][FeeNext]_feeVars

FeeTypeOK == feeAnswer.stats \in FeeStats /\ feeAnswer.fee \in 0..FeeCeiling
  /\ feeAnswer.total \in 0..(FeeCeiling * 100)

\* Unless the answer says it was capped, the recommended fee pays the base
\* fee and the chosen percentile, and asking while more is charged at that
\* percentile never recommends less (computeBufferedFee).
FeeFollowsDemand ==
  LET s == feeAnswer.stats
  IN  feeAnswer.asked /\ ~feeAnswer.capped =>
        /\ feeAnswer.fee >= s.percentile /\ feeAnswer.fee >= DefaultBase(s)
        /\ s.percentile # 0 => \A p \in FeeLevels : p > s.percentile =>
             computeBufferedFee([s EXCEPT !.percentile = p]).fee >= feeAnswer.fee

-----------------------------------------------------------------------------
(***************************************************************************)
(* RetryLoop                                                               *)
(*                                                                         *)
(* retryAsync: an operation is tried again after a transient error, with a *)
(* growing random delay, until the retries or the time budget are used up. *)
(* An error is what the classification looks at: an HTTP status (0 for     *)
(* none), a database code, and whether the message names a network fault.  *)
(***************************************************************************)

CONSTANTS
  MaxRetries, RetryBase, RetryCap, RetryBudget,   \* the call's RetryOptions
  OpTimes,            \* how long one try may take
  TimerLateness       \* how late a timer may fire

VARIABLES
  retrying,     \* the call: stage, retries so far, time since it began
  lastError,    \* the error the last try ended with
  begunAt,      \* when the running or last try began
  outcome       \* what recordOutcome was told

retryVars == <<retrying, lastError, begunAt, outcome>>

RetryErrors == [status : {0, 404, 429, 500, 501}, code : {"none", "P2024", "40001", "P2002"},
                network : BOOLEAN]

NoFailure == [status |-> 0, code |-> "none", network |-> FALSE]

RETRYABLE_CODES == {"P1001", "P1002", "P1017", "P2024", "P2028",
                    "PGRST301", "57P01", "57P02", "57P03", "08006", "08001", "40001", "40P01"}

RETRYABLE_HTTP_STATUSES == {429, 500, 502, 503, 504}

\* A status decides alone; without one a code or a network fault may.
classifyError(error) ==
  IF error.status # 0 THEN error.status \in RETRYABLE_HTTP_STATUSES
  ELSE error.code \in RETRYABLE_CODES \/ error.network

\* The window doubles per retry up to the cap; the delay is anywhere in it.
JitterWindow(attempt) ==
  LET grown == RetryBase * 2^attempt IN IF grown < RetryCap THEN grown ELSE RetryCap

Jittered(attempt) == IF JitterWindow(attempt) = 0 THEN {0} ELSE 0..(JitterWindow(attempt) - 1)

OverBudget(elapsed, delay) == elapsed + delay > RetryBudget

\* Mutant: the retries are counted one short.
OneTooMany == retrying.attempt <= MaxRetries

RetriesLeft == retrying.attempt < MaxRetries

RetryInit ==
  /\ retrying = [stage |-> "trying", attempt |-> 0, elapsed |-> 0]
  /\ lastError = NoFailure /\ begunAt = 0 /\ outcome = "none"

OperationSucceeds ==
  /\ retrying.stage = "trying"
  /\ \E d \in OpTimes : retrying' = [retrying EXCEPT !.stage = "returned", !.elapsed = @ + d]
  /\ outcome' = "success" /\ UNCHANGED <<lastError, begunAt>>

OperationThrows ==
  /\ retrying.stage = "trying"
  /\ \E d \in OpTimes : retrying' = [retrying EXCEPT !.stage = "failed", !.elapsed = @ + d]
  /\ \E error \in RetryErrors : lastError' = error
  /\ UNCHANGED <<begunAt, outcome>>

GiveUp(why) ==
  /\ retrying' = [retrying EXCEPT !.stage = "thrown"] /\ outcome' = why /\ UNCHANGED <<lastError, begunAt>>

RetryDecides ==
  /\ retrying.stage = "failed"
  /\ \/ ~classifyError(lastError) /\ GiveUp("non_retryable")
     \/ classifyError(lastError) /\ ~RetriesLeft /\ GiveUp("exhausted")
     \/ /\ classifyError(lastError) /\ RetriesLeft
        /\ \E delay \in Jittered(retrying.attempt) :
             IF OverBudget(retrying.elapsed, delay) THEN GiveUp("budget_exceeded")
             ELSE \E late \in TimerLateness :
                    /\ retrying' = [stage |-> "trying", attempt |-> retrying.attempt + 1,
                                    elapsed |-> retrying.elapsed + delay + late]
                    /\ begunAt' = retrying.elapsed + delay + late
                    /\ UNCHANGED <<lastError, outcome>>

RetryNext == OperationSucceeds \/ OperationThrows \/ RetryDecides

RetrySpec == RetryInit /\ [][RetryNext]_retryVars

RetryTypeOK ==
  /\ retrying.stage \in {"trying", "failed", "returned", "thrown"} /\ retrying.attempt \in 0..MaxRetries
  /\ lastError \in RetryErrors /\ begunAt <= retrying.elapsed
  /\ outcome \in {"none", "success", "non_retryable", "exhausted", "budget_exceeded"}

\* However long the tries before it took, the last try begins within the
\* time budget, give or take one late timer (retryAsync's check of
\* durationMs + delayMs).
TriesBeginInBudget == \E late \in TimerLateness : begunAt <= RetryBudget + late

\* A request the other side refused as the client's fault is not sent again,
\* whatever database code the error also carries: the call has no try after it
\* (isClientError ranks before the codes).
RefusedIsFinal ==
  [][lastError.status = 404 /\ retrying.stage = "failed" => retrying'.stage = "thrown"]_retryVars

-----------------------------------------------------------------------------
\* The parts side by side: a behaviour follows one of them.

pricingVars == <<moneyVars, quoteVars, feeVars, retryVars>>

PricingInit ==
  /\ MoneyInit
  /\ QuoteInit
  /\ FeeInit
  /\ RetryInit

PricingNext ==
  \/ /\ \/ TurnTo("Money") /\ UNCHANGED moneyVars
        \/ StaysWith("Money") /\ MoneyNext
     /\ UNCHANGED <<quoteVars, feeVars, retryVars>>
  \/ /\ \/ TurnTo("Quotes") /\ UNCHANGED quoteVars
        \/ StaysWith("Quotes") /\ QuoteNext
     /\ UNCHANGED <<moneyVars, feeVars, retryVars>>
  \/ /\ \/ TurnTo("NetworkFees") /\ UNCHANGED feeVars
        \/ StaysWith("NetworkFees") /\ FeeNext
     /\ UNCHANGED <<moneyVars, quoteVars, retryVars>>
  \/ /\ \/ TurnTo("RetryLoop") /\ UNCHANGED retryVars
        \/ StaysWith("RetryLoop") /\ RetryNext
     /\ UNCHANGED <<moneyVars, quoteVars, feeVars>>

PricingTypeOK ==
  /\ subject = "Money" => MoneyTypeOK
  /\ subject = "Quotes" => QuoteTypeOK
  /\ subject = "NetworkFees" => FeeTypeOK
  /\ subject = "RetryLoop" => RetryTypeOK
=============================================================================
