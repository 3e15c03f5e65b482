---------------------------- MODULE EscrowState ----------------------------
(***************************************************************************)
(* Storage of the amana_escrow contract, its initial state, and the        *)
(* internal helpers its entrypoints share.  A Soroban invocation is atomic *)
(* and a panic reverts it, so every entrypoint is one action and an assert *)
(* is a guard.  Each variable is one DataKey, or a record of the keys that *)
(* are written together.  Trade ids are the contract's own counter: the    *)
(* ledger number in their upper half never makes two of them equal.        *)
(***************************************************************************)
EXTENDS EscrowMath, FiniteSets

CONSTANTS
  None,                       \* Option::None
  Admin, Escrow, Market,      \* the admin, the contract itself, cNGN's outside holders
  Buyers, Sellers, Mediators, Guardians, Destinations,
  LegacyMediators,            \* the mediators the single-mediator slot is set to
  Assets,                     \* candidates for the asset allowlist
  Wallet,                     \* cNGN every account but the contract starts with
  Amounts, LossShares, FeeRates, Rulings, Weights,
  Lifetimes, Extensions,      \* seconds until a deadline, seconds added to one
  ClawbackAmounts, ClawbackFlags, WithdrawAmounts,
  SourceAmounts, DestMins, Arrivals,   \* inputs of path payments
  WasmHashes, Hashes,         \* code to upgrade to, documents to anchor
  ExtensionPolicies, DefaultExtensionPolicy,
  QuorumConfigs, DefaultQuorumConfig,
  MaxTradeValue, MaxMediatorWeight,
  ExtensionCeilingCount, ExtensionCeilingSecs,
  ClawbackDelay, UpgradeDelay,
  MaxTrades, MaxOps, MaxTime, MaxEvidence   \* bounds of the instance

VARIABLES
  now,               \* ledger timestamp
  config,            \* governance settings of instance storage
  metrics,           \* TotalTrades, TotalDisputes, TotalResolved; NXTTRD - 1 = TotalTrades
  token,             \* cNGN balances (external token contract)
  sourceHeld,        \* source token held by the contract (external)
  accruedFees,
  trade, releaseSequence, tradeHistory,
  cancelRequest, pathPaymentIntent,
  extension,         \* ExtensionCount, OriginalDeadline
  clawbackTotal,
  quorumState,       \* DisputeVotes: votes and opened_at
  exhibits,          \* EvidenceList, VideoProof, Manifest
  queue,             \* TimelockOperation(0..NextTimelockId-1)
  wasm,
  published          \* figures of the funding, payout and resolution events

tradeVars   == <<trade, releaseSequence, tradeHistory>>
cashVars    == <<token, sourceHeld, accruedFees>>
pendingVars == <<cancelRequest, pathPaymentIntent>>
opVars      == <<queue, wasm>>
caseVars    == <<quorumState, exhibits>>
vars == <<now, config, metrics, cashVars, tradeVars, pendingVars, extension,
          clawbackTotal, caseVars, opVars, published>>

Trades  == 1..MaxTrades
Address == Buyers \cup Sellers \cup Mediators \cup Guardians \cup Destinations
             \cup {Admin, Escrow, Market}
Live     == {"Funded", "Delivered", "Disputed"}
Terminal == {"Completed", "Cancelled"}

NoTrade == [status |-> "None", amount |-> 0, buyer |-> None, seller |-> None,
            sellerLossBps |-> 0, expiresAt |-> None]

PolicyType == [maxExtensions : Nat, maxTotalSecs : Nat]
QuorumType == [enabled : BOOLEAN, valueThreshold : Nat, requiredWeight : Nat,
               voteWindow : Nat, fallbackMinWeight : Nat]

\* The types of the entrypoints' parameters and of the deployed constants.
ASSUME ConstantTypes ==
  /\ MaxTrades \in Nat
  /\ Wallet \in Nat
  /\ Amounts \cup ClawbackAmounts \cup WithdrawAmounts \subseteq Int
  /\ SourceAmounts \cup DestMins \cup Arrivals \subseteq Int
  /\ LossShares \cup FeeRates \cup Rulings \cup Weights \subseteq Nat
  /\ Lifetimes \cup Extensions \cup {ClawbackDelay, UpgradeDelay} \subseteq Nat
  /\ ClawbackFlags \subseteq BOOLEAN
  /\ LegacyMediators \subseteq Mediators
  /\ ExtensionPolicies \cup {DefaultExtensionPolicy} \subseteq PolicyType
  /\ QuorumConfigs \cup {DefaultQuorumConfig} \subseteq QuorumType

ASSUME NoneIsNothingElse ==
  None \notin Int /\ None \notin Address \cup WasmHashes \cup Hashes

\* The contract never signs a call: it is no buyer, and not the outside market.
ASSUME EscrowSignsNothing == Escrow \notin Buyers /\ Escrow # Market

\* The built-in policy keeps to its own ceilings.
ASSUME DefaultWithinCeiling ==
  /\ ExtensionCeilingCount \in Nat /\ ExtensionCeilingSecs \in Nat
  /\ DefaultExtensionPolicy.maxExtensions <= ExtensionCeilingCount
  /\ DefaultExtensionPolicy.maxTotalSecs <= ExtensionCeilingSecs

\* The weight of a mediator that was given none is one of those the cap allows.
ASSUME DefaultWeightAllowed == MaxMediatorWeight \in Nat /\ 1 <= MaxMediatorWeight

\* Storage before initialize(): every getter returns its default.
Init ==
  /\ now = 0
  /\ config = [initialized |-> FALSE, feeBps |-> 0, paused |-> FALSE,
               guardians |-> {}, mediator |-> None, registry |-> {},
               weight |-> [m \in Mediators |-> 1], assets |-> {},
               extensionPolicy |-> DefaultExtensionPolicy,
               quorum |-> DefaultQuorumConfig, clawbackEnabled |-> TRUE]
  /\ metrics = [trades |-> 0, disputes |-> 0, resolved |-> 0]
  /\ token = [a \in Address |-> IF a = Escrow THEN 0 ELSE Wallet]
  /\ sourceHeld = 0
  /\ accruedFees = 0
  /\ trade = [t \in Trades |-> NoTrade]
  /\ releaseSequence = [t \in Trades |-> {}]
  /\ tradeHistory = [t \in Trades |-> <<>>]
  /\ cancelRequest = [t \in Trades |-> {}]
  /\ pathPaymentIntent = [t \in Trades |-> None]
  /\ extension = [t \in Trades |-> [count |-> 0, original |-> None]]
  /\ clawbackTotal = [t \in Trades |-> 0]
  /\ quorumState = [t \in Trades |-> [votes |-> <<>>, openedAt |-> None]]
  /\ exhibits = [t \in Trades |-> [evidence |-> <<>>, video |-> None, manifest |-> None]]
  /\ queue = <<>>
  /\ wasm = None
  /\ published = [t \in Trades |->
                   [funded |-> 0, seller |-> 0, buyer |-> 0, fee |-> 0, ruling |-> None]]

-----------------------------------------------------------------------------
\* The token contract moves exactly the amount asked for, or panics.
CanPay(from, amount) == token[from] >= amount

Transfer(from, to, amount) ==
  [a \in Address |-> token[a] - (IF a = from THEN amount ELSE 0)
                              + (IF a = to   THEN amount ELSE 0)]

\* Pay a settlement out of escrow: the fee stays in the contract.
PaySplit(t, split) ==
  [a \in Address |-> token[a]
     - (IF a = Escrow          THEN split.seller + split.buyer ELSE 0)
     + (IF a = trade[t].seller THEN split.seller ELSE 0)
     + (IF a = trade[t].buyer  THEN split.buyer  ELSE 0)]

NotPaused == ~config.paused

Party(t) == {trade[t].buyer, trade[t].seller}

\* update_release_sequence: the set of steps whose timestamp is written.
Stamp(t, steps) == releaseSequence' = [releaseSequence EXCEPT ![t] = @ \cup steps]

RecordTradeEvent(t, kind) == tradeHistory' = [tradeHistory EXCEPT ![t] = Append(@, kind)]

SaveTrade(t, record) == trade' = [trade EXCEPT ![t] = record]

SetStatus(t, status) == SaveTrade(t, [trade[t] EXCEPT !.status = status])

\* The event of a payout; its figures add up, should there ever be two.
PublishPayout(t, split, ruling) ==
  published' = [published EXCEPT ![t] =
    [funded |-> @.funded, seller |-> @.seller + split.seller,
     buyer |-> @.buyer + split.buyer, fee |-> @.fee + split.fee, ruling |-> ruling]]

\* Marks the trade cancelled without returning what it holds.
ExecuteCancellationKeepingFunds(t, refund) ==
  /\ token' = token
  /\ SetStatus(t, "Cancelled")
  /\ Stamp(t, {"cancelled"})
  /\ RecordTradeEvent(t, "cancelled")
  /\ published' = [published EXCEPT ![t].buyer = @ + refund]

\* execute_cancellation: refund, close, stamp, record, publish.
ExecuteCancellation(t, refund) ==
  /\ CanPay(Escrow, refund)
  /\ token' = Transfer(Escrow, trade[t].buyer, refund)
  /\ SetStatus(t, "Cancelled")
  /\ Stamp(t, {"cancelled"})
  /\ RecordTradeEvent(t, "cancelled")
  /\ published' = [published EXCEPT ![t].buyer = @ + refund]
=============================================================================
