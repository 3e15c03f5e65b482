-------------------------- MODULE EscrowGovernance --------------------------
(***************************************************************************)
(* Admin and guardian entrypoints: setup, mediator and guardian            *)
(* registries, emergency pause, asset allowlist, fee rate and fee          *)
(* withdrawal, extension and quorum policies, clawback switch.             *)
(* The admin's signature is what enables an action of this module, except  *)
(* pause and unpause, which a registered guardian signs.                   *)
(***************************************************************************)
EXTENDS EscrowState

\* Only the governance settings change.
Configure(new) ==
  /\ config' = new
  /\ UNCHANGED <<now, metrics, cashVars, tradeVars, pendingVars, extension,
                 clawbackTotal, caseVars, opVars, published>>

AdminConfigures(new) == config.initialized /\ Configure(new)

Initialize(feeBps) ==
  /\ ~config.initialized
  /\ feeBps <= BPS_DIVISOR
  /\ Configure([config EXCEPT !.initialized = TRUE, !.feeBps = feeBps])

\* The legacy slot, and the registry with it.
SetMediator(m) ==
  AdminConfigures([config EXCEPT !.mediator = m, !.registry = @ \cup {m}])

AddMediator(m) == AdminConfigures([config EXCEPT !.registry = @ \cup {m}])

\* Forgets the legacy slot.
RemoveFromRegistryOnly(m) == AdminConfigures([config EXCEPT !.registry = @ \ {m}])

RemoveMediator(m) ==
  AdminConfigures([config EXCEPT !.registry = @ \ {m},
                                 !.mediator = IF @ = m THEN None ELSE @])

AddGuardian(g) == AdminConfigures([config EXCEPT !.guardians = @ \cup {g}])

RemoveGuardian(g) == AdminConfigures([config EXCEPT !.guardians = @ \ {g}])

Pause(g) ==
  /\ g \in config.guardians
  /\ Configure([config EXCEPT !.paused = TRUE])

Unpause(g) ==
  /\ g \in config.guardians
  /\ Configure([config EXCEPT !.paused = FALSE])

\* Allowlist bookkeeping; no other entrypoint reads it.  The decimals stored
\* beside an asset only format amounts for clients.
AllowAsset(asset) == AdminConfigures([config EXCEPT !.assets = @ \cup {asset}])

DisallowAsset(asset) == AdminConfigures([config EXCEPT !.assets = @ \ {asset}])

UpdateFeeBps(feeBps) ==
  /\ feeBps \in MIN_FEE_BPS..MAX_FEE_BPS
  /\ AdminConfigures([config EXCEPT !.feeBps = feeBps])

SetClawbackEnabled(enabled) ==
  AdminConfigures([config EXCEPT !.clawbackEnabled = enabled])

SetExtensionPolicy(policy) ==
  /\ policy.maxExtensions <= ExtensionCeilingCount
  /\ policy.maxTotalSecs <= ExtensionCeilingSecs
  /\ AdminConfigures([config EXCEPT !.extensionPolicy = policy])

SetQuorumConfig(q) ==
  /\ q.valueThreshold >= 0
  /\ q.requiredWeight > 0
  /\ q.voteWindow > 0
  /\ q.fallbackMinWeight > 0
  /\ q.fallbackMinWeight <= q.requiredWeight
  /\ AdminConfigures([config EXCEPT !.quorum = q])

SetMediatorWeight(m, w) ==
  /\ w > 0
  /\ w <= MaxMediatorWeight
  /\ AdminConfigures([config EXCEPT !.weight[m] = w])

\* Pays the fees out without lowering AccruedFees.
WithdrawFeesUncounted(amount, destination) ==
  /\ config.initialized
  /\ amount > 0
  /\ amount <= accruedFees
  /\ CanPay(Escrow, amount)
  /\ token' = Transfer(Escrow, destination, amount)
  /\ UNCHANGED <<accruedFees, now, config, metrics, sourceHeld, tradeVars, pendingVars,
                 extension, clawbackTotal, caseVars, opVars, published>>

WithdrawFees(amount, destination) ==
  /\ config.initialized
  /\ amount > 0
  /\ amount <= accruedFees
  /\ CanPay(Escrow, amount)
  /\ token' = Transfer(Escrow, destination, amount)
  /\ accruedFees' = accruedFees - amount
  /\ UNCHANGED <<now, config, metrics, sourceHeld, tradeVars, pendingVars,
                 extension, clawbackTotal, caseVars, opVars, published>>
=============================================================================
