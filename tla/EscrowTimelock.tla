--------------------------- MODULE EscrowTimelock ---------------------------
(***************************************************************************)
(* Clawbacks and upgrades: the immediate admin clawback, and the queue of  *)
(* timelocked operations that the admin fills, executes and cancels.       *)
(***************************************************************************)
EXTENDS EscrowState

Clawable == {"Funded", "Disputed"}

\* Takes any amount, as if the remaining escrow were not checked.
ClawOutUnchecked(t, amount, destination) ==
  /\ trade[t].status \in Clawable
  /\ CanPay(Escrow, amount)
  /\ token' = Transfer(Escrow, destination, amount)
  /\ SaveTrade(t, [trade[t] EXCEPT !.amount = @ - amount,
                     !.status = IF trade[t].amount = amount THEN "Cancelled" ELSE @])
  /\ clawbackTotal' = [clawbackTotal EXCEPT ![t] = @ + amount]

\* The part the two clawback paths share: checks, transfer, smaller escrow,
\* and a cancelled trade once nothing remains.
ClawOut(t, amount, destination) ==
  /\ trade[t].status \in Clawable
  /\ amount <= trade[t].amount
  /\ CanPay(Escrow, amount)
  /\ token' = Transfer(Escrow, destination, amount)
  /\ SaveTrade(t, [trade[t] EXCEPT !.amount = @ - amount,
                     !.status = IF trade[t].amount = amount THEN "Cancelled" ELSE @])
  /\ clawbackTotal' = [clawbackTotal EXCEPT ![t] = @ + amount]

AdminClawback(t, amount, destination) ==
  /\ config.clawbackEnabled
  /\ amount > 0
  /\ ClawOut(t, amount, destination)
  /\ IF trade[t].amount = amount
     THEN Stamp(t, {"cancelled"}) /\ RecordTradeEvent(t, "clawback_full")
     ELSE UNCHANGED releaseSequence /\ RecordTradeEvent(t, "clawback_partial")
  /\ UNCHANGED <<now, config, metrics, sourceHeld, accruedFees, pendingVars, extension,
                 caseVars, opVars, published>>

-----------------------------------------------------------------------------
\* Operation ids count from 0 in the code; here they are positions in queue.
Enqueue(op) ==
  /\ config.initialized
  /\ Len(queue) < MaxOps
  /\ queue' = Append(queue, op)
  /\ UNCHANGED <<now, config, metrics, cashVars, tradeVars, pendingVars, extension,
                 clawbackTotal, caseVars, wasm, published>>

\* The trade need not exist, nor hold the amount, until execution.
QueueClawback(t, amount, destination) ==
  /\ amount > 0
  /\ Enqueue([kind |-> "clawback", trade |-> t, amount |-> amount,
              destination |-> destination, hash |-> None, queuedAt |-> now,
              executeAfter |-> now + ClawbackDelay, executed |-> FALSE, cancelled |-> FALSE])

QueueUpgrade(hash) ==
  Enqueue([kind |-> "upgrade", trade |-> None, amount |-> 0,
           destination |-> None, hash |-> hash, queuedAt |-> now,
           executeAfter |-> now + UpgradeDelay, executed |-> FALSE, cancelled |-> FALSE])

\* Forgets whether the operation was already executed.
ReadyAgain(op) == now >= op.executeAfter /\ ~op.cancelled

Ready(op) == now >= op.executeAfter /\ ~op.executed /\ ~op.cancelled

\* An upgrade passed to execute_clawback is skipped without an error, which
\* changes nothing.  The switch of admin_clawback is not consulted, and
\* neither the release sequence nor the history is written.
ExecuteClawback(i) ==
  /\ Ready(queue[i])
  /\ queue[i].kind = "clawback"
  /\ queue[i].amount > 0
  /\ ClawOut(queue[i].trade, queue[i].amount, queue[i].destination)
  /\ queue' = [queue EXCEPT ![i].executed = TRUE]
  /\ UNCHANGED <<now, config, metrics, sourceHeld, accruedFees, releaseSequence,
                 tradeHistory, pendingVars, extension, caseVars, wasm, published>>

\* Replaces the code and keeps all storage; the model goes on with this code.
ExecuteUpgrade(i) ==
  /\ Ready(queue[i])
  /\ queue[i].kind = "upgrade"
  /\ wasm' = queue[i].hash
  /\ queue' = [queue EXCEPT ![i].executed = TRUE]
  /\ UNCHANGED <<now, config, metrics, cashVars, tradeVars, pendingVars, extension,
                 clawbackTotal, caseVars, published>>

\* Cancels whatever the operation's state.
CancelAnyOperation(i) ==
  /\ queue' = [queue EXCEPT ![i].cancelled = TRUE]
  /\ UNCHANGED <<now, config, metrics, cashVars, tradeVars, pendingVars, extension,
                 clawbackTotal, caseVars, wasm, published>>

CancelQueuedOperation(i) ==
  /\ ~queue[i].executed
  /\ ~queue[i].cancelled
  /\ queue' = [queue EXCEPT ![i].cancelled = TRUE]
  /\ UNCHANGED <<now, config, metrics, cashVars, tradeVars, pendingVars, extension,
                 clawbackTotal, caseVars, wasm, published>>
=============================================================================
