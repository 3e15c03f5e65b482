------------------------------ MODULE Custody ------------------------------
(***************************************************************************)
(* What an escrow promises about the money it holds, without saying how    *)
(* trades are run.  A trade's funds are locked at most once; while they    *)
(* are locked they are only drawn on or closed out; a fee is set aside     *)
(* from the trade that is being closed; and no more leaves the vault than  *)
(* the owed amount or the fees that leave the books with it.               *)
(***************************************************************************)
EXTENDS Sums

CONSTANT N             \* number of trades

VARIABLES held,        \* tokens in the vault
          owed,        \* tokens owed on each trade
          fees,        \* tokens set aside as fees
          phase        \* "open", "locked" or "closed"

cvars == <<held, owed, fees, phase>>

Init ==
  /\ held = 0
  /\ owed = [t \in 1..N |-> 0]
  /\ fees = 0
  /\ phase = [t \in 1..N |-> "open"]

SetPhase(t, p) == phase' = [phase EXCEPT ![t] = p]

\* Tokens nobody is owed.
Receive == held' \in Int /\ held' >= held /\ UNCHANGED <<owed, fees, phase>>

Lock(t) ==
  /\ phase[t] = "open"
  /\ SetPhase(t, "locked")
  /\ owed'[t] \in Nat
  /\ owed' = [owed EXCEPT ![t] = owed'[t]]
  /\ held' = held + owed'[t]
  /\ UNCHANGED fees

Draw(t) ==
  /\ phase[t] = "locked"
  /\ owed'[t] \in Nat
  /\ owed' = [owed EXCEPT ![t] = owed'[t]]
  /\ held' \in Int
  /\ held + owed'[t] <= held' + owed[t]
  /\ UNCHANGED <<fees, phase>>

Close(t) ==
  /\ phase[t] = "locked"
  /\ SetPhase(t, "closed")
  /\ owed' = [owed EXCEPT ![t] = 0]
  /\ fees' \in Nat
  /\ fees' >= fees
  /\ held' \in Int
  /\ held + fees' <= held' + owed[t] + fees

\* A trade given up before it was funded.
Abandon(t) == phase[t] = "open" /\ SetPhase(t, "closed") /\ UNCHANGED <<held, owed, fees>>

Withdraw ==
  /\ fees' \in Nat
  /\ held' \in Int
  /\ held + fees' <= held' + fees
  /\ fees' <= fees
  /\ UNCHANGED <<owed, phase>>

Next ==
  \/ Receive
  \/ Withdraw
  \/ \E t \in 1..N : Lock(t) \/ Draw(t) \/ Close(t) \/ Abandon(t)

Spec == Init /\ [][Next]_cvars

\* Backed: the vault covers everything owed and all fees set aside.
Backed == held >= SumTo(owed, N) + fees
=============================================================================
