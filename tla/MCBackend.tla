------------------------------ MODULE MCBackend ------------------------------
\* The copy of the contract's state and the payout intents on small instances.
\* They share no state, so a behaviour follows one of the two. The replicas are
\* interchangeable.
EXTENDS Subject, ChainSync, Payouts, TLC

BackendInit ==
  /\ subject \in Subjects
  /\ SyncInit /\ (subject # "ChainSync" => tradeRow = [t \in TradeIds |-> NoRow])
  /\ PayInit

BackendNext ==
  \/ StaysWith("ChainSync") /\ SyncNext /\ UNCHANGED payVars
  \/ StaysWith("Payouts") /\ PayNext /\ UNCHANGED syncVars

ReplicaSymmetry == Permutations(Listeners)

\* At most this many requests, jobs and crashes disturb the listeners in one
\* behaviour: two of them cross, or one meets a crash. A schedule is rewritten
\* between two claims, or a hash is recorded.
Disturbances ==
  /\ requests + crashes <= 2
  /\ posted.schedules + posted.records <= 2
=============================================================================
