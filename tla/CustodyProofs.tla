--------------------------- MODULE CustodyProofs ---------------------------
(***************************************************************************)
(* The vault is always backed, for every number of trades.                 *)
(***************************************************************************)
EXTENDS Custody, SumLemmas

\* The books are kept in whole units.
Books ==
  /\ held \in Int
  /\ owed \in [1..N -> Nat]
  /\ fees \in Nat

VaultInv == Books /\ Backed

\* VaultInit: an empty vault owes nothing.
LEMMA VaultInit ==
  ASSUME N \in Nat, Init
  PROVE  VaultInv
<1>1. SumTo([t \in 1..N |-> 0], N) = 0
  BY SumZero
<1>2. QED
  BY <1>1 DEF Init, VaultInv, Books, Backed

\* OneEntry: when one trade's debt changes, what is owed in all changes by as
\* much.
LEMMA OneEntry ==
  ASSUME N \in Nat, owed \in [1..N -> Nat], NEW t \in 1..N, NEW v \in Nat
  PROVE  /\ [owed EXCEPT ![t] = v] \in [1..N -> Nat]
         /\ SumTo(owed, N) \in Int
         /\ SumTo([owed EXCEPT ![t] = v], N) \in Int
         /\ SumTo([owed EXCEPT ![t] = v], N) + owed[t] = SumTo(owed, N) + v
<1>1. owed \in [1..N -> Int] /\ v \in Int
  OBVIOUS
<1>2. SumTo([owed EXCEPT ![t] = v], N) + owed[t] = SumTo(owed, N) + v
  BY <1>1, SumUpdate, Zenon
<1>3. SumTo(owed, N) \in Int
  BY <1>1, SumIsInt
<1>4. [owed EXCEPT ![t] = v] \in [1..N -> Int]
  OBVIOUS
<1>5. SumTo([owed EXCEPT ![t] = v], N) \in Int
  BY <1>4, SumIsInt, Zenon
<1>6. QED
  BY <1>2, <1>3, <1>5

\* StillCovered: a vault that covers its books covers them after a step that
\* takes no more out of the vault than it takes off trade t's debt and does not
\* set aside as fees.
LEMMA StillCovered ==
  ASSUME N \in Nat, VaultInv, NEW t \in 1..N, SumTo(owed, N) \in Int,
         owed' \in [1..N -> Nat], SumTo(owed', N) \in Int, held' \in Int, fees' \in Nat,
         SumTo(owed', N) + owed[t] = SumTo(owed, N) + owed'[t],
         (held + owed'[t]) + fees' <= (held' + owed[t]) + fees
  PROVE  held' >= SumTo(owed', N) + fees'
<1>1. PICK h, f, o, x \in Int : h = held /\ f = fees /\ o = SumTo(owed, N) /\ x = owed[t]
  BY DEF VaultInv, Books
<1>2. PICK i, g, p, y \in Int : i = held' /\ g = fees' /\ p = SumTo(owed', N) /\ y = owed'[t]
  OBVIOUS
<1>3. h >= o + f
  BY <1>1 DEF VaultInv, Backed
<1>4. p + x = o + y
  BY <1>1, <1>2
<1>5. (h + y) + g <= (i + x) + f
  BY <1>1, <1>2
<1>6. i >= p + g
  BY <1>3, <1>4, <1>5
<1>7. QED
  BY <1>2, <1>6

\* VaultStep: no step takes more out of the vault than leaves the books.
LEMMA VaultStep ==
  ASSUME N \in Nat, VaultInv, [Next]_cvars
  PROVE  VaultInv'
<1> USE DEF VaultInv, Books, Backed
<1>1. SumTo(owed, N) \in Int
  BY SumIsInt
<1>2. CASE Receive
  BY <1>1, <1>2 DEF Receive
<1>3. CASE Withdraw
  <2>1. held' \in Int /\ fees' \in Nat /\ held + fees' <= held' + fees /\ owed' = owed
    BY <1>3, Zenon DEF Withdraw
  <2>2. PICK h, f, o \in Int : h = held /\ f = fees /\ o = SumTo(owed, N)
    BY <1>1
  <2>3. PICK i, g \in Int : i = held' /\ g = fees'
    BY <2>1
  <2>4. h >= o + f /\ h + g <= i + f
    BY <2>1, <2>2, <2>3, Zenon
  <2>5. i >= o + g
    BY <2>4
  <2>6. QED
    BY <2>1, <2>2, <2>3, <2>5
<1>4. ASSUME NEW t \in 1..N, Lock(t)
      PROVE  VaultInv'
  <2>1. /\ owed' \in [1..N -> Nat] /\ SumTo(owed', N) \in Int
        /\ SumTo(owed', N) + owed[t] = SumTo(owed, N) + owed'[t]
    BY <1>4, OneEntry, Zenon DEF Lock
  <2>2. held' \in Int /\ fees' \in Nat /\ (held + owed'[t]) + fees' <= (held' + owed[t]) + fees
    <3>1. PICK h, f, x, y \in Int : h = held /\ f = fees /\ x = owed[t] /\ y = owed'[t]
      BY <2>1
    <3>2. x >= 0 /\ held' = h + y /\ fees' = f
      BY <1>4, <3>1 DEF Lock
    <3>3. (h + y) + f <= ((h + y) + x) + f
      BY <3>2
    <3>4. QED
      BY <3>1, <3>2, <3>3
  <2>3. held' >= SumTo(owed', N) + fees'
    BY <1>1, <2>1, <2>2, StillCovered, Zenon
  <2>4. QED
    BY <2>1, <2>2, <2>3, Zenon
<1>5. ASSUME NEW t \in 1..N, Draw(t)
      PROVE  VaultInv'
  <2>1. /\ owed' \in [1..N -> Nat] /\ SumTo(owed', N) \in Int
        /\ SumTo(owed', N) + owed[t] = SumTo(owed, N) + owed'[t]
    BY <1>5, OneEntry, Zenon DEF Draw
  <2>2. held' \in Int /\ fees' \in Nat /\ (held + owed'[t]) + fees' <= (held' + owed[t]) + fees
    <3>1. PICK h, f, x, y \in Int : h = held /\ f = fees /\ x = owed[t] /\ y = owed'[t]
      BY <2>1
    <3>2. PICK i \in Int : i = held'
      BY <1>5 DEF Draw
    <3>3. h + y <= i + x /\ fees' = f /\ fees' \in Nat
      BY <1>5, <3>1, <3>2 DEF Draw
    <3>4. (h + y) + f <= (i + x) + f
      BY <3>3
    <3>5. QED
      BY <3>1, <3>2, <3>3, <3>4
  <2>3. held' >= SumTo(owed', N) + fees'
    BY <1>1, <2>1, <2>2, StillCovered, Zenon
  <2>4. QED
    BY <2>1, <2>2, <2>3, Zenon
<1>6. ASSUME NEW t \in 1..N, Close(t)
      PROVE  VaultInv'
  <2>1. /\ owed' \in [1..N -> Nat] /\ SumTo(owed', N) \in Int
        /\ SumTo(owed', N) + owed[t] = SumTo(owed, N) + owed'[t]
    BY <1>6, OneEntry, Zenon DEF Close
  <2>2. held' \in Int /\ fees' \in Nat /\ (held + owed'[t]) + fees' <= (held' + owed[t]) + fees
    <3>1. /\ owed'[t] = 0 /\ fees' \in Nat /\ held' \in Int
          /\ held + fees' <= held' + owed[t] + fees
      BY <1>6, Zenon DEF Close
    <3>2. PICK h, i, f, g, x \in Int : h = held /\ i = held' /\ f = fees /\ g = fees' /\ x = owed[t]
      BY <3>1
    <3>3. h + g <= i + x + f
      BY <3>1, <3>2, Zenon
    <3>4. (h + 0) + g <= (i + x) + f
      BY <3>3
    <3>5. QED
      BY <3>1, <3>2, <3>4, Zenon
  <2>3. held' >= SumTo(owed', N) + fees'
    BY <1>1, <2>1, <2>2, StillCovered, Zenon
  <2>4. QED
    BY <2>1, <2>2, <2>3, Zenon
<1>7. ASSUME NEW t \in 1..N, Abandon(t)
      PROVE  VaultInv'
  BY <1>7 DEF Abandon
<1>8. CASE UNCHANGED cvars
  BY <1>8 DEF cvars
<1>9. QED
  BY <1>2, <1>3, <1>4, <1>5, <1>6, <1>7, <1>8, Zenon DEF Next

\* VaultBacked: the vault of Custody covers what it owes, whatever is locked,
\* drawn, closed and withdrawn.
THEOREM VaultBacked ==
  ASSUME N \in Nat
  PROVE  Spec => []Backed
<1>1. Init => VaultInv
  BY VaultInit
<1>2. VaultInv /\ [Next]_cvars => VaultInv'
  BY VaultStep
<1>3. VaultInv => Backed
  BY DEF VaultInv
<1>4. QED
  BY <1>1, <1>2, <1>3, PTL DEF Spec
=============================================================================
