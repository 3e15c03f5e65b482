------------------------------ MODULE MCEscrow ------------------------------
(***************************************************************************)
(* Instances of the escrow contract for TLC.  Every configuration gives    *)
(* the same definitions other inputs; an empty set of inputs turns the     *)
(* entrypoints that take one off.                                          *)
(***************************************************************************)
EXTENDS EscrowMirror, TLC

DefaultPolicy == [maxExtensions |-> 2, maxTotalSecs |-> 2]
WiderPolicy   == [maxExtensions |-> 3, maxTotalSecs |-> 3]
ClosedPolicy  == [maxExtensions |-> 0, maxTotalSecs |-> 0]
BeyondCeiling == [maxExtensions |-> 4, maxTotalSecs |-> 5]

NoPolicies   == {}
SomePolicies == {WiderPolicy, ClosedPolicy, BeyondCeiling}

QuorumOff == [enabled |-> FALSE, valueThreshold |-> 9, requiredWeight |-> 3,
              voteWindow |-> 1, fallbackMinWeight |-> 2]
QuorumOn  == [enabled |-> TRUE, valueThreshold |-> 4, requiredWeight |-> 3,
              voteWindow |-> 1, fallbackMinWeight |-> 2]

NoQuorums  == {}
OneQuorum  == {QuorumOn}

MediatorSymmetry == Permutations(Mediators)
=============================================================================
