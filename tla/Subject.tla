------------------------------ MODULE Subject ------------------------------
\* Which part of the platform a behaviour follows. The parts composed this way
\* share no state, so following them one at a time leaves out no interleaving.
CONSTANT Subjects

VARIABLE subject

NoSubject == "none"

\* The first step of a behaviour turns to one of the parts; what the part finds,
\* when it may find several things, is chosen then.
TurnTo(part) == subject = NoSubject /\ part \in Subjects /\ subject' = part

\* Every later step is one of that part.
StaysWith(part) == subject = part /\ UNCHANGED subject
=============================================================================
