----------------------------- MODULE MCSnapshot -----------------------------
(* Snapshot for TLC: two resources with names of their own.                 *)
EXTENDS Snapshot, TLC

CONSTANTS r1, r2, n1, n2, n3

TwoResources == {r1, r2}
OwnName == [r \in TwoResources |-> IF r = r1 THEN n1 ELSE n2]
ThreeNames == {n1, n2, n3}
\* The users' snapshots have a name no resource has.
Others == {n3}
TwoDescriptions == {"old", "new"}

AnyFaults == FaultKinds
=============================================================================
