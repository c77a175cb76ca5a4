--------------------------- MODULE MCVMLifecycle ----------------------------
(* VMLifecycle for TLC. *)
EXTENDS VMLifecycle, TLC

CONSTANTS r1, r2, u1, u2, u3, n1, n2

OneResource == {r1}
TwoResources == {r1, r2}
TwoUuids == {u1, u2}
ThreeUuids == {u1, u2, u3}
TwoNames == {n1, n2}
OneName == {n1}

\* Both resources ask for the same name, one by createvm and one by clonevm.
SameName == [r \in TwoResources |-> n1]
ImageAndClone == [r \in TwoResources |-> IF r = r1 THEN "image" ELSE "linked"]

OwnName == [r \in TwoResources |-> IF r = r1 THEN n1 ELSE n2]
OneOwnName == [r \in OneResource |-> n1]
ImageOnly == [r \in OneResource |-> "image"]

\* r1 has an adapter, r2 is a configuration that is read back as it is.
FirstOnly == {r1}
Nobody == {}

AnyFaults == FaultKinds
\* Nobody deletes a VM behind Terraform's back.
CommandFaults == FaultKinds \ {"userdelete"}
UserDelete == {"userdelete"}

UuidsAlike == Permutations(ThreeUuids)
=============================================================================
