---------------------------- MODULE MCBootOrder -----------------------------
(* BootOrder for TLC: three VMs, so that two can tear a slot for a third.    *)
EXTENDS BootOrder, TLC

CONSTANTS r1, r2, r3

ThreeResources == {r1, r2, r3}
ThreeDevices == {"disk", "dvd", "net"}
LengthOf == [dev \in ThreeDevices |-> IF dev = "disk" THEN 4 ELSE 3]
DiskFirst == <<"disk", "dvd">>
\* Nothing, one slot, both slots.
SomeLists == {<<>>, <<"net">>, <<"dvd", "disk">>}
Alike == Permutations(ThreeResources)
=============================================================================
