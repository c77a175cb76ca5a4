----------------------------- MODULE MCVMConfig -----------------------------
(* VMConfig for TLC. *)
EXTENDS VMConfig

\* 1024mib is read back as 1.0gib.
ThreeMemories == {"512mib", "1024mib", "1.0gib"}
AsPrinted == [m \in ThreeMemories |-> IF m = "1024mib" THEN "1.0gib" ELSE m]
TwoLevels == {0, 1}
OneRule == {"ssh"}
TwoFolders == {"src", "data"}
AllKinds == {"image", "ova", "linked"}
\* A plain VM, and one that has a value, an adapter, a rule and a folder of its own.
TwoSources == {Fresh, [Fresh EXCEPT !.firmware = 1, !.nics = 1, !.rules = {"ssh"},
                                    !.folders = {"src"}]}
AnyCommand == Stages \ {"rest"}
=============================================================================
