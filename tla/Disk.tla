-------------------------------- MODULE Disk --------------------------------
(***************************************************************************)
(* virtualbox_disk: the handlers of resource_disk.go, over the media that  *)
(* VirtualBox has registered.  HostFiles composes them with the resources  *)
(* that work on the same files.                                            *)
(*                                                                         *)
(* Every command is given the path, which is the disk's own, so that a     *)
(* medium is known by its disk; the UUID in the state is not used.  A      *)
(* medium whose file is gone stays registered and is inaccessible.         *)
(***************************************************************************)
EXTENDS Naturals

CONSTANTS
    Disks,      \* the virtualbox_disk resources
    Sizes,
    Faults,     \* what may go wrong in this instance
    MaxTrouble, \* bound: faults, user actions and edits, in all
    None

ASSUME DiskAssumption == Sizes \subseteq Nat /\ MaxTrouble \in Nat /\ None \notin Nat

VARIABLES
    media,   \* media[d]: the medium at the path of d, if there is one
    stored,  \* stored[d]: the size in the state, if d is in it
    want,    \* want[d]: the configured size, if d is configured
    step,    \* step[r]: where resource r is in the running apply
    failed,  \* the resources that reported an error in it
    trouble  \* faults, user actions and edits so far

Media == [size : Sizes, file : BOOLEAN]

Spend == trouble < MaxTrouble /\ trouble' = trouble + 1
Strike(f) == f \in Faults /\ Spend
\* A command that VirtualBox refuses, or that fails by itself.
GoesWrong(refused, f) == (refused /\ UNCHANGED trouble) \/ Strike(f)

Goto(r, s) == step' = [step EXCEPT ![r] = s]
Done(r) == Goto(r, "done") /\ UNCHANGED failed
Fail(r) == Goto(r, "done") /\ failed' = failed \cup {r}

Usable(d) == media[d] # None /\ media[d].file
Remember(d, size) == stored' = [stored EXCEPT ![d] = size]

-----------------------------------------------------------------------------
(* resourceDiskRead at the beginning of an apply *)

ReadDisk(d) ==
    /\ step[d] = "refresh"
    /\ Usable(d)
    /\ Remember(d, media[d].size)
    /\ Goto(d, "plan")
    /\ UNCHANGED <<media, want, failed, trouble>>

\* Mutant: the state keeps a disk that cannot be read.
ReadDiskGoneKeeps(d) ==
    /\ step[d] = "refresh"
    /\ GoesWrong(~Usable(d), "info")
    /\ Goto(d, "plan")
    /\ UNCHANGED <<media, stored, want, failed>>

\* "Disk no longer exists or is inaccessible", and any other error.
ReadDiskGone(d) ==
    /\ step[d] = "refresh"
    /\ GoesWrong(~Usable(d), "info")
    /\ Remember(d, None)
    /\ Goto(d, "plan")
    /\ UNCHANGED <<media, want, failed>>

PlanOfDisk(d) ==
    CASE want[d] = None /\ stored[d] # None -> "delete"
      [] want[d] # None /\ stored[d] = None -> "create"
      [] want[d] # None /\ stored[d] # None /\ stored[d] # want[d] -> "update"
      [] OTHER -> "done"

-----------------------------------------------------------------------------
(* resourceDiskCreate *)

\* createmedium; whether it takes a path that is registered and has no file is
\* up to VirtualBox.
CreateDisk(d) ==
    /\ step[d] = "create"
    /\ ~Usable(d)
    /\ media' = [media EXCEPT ![d] = [size |-> want[d], file |-> TRUE]]
    /\ Goto(d, "info")
    /\ UNCHANGED <<stored, want, failed, trouble>>

\* Mutant: a medium that is there is taken for the one to be made.
CreateDiskAdopts(d) ==
    /\ step[d] = "create"
    /\ GoesWrong(media[d] # None, "disk")
    /\ Goto(d, "info")
    /\ UNCHANGED <<media, stored, want, failed>>

CreateDiskFails(d) ==
    /\ step[d] = "create"
    /\ GoesWrong(media[d] # None, "disk")
    /\ Fail(d)
    /\ UNCHANGED <<media, stored, want>>

\* showmediuminfo, and once more in the read after SetId.
CreatedDisk(d) ==
    /\ step[d] = "info"
    /\ Usable(d)
    /\ Remember(d, media[d].size)
    /\ Done(d)
    /\ UNCHANGED <<media, want, trouble>>

\* The first returns an error; the second clears the ID, and Terraform says
\* that the resource is absent.  The medium stays.
CreatedDiskMissing(d) ==
    /\ step[d] = "info"
    /\ GoesWrong(~Usable(d), "info")
    /\ Fail(d)
    /\ UNCHANGED <<media, stored, want>>

-----------------------------------------------------------------------------
(* resourceDiskUpdate and resourceDiskDelete *)

\* modifymedium --resize; a medium in use is locked, and none can shrink.
Resizable(d, locked) == Usable(d) /\ ~locked /\ want[d] > media[d].size

ResizeDisk(d, locked) ==
    /\ step[d] = "update"
    /\ Resizable(d, locked)
    /\ media' = [media EXCEPT ![d].size = want[d]]
    /\ Goto(d, "check")
    /\ UNCHANGED <<stored, want, failed, trouble>>

\* Mutant: an error of the command is not looked at.
ResizeDiskIgnored(d, locked) ==
    /\ step[d] = "update"
    /\ GoesWrong(~Resizable(d, locked), "disk")
    /\ Remember(d, want[d])
    /\ Done(d)
    /\ UNCHANGED <<media, want>>

\* The planned size is stored all the same.
ResizeDiskFails(d, locked) ==
    /\ step[d] = "update"
    /\ GoesWrong(~Resizable(d, locked), "disk")
    /\ Remember(d, want[d])
    /\ Fail(d)
    /\ UNCHANGED <<media, want>>

CheckDisk(d) ==
    /\ step[d] = "check"
    /\ Usable(d)
    /\ Remember(d, media[d].size)
    /\ Done(d)
    /\ UNCHANGED <<media, want, trouble>>

CheckDiskGone(d) ==
    /\ step[d] = "check"
    /\ GoesWrong(~Usable(d), "info")
    /\ Remember(d, None)
    /\ Fail(d)
    /\ UNCHANGED <<media, want>>

\* closemedium --delete, of a medium that no VM has.
DeleteDisk(d, attached) ==
    /\ step[d] = "delete"
    /\ Usable(d) /\ ~attached
    /\ media' = [media EXCEPT ![d] = None]
    /\ Remember(d, None)
    /\ Done(d)
    /\ UNCHANGED <<want, trouble>>

\* "If the file is already gone, that's fine": the text that would say so is on
\* stderr, and the error is "exit status 1".
DeleteDiskFails(d, attached) ==
    /\ step[d] = "delete"
    /\ GoesWrong(~Usable(d) \/ attached, "disk")
    /\ Fail(d)
    /\ UNCHANGED <<media, stored, want>>

DiskHandler(d, attached, locked) ==
    \/ ReadDisk(d) \/ ReadDiskGone(d)
    \/ CreateDisk(d) \/ CreateDiskFails(d) \/ CreatedDisk(d) \/ CreatedDiskMissing(d)
    \/ ResizeDisk(d, locked) \/ ResizeDiskFails(d, locked)
    \/ CheckDisk(d) \/ CheckDiskGone(d)
    \/ DeleteDisk(d, attached) \/ DeleteDiskFails(d, attached)
=============================================================================
