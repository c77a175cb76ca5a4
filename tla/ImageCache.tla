----------------------------- MODULE ImageCache -----------------------------
(***************************************************************************)
(* How concurrent resourceVMCreate calls obtain the disks of an image.     *)
(*                                                                         *)
(* Terraform runs up to ten creates at once in one provider process.  On   *)
(* the image path each create                                              *)
(*   - downloads the image to <basename of the URL> in the working         *)
(*     directory (fetchIfRemote), under no lock,                           *)
(*   - takes imageOpMutex and unpacks it into gold/<hash of the image>,    *)
(*     unless that directory already holds something (unpackImage),        *)
(*   - releases the mutex and lists the disks it finds there (gatherDisks),*)
(*   - registers a VM (createMachine), and then, per disk, gives the gold  *)
(*     disk a new UUID under no lock (sethduuid) and clones it to the VM's *)
(*     folder under imageOpMutex (cloneHD).                                *)
(*                                                                         *)
(* An image is an archive of N members.  The content of a file is the      *)
(* image each of its N blocks came from, so that truncation, holes and     *)
(* mixtures of two downloads can be told apart, and nothing else can.      *)
(* What happens after the last clone is module VMLifecycle.                *)
(***************************************************************************)
EXTENDS Naturals, FiniteSets, FiniteSetsExt

CONSTANTS
    Creates,      \* the create operations (one per VM resource)
    Images,       \* the image addresses the configurations name
    Remote,       \* those with an http or https scheme
    Source,       \* Source[c]: the image create c is configured with
    Files,        \* paths of archives on the host
    FileOf,       \* FileOf[i]: the path fetchIfRemote returns for image i
    N,            \* members of an archive, and blocks of its file
    DiskMembers,  \* the members whose extension is .vdi or .vmdk
    Tries,        \* invocations of tar that unpackImage makes at most
    Faults,       \* what may fail in this instance
    MaxRestarts,  \* bound: terraform apply is run again this often at most
    None,         \* nothing: an absent block, a free mutex
    Junk          \* a block of an HTTP error page (the status is not checked)

Members == 1..N
FaultKinds == {"fetch", "tar", "vbox", "crash"}

ASSUME CreatesAssumption ==
    /\ None \notin Creates
    /\ IsFiniteSet(Creates)
ASSUME ImagesAssumption ==
    /\ None \notin Images
    /\ Junk \notin Images
    /\ Junk # None
    /\ Remote \subseteq Images
    /\ Source \in [Creates -> Images]
    /\ FileOf \in [Images -> Files]
ASSUME SizesAssumption ==
    /\ N \in Nat \ {0}
    /\ Tries \in Nat \ {0}
    /\ DiskMembers \subseteq Members
    /\ MaxRestarts \in Nat
    /\ Faults \subseteq FaultKinds

VARIABLES
    pc,          \* where each create is in resourceVMCreate
    pos,         \* the block a create downloads, or the member it extracts, next
    try,         \* the tar invocation a create is at
    todo,        \* the gold disks a create listed and has not cloned yet
    files,       \* files[f]: the blocks of the archive at path f
    gold,        \* gold[i]: the members in gold/<hash of i>
    mutex,       \* imageOpMutex: who holds it
    registered,  \* the creates whose VM name VirtualBox knows
    vmdisk,      \* vmdisk[c]: the disks in the folder of c's VM
    restarts     \* how often apply was run again

vars == <<pc, pos, try, todo, files, gold, mutex, registered, vmdisk, restarts>>

Steps == {"idle", "copy", "lock", "check", "tar", "gather", "createvm",
          "sethduuid", "lockclone", "clone", "built", "failed"}
Critical == {"check", "tar", "clone"}
Ended == {"built", "failed"}

Blank == [m \in Members |-> None]
Present(dir) == {m \in Members : dir[m] # None}
Whole(i) == [m \in Members |-> i]
GoldOf(c) == gold[Source[c]]
ArchiveOf(c) == files[FileOf[Source[c]]]

TypeOK ==
    /\ pc \in [Creates -> Steps]
    /\ pos \in [Creates -> 1..(N + 1)]
    /\ try \in [Creates -> 1..Tries]
    /\ todo \in [Creates -> SUBSET DiskMembers]
    /\ files \in [Files -> [Members -> Images \cup {None, Junk}]]
    /\ gold \in [Images -> [Members -> Images \cup {None}]]
    /\ mutex \in Creates \cup {None}
    /\ registered \subseteq Creates
    /\ vmdisk \in [Creates -> [Members -> Images \cup {None}]]
    /\ restarts \in 0..MaxRestarts

\* Local images are there from the start; nothing was downloaded or unpacked.
Init ==
    /\ pc = [c \in Creates |-> "idle"]
    /\ pos = [c \in Creates |-> 1]
    /\ try = [c \in Creates |-> 1]
    /\ todo = [c \in Creates |-> {}]
    /\ files = [f \in Files |->
                  [m \in Members |->
                     IF \E i \in Images \ Remote : FileOf[i] = f
                     THEN CHOOSE i \in Images \ Remote : FileOf[i] = f
                     ELSE None]]
    /\ gold = [i \in Images |-> Blank]
    /\ mutex = None
    /\ registered = {}
    /\ vmdisk = [c \in Creates |-> Blank]
    /\ restarts = 0

Goto(c, step) == pc' = [pc EXCEPT ![c] = step]
Fail(c) == Goto(c, "failed")

-----------------------------------------------------------------------------
(* fetchIfRemote *)

\* A path without a scheme is used as it is.
UseLocal(c) ==
    /\ pc[c] = "idle"
    /\ Source[c] \notin Remote
    /\ Goto(c, "lock")
    /\ UNCHANGED <<pos, try, todo, files, gold, mutex, registered, vmdisk, restarts>>

\* os.Create truncates what is there, whoever is reading or writing it.
OpenFile(c) ==
    /\ pc[c] = "idle"
    /\ Source[c] \in Remote
    /\ Goto(c, "copy")
    /\ pos' = [pos EXCEPT ![c] = 1]
    /\ files' = [files EXCEPT ![FileOf[Source[c]]] = Blank]
    /\ UNCHANGED <<try, todo, gold, mutex, registered, vmdisk, restarts>>

\* io.Copy writes at this file handle's own offset.
CopyBlock(c) ==
    /\ pc[c] = "copy"
    /\ pos[c] \in Members
    /\ files' = [files EXCEPT ![FileOf[Source[c]]][pos[c]] = Source[c]]
    /\ pos' = [pos EXCEPT ![c] = @ + 1]
    /\ UNCHANGED <<pc, try, todo, gold, mutex, registered, vmdisk, restarts>>

\* The body of a 404 is copied like any other body: one block of junk.
CopyErrorPage(c) ==
    /\ "fetch" \in Faults
    /\ pc[c] = "copy"
    /\ pos[c] = 1
    /\ files' = [files EXCEPT ![FileOf[Source[c]]][1] = Junk]
    /\ pos' = [pos EXCEPT ![c] = N + 1]
    /\ UNCHANGED <<pc, try, todo, gold, mutex, registered, vmdisk, restarts>>

CopyDone(c) ==
    /\ pc[c] = "copy"
    /\ pos[c] = N + 1
    /\ Goto(c, "lock")
    /\ UNCHANGED <<pos, try, todo, files, gold, mutex, registered, vmdisk, restarts>>

\* http.Get or io.Copy fails: the file stays as far as it was written.
CopyFails(c) ==
    /\ "fetch" \in Faults
    /\ pc[c] = "copy"
    /\ Fail(c)
    /\ UNCHANGED <<pos, try, todo, files, gold, mutex, registered, vmdisk, restarts>>

-----------------------------------------------------------------------------
(* unpackImage, called with imageOpMutex held *)

\* Mutant: the mutex is not waited for.
LockUnpackNoWait(c) ==
    /\ pc[c] = "lock"
    /\ mutex' = c
    /\ Goto(c, "check")
    /\ UNCHANGED <<pos, try, todo, files, gold, registered, vmdisk, restarts>>

LockUnpack(c) ==
    /\ pc[c] = "lock"
    /\ mutex = None
    /\ mutex' = c
    /\ Goto(c, "check")
    /\ UNCHANGED <<pos, try, todo, files, gold, registered, vmdisk, restarts>>

\* "Already unpacked": the directory exists and holds at least one entry.
SkipUnpack(c) ==
    /\ pc[c] = "check"
    /\ Present(GoldOf(c)) # {}
    /\ Goto(c, "gather")
    /\ mutex' = None
    /\ UNCHANGED <<pos, try, todo, files, gold, registered, vmdisk, restarts>>

\* Mutant: the mutex only protects the test for an empty directory.
StartTarUnlocked(c) ==
    /\ pc[c] = "check"
    /\ Present(GoldOf(c)) = {}
    /\ Goto(c, "tar")
    /\ pos' = [pos EXCEPT ![c] = 1]
    /\ try' = [try EXCEPT ![c] = 1]
    /\ mutex' = None
    /\ UNCHANGED <<todo, files, gold, registered, vmdisk, restarts>>

\* Mutant: every create empties the directory and unpacks for itself.
StartTarAgain(c) ==
    /\ pc[c] = "check"
    /\ Goto(c, "tar")
    /\ pos' = [pos EXCEPT ![c] = 1]
    /\ try' = [try EXCEPT ![c] = 1]
    /\ gold' = [gold EXCEPT ![Source[c]] = Blank]
    /\ UNCHANGED <<todo, files, mutex, registered, vmdisk, restarts>>

StartTar(c) ==
    /\ pc[c] = "check"
    /\ Present(GoldOf(c)) = {}
    /\ Goto(c, "tar")
    /\ pos' = [pos EXCEPT ![c] = 1]
    /\ try' = [try EXCEPT ![c] = 1]
    /\ UNCHANGED <<todo, files, gold, mutex, registered, vmdisk, restarts>>

\* tar extracts one member from what the file holds at this moment.
ExtractMember(c) ==
    /\ pc[c] = "tar"
    /\ pos[c] \in Members
    /\ ArchiveOf(c)[pos[c]] \in Images
    /\ gold' = [gold EXCEPT ![Source[c]][pos[c]] = ArchiveOf(c)[pos[c]]]
    /\ pos' = [pos EXCEPT ![c] = @ + 1]
    /\ UNCHANGED <<pc, try, todo, files, mutex, registered, vmdisk, restarts>>

\* tar reached the end (an empty file ends at once, with exit status 0).
TarExitsZero(c) ==
    /\ pc[c] = "tar"
    /\ \/ pos[c] = N + 1
       \/ pos[c] = 1 /\ ArchiveOf(c) = Blank

\* tar met a hole, junk, or an error of its own (disk full, wrong format).
TarExitsNonZero(c) ==
    /\ pc[c] = "tar"
    /\ pos[c] \in Members
    /\ \/ ArchiveOf(c)[pos[c]] \notin Images
       \/ "tar" \in Faults

UnpackOK(c) ==
    /\ TarExitsZero(c)
    /\ Present(GoldOf(c)) # {}
    /\ Goto(c, "gather")
    /\ mutex' = None
    /\ UNCHANGED <<pos, try, todo, files, gold, registered, vmdisk, restarts>>

TarFruitless(c) ==
    \/ TarExitsZero(c) /\ Present(GoldOf(c)) = {}
    \/ TarExitsNonZero(c)

\* Mutant: one invocation too many.
NextTarOnceMore(c) ==
    /\ TarFruitless(c)
    /\ try[c] <= Tries
    /\ try' = [try EXCEPT ![c] = @ + 1]
    /\ pos' = [pos EXCEPT ![c] = 1]
    /\ UNCHANGED <<pc, todo, files, gold, mutex, registered, vmdisk, restarts>>

\* The next set of flags; what the last invocation extracted stays.
NextTar(c) ==
    /\ TarFruitless(c)
    /\ try[c] < Tries
    /\ try' = [try EXCEPT ![c] = @ + 1]
    /\ pos' = [pos EXCEPT ![c] = 1]
    /\ UNCHANGED <<pc, todo, files, gold, mutex, registered, vmdisk, restarts>>

UnpackFails(c) ==
    /\ TarFruitless(c)
    /\ try[c] = Tries
    /\ Fail(c)
    /\ mutex' = None
    /\ UNCHANGED <<pos, try, todo, files, gold, registered, vmdisk, restarts>>

-----------------------------------------------------------------------------
(* From the gold directory to the VM's folder *)

GatherDisks(c) ==
    LET disks == Present(GoldOf(c)) \cap DiskMembers
    IN  /\ pc[c] = "gather"
        /\ todo' = [todo EXCEPT ![c] = disks]
        /\ IF disks = {} THEN Fail(c) ELSE Goto(c, "createvm")
        /\ UNCHANGED <<pos, try, files, gold, mutex, registered, vmdisk, restarts>>

CreateMachine(c) ==
    /\ pc[c] = "createvm"
    /\ c \notin registered
    /\ registered' = registered \cup {c}
    /\ Goto(c, "sethduuid")
    /\ UNCHANGED <<pos, try, todo, files, gold, mutex, vmdisk, restarts>>

\* createvm refuses a name it knows, or fails; or it registers the VM and the
\* showvminfo that follows fails.
CreateMachineFails(c) ==
    /\ pc[c] = "createvm"
    /\ \/ c \in registered /\ UNCHANGED registered
       \/ "vbox" \in Faults /\ UNCHANGED registered
       \/ "vbox" \in Faults /\ registered' = registered \cup {c}
    /\ Fail(c)
    /\ UNCHANGED <<pos, try, todo, files, gold, mutex, vmdisk, restarts>>

SetHDUUID(c) ==
    /\ pc[c] = "sethduuid"
    /\ Goto(c, "lockclone")
    /\ UNCHANGED <<pos, try, todo, files, gold, mutex, registered, vmdisk, restarts>>

SetHDUUIDFails(c) ==
    /\ pc[c] = "sethduuid"
    /\ "vbox" \in Faults
    /\ Fail(c)
    /\ UNCHANGED <<pos, try, todo, files, gold, mutex, registered, vmdisk, restarts>>

LockClone(c) ==
    /\ pc[c] = "lockclone"
    /\ mutex = None
    /\ mutex' = c
    /\ Goto(c, "clone")
    /\ UNCHANGED <<pos, try, todo, files, gold, registered, vmdisk, restarts>>

\* Mutant: only the first disk is cloned.
CloneFirst(c) ==
    LET disk == Min(todo[c])
    IN  /\ pc[c] = "clone"
        /\ GoldOf(c)[disk] # None
        /\ vmdisk' = [vmdisk EXCEPT ![c][disk] = GoldOf(c)[disk]]
        /\ todo' = [todo EXCEPT ![c] = {}]
        /\ mutex' = None
        /\ Goto(c, "built")
        /\ UNCHANGED <<pos, try, files, gold, registered, restarts>>

CloneHD(c) ==
    LET disk == Min(todo[c])
    IN  /\ pc[c] = "clone"
        /\ GoldOf(c)[disk] # None
        /\ vmdisk' = [vmdisk EXCEPT ![c][disk] = GoldOf(c)[disk]]
        /\ todo' = [todo EXCEPT ![c] = @ \ {disk}]
        /\ mutex' = None
        /\ Goto(c, IF todo[c] = {disk} THEN "built" ELSE "sethduuid")
        /\ UNCHANGED <<pos, try, files, gold, registered, restarts>>

\* Mutant: the error is returned with the mutex held.
CloneHDFailsLocked(c) ==
    /\ pc[c] = "clone"
    /\ \/ "vbox" \in Faults
       \/ GoldOf(c)[Min(todo[c])] = None
    /\ Fail(c)
    /\ UNCHANGED <<pos, try, todo, files, gold, mutex, registered, vmdisk, restarts>>

\* The mutex is released before the error is looked at.
CloneHDFails(c) ==
    /\ pc[c] = "clone"
    /\ \/ "vbox" \in Faults
       \/ GoldOf(c)[Min(todo[c])] = None
    /\ mutex' = None
    /\ Fail(c)
    /\ UNCHANGED <<pos, try, todo, files, gold, registered, vmdisk, restarts>>

-----------------------------------------------------------------------------
(* Terraform *)

Unfinished == {c \in Creates : pc[c] # "built"}

\* The user runs apply again: a new provider process, the same host.  A create
\* that failed before SetId left nothing in the Terraform state.
Restart ==
    /\ restarts < MaxRestarts
    /\ Unfinished # {}
    /\ restarts' = restarts + 1
    /\ pc' = [c \in Creates |-> IF c \in Unfinished THEN "idle" ELSE pc[c]]
    /\ mutex' = None
    /\ todo' = [c \in Creates |-> {}]
    /\ UNCHANGED <<pos, try, files, gold, registered, vmdisk>>

ApplyAgain ==
    /\ \A c \in Creates : pc[c] \in Ended
    /\ Restart

\* The provider process is killed at any step.
Crash ==
    /\ "crash" \in Faults
    /\ Restart

Finished ==
    /\ \A c \in Creates : pc[c] \in Ended
    /\ UNCHANGED vars

Fetch(c) ==
    \/ UseLocal(c) \/ OpenFile(c) \/ CopyBlock(c) \/ CopyErrorPage(c)
    \/ CopyDone(c) \/ CopyFails(c)
Unpack(c) ==
    \/ LockUnpack(c) \/ SkipUnpack(c) \/ StartTar(c) \/ ExtractMember(c)
    \/ UnpackOK(c) \/ NextTar(c) \/ UnpackFails(c)
Build(c) ==
    \/ GatherDisks(c) \/ CreateMachine(c) \/ CreateMachineFails(c)
    \/ SetHDUUID(c) \/ SetHDUUIDFails(c)
    \/ LockClone(c) \/ CloneHD(c) \/ CloneHDFails(c)
Create(c) == Fetch(c) \/ Unpack(c) \/ Build(c)

Next == (\E c \in Creates : Create(c)) \/ ApplyAgain \/ Crash \/ Finished

Spec == Init /\ [][Next]_vars

\* Every goroutine that can run is run eventually, and sync.Mutex hands the
\* lock to a waiter that has waited for a millisecond.
Fairness == \A c \in Creates : WF_vars(Create(c))
FairSpec == Spec /\ Fairness

-----------------------------------------------------------------------------
(* Properties *)

\* imageOpMutex does its work: no two creates are inside unpackImage or
\* cloneHD at once, on the error returns too.
MutualExclusion ==
    \A c, d \in Creates :
        pc[c] \in Critical /\ pc[d] \in Critical => c = d

\* "Already unpacked": a create that leaves unpackImage without an error finds
\* the whole image in the gold directory, whether it unpacked it or not.
UnpackedIsWhole ==
    \A c \in Creates :
        pc[c] \in {"gather", "createvm", "sethduuid", "lockclone", "clone", "built"}
          => GoldOf(c) = Whole(Source[c])

\* A VM that was built has every disk of its image and none of another.
BuiltFromItsImage ==
    \A c \in Creates :
        pc[c] = "built" =>
            \A m \in Members :
                vmdisk[c][m] = IF m \in DiskMembers THEN Source[c] ELSE None

\* A gold directory that some create has been told to use never changes again,
\* whatever the others download, unpack or fail at.
InUse(i) ==
    \E c \in Creates :
        Source[c] = i /\ pc[c] \in {"createvm", "sethduuid", "lockclone", "clone", "built"}
GoldFrozenInUse == [][\A i \in Images : InUse(i) => gold'[i] = gold[i]]_vars

\* Every create ends, with a VM or with an error: nobody waits for a mutex that
\* is never released.
EveryCreateEnds == \A c \in Creates : <>[](pc[c] \in Ended)
=============================================================================
