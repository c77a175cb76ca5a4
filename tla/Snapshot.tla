------------------------------ MODULE Snapshot ------------------------------
(***************************************************************************)
(* virtualbox_snapshot: resources that each want one snapshot of a VM.     *)
(*                                                                         *)
(* "snapshot take" prints no UUID, so that a create lists the snapshots    *)
(* and stores the UUID of the first one of its name; everything but        *)
(* "snapshot edit", which goes by name, then goes by that UUID.  A refresh *)
(* that does not find the UUID, or gets no list, drops the resource, and   *)
(* the next step of the same apply takes another snapshot.                 *)
(*                                                                         *)
(* VirtualBox allows any number of snapshots of one name and lists them in *)
(* the order in which they were taken; UUIDs are numbered in that order.   *)
(***************************************************************************)
EXTENDS Naturals, FiniteSets

CONSTANTS
    Resources,    \* the virtualbox_snapshot resources of one VM
    Names,        \* snapshot names
    NameOf,       \* NameOf[r]: the configured name (ForceNew)
    UserNames,    \* names that other users of the VM give to theirs
    Descriptions,
    Faults,       \* what may go wrong in this instance
    MaxTrouble,   \* bound: faults, user actions and edits, in all
    User          \* the maker of a snapshot no resource has taken

NoId == 0
FaultKinds == {"take",       \* snapshot take fails
               "list",       \* snapshot list fails
               "edit",       \* snapshot edit fails
               "delete",     \* snapshot delete fails
               "crash",      \* terraform is killed
               "usertake",   \* somebody takes a snapshot
               "userdelete"} \* somebody deletes one

ASSUME NamesAssumption ==
    /\ NameOf \in [Resources -> Names]
    /\ UserNames \subseteq Names
    /\ User \notin Resources
ASSUME BoundsAssumption ==
    /\ Descriptions # {}
    /\ MaxTrouble \in Nat
    /\ Faults \subseteq FaultKinds

VARIABLES
    snaps,    \* the snapshots of the VM
    next,     \* the UUID of the next one
    id,       \* id[r]: the stored ID
    wanted,   \* the configuration has resource r
    want,     \* want[r]: the configured description
    step,     \* where the running operation of r is
    handle,   \* the ID a create has set and not returned yet
    lapses,   \* lapses[r]: creates of r that failed or were killed, and
              \* refreshes that got no list
    trouble   \* faults, user actions and edits so far

vars == <<snaps, next, id, wanted, want, step, handle, lapses, trouble>>

Snapshots == [uuid : Nat \ {NoId}, name : Names, desc : Descriptions,
              maker : Resources \cup {User}]
Steps == {"rest", "take", "find", "confirm", "read", "edit", "check", "delete"}
Creating == {"take", "find", "confirm"}

TypeOK ==
    /\ snaps \subseteq Snapshots
    /\ next \in Nat \ {NoId}
    /\ id \in [Resources -> Nat]
    /\ wanted \in [Resources -> BOOLEAN]
    /\ want \in [Resources -> Descriptions]
    /\ step \in [Resources -> Steps]
    /\ handle \in [Resources -> Nat]
    /\ lapses \in [Resources -> Nat]
    /\ trouble \in 0..MaxTrouble

Init ==
    /\ snaps = {}
    /\ next = 1
    /\ id = [r \in Resources |-> NoId]
    /\ wanted = [r \in Resources |-> TRUE]
    /\ want = [r \in Resources |-> CHOOSE d \in Descriptions : TRUE]
    /\ step = [r \in Resources |-> "rest"]
    /\ handle = [r \in Resources |-> NoId]
    /\ lapses = [r \in Resources |-> 0]
    /\ trouble = 0

Holding(u) == {s \in snaps : s.uuid = u}
\* What "snapshot edit" and the search in the list find for a name.
FirstNamed(n) ==
    {s \in snaps : s.name = n /\ \A t \in snaps : t.name = n => s.uuid <= t.uuid}

host == <<snaps, next>>
config == <<wanted, want>>

Goto(r, s) == step' = [step EXCEPT ![r] = s]
Spend == trouble < MaxTrouble /\ trouble' = trouble + 1
Strike(f) == f \in Faults /\ Spend
Lapse(r, counts) ==
    lapses' = [lapses EXCEPT ![r] = IF counts THEN @ + 1 ELSE @]
Return(r) ==
    /\ Goto(r, "rest")
    /\ handle' = [handle EXCEPT ![r] = NoId]

-----------------------------------------------------------------------------
(* Terraform and resourceSnapshotRead *)

StartApply(r) ==
    /\ step[r] = "rest"
    /\ \/ id[r] # NoId /\ Goto(r, "read")
       \/ id[r] = NoId /\ wanted[r] /\ Goto(r, "take")
    /\ UNCHANGED <<host, id, config, handle, lapses, trouble>>

\* The refresh finds the UUID; the plan compares the description.
Read(r) ==
    /\ step[r] = "read"
    /\ \E s \in Holding(id[r]) :
         \/ ~wanted[r] /\ Goto(r, "delete") /\ UNCHANGED handle
         \/ /\ wanted[r] /\ s.desc # want[r]
            /\ Goto(r, "edit")
            /\ UNCHANGED handle
         \/ wanted[r] /\ s.desc = want[r] /\ Return(r)
    /\ UNCHANGED <<host, id, config, lapses, trouble>>

\* "treat as snapshot gone": the plan takes it again if it is wanted.
ReadMissing(r) ==
    /\ step[r] = "read"
    /\ \/ Holding(id[r]) = {} /\ UNCHANGED trouble
       \/ Strike("list")
    /\ Lapse(r, Holding(id[r]) # {})
    /\ id' = [id EXCEPT ![r] = NoId]
    /\ Goto(r, IF wanted[r] THEN "take" ELSE "rest")
    /\ UNCHANGED <<host, config, handle>>

-----------------------------------------------------------------------------
(* resourceSnapshotCreate *)

CreateFails(r) ==
    /\ Return(r)
    /\ Lapse(r, TRUE)
    /\ UNCHANGED <<host, id, config>>

\* Mutant: the snapshot has no UUID yet.
TakeUnnumbered(r) ==
    /\ step[r] = "take"
    /\ snaps' = snaps \cup {[uuid |-> NoId, name |-> NameOf[r],
                             desc |-> want[r], maker |-> r]}
    /\ next' = next + 1
    /\ Goto(r, "find")
    /\ UNCHANGED <<id, config, handle, lapses, trouble>>

Take(r) ==
    /\ step[r] = "take"
    /\ snaps' = snaps \cup {[uuid |-> next, name |-> NameOf[r],
                             desc |-> want[r], maker |-> r]}
    /\ next' = next + 1
    /\ Goto(r, "find")
    /\ UNCHANGED <<id, config, handle, lapses, trouble>>

TakeFails(r) ==
    /\ step[r] = "take"
    /\ Strike("take")
    /\ CreateFails(r)

\* Mutant: the snapshot that was taken last is the one.
FindLast(r) ==
    /\ step[r] = "find"
    /\ \E s \in snaps :
         /\ \A t \in snaps : t.uuid <= s.uuid
         /\ handle' = [handle EXCEPT ![r] = s.uuid]
    /\ Goto(r, "confirm")
    /\ UNCHANGED <<host, id, config, lapses, trouble>>

\* The first snapshot of the name in the list; it may be an older one.
Find(r) ==
    /\ step[r] = "find"
    /\ \E s \in FirstNamed(NameOf[r]) : handle' = [handle EXCEPT ![r] = s.uuid]
    /\ Goto(r, "confirm")
    /\ UNCHANGED <<host, id, config, lapses, trouble>>

FindFails(r) ==
    /\ step[r] = "find"
    /\ \/ FirstNamed(NameOf[r]) = {} /\ UNCHANGED trouble
       \/ Strike("list")
    /\ CreateFails(r)

\* resourceSnapshotRead at the end of a create.
Confirm(r) ==
    /\ step[r] = "confirm"
    /\ Holding(handle[r]) # {}
    /\ id' = [id EXCEPT ![r] = handle[r]]
    /\ Return(r)
    /\ UNCHANGED <<host, config, lapses, trouble>>

\* It clears the ID and returns no error; Terraform reports that the resource
\* "was present, but now absent".
ConfirmFails(r) ==
    /\ step[r] = "confirm"
    /\ \/ Holding(handle[r]) = {} /\ UNCHANGED trouble
       \/ Strike("list")
    /\ CreateFails(r)

-----------------------------------------------------------------------------
(* resourceSnapshotUpdate and resourceSnapshotDelete *)

\* Mutant: the last snapshot of the name is edited.
EditLast(r) ==
    /\ step[r] = "edit"
    /\ \E s \in snaps :
         /\ s.name = NameOf[r] /\ \A t \in snaps : t.name = s.name => t.uuid <= s.uuid
         /\ snaps' = (snaps \ {s}) \cup {[s EXCEPT !.desc = want[r]]}
    /\ Goto(r, "check")
    /\ UNCHANGED <<next, id, config, handle, lapses, trouble>>

\* The command is given the name, not the UUID.
Edit(r) ==
    /\ step[r] = "edit"
    /\ \E s \in FirstNamed(NameOf[r]) :
         snaps' = (snaps \ {s}) \cup {[s EXCEPT !.desc = want[r]]}
    /\ Goto(r, "check")
    /\ UNCHANGED <<next, id, config, handle, lapses, trouble>>

EditFails(r) ==
    /\ step[r] = "edit"
    /\ \/ FirstNamed(NameOf[r]) = {} /\ UNCHANGED trouble
       \/ Strike("edit")
    /\ Return(r)
    /\ UNCHANGED <<host, id, config, lapses>>

Check(r) ==
    /\ step[r] = "check"
    /\ Holding(id[r]) # {}
    /\ Return(r)
    /\ UNCHANGED <<host, id, config, lapses, trouble>>

CheckFails(r) ==
    /\ step[r] = "check"
    /\ \/ Holding(id[r]) = {} /\ UNCHANGED trouble
       \/ Strike("list")
    /\ Lapse(r, Holding(id[r]) # {})
    /\ id' = [id EXCEPT ![r] = NoId]
    /\ Return(r)
    /\ UNCHANGED <<host, config>>

\* Mutant: the command is given the name.
DeleteByName(r) ==
    /\ step[r] = "delete"
    /\ FirstNamed(NameOf[r]) # {}
    /\ snaps' = snaps \ FirstNamed(NameOf[r])
    /\ id' = [id EXCEPT ![r] = NoId]
    /\ Return(r)
    /\ UNCHANGED <<next, config, lapses, trouble>>

Delete(r) ==
    /\ step[r] = "delete"
    /\ Holding(id[r]) # {}
    /\ snaps' = snaps \ Holding(id[r])
    /\ id' = [id EXCEPT ![r] = NoId]
    /\ Return(r)
    /\ UNCHANGED <<next, config, lapses, trouble>>

\* Mutant: a snapshot that cannot be deleted is dropped all the same.
DeleteFailsForget(r) ==
    /\ step[r] = "delete"
    /\ \/ Holding(id[r]) = {} /\ UNCHANGED trouble
       \/ Strike("delete")
    /\ id' = [id EXCEPT ![r] = NoId]
    /\ Return(r)
    /\ UNCHANGED <<host, config, lapses>>

DeleteFails(r) ==
    /\ step[r] = "delete"
    /\ \/ Holding(id[r]) = {} /\ UNCHANGED trouble
       \/ Strike("delete")
    /\ Return(r)
    /\ UNCHANGED <<host, id, config, lapses>>

-----------------------------------------------------------------------------
(* Users and crashes *)

\* The configuration is edited: a resource comes, goes, or is described anew.
EditConfig(r) ==
    /\ step[r] = "rest"
    /\ Spend
    /\ \/ wanted' = [wanted EXCEPT ![r] = ~@] /\ UNCHANGED want
       \/ /\ \E d \in Descriptions \ {want[r]} : want' = [want EXCEPT ![r] = d]
          /\ UNCHANGED wanted
    /\ UNCHANGED <<host, id, step, handle, lapses>>

UserTakes ==
    /\ Strike("usertake")
    /\ \E n \in UserNames, d \in Descriptions :
         snaps' = snaps \cup {[uuid |-> next, name |-> n, desc |-> d, maker |-> User]}
    /\ next' = next + 1
    /\ UNCHANGED <<id, config, step, handle, lapses>>

UserDeletes ==
    /\ Strike("userdelete")
    /\ \E s \in snaps : snaps' = snaps \ {s}
    /\ UNCHANGED <<next, id, config, step, handle, lapses>>

\* terraform is killed; nothing a handler did is stored.
Crash ==
    /\ Strike("crash")
    /\ \E r \in Resources : step[r] # "rest"
    /\ step' = [r \in Resources |-> "rest"]
    /\ handle' = [r \in Resources |-> NoId]
    /\ lapses' = [r \in Resources |->
                    IF step[r] \in Creating THEN lapses[r] + 1 ELSE lapses[r]]
    /\ UNCHANGED <<host, id, config>>

Create(r) ==
    Take(r) \/ TakeFails(r) \/ Find(r) \/ FindFails(r) \/ Confirm(r) \/ ConfirmFails(r)
UpdateOrDelete(r) ==
    Edit(r) \/ EditFails(r) \/ Check(r) \/ CheckFails(r) \/ Delete(r) \/ DeleteFails(r)
Handler(r) == Read(r) \/ ReadMissing(r) \/ Create(r) \/ UpdateOrDelete(r)

Next ==
    \/ \E r \in Resources : StartApply(r) \/ Handler(r) \/ EditConfig(r)
    \/ UserTakes \/ UserDeletes \/ Crash

Spec == Init /\ [][Next]_vars

\* Handlers run on, and apply is run again as long as it is needed.
Fairness == \A r \in Resources : WF_vars(Handler(r)) /\ WF_vars(StartApply(r))
FairSpec == Spec /\ Fairness

-----------------------------------------------------------------------------
(* Properties *)

\* A resource that finds its snapshot by name never gets hold of one that
\* another resource or a user has taken, so that it deletes only its own.
HoldsItsOwn ==
    \A r \in Resources : \A s \in Holding(id[r]) \cup Holding(handle[r]) : s.maker = r

\* Apart from the one snapshot it stands for, a resource leaves at most one
\* behind for each create that failed or was killed and for each list that
\* failed and was taken for an absence: retries do not multiply them.
Taken(r) == {s \in snaps : s.maker = r}
Excused(r) ==
    lapses[r] + IF id[r] # NoId \/ step[r] \in {"find", "confirm"} THEN 1 ELSE 0
SurplusHasACause == \A r \in Resources : Cardinality(Taken(r)) <= Excused(r)

\* Repeated applies end with the snapshot that is wanted and its description,
\* although a create may adopt an older snapshot with another description and
\* "snapshot edit" goes by name.
Converges ==
    \A r \in Resources :
        <>[](wanted[r] => \E s \in Holding(id[r]) : s.desc = want[r])

\* The contract of a managed resource, for snapshots by their UUIDs, but that a
\* list which fails makes the state drop a snapshot that is still there.
Contract == INSTANCE ManagedResource WITH
    Others <- User,
    MayLapse <- Resources,
    made <- [m \in Resources \cup {User} |-> {s.uuid : s \in {t \in snaps : t.maker = m}}],
    known <- [r \in Resources |-> {id[r]} \ {NoId}],
    making <- [r \in Resources |-> step[r] \in {"find", "confirm"}]
KeepsContract == Contract!Spec
=============================================================================
