----------------------------- MODULE HostFiles ------------------------------
(***************************************************************************)
(* One terraform apply after another over resources that work on the same  *)
(* files: disks, a VM that has them attached (disk_attachment), and an     *)
(* export of that VM.                                                      *)
(*                                                                         *)
(* An apply refreshes every resource, plans, and then runs the handlers in *)
(* the order of the references: the disks before the VM, the VM before the *)
(* export, destroys the other way round.  But destroying the VM            *)
(* ("unregistervm --delete") takes its media along, and destroying the     *)
(* export removes every file whose name begins like its own, after the     *)
(* disks have been refreshed and behind the back of the plan.              *)
(***************************************************************************)
EXTENDS Disk

CONSTANTS
    VM, Export, \* the other two resources
    Prefixed    \* the disks whose file name begins like the export's

FaultKinds == {"info",     \* showmediuminfo fails
               "disk",     \* createmedium, modifymedium or closemedium fails
               "vm",       \* a command of the VM's create fails
               "remove",   \* unregistervm fails
               "export",   \* export fails
               "crash",    \* terraform is killed
               "useroff",  \* somebody powers the VM off
               "userfile"} \* somebody removes a medium or the exported file

ASSUME PartsAssumption ==
    /\ VM \notin Disks /\ Export \notin Disks \cup {VM}
    /\ Prefixed \subseteq Disks
    /\ Faults \subseteq FaultKinds

Parts == Disks \cup {VM, Export}

VARIABLES
    vm,       \* the VM of the configured name, if there is one
    vmknown,  \* it is in the state
    vmwant,   \* it is in the configuration
    replace,  \* it is to be replaced
    todo,     \* the disks its create still has to attach
    file,     \* the exported file is there
    exknown,  \* the export is in the state
    exwant,   \* it is in the configuration
    result,   \* what the last apply reported
    lost,     \* disks whose medium it removed with the VM or the export
    touched   \* a user changed something since it began

machine == <<vm, vmknown, vmwant, replace, todo>>
export == <<file, exknown, exwant>>
disks == <<media, stored, want>>
history == <<result, lost, touched>>
vars == <<disks, step, failed, trouble, machine, export, history>>

Machines == [disks : SUBSET Disks, on : BOOLEAN]
\* An absence is not a thing.
ASSUME NoneAssumption == None \notin Media \cup Machines

Steps == {"rest", "refresh", "plan", "create", "info", "update", "check", "delete",
          "attach", "done"}

TypeOK ==
    /\ media \in [Disks -> Media \cup {None}]
    /\ stored \in [Disks -> Sizes \cup {None}]
    /\ want \in [Disks -> Sizes \cup {None}]
    /\ step \in [Parts -> Steps]
    /\ failed \subseteq Parts
    /\ trouble \in 0..MaxTrouble
    /\ vm \in Machines \cup {None}
    /\ vmknown \in BOOLEAN /\ vmwant \in BOOLEAN /\ replace \in BOOLEAN
    /\ todo \subseteq Disks
    /\ file \in BOOLEAN /\ exknown \in BOOLEAN /\ exwant \in BOOLEAN
    /\ result \in {"none", "ok", "error"}
    /\ lost \subseteq Disks
    /\ touched \in BOOLEAN
    /\ todo = {} \/ step[VM] = "attach"
    /\ vmknown => vm # None

Init ==
    /\ media = [d \in Disks |-> None]
    /\ stored = [d \in Disks |-> None]
    /\ want \in [Disks -> Sizes \cup {None}]
    /\ step = [r \in Parts |-> "rest"]
    /\ failed = {}
    /\ trouble = 0
    /\ vm = None /\ vmknown = FALSE /\ vmwant = TRUE /\ replace = FALSE
    /\ todo = {}
    /\ file = FALSE /\ exknown = FALSE /\ exwant \in BOOLEAN
    /\ result = "none"
    /\ lost = {}
    /\ touched = FALSE

Attached(d) == vm # None /\ d \in vm.disks
Locked(d) == Attached(d) /\ vm.on
Wanted == {d \in Disks : want[d] # None}

-----------------------------------------------------------------------------
(* Terraform: refresh, plan, and the order of the handlers *)

AtRest == \A r \in Parts : step[r] = "rest"

StartApply ==
    /\ AtRest
    /\ step' = [r \in Parts |->
                  IF \/ r \in Disks /\ stored[r] # None
                     \/ r = Export /\ exknown
                  THEN "refresh" ELSE "plan"]
    /\ failed' = {}
    /\ result' = "none"
    /\ lost' = {}
    /\ touched' = FALSE
    /\ UNCHANGED <<disks, trouble, machine, export>>

\* resourceVMExportRead.
ReadExport ==
    /\ step[Export] = "refresh"
    /\ exknown' = file
    /\ Goto(Export, "plan")
    /\ UNCHANGED <<disks, failed, trouble, machine, file, exwant, history>>

\* disk_attachment is set by a create only, and is not a reason to replace the
\* VM; one that is off differs by its status.  vm_id of the export changes with
\* every new VM.
PlanOfVM ==
    CASE vmknown /\ (~vmwant \/ replace) -> "delete"
      [] ~vmknown /\ vmwant -> "create"
      [] vmknown /\ vmwant /\ ~replace /\ ~vm.on -> "update"
      [] OTHER -> "done"
PlanOfExport ==
    CASE exknown /\ (~exwant \/ PlanOfVM \in {"create", "delete"}) -> "delete"
      [] ~exknown /\ exwant /\ vmwant -> "create"
      [] OTHER -> "done"
Plan ==
    /\ \A r \in Parts : step[r] = "plan"
    /\ step' = [r \in Parts |-> CASE r = VM -> PlanOfVM
                                  [] r = Export -> PlanOfExport
                                  [] OTHER -> PlanOfDisk(r)]
    /\ UNCHANGED <<disks, failed, trouble, machine, export, history>>

\* What has to be over before the handler of r may begin: r is created or
\* updated after what it refers to and deleted after what refers to it.
Before(r) ==
    CASE r = Export /\ step[r] = "create" -> {VM}
      [] r = VM /\ step[r] \in {"create", "update"} -> Wanted
      [] r = VM /\ step[r] = "delete" -> IF step[Export] = "delete" THEN {Export} ELSE {}
      [] r \in Disks /\ step[r] = "delete" -> IF vmknown THEN {VM} ELSE {}
      [] OTHER -> {}
Ready(r) == \A q \in Before(r) : step[q] = "done" /\ q \notin failed

\* Something before r has failed: r is not touched.
Skip(r) ==
    /\ step[r] \in {"create", "update", "delete"}
    /\ \E q \in Before(r) : q \in failed
    /\ Fail(r)
    /\ UNCHANGED <<disks, trouble, machine, export, history>>

EndApply ==
    /\ \A r \in Parts : step[r] = "done"
    /\ step' = [r \in Parts |-> "rest"]
    /\ result' = IF failed = {} THEN "ok" ELSE "error"
    /\ UNCHANGED <<disks, failed, trouble, machine, export, lost, touched>>

-----------------------------------------------------------------------------
(* The disks *)

OfDisk(d) ==
    /\ Ready(d)
    /\ DiskHandler(d, Attached(d), Locked(d))
    /\ UNCHANGED <<machine, export, history>>

-----------------------------------------------------------------------------
(* The VM: resourceVMCreate, resourceVMUpdate and resourceVMDelete *)

MakeVM ==
    /\ step[VM] = "create" /\ Ready(VM)
    /\ vm = None
    /\ vm' = [disks |-> {}, on |-> FALSE]
    /\ todo' = Wanted
    /\ Goto(VM, "attach")
    /\ UNCHANGED <<disks, failed, trouble, vmknown, vmwant, replace, export, history>>

\* The VM that a failed create left has the name.
MakeVMFails ==
    /\ step[VM] = "create" /\ Ready(VM)
    /\ GoesWrong(vm # None, "vm")
    /\ Fail(VM)
    /\ UNCHANGED <<disks, machine, export, history>>

\* storageattach of one disk after the other.
AttachDisk ==
    /\ step[VM] = "attach"
    /\ \E d \in todo :
         /\ Usable(d)
         /\ todo' = todo \ {d}
         /\ vm' = [vm EXCEPT !.disks = @ \cup {d}]
    /\ UNCHANGED <<disks, step, failed, trouble, vmknown, vmwant, replace, export, history>>

\* The VM stays, with the disks it has got so far.
AttachDiskFails ==
    /\ step[VM] = "attach"
    /\ \E d \in todo : GoesWrong(~Usable(d), "vm")
    /\ todo' = {}
    /\ Fail(VM)
    /\ UNCHANGED <<disks, vm, vmknown, vmwant, replace, export, history>>

\* The rest of the create: settings, startvm, SetId and the last read.
StartVM ==
    /\ step[VM] = "attach" /\ todo = {}
    /\ \A d \in vm.disks : Usable(d)
    /\ vm' = [vm EXCEPT !.on = TRUE]
    /\ vmknown' = TRUE
    /\ Done(VM)
    /\ UNCHANGED <<disks, trouble, vmwant, replace, todo, export, history>>

StartVMFails ==
    /\ step[VM] = "attach" /\ todo = {}
    /\ GoesWrong(\E d \in vm.disks : ~Usable(d), "vm")
    /\ Fail(VM)
    /\ UNCHANGED <<disks, machine, export, history>>

\* An update changes no attachment, and ends with startvm.
UpdateVM ==
    /\ step[VM] = "update" /\ Ready(VM)
    /\ \A d \in vm.disks : Usable(d)
    /\ vm' = [vm EXCEPT !.on = TRUE]
    /\ Done(VM)
    /\ UNCHANGED <<disks, trouble, vmknown, vmwant, replace, todo, export, history>>

UpdateVMFails ==
    /\ step[VM] = "update" /\ Ready(VM)
    /\ GoesWrong(\E d \in vm.disks : ~Usable(d), "vm")
    /\ Fail(VM)
    /\ UNCHANGED <<disks, machine, export, history>>

\* Mutant: the ID is not cleared.
DeleteVMKeepsId ==
    /\ step[VM] = "delete" /\ Ready(VM)
    /\ media' = [d \in Disks |-> IF d \in vm.disks THEN None ELSE media[d]]
    /\ lost' = lost \cup vm.disks
    /\ vm' = None
    /\ replace' = FALSE
    /\ IF vmwant THEN Goto(VM, "create") /\ UNCHANGED failed ELSE Done(VM)
    /\ UNCHANGED <<stored, want, trouble, vmknown, vmwant, todo, export, result, touched>>

\* Powered off and unregistered, and the media that only this VM has deleted.
DeleteVM ==
    /\ step[VM] = "delete" /\ Ready(VM)
    /\ media' = [d \in Disks |-> IF d \in vm.disks THEN None ELSE media[d]]
    /\ lost' = lost \cup vm.disks
    /\ vm' = None
    /\ vmknown' = FALSE
    /\ replace' = FALSE
    /\ IF vmwant THEN Goto(VM, "create") /\ UNCHANGED failed ELSE Done(VM)
    /\ UNCHANGED <<stored, want, trouble, vmwant, todo, export, result, touched>>

\* The VM was powered off before unregistervm failed, and stays.
DeleteVMFails ==
    /\ step[VM] = "delete" /\ Ready(VM)
    /\ Strike("remove")
    /\ vm' = [vm EXCEPT !.on = FALSE]
    /\ Fail(VM)
    /\ UNCHANGED <<disks, vmknown, vmwant, replace, todo, export, history>>

-----------------------------------------------------------------------------
(* The export: resourceVMExportCreate and resourceVMExportDelete *)

CreateExport ==
    /\ step[Export] = "create" /\ Ready(Export)
    /\ ~file
    /\ file' = TRUE
    /\ exknown' = TRUE
    /\ Done(Export)
    /\ UNCHANGED <<disks, trouble, machine, exwant, history>>

\* A file that is there is not overwritten; one that fails half way may stay.
CreateExportFails ==
    /\ step[Export] = "create" /\ Ready(Export)
    /\ GoesWrong(file, "export")
    /\ file' \in {file, TRUE}
    /\ Fail(Export)
    /\ UNCHANGED <<disks, machine, exknown, exwant, history>>

\* The file, and for .ovf every file whose name begins with its base name;
\* errors are not looked at.
DeleteExport ==
    /\ step[Export] = "delete"
    /\ file' = FALSE
    /\ exknown' = FALSE
    /\ media' = [d \in Disks |-> IF d \in Prefixed /\ Usable(d)
                                 THEN [media[d] EXCEPT !.file = FALSE] ELSE media[d]]
    /\ lost' = lost \cup {d \in Prefixed : Usable(d)}
    /\ IF exwant /\ vmwant THEN Goto(Export, "create") /\ UNCHANGED failed ELSE Done(Export)
    /\ UNCHANGED <<stored, want, trouble, machine, exwant, result, touched>>

-----------------------------------------------------------------------------
(* Users and crashes *)

EditConfig ==
    /\ AtRest
    /\ Spend
    /\ \/ /\ \E d \in Disks, s \in Sizes \cup {None} :
               s # want[d] /\ want' = [want EXCEPT ![d] = s]
          /\ UNCHANGED <<vmwant, replace, exwant>>
       \/ vmwant' = ~vmwant /\ UNCHANGED <<want, replace, exwant>>
       \/ ~replace /\ vmknown /\ replace' = TRUE /\ UNCHANGED <<want, vmwant, exwant>>
       \/ exwant' = ~exwant /\ UNCHANGED <<want, vmwant, replace>>
    /\ result' = "none"
    /\ UNCHANGED <<media, stored, step, failed, vm, vmknown, todo, file, exknown, lost, touched>>

UserPowersOff ==
    /\ Strike("useroff")
    /\ vm # None /\ vm.on
    /\ vm' = [vm EXCEPT !.on = FALSE]
    /\ touched' = TRUE
    /\ UNCHANGED <<disks, step, failed, vmknown, vmwant, replace, todo, export, result, lost>>

\* A medium that no VM has is closed and deleted, or the exported file is.
UserRemoves ==
    /\ Strike("userfile")
    /\ \/ /\ \E d \in Disks : /\ media[d] # None /\ ~Attached(d)
                              /\ media' = [media EXCEPT ![d] = None]
          /\ UNCHANGED file
       \/ file /\ file' = FALSE /\ UNCHANGED media
    /\ touched' = TRUE
    /\ UNCHANGED <<stored, want, step, failed, machine, exknown, exwant, result, lost>>

Crash ==
    /\ Strike("crash")
    /\ ~AtRest
    /\ step' = [r \in Parts |-> "rest"]
    /\ todo' = {}
    /\ result' = "error"
    /\ UNCHANGED <<disks, failed, vm, vmknown, vmwant, replace, export, lost, touched>>

OfVM ==
    \/ MakeVM \/ MakeVMFails \/ AttachDisk \/ AttachDiskFails \/ StartVM \/ StartVMFails
    \/ UpdateVM \/ UpdateVMFails \/ DeleteVM \/ DeleteVMFails
OfExport == ReadExport \/ CreateExport \/ CreateExportFails \/ DeleteExport
Apply ==
    \/ StartApply \/ Plan \/ EndApply \/ OfVM \/ OfExport
    \/ \E d \in Disks : OfDisk(d)
    \/ \E r \in Parts : Skip(r)
Next == Apply \/ EditConfig \/ UserPowersOff \/ UserRemoves \/ Crash

Spec == Init /\ [][Next]_vars

\* An apply runs on, and is run again as long as it is needed.
FairSpec == Spec /\ WF_vars(Apply)
-----------------------------------------------------------------------------
(* Properties *)

AsConfigured(d) ==
    IF want[d] = None THEN stored[d] = None
    ELSE Usable(d) /\ media[d].size = want[d] /\ stored[d] = want[d]

\* When an apply reports success, what is configured is in the state and there,
\* every disk with its size, although other resources work on the same files.
\* The one exception are the disks whose medium went with the VM or the export
\* that this apply destroyed: the state still has them.
OkMeansConfigured ==
    result = "ok" /\ ~touched =>
        /\ vmknown = vmwant
        /\ vmwant => vm.on
        /\ exknown = (exwant /\ vmwant)
        /\ \A d \in Disks : AsConfigured(d) \/ (d \in lost /\ ~Usable(d))

\* What no apply gets out of: a medium or a VM that an apply has made and the
\* state does not know blocks its path or its name, a medium in use is neither
\* resized nor deleted, and none is made smaller; a disk that fails keeps the VM
\* from being created.
Orphaned(d) == media[d] # None /\ stored[d] = None
StuckVM == vm # None /\ ~vmknown
Settled(d) ==
    IF want[d] = None THEN stored[d] = None \/ Attached(d)
    ELSE \/ Usable(d) /\ stored[d] # None /\ (media[d].size = want[d] \/ want[d] < media[d].size \/ Locked(d))
         \/ Orphaned(d)

\* Repeated applies end as configured or where nothing gets out of; above all,
\* a disk that was destroyed with its VM, whose own destroy then fails, is out
\* of the state in the end, and one that is still configured is made again.
Converges ==
    <>[](/\ \A d \in Disks : Settled(d)
         /\ IF vmwant THEN \/ vmknown /\ (vm.on \/ \E d \in vm.disks : ~Usable(d))
                           \/ StuckVM
                           \/ \E d \in Wanted : ~AsConfigured(d)
                      ELSE ~vmknown)

\* The contract of a managed resource, for the media of the disks: a create
\* never takes over a file that is there.
Contract == INSTANCE ManagedResource WITH
    Resources <- Disks,
    Others <- VM,
    MayLapse <- Disks,
    made <- [m \in Disks \cup {VM} |-> IF m \in Disks /\ media[m] # None /\ media[m].file THEN {m} ELSE {}],
    known <- [d \in Disks |-> IF stored[d] = None THEN {} ELSE {d}],
    making <- [d \in Disks |-> step[d] = "info"]
KeepsContract == Contract!Spec
=============================================================================
