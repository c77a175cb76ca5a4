--------------------------- MODULE HostFilesProofs --------------------------
(***************************************************************************)
(* Theorems about HostFiles, for any number of disks, sizes and faults,    *)
(* and about the contract of a managed resource, which its disks keep.     *)
(***************************************************************************)
EXTENDS HostFiles, TLAPS

-----------------------------------------------------------------------------
(* The inductive invariant *)

\* Where a resource can be in an apply.
DiskSteps == {"rest", "refresh", "plan", "create", "info", "update", "check", "delete", "done"}
VMSteps == {"rest", "plan", "create", "attach", "update", "delete", "done"}
ExportSteps == {"rest", "refresh", "plan", "create", "delete", "done"}
StepInv ==
    /\ \A d \in Disks : step[d] \in DiskSteps
    /\ step[VM] \in VMSteps
    /\ step[Export] \in ExportSteps

Early == {"refresh", "plan"}
Late == Steps \ {"rest", "refresh", "plan"}
\* An apply refreshes everything before it plans, and plans before it acts.
Phase ==
    \/ AtRest
    \/ (\A r \in Parts : step[r] \in Early) /\ failed = {} /\ lost = {}
    \/ (\A r \in Parts : step[r] \in Late) /\ \A r \in failed : step[r] = "done"

DiskInv(d) ==
    /\ step[d] = "refresh" => stored[d] # None
    /\ step[d] = "create" => want[d] # None /\ stored[d] = None
    /\ step[d] \in {"update", "check"} => want[d] # None /\ stored[d] # None
    /\ step[d] = "delete" => want[d] = None /\ stored[d] # None
    /\ step[d] = "info" => want[d] # None /\ stored[d] = None
    /\ step[d] \in {"info", "check"} /\ media[d] # None => media[d].size = want[d]
    /\ step[d] = "plan" /\ stored[d] # None /\ ~touched =>
         Usable(d) /\ media[d].size = stored[d]
    /\ step[d] = "done" /\ d \notin failed /\ ~touched =>
         AsConfigured(d) \/ (d \in lost /\ ~Usable(d))

VMInv ==
    /\ step[VM] = "create" => vmwant /\ ~vmknown
    /\ step[VM] = "attach" => vmwant /\ ~vmknown /\ vm # None
    /\ step[VM] = "update" => vmwant /\ vmknown
    /\ step[VM] = "delete" => vmknown
    /\ step[VM] = "done" /\ VM \notin failed => vmknown = vmwant
    /\ step[VM] = "done" /\ VM \notin failed /\ vmwant /\ ~touched => vm.on

ExportInv ==
    /\ exknown => vmknown
    /\ step[Export] = "refresh" => exknown
    /\ step[Export] = "create" => exwant /\ vmwant
    /\ step[VM] = "delete" /\ step[Export] # "delete" => ~exknown
    /\ step[Export] = "done" /\ Export \notin failed => exknown = (exwant /\ vmwant)

Configured ==
    /\ vmknown = vmwant
    /\ vmwant => vm.on
    /\ exknown = (exwant /\ vmwant)
    /\ \A d \in Disks : AsConfigured(d) \/ (d \in lost /\ ~Usable(d))
\* A success is reported at the end of an apply, and is gone when the next one
\* or an edit begins.
ResultInv == result = "ok" => AtRest /\ (~touched => Configured)

\* Where in an apply every resource is, and what follows for it.
ApplyInv ==
    /\ TypeOK
    /\ StepInv
    /\ Phase
    /\ \A d \in Disks : DiskInv(d)
    /\ VMInv
    /\ ExportInv

-----------------------------------------------------------------------------
(* What a handler may touch *)

\* The three kinds of resources are apart, and nothing is None but an absence.
LEMMA PartsApart ==
    /\ VM # Export /\ VM \in Parts /\ Export \in Parts
    /\ \A d \in Disks : d # VM /\ d # Export /\ d \in Parts
    /\ \A r \in Parts : r \in Disks \/ r = VM \/ r = Export
BY PartsAssumption DEF Parts

\* The handlers of a disk touch that disk and nothing else.
LEMMA DiskFrame ==
    ASSUME TypeOK, NEW d \in Disks, OfDisk(d)
    PROVE  /\ UNCHANGED <<want, machine, export, history>>
           /\ \A e \in Disks : e # d => media'[e] = media[e] /\ stored'[e] = stored[e]
           /\ step[d] \in {"refresh", "create", "info", "update", "check", "delete"}
           /\ \E s \in {"plan", "info", "check", "done"} :
                /\ step' = [step EXCEPT ![d] = s]
                /\ s = "plan" <=> step[d] = "refresh"
                /\ failed' = failed \/ (s = "done" /\ failed' = failed \cup {d})
           /\ trouble' \in {trouble, trouble + 1}
           /\ trouble' # trouble => trouble < MaxTrouble
<1> USE DEF TypeOK, OfDisk, Goto, Done, Fail, GoesWrong, Strike, Spend, Remember
<1>1. CASE ReadDisk(d) \/ ReadDiskGone(d)
  BY <1>1 DEF ReadDisk, ReadDiskGone
<1>2. CASE CreateDisk(d) \/ CreateDiskFails(d)
  BY <1>2 DEF CreateDisk, CreateDiskFails
<1>3. CASE CreatedDisk(d) \/ CreatedDiskMissing(d)
  BY <1>3 DEF CreatedDisk, CreatedDiskMissing
<1>4. CASE ResizeDisk(d, Locked(d)) \/ ResizeDiskFails(d, Locked(d))
  BY <1>4 DEF ResizeDisk, ResizeDiskFails
<1>5. CASE CheckDisk(d) \/ CheckDiskGone(d)
  BY <1>5 DEF CheckDisk, CheckDiskGone
<1>6. CASE DeleteDisk(d, Attached(d)) \/ DeleteDiskFails(d, Attached(d))
  BY <1>6 DEF DeleteDisk, DeleteDiskFails
<1> QED
  BY <1>1, <1>2, <1>3, <1>4, <1>5, <1>6 DEF DiskHandler

\* What a handler of a disk does to the medium and the state of that disk.
LEMMA DiskEffect ==
    ASSUME ApplyInv, NEW d \in Disks, OfDisk(d)
    PROVE  /\ media' \in [Disks -> Media \cup {None}]
           /\ stored' \in [Disks -> Sizes \cup {None}]
           /\ DiskInv(d)'
<1> DEFINE Goal == /\ media' \in [Disks -> Media \cup {None}]
                   /\ stored' \in [Disks -> Sizes \cup {None}]
                   /\ DiskInv(d)'
<1>i. TypeOK /\ DiskInv(d) /\ UNCHANGED <<want, touched, lost>>
  BY DiskFrame DEF ApplyInv, history
<1>n. None \notin Media
  BY NoneAssumption
<1>s. step \in [Parts -> Steps] /\ d \in Parts
  BY <1>i, PartsApart DEF TypeOK
<1> USE <1>i, <1>n, <1>s, DiskAssumption DEF DiskInv, Goto, Done, Fail, Remember, Usable, Media
<1> HIDE DEF Goal
<1>1. CASE ReadDisk(d)
  BY <1>1 DEF ReadDisk, TypeOK, Goal
<1>2. CASE ReadDiskGone(d)
  BY <1>2 DEF ReadDiskGone, TypeOK, Goal
<1>3. CASE CreateDisk(d)
  BY <1>3 DEF CreateDisk, TypeOK, Goal
<1>4. CASE CreateDiskFails(d)
  BY <1>4 DEF CreateDiskFails, TypeOK, Goal
<1>5. CASE CreatedDisk(d)
  BY <1>5 DEF CreatedDisk, TypeOK, AsConfigured, Goal
<1>6. CASE CreatedDiskMissing(d)
  BY <1>6 DEF CreatedDiskMissing, TypeOK, Goal
<1>7. CASE ResizeDisk(d, Locked(d))
  BY <1>7 DEF ResizeDisk, Resizable, TypeOK, Goal
<1>8. CASE ResizeDiskFails(d, Locked(d))
  BY <1>8 DEF ResizeDiskFails, TypeOK, Goal
<1>9. CASE CheckDisk(d)
  BY <1>9 DEF CheckDisk, TypeOK, AsConfigured, Goal
<1>10. CASE CheckDiskGone(d)
  BY <1>10 DEF CheckDiskGone, TypeOK, Goal
<1>11. CASE DeleteDisk(d, Attached(d))
  BY <1>11 DEF DeleteDisk, TypeOK, AsConfigured, Goal
<1>12. CASE DeleteDiskFails(d, Attached(d))
  BY <1>12 DEF DeleteDiskFails, TypeOK, Goal
<1> QED
  BY <1>1, <1>2, <1>3, <1>4, <1>5, <1>6, <1>7, <1>8, <1>9, <1>10, <1>11, <1>12
     DEF OfDisk, DiskHandler, Goal


-----------------------------------------------------------------------------
(* The steps of Terraform *)

\* A handler that has begun runs after every refresh, and whoever has failed is
\* done.
LEMMA HandlerStep ==
    ASSUME TypeOK, Phase, NEW r \in Parts, NEW s \in Late,
           step[r] \in Late \ {"done"}, Goto(r, s),
           failed' = failed \/ (s = "done" /\ failed' = failed \cup {r})
    PROVE  /\ Phase'
           /\ ~AtRest
           /\ \A q \in Parts : step[q] \in Late
           /\ step' \in [Parts -> Steps]
           /\ \A q \in Parts : q # r => step'[q] = step[q] /\ (q \in failed' <=> q \in failed)
           /\ step'[r] = s
           /\ r \notin failed
           /\ failed' \subseteq Parts
<1>1. /\ ~AtRest
      /\ \A q \in Parts : step[q] \in Late
      /\ \A q \in failed : step[q] = "done"
      /\ r \notin failed
  BY DEF Phase, AtRest, Early, Late, TypeOK
<1>2. /\ step' \in [Parts -> Steps]
      /\ \A q \in Parts : q # r => step'[q] = step[q] /\ (q \in failed' <=> q \in failed)
      /\ step'[r] = s
      /\ failed' \subseteq Parts
  BY DEF TypeOK, Goto, Late
<1>3. /\ \A q \in Parts : step'[q] \in Late
      /\ \A q \in failed' : step'[q] = "done"
  BY <1>1, <1>2 DEF TypeOK
<1> QED
  BY <1>1, <1>2, <1>3 DEF Phase

\* What is said of a disk depends on that disk alone, on the user, and on what
\* was removed with the VM or the export.
LEMMA DiskInvFrame ==
    ASSUME NEW d \in Disks, DiskInv(d),
           step'[d] = step[d], UNCHANGED <<media, stored, want, touched, lost>>,
           d \in failed' <=> d \in failed
    PROVE  DiskInv(d)'
BY DEF DiskInv, AsConfigured, Usable

LEMMA StartApplyKeeps ==
    ASSUME ApplyInv, StartApply
    PROVE  ApplyInv'
<1>1. /\ step' = [r \in Parts |-> IF \/ r \in Disks /\ stored[r] # None
                                     \/ r = Export /\ exknown
                                  THEN "refresh" ELSE "plan"]
      /\ failed' = {} /\ result' = "none" /\ lost' = {} /\ touched' = FALSE
      /\ UNCHANGED <<media, stored, want, trouble, machine, export>>
  BY DEF StartApply, disks
<1>2. TypeOK'
  <2>1. todo = {}
    BY PartsApart DEF StartApply, AtRest, ApplyInv, TypeOK
  <2>2. step' \in [Parts -> Steps]
    BY <1>1 DEF Steps
  <2> QED
    BY <1>1, <2>1, <2>2 DEF ApplyInv, TypeOK, machine, export
<1>3. StepInv'
  BY <1>1, PartsApart DEF StepInv, DiskSteps, VMSteps, ExportSteps
<1>4. Phase'
  BY <1>1 DEF Phase, Early
<1>5. ASSUME NEW d \in Disks PROVE DiskInv(d)'
  BY <1>1, PartsApart DEF DiskInv
<1>6. VMInv'
  BY <1>1, PartsApart DEF VMInv
<1>7. ExportInv'
  BY <1>1, PartsApart DEF ApplyInv, ExportInv, machine, export
<1> QED
  BY <1>2, <1>3, <1>4, <1>5, <1>6, <1>7 DEF ApplyInv

LEMMA PlanKeeps ==
    ASSUME ApplyInv, Plan
    PROVE  ApplyInv'
<1>1. /\ \A r \in Parts : step[r] = "plan"
      /\ step' = [r \in Parts |-> CASE r = VM -> PlanOfVM
                                    [] r = Export -> PlanOfExport
                                    [] OTHER -> PlanOfDisk(r)]
      /\ UNCHANGED <<media, stored, want, failed, trouble, machine, export, history>>
  BY DEF Plan, disks
<1>2. /\ \A d \in Disks : step'[d] = PlanOfDisk(d)
      /\ step'[VM] = PlanOfVM
      /\ step'[Export] = PlanOfExport
  BY <1>1, PartsApart
<1>3. /\ \A d \in Disks : PlanOfDisk(d) \in {"create", "update", "delete", "done"}
      /\ PlanOfVM \in {"create", "update", "delete", "done"}
      /\ PlanOfExport \in {"create", "delete", "done"}
  BY DEF PlanOfDisk, PlanOfVM, PlanOfExport
<1>4. failed = {} /\ todo = {}
  BY <1>1, PartsApart DEF ApplyInv, Phase, AtRest, Late, TypeOK
<1>5. TypeOK'
  BY <1>1, <1>2, <1>3, <1>4, PartsApart DEF ApplyInv, TypeOK, machine, export, history, Steps
<1>6. StepInv'
  BY <1>2, <1>3 DEF StepInv, DiskSteps, VMSteps, ExportSteps
<1>7. Phase'
  BY <1>1, <1>2, <1>3, <1>4, PartsApart DEF Phase, Late, Steps
<1>8. ASSUME NEW d \in Disks PROVE DiskInv(d)'
  <2>1. step[d] = "plan" /\ DiskInv(d) /\ step'[d] = PlanOfDisk(d)
    BY <1>1, <1>2, PartsApart DEF ApplyInv
  <2>2. UNCHANGED <<media, stored, want, touched>>
    BY <1>1 DEF history
  <2>3. /\ step'[d] = "create" => want[d] # None /\ stored[d] = None
        /\ step'[d] = "update" => want[d] # None /\ stored[d] # None
        /\ step'[d] = "delete" => want[d] = None /\ stored[d] # None
        /\ step'[d] = "done" => stored[d] = want[d]
    BY <2>1 DEF PlanOfDisk
  <2>4. step'[d] \in {"create", "update", "delete", "done"}
    BY <2>1, <1>3
  <2> QED
    BY <2>1, <2>2, <2>3, <2>4 DEF DiskInv, AsConfigured, Usable
<1>9. VMInv'
  BY <1>1, <1>2, <1>3 DEF VMInv, PlanOfVM, machine, ApplyInv, TypeOK
<1>10. ExportInv'
  BY <1>1, <1>2, <1>3, <1>9 DEF ExportInv, PlanOfVM, PlanOfExport, machine, export, ApplyInv, TypeOK
<1> QED
  BY <1>5, <1>6, <1>7, <1>8, <1>9, <1>10 DEF ApplyInv

\* Everything ends with an apply, or with a crash in it.
LEMMA RestKeeps ==
    ASSUME ApplyInv, step' = [r \in Parts |-> "rest"], todo' = {},
           result' \in {"none", "ok", "error"},
           UNCHANGED <<disks, failed, vm, vmknown, vmwant, replace, export, lost, touched>>,
           trouble' \in 0..MaxTrouble
    PROVE  ApplyInv'
<1>1. TypeOK'
  BY DEF ApplyInv, TypeOK, disks, export, Steps
<1>2. StepInv' /\ Phase'
  BY PartsApart DEF StepInv, Phase, AtRest, DiskSteps, VMSteps, ExportSteps
<1>3. ASSUME NEW d \in Disks PROVE DiskInv(d)'
  BY PartsApart DEF DiskInv
<1>4. VMInv' /\ ExportInv'
  BY PartsApart DEF ApplyInv, VMInv, ExportInv, export
<1> QED
  BY <1>1, <1>2, <1>3, <1>4 DEF ApplyInv

LEMMA SkipKeeps ==
    ASSUME ApplyInv, NEW r \in Parts, Skip(r)
    PROVE  ApplyInv'
<1>1. /\ step[r] \in {"create", "update", "delete"}
      /\ Goto(r, "done") /\ failed' = failed \cup {r}
      /\ UNCHANGED <<media, stored, want, trouble, machine, export, history>>
  BY DEF Skip, Fail, disks
<1>2. /\ Phase'
      /\ step' \in [Parts -> Steps]
      /\ \A q \in Parts : q # r => step'[q] = step[q] /\ (q \in failed' <=> q \in failed)
      /\ step'[r] = "done"
      /\ failed' \subseteq Parts
  <2>1. "done" \in Late /\ step[r] \in Late \ {"done"}
    BY <1>1 DEF Late, Steps
  <2>2. TypeOK /\ Phase
    BY DEF ApplyInv
  <2> QED
    BY <1>1, <2>1, <2>2, HandlerStep
<1>3. r = Export => step[r] # "delete" /\ step[VM] # "delete"
  <2>1. ASSUME r = Export, step[r] = "delete" PROVE FALSE
    BY <2>1, PartsApart DEF Skip, Before
  <2>2. ASSUME r = Export, step[r] = "create" PROVE step[VM] = "done"
    <3>1. Before(r) = {VM}
      BY <2>2, PartsApart DEF Before
    <3>2. VM \in failed
      BY <3>1 DEF Skip
    <3> QED
      BY <2>2, <3>2, PartsApart DEF ApplyInv, Phase, AtRest, Early
  <2>3. r = Export => step[r] \in {"create", "delete"}
    BY <1>1 DEF ApplyInv, StepInv, ExportSteps
  <2> QED
    BY <2>1, <2>2, <2>3
<1>4. TypeOK'
  BY <1>1, <1>2, PartsApart DEF ApplyInv, TypeOK, machine, export, history
<1>5. StepInv'
  BY <1>2, PartsApart DEF ApplyInv, StepInv, DiskSteps, VMSteps, ExportSteps
<1>6. ASSUME NEW d \in Disks PROVE DiskInv(d)'
  <2>1. CASE d = r
    BY <1>1, <1>2, <2>1, PartsApart DEF DiskInv
  <2>2. CASE d # r
    BY <1>1, <1>2, <2>2, PartsApart, DiskInvFrame DEF ApplyInv, history
  <2> QED
    BY <2>1, <2>2
<1>7. VMInv'
  BY <1>1, <1>2, PartsApart DEF ApplyInv, VMInv, machine, history
<1>8. ExportInv'
  BY <1>1, <1>2, <1>3, PartsApart DEF ApplyInv, ExportInv, machine, export
<1> QED
  BY <1>2, <1>4, <1>5, <1>6, <1>7, <1>8 DEF ApplyInv

-----------------------------------------------------------------------------
(* The steps of the resources *)

LEMMA OfDiskKeeps ==
    ASSUME ApplyInv, NEW d \in Disks, OfDisk(d)
    PROVE  ApplyInv'
<1>1. /\ UNCHANGED <<want, machine, export, history>>
      /\ \A e \in Disks : e # d => media'[e] = media[e] /\ stored'[e] = stored[e]
      /\ step[d] \in {"refresh", "create", "info", "update", "check", "delete"}
      /\ trouble' \in {trouble, trouble + 1}
      /\ trouble' # trouble => trouble < MaxTrouble
  BY DiskFrame DEF ApplyInv
<1>2. PICK s \in {"plan", "info", "check", "done"} :
        /\ step' = [step EXCEPT ![d] = s]
        /\ s = "plan" <=> step[d] = "refresh"
        /\ failed' = failed \/ (s = "done" /\ failed' = failed \cup {d})
  BY DiskFrame DEF ApplyInv
<1>3. /\ step' \in [Parts -> Steps]
      /\ step'[d] = s
      /\ \A q \in Parts : q # d => step'[q] = step[q] /\ (q \in failed' <=> q \in failed)
      /\ failed' \subseteq Parts
  BY <1>2, PartsApart DEF ApplyInv, TypeOK, Steps
<1>4. Phase'
  <2>1. CASE s = "plan"
    <3>1. /\ \A q \in Parts : step[q] \in Early
          /\ failed = {} /\ lost = {}
      BY <2>1, <1>2, PartsApart DEF ApplyInv, Phase, AtRest, Late
    <3>2. \A q \in Parts : step'[q] \in Early
      BY <3>1, <2>1, <1>3 DEF Early
    <3> QED
      BY <3>1, <3>2, <2>1, <1>1, <1>2 DEF Phase, history
  <2>2. CASE s # "plan"
    <3>1. s \in Late /\ step[d] \in Late \ {"done"}
      BY <2>2, <1>1, <1>2 DEF Late, Steps
    <3> QED
      BY <3>1, <1>2, PartsApart, HandlerStep DEF ApplyInv, Goto
  <2> QED
    BY <2>1, <2>2
<1>5. /\ media' \in [Disks -> Media \cup {None}]
      /\ stored' \in [Disks -> Sizes \cup {None}]
      /\ DiskInv(d)'
  BY DiskEffect
<1>6. TypeOK'
  <2>1. trouble' \in 0..MaxTrouble
    BY <1>1, DiskAssumption DEF ApplyInv, TypeOK
  <2> QED
    BY <1>1, <1>3, <1>5, <2>1, PartsApart DEF ApplyInv, TypeOK, machine, export, history
<1>7. StepInv'
  BY <1>3, PartsApart DEF ApplyInv, StepInv, DiskSteps
<1>8. ASSUME NEW e \in Disks PROVE DiskInv(e)'
  <2>1. CASE e = d
    BY <2>1, <1>5
  <2>2. CASE e # d
    <3>1. /\ step'[e] = step[e] /\ (e \in failed' <=> e \in failed)
          /\ UNCHANGED <<want, touched, lost>>
          /\ media'[e] = media[e] /\ stored'[e] = stored[e]
      BY <2>2, <1>1, <1>3, PartsApart DEF history
    <3> QED
      BY <3>1 DEF ApplyInv, DiskInv, AsConfigured, Usable
  <2> QED
    BY <2>1, <2>2
<1>9. /\ step'[VM] = step[VM] /\ step'[Export] = step[Export]
      /\ VM \in failed' <=> VM \in failed
      /\ Export \in failed' <=> Export \in failed
  BY <1>3, PartsApart
<1>10. VMInv' /\ ExportInv'
  BY <1>1, <1>9 DEF ApplyInv, VMInv, ExportInv, machine, export, history
<1> QED
  BY <1>4, <1>6, <1>7, <1>8, <1>10 DEF ApplyInv

\* A handler of the VM that leaves the media and the configuration alone.
LEMMA VMStepKeeps ==
    ASSUME ApplyInv, NEW s \in {"attach", "done"},
           step[VM] \in {"create", "attach", "update", "delete"}, Goto(VM, s),
           failed' = failed \/ (s = "done" /\ failed' = failed \cup {VM}),
           UNCHANGED <<disks, vmwant, export, history>>,
           trouble' \in 0..MaxTrouble,
           vm' \in Machines \cup {None}, vmknown' \in BOOLEAN, replace' \in BOOLEAN,
           todo' \subseteq Disks, todo' = {} \/ s = "attach",
           vmknown' => vm' # None, vmknown => vmknown',
           VMInv'
    PROVE  ApplyInv'
<1>1. /\ Phase'
      /\ step' \in [Parts -> Steps]
      /\ \A q \in Parts : q # VM => step'[q] = step[q] /\ (q \in failed' <=> q \in failed)
      /\ step'[VM] = s
      /\ failed' \subseteq Parts
  <2>1. s \in Late /\ step[VM] \in Late \ {"done"} /\ VM \in Parts
    BY PartsApart DEF Late, Steps
  <2>2. TypeOK /\ Phase
    BY DEF ApplyInv
  <2> QED
    BY <2>1, <2>2, HandlerStep
<1>2. TypeOK'
  BY <1>1 DEF ApplyInv, TypeOK, disks, export, history
<1>3. StepInv'
  BY <1>1, PartsApart DEF ApplyInv, StepInv, VMSteps
<1>4. ASSUME NEW d \in Disks PROVE DiskInv(d)'
  BY <1>1, PartsApart, DiskInvFrame DEF ApplyInv, disks, history
<1>5. step'[VM] # "delete"
  BY <1>1 
<1>6. ExportInv'
  BY <1>1, <1>5, PartsApart DEF ApplyInv, ExportInv, export
<1> QED
  BY <1>1, <1>2, <1>3, <1>4, <1>6 DEF ApplyInv

\* The media go with the VM, and are lost to the disks that had them.
LEMMA DeleteVMKeeps ==
    ASSUME ApplyInv, DeleteVM
    PROVE  ApplyInv'
<1>1. /\ step[VM] = "delete" /\ vm \in Machines
      /\ media' = [d \in Disks |-> IF d \in vm.disks THEN None ELSE media[d]]
      /\ lost' = lost \cup vm.disks
      /\ vm' = None /\ vmknown' = FALSE /\ replace' = FALSE
      /\ UNCHANGED <<stored, want, trouble, vmwant, todo, export, result, touched>>
  BY DEF DeleteVM, ApplyInv, VMInv, TypeOK
<1>2. PICK s \in {"create", "done"} :
        /\ Goto(VM, s) /\ failed' = failed
        /\ s = "create" <=> vmwant
  BY DEF DeleteVM, Done
<1>3. /\ Phase'
      /\ step' \in [Parts -> Steps]
      /\ \A q \in Parts : q # VM => step'[q] = step[q] /\ (q \in failed' <=> q \in failed)
      /\ step'[VM] = s
      /\ \A q \in Parts : step[q] \in Late
  <2>1. s \in Late /\ step[VM] \in Late \ {"done"} /\ VM \in Parts
    BY <1>1, PartsApart DEF Late, Steps
  <2>2. TypeOK /\ Phase
    BY DEF ApplyInv
  <2> QED
    BY <1>2, <2>1, <2>2, HandlerStep
<1>4. vm.disks \subseteq Disks /\ todo = {}
  BY <1>1 DEF Machines, ApplyInv, TypeOK
<1>5. TypeOK'
  <2>1. media' \in [Disks -> Media \cup {None}]
    BY <1>1 DEF ApplyInv, TypeOK
  <2> QED
    BY <1>1, <1>2, <1>3, <1>4, <2>1 DEF ApplyInv, TypeOK, export
<1>6. StepInv'
  BY <1>3, PartsApart DEF ApplyInv, StepInv, VMSteps
<1>7. ASSUME NEW d \in Disks PROVE DiskInv(d)'
  <2>1. /\ step'[d] = step[d] /\ (d \in failed' <=> d \in failed)
        /\ step[d] \in Late
    BY <1>3, PartsApart
  <2>2. CASE d \in vm.disks
    BY <1>1, <2>1, <2>2 DEF ApplyInv, DiskInv, AsConfigured, Usable, Late
  <2>3. CASE d \notin vm.disks
    BY <1>1, <2>1, <2>3 DEF ApplyInv, DiskInv, AsConfigured, Usable
  <2> QED
    BY <2>2, <2>3
<1>8. VMInv'
  BY <1>1, <1>2, <1>3 DEF ApplyInv, VMInv, TypeOK
\* The export that refers to the VM is gone before.
<1>9. ~exknown
  BY <1>1, PartsApart DEF DeleteVM, Ready, Before, ApplyInv, ExportInv
<1>10. ExportInv'
  BY <1>1, <1>3, <1>9, PartsApart DEF ApplyInv, ExportInv, export
<1> QED
  BY <1>3, <1>5, <1>6, <1>7, <1>8, <1>10 DEF ApplyInv

LEMMA OfVMKeeps ==
    ASSUME ApplyInv, OfVM
    PROVE  ApplyInv'
<1>t. /\ trouble \in 0..MaxTrouble
      /\ trouble' = trouble + 1 /\ trouble < MaxTrouble => trouble' \in 0..MaxTrouble
  BY DiskAssumption DEF ApplyInv, TypeOK
<1>i. TypeOK /\ VMInv
  BY DEF ApplyInv
<1>p. step[VM] # "attach" => todo = {}
  BY <1>i DEF TypeOK
<1>f. ASSUME NEW s, Goto(VM, s) PROVE step'[VM] = s
  BY <1>f, <1>i, PartsApart DEF Goto, TypeOK
<1>1. CASE MakeVM
  <2>1. vm' \in Machines /\ vm' # None
    <3>1. vm' = [disks |-> {}, on |-> FALSE]
      BY <1>1 DEF MakeVM
    <3>2. vm' \in Machines
      BY <3>1 DEF Machines
    <3> QED
      BY <3>2, NoneAssumption
  <2>2. step'[VM] = "attach"
    BY <1>1, <1>f DEF MakeVM
  <2>3. VMInv'
    BY <1>1, <1>i, <2>1, <2>2 DEF MakeVM, VMInv
  <2> QED
    BY <1>1, <1>t, <1>i, <2>1, <2>3, VMStepKeeps DEF MakeVM, TypeOK, Wanted
<1>2. CASE MakeVMFails \/ UpdateVMFails \/ StartVMFails
  <2>1. /\ step[VM] \in {"create", "attach", "update"}
        /\ Goto(VM, "done") /\ failed' = failed \cup {VM}
        /\ todo = {}
        /\ UNCHANGED <<disks, machine, export, history>>
        /\ trouble' \in 0..MaxTrouble
    BY <1>2, <1>t, <1>p
       DEF MakeVMFails, UpdateVMFails, StartVMFails, Fail, GoesWrong, Strike, Spend
  <2>2. VMInv'
    BY <2>1, <1>f DEF VMInv
  <2> QED
    BY <2>1, <2>2, <1>i, VMStepKeeps DEF TypeOK, machine
<1>3. CASE AttachDisk
  <2>1. PICK d \in todo :
          /\ todo' = todo \ {d}
          /\ vm' = [vm EXCEPT !.disks = @ \cup {d}]
    BY <1>3 DEF AttachDisk
  <2>2. vm \in Machines /\ step[VM] = "attach" /\ d \in Disks
    BY <1>3, <1>i DEF AttachDisk, VMInv, TypeOK
  <2>3. vm' \in Machines /\ vm' # None
    BY <2>1, <2>2, NoneAssumption DEF Machines
  <2>4. VMInv'
    BY <1>3, <1>i, <2>2, <2>3 DEF AttachDisk, VMInv
  <2>5. Goto(VM, "attach")
    BY <1>3, <1>i, <2>2 DEF AttachDisk, Goto, TypeOK
  <2> QED
    BY <1>3, <1>t, <1>i, <2>1, <2>2, <2>3, <2>4, <2>5, VMStepKeeps DEF AttachDisk, TypeOK
<1>4. CASE AttachDiskFails
  <2>1. /\ step[VM] = "attach"
        /\ Goto(VM, "done") /\ failed' = failed \cup {VM}
        /\ todo' = {}
        /\ UNCHANGED <<disks, vm, vmknown, vmwant, replace, export, history>>
        /\ trouble' \in 0..MaxTrouble
    BY <1>4, <1>t DEF AttachDiskFails, Fail, GoesWrong, Strike, Spend
  <2>2. VMInv'
    BY <2>1, <1>f DEF VMInv
  <2> QED
    BY <2>1, <2>2, <1>i, VMStepKeeps DEF TypeOK
<1>5. CASE StartVM \/ UpdateVM
  <2>1. /\ step[VM] \in {"attach", "update"}
        /\ todo = {}
        /\ vm' = [vm EXCEPT !.on = TRUE]
        /\ Goto(VM, "done") /\ failed' = failed
        /\ vmknown'
        /\ UNCHANGED <<disks, trouble, vmwant, replace, todo, export, history>>
    BY <1>5, <1>p, <1>i DEF StartVM, UpdateVM, Done, VMInv, TypeOK
  <2>2. vm \in Machines /\ vmwant
    BY <2>1, <1>i DEF VMInv, TypeOK
  <2>3. vm' \in Machines /\ vm' # None /\ vm'.on
    BY <2>1, <2>2, NoneAssumption DEF Machines
  <2>4. vmknown' \in BOOLEAN
    BY <1>5, <1>i DEF StartVM, UpdateVM, TypeOK
  <2>5. VMInv'
    BY <2>1, <2>2, <2>3, <2>4, <1>f DEF VMInv
  <2> QED
    BY <2>1, <2>3, <2>4, <2>5, <1>t, <1>i, VMStepKeeps DEF TypeOK
<1>6. CASE DeleteVM
  BY <1>6, DeleteVMKeeps
<1>7. CASE DeleteVMFails
  <2>1. /\ step[VM] = "delete"
        /\ vm' = [vm EXCEPT !.on = FALSE]
        /\ Goto(VM, "done") /\ failed' = failed \cup {VM}
        /\ UNCHANGED <<disks, vmknown, vmwant, replace, todo, export, history>>
        /\ trouble' \in 0..MaxTrouble
    BY <1>7, <1>t DEF DeleteVMFails, Fail, Strike, Spend
  <2>2. vm \in Machines /\ todo = {}
    BY <2>1, <1>i, <1>p DEF VMInv, TypeOK
  <2>3. vm' \in Machines /\ vm' # None
    BY <2>1, <2>2, NoneAssumption DEF Machines
  <2>4. VMInv'
    BY <2>1, <1>f DEF VMInv
  <2> QED
    BY <2>1, <2>2, <2>3, <2>4, <1>i, VMStepKeeps DEF TypeOK
<1> QED
  BY <1>1, <1>2, <1>3, <1>4, <1>5, <1>6, <1>7 DEF OfVM

LEMMA OfExportKeeps ==
    ASSUME ApplyInv, OfExport
    PROVE  ApplyInv'
<1>i. TypeOK /\ Phase /\ VMInv /\ ExportInv
  BY DEF ApplyInv
<1>n. None \notin Media
  BY NoneAssumption
<1>1. CASE ReadExport
  <2>1. /\ step[Export] = "refresh" /\ exknown' = file
        /\ step' = [step EXCEPT ![Export] = "plan"]
        /\ UNCHANGED <<disks, failed, trouble, machine, file, exwant, history>>
    BY <1>1 DEF ReadExport, Goto
  <2>2. /\ step' \in [Parts -> Steps]
        /\ \A q \in Parts : q # Export => step'[q] = step[q]
        /\ step'[Export] = "plan"
    BY <2>1, <1>i, PartsApart DEF TypeOK, Steps
  <2>3. Phase'
    BY <2>1, <2>2, <1>i, PartsApart DEF Phase, AtRest, Early, Late, history
  <2>4. TypeOK'
    BY <2>1, <2>2, <1>i, PartsApart DEF TypeOK, disks, machine, history
  <2>5. StepInv'
    BY <2>2, PartsApart DEF ApplyInv, StepInv, ExportSteps
  <2>6. ASSUME NEW d \in Disks PROVE DiskInv(d)'
    BY <2>1, <2>2, PartsApart, DiskInvFrame DEF ApplyInv, disks, history
  <2>7. VMInv' /\ ExportInv'
    BY <2>1, <2>2, <1>i, PartsApart DEF VMInv, ExportInv, machine, history, Phase
  <2> QED
    BY <2>3, <2>4, <2>5, <2>6, <2>7 DEF ApplyInv
<1>2. CASE CreateExport \/ CreateExportFails
  <2>1. /\ step[Export] = "create"
        /\ Goto(Export, "done")
        /\ \/ failed' = failed /\ exknown' = TRUE
           \/ failed' = failed \cup {Export} /\ exknown' = exknown
        /\ file' \in BOOLEAN
        /\ UNCHANGED <<disks, machine, exwant, history>>
    BY <1>2, <1>i DEF CreateExport, CreateExportFails, Done, Fail, TypeOK
  <2>2. trouble' \in 0..MaxTrouble
    <3>1. trouble' = trouble \/ (trouble < MaxTrouble /\ trouble' = trouble + 1)
      BY <1>2 DEF CreateExport, CreateExportFails, GoesWrong, Strike, Spend
    <3> QED
      BY <3>1, <1>i, DiskAssumption DEF TypeOK
  <2>3. step[VM] = "done" /\ VM \notin failed
    BY <2>1, <1>2, PartsApart DEF CreateExport, CreateExportFails, Ready, Before
  <2>4. /\ Phase'
        /\ step' \in [Parts -> Steps]
        /\ \A q \in Parts : q # Export => step'[q] = step[q] /\ (q \in failed' <=> q \in failed)
        /\ step'[Export] = "done"
        /\ failed' \subseteq Parts
        /\ Export \notin failed
    <3>1. "done" \in Late /\ step[Export] \in Late \ {"done"} /\ Export \in Parts
      BY <2>1, PartsApart DEF Late, Steps
    <3> QED
      BY <2>1, <3>1, <1>i, HandlerStep
  <2>5. TypeOK'
    BY <2>1, <2>2, <2>4, <1>2, <1>i, PartsApart
       DEF TypeOK, disks, machine, history, CreateExport, CreateExportFails
  <2>6. StepInv'
    BY <2>4, PartsApart DEF ApplyInv, StepInv, ExportSteps
  <2>7. ASSUME NEW d \in Disks PROVE DiskInv(d)'
    BY <2>1, <2>4, PartsApart, DiskInvFrame DEF ApplyInv, disks, history
  <2>8. VMInv'
    BY <2>1, <2>4, <1>i, PartsApart DEF VMInv, machine, history
  <2>9. vmknown /\ exwant /\ vmwant
    BY <2>1, <2>3, <1>i DEF VMInv, ExportInv
  <2>10. ExportInv'
    BY <2>1, <2>3, <2>4, <2>5, <2>9, <1>i, PartsApart DEF ExportInv, machine, TypeOK
  <2> QED
    BY <2>4, <2>5, <2>6, <2>7, <2>8, <2>10 DEF ApplyInv
<1>3. CASE DeleteExport
  <2>1. /\ step[Export] = "delete"
        /\ file' = FALSE /\ exknown' = FALSE
        /\ media' = [d \in Disks |-> IF d \in Prefixed /\ Usable(d)
                                     THEN [media[d] EXCEPT !.file = FALSE] ELSE media[d]]
        /\ lost' = lost \cup {d \in Prefixed : Usable(d)}
        /\ UNCHANGED <<stored, want, trouble, machine, exwant, result, touched>>
    BY <1>3 DEF DeleteExport
  <2>2. PICK s \in {"create", "done"} :
          /\ Goto(Export, s) /\ failed' = failed
          /\ s = "create" <=> exwant /\ vmwant
    BY <1>3 DEF DeleteExport, Done
  <2>3. /\ Phase'
        /\ step' \in [Parts -> Steps]
        /\ \A q \in Parts : q # Export => step'[q] = step[q] /\ (q \in failed' <=> q \in failed)
        /\ step'[Export] = s
        /\ \A q \in Parts : step[q] \in Late
    <3>1. s \in Late /\ step[Export] \in Late \ {"done"} /\ Export \in Parts
      BY <2>1, PartsApart DEF Late, Steps
    <3> QED
      BY <2>2, <3>1, <1>i, HandlerStep
  <2>4. ASSUME NEW d \in Disks
        PROVE  /\ media'[d] \in Media \cup {None}
               /\ media[d] = None <=> media'[d] = None
               /\ media[d] # None => media'[d].size = media[d].size
               /\ media'[d] = media[d] \/ (Usable(d) /\ ~Usable(d)' /\ d \in lost')
    <3>1. CASE d \in Prefixed /\ Usable(d)
      <4>1. media[d] \in Media /\ media'[d] = [media[d] EXCEPT !.file = FALSE]
        BY <2>1, <3>1, <1>i DEF TypeOK, Usable
      <4>2. /\ media'[d] \in Media
            /\ media'[d].size = media[d].size /\ media'[d].file = FALSE
        BY <4>1 DEF Media
      <4> QED
        BY <4>1, <4>2, <3>1, <2>1, <1>n DEF Usable
    <3>2. CASE ~(d \in Prefixed /\ Usable(d))
      BY <2>1, <3>2, <1>i DEF TypeOK
    <3> QED
      BY <3>1, <3>2
  <2>5. TypeOK'
    <3>1. media' \in [Disks -> Media \cup {None}]
      BY <2>1, <2>4
    <3> QED
      BY <2>1, <2>2, <2>3, <3>1, <1>i, PartsApart, PartsAssumption DEF TypeOK, machine
  <2>6. StepInv'
    BY <2>3, PartsApart DEF ApplyInv, StepInv, ExportSteps
  <2>7. ASSUME NEW d \in Disks PROVE DiskInv(d)'
    <3>1. /\ step'[d] = step[d] /\ (d \in failed' <=> d \in failed)
          /\ step[d] \in Late
      BY <2>3, PartsApart
    <3>2. CASE media'[d] = media[d]
      BY <2>1, <3>1, <3>2 DEF ApplyInv, DiskInv, AsConfigured, Usable
    <3>3. CASE Usable(d) /\ ~Usable(d)' /\ d \in lost'
      BY <2>1, <2>4, <3>1, <3>3 DEF ApplyInv, DiskInv, AsConfigured, Late
    <3> QED
      BY <2>4, <3>2, <3>3
  <2>8. VMInv'
    BY <2>1, <2>2, <2>3, <1>i, PartsApart DEF VMInv, machine
  <2>9. ExportInv'
    BY <2>1, <2>2, <2>3, <1>i DEF ExportInv, machine, TypeOK
  <2> QED
    BY <2>3, <2>5, <2>6, <2>7, <2>8, <2>9 DEF ApplyInv
<1> QED
  BY <1>1, <1>2, <1>3 DEF OfExport

-----------------------------------------------------------------------------
(* Users and crashes *)

LEMMA EditConfigKeeps ==
    ASSUME ApplyInv, EditConfig
    PROVE  ApplyInv'
<1>1. /\ AtRest
      /\ want' \in [Disks -> Sizes \cup {None}]
      /\ vmwant' \in BOOLEAN /\ replace' \in BOOLEAN /\ exwant' \in BOOLEAN
      /\ result' = "none"
      /\ UNCHANGED <<media, stored, step, failed, vm, vmknown, todo, file, exknown, lost, touched>>
  <2>1. CASE \E d \in Disks, s \in Sizes \cup {None} :
               s # want[d] /\ want' = [want EXCEPT ![d] = s]
    BY <2>1 DEF EditConfig, ApplyInv, TypeOK
  <2>2. CASE UNCHANGED want
    BY <2>2 DEF EditConfig, ApplyInv, TypeOK
  <2> QED
    BY <2>1, <2>2 DEF EditConfig
<1>2. trouble' \in 0..MaxTrouble
  BY DiskAssumption DEF EditConfig, Spend, ApplyInv, TypeOK
<1>3. TypeOK'
  BY <1>1, <1>2 DEF ApplyInv, TypeOK
<1>4. StepInv' /\ Phase'
  BY <1>1 DEF ApplyInv, StepInv, Phase, AtRest
<1>5. ASSUME NEW d \in Disks PROVE DiskInv(d)'
  BY <1>1, PartsApart DEF AtRest, DiskInv
<1>6. VMInv' /\ ExportInv'
  BY <1>1, PartsApart DEF AtRest, ApplyInv, VMInv, ExportInv
<1> QED
  BY <1>3, <1>4, <1>5, <1>6 DEF ApplyInv

LEMMA UserPowersOffKeeps ==
    ASSUME ApplyInv, UserPowersOff
    PROVE  ApplyInv'
<1>1. /\ vm' = [vm EXCEPT !.on = FALSE] /\ vm \in Machines
      /\ touched' = TRUE
      /\ UNCHANGED <<disks, step, failed, vmknown, vmwant, replace, todo, export, result, lost>>
  BY DEF UserPowersOff, ApplyInv, TypeOK
<1>2. trouble' \in 0..MaxTrouble
  BY DiskAssumption DEF UserPowersOff, Strike, Spend, ApplyInv, TypeOK
<1>3. vm' \in Machines /\ vm' # None
  <2>1. vm' \in Machines
    BY <1>1 DEF Machines
  <2> QED
    BY <2>1, NoneAssumption
<1>4. TypeOK'
  BY <1>1, <1>2, <1>3 DEF ApplyInv, TypeOK, disks, export
<1>5. StepInv' /\ Phase'
  BY <1>1 DEF ApplyInv, StepInv, Phase, AtRest
<1>6. ASSUME NEW d \in Disks PROVE DiskInv(d)'
  BY <1>1 DEF ApplyInv, DiskInv, disks
<1>7. VMInv' /\ ExportInv'
  BY <1>1, <1>3 DEF ApplyInv, VMInv, ExportInv, export
<1> QED
  BY <1>4, <1>5, <1>6, <1>7 DEF ApplyInv

LEMMA UserRemovesKeeps ==
    ASSUME ApplyInv, UserRemoves
    PROVE  ApplyInv'
<1>1. /\ file' \in BOOLEAN /\ touched' = TRUE
      /\ UNCHANGED <<stored, want, step, failed, machine, exknown, exwant, result, lost>>
  BY DEF UserRemoves, ApplyInv, TypeOK
<1>2. trouble' \in 0..MaxTrouble
  BY DiskAssumption DEF UserRemoves, Strike, Spend, ApplyInv, TypeOK
<1>3. /\ media' \in [Disks -> Media \cup {None}]
      /\ \A d \in Disks : media'[d] = media[d] \/ media'[d] = None
  <2>1. CASE UNCHANGED media
    BY <2>1 DEF ApplyInv, TypeOK
  <2>2. CASE \E d \in Disks : media' = [media EXCEPT ![d] = None]
    BY <2>2 DEF ApplyInv, TypeOK
  <2> QED
    BY <2>1, <2>2 DEF UserRemoves
<1>4. TypeOK'
  BY <1>1, <1>2, <1>3 DEF ApplyInv, TypeOK, machine
<1>5. StepInv' /\ Phase'
  BY <1>1 DEF ApplyInv, StepInv, Phase, AtRest
<1>6. ASSUME NEW d \in Disks PROVE DiskInv(d)'
  BY <1>1, <1>3 DEF ApplyInv, DiskInv
<1>7. VMInv' /\ ExportInv'
  BY <1>1 DEF ApplyInv, VMInv, ExportInv, machine
<1> QED
  BY <1>4, <1>5, <1>6, <1>7 DEF ApplyInv

-----------------------------------------------------------------------------
(* The invariant and what follows *)

LEMMA ApplyInvInit == Init => ApplyInv
<1> SUFFICES ASSUME Init PROVE ApplyInv
  OBVIOUS
<1>1. TypeOK
  <2>1. /\ media \in [Disks -> Media \cup {None}]
        /\ stored \in [Disks -> Sizes \cup {None}]
        /\ want \in [Disks -> Sizes \cup {None}]
    BY DEF Init
  <2>2. step \in [Parts -> Steps]
    BY DEF Init, Steps
  <2>3. /\ trouble \in 0..MaxTrouble
        /\ failed \subseteq Parts /\ lost \subseteq Disks
        /\ todo = {} /\ todo \subseteq Disks
    BY DiskAssumption DEF Init
  <2>4. /\ vm = None /\ ~vmknown
        /\ vmknown \in BOOLEAN /\ vmwant \in BOOLEAN /\ replace \in BOOLEAN
        /\ file \in BOOLEAN /\ exknown \in BOOLEAN /\ exwant \in BOOLEAN
        /\ result \in {"none", "ok", "error"} /\ touched \in BOOLEAN
    BY DEF Init
  <2> QED
    BY <2>1, <2>2, <2>3, <2>4 DEF TypeOK
<1>2. StepInv /\ Phase
  BY PartsApart DEF Init, StepInv, Phase, AtRest, DiskSteps, VMSteps, ExportSteps
<1>3. ASSUME NEW d \in Disks PROVE DiskInv(d)
  BY PartsApart DEF Init, DiskInv
<1>4. VMInv /\ ExportInv
  BY PartsApart DEF Init, VMInv, ExportInv
<1> QED
  BY <1>1, <1>2, <1>3, <1>4 DEF ApplyInv

LEMMA ApplyInvInductive == ApplyInv /\ [Next]_vars => ApplyInv'
<1> SUFFICES ASSUME ApplyInv, [Next]_vars PROVE ApplyInv'
  OBVIOUS
<1>1. CASE EndApply
  <2>1. todo = {}
    BY <1>1, PartsApart DEF EndApply, ApplyInv, TypeOK
  <2>2. trouble \in 0..MaxTrouble
    BY DEF ApplyInv, TypeOK
  <2> QED
    BY <1>1, <2>1, <2>2, RestKeeps DEF EndApply, machine
<1>2. CASE Crash
  <2>1. trouble' \in 0..MaxTrouble
    BY <1>2, DiskAssumption DEF Crash, Strike, Spend, ApplyInv, TypeOK
  <2> QED
    BY <1>2, <2>1, RestKeeps DEF Crash
<1>3. CASE UNCHANGED vars
  <2>1. TypeOK' /\ StepInv' /\ Phase' /\ VMInv' /\ ExportInv'
    BY <1>3 DEF ApplyInv, TypeOK, StepInv, Phase, AtRest, VMInv, ExportInv,
                vars, disks, machine, export, history
  <2>2. ASSUME NEW d \in Disks PROVE DiskInv(d)'
    BY <1>3, DiskInvFrame DEF ApplyInv, vars, disks, history
  <2> QED
    BY <2>1, <2>2 DEF ApplyInv
<1> QED
  BY <1>1, <1>2, <1>3, StartApplyKeeps, PlanKeeps, OfVMKeeps, OfExportKeeps, OfDiskKeeps,
     SkipKeeps, EditConfigKeeps, UserPowersOffKeeps, UserRemovesKeeps DEF Next, Apply

LEMMA ResultInductive == ApplyInv /\ ResultInv /\ [Next]_vars => ResultInv'
<1> SUFFICES ASSUME ApplyInv, ResultInv, [Next]_vars, result' = "ok"
             PROVE  AtRest' /\ (~touched' => Configured')
  BY DEF ResultInv
\* No handler has run since a success was reported, so that it is this step
\* that reports it, or a user who has changed something.
<1>1. CASE EndApply
  <2>1. failed = {} /\ \A r \in Parts : step[r] = "done"
    BY <1>1 DEF EndApply
  <2>2. AtRest'
    BY <1>1 DEF EndApply, AtRest
  <2>3. ~touched => Configured
    BY <2>1, PartsApart DEF ApplyInv, DiskInv, VMInv, ExportInv, Configured
  <2>4. UNCHANGED <<disks, machine, export, lost, touched>>
    BY <1>1 DEF EndApply
  <2> QED
    BY <2>2, <2>3, <2>4 DEF Configured, AsConfigured, Usable, disks, machine, export
<1>2. CASE UserPowersOff \/ UserRemoves
  BY <1>2 DEF UserPowersOff, UserRemoves, ResultInv, AtRest
<1>3. CASE UNCHANGED vars
  BY <1>3 DEF ResultInv, AtRest, Configured, AsConfigured, Usable,
              vars, disks, machine, export, history
<1>4. CASE StartApply \/ EditConfig \/ Crash
  BY <1>4 DEF StartApply, EditConfig, Crash
<1>5. ASSUME AtRest, OfVM PROVE FALSE
  BY <1>5, PartsApart
     DEF AtRest, OfVM, MakeVM, MakeVMFails, AttachDisk, AttachDiskFails, StartVM, StartVMFails,
         UpdateVM, UpdateVMFails, DeleteVM, DeleteVMFails
<1>6. ASSUME AtRest, OfExport PROVE FALSE
  BY <1>6, PartsApart
     DEF AtRest, OfExport, ReadExport, CreateExport, CreateExportFails, DeleteExport
<1>7. ASSUME AtRest, NEW d \in Disks, OfDisk(d) PROVE FALSE
  BY <1>7, DiskFrame, PartsApart DEF ApplyInv, AtRest
<1>8. ASSUME AtRest, Plan \/ \E r \in Parts : Skip(r) PROVE FALSE
  BY <1>8, PartsApart DEF AtRest, Plan, Skip
<1>9. ASSUME OfVM \/ OfExport \/ Plan \/ (\E d \in Disks : OfDisk(d)) \/ \E r \in Parts : Skip(r)
      PROVE  FALSE
  <2>1. ~AtRest
    BY <1>5, <1>6, <1>7, <1>8, <1>9
  <2>2. result' = result
    <3>1. CASE OfVM
      BY <3>1 DEF OfVM, MakeVM, MakeVMFails, AttachDisk, AttachDiskFails, StartVM, StartVMFails,
                  UpdateVM, UpdateVMFails, DeleteVM, DeleteVMFails, history
    <3>2. CASE OfExport
      BY <3>2 DEF OfExport, ReadExport, CreateExport, CreateExportFails, DeleteExport, history
    <3>3. CASE Plan \/ (\E d \in Disks : OfDisk(d)) \/ \E r \in Parts : Skip(r)
      BY <3>3 DEF Plan, OfDisk, Skip, history
    <3> QED
      BY <1>9, <3>1, <3>2, <3>3
  <2> QED
    BY <2>1, <2>2 DEF ResultInv
<1> QED
  BY <1>1, <1>2, <1>3, <1>4, <1>9 DEF Next, Apply

LEMMA Invariance == Spec => [](ApplyInv /\ ResultInv)
<1>1. Init => ApplyInv /\ ResultInv
  BY ApplyInvInit DEF Init, ResultInv
<1>2. (ApplyInv /\ ResultInv) /\ [Next]_vars => (ApplyInv /\ ResultInv)'
  BY ApplyInvInductive, ResultInductive
<1> QED
  BY <1>1, <1>2, PTL DEF Spec

\* The state of the disks, the VM, the export and the apply stay in range; a VM
\* that the state knows is there.
THEOREM TypeCorrect == Spec => []TypeOK
<1>1. ApplyInv => TypeOK
  BY DEF ApplyInv
<1> QED
  BY <1>1, Invariance, PTL

\* An apply that reports success leaves what is configured in the state and in
\* VirtualBox, but for the disks that went with the VM or the export it
\* destroyed.
THEOREM OkIsConfigured == Spec => []OkMeansConfigured
<1>1. ResultInv => OkMeansConfigured
  BY DEF ResultInv, Configured, OkMeansConfigured
<1> QED
  BY <1>1, Invariance, PTL

-----------------------------------------------------------------------------
(* The contract of the disks *)

Made == [m \in Disks \cup {VM} |->
           IF m \in Disks /\ media[m] # None /\ media[m].file THEN {m} ELSE {}]
Known == [d \in Disks |-> IF stored[d] = None THEN {} ELSE {d}]
Making == [d \in Disks |-> step[d] = "info"]

\* What the contract sees of a step that creates no medium and touches no state
\* of a disk: at most that media go, or that creates do.
LEMMA NothingMade ==
    ASSUME UNCHANGED stored,
           \/ /\ \A d \in Disks : Usable(d)' => Usable(d)
              /\ \A d \in Disks : step'[d] = "info" <=> step[d] = "info"
           \/ /\ \A d \in Disks : Usable(d)' <=> Usable(d)
              /\ \A d \in Disks : step'[d] = "info" => step[d] = "info"
    PROVE  [Contract!Next]_(Contract!vars)
<1>1. Known' = Known
  BY DEF Known
<1>2. CASE /\ \A d \in Disks : Usable(d)' => Usable(d)
           /\ \A d \in Disks : step'[d] = "info" <=> step[d] = "info"
  <2>1. Making' = Making
    BY <1>2 DEF Making
  <2>2. /\ \A m \in Disks \cup {VM} : Made'[m] \subseteq Made[m]
        /\ Made' = [m \in Disks \cup {VM} |-> Made'[m]]
    BY <1>2 DEF Made, Usable
  <2>3. Contract!Vanish
    BY <1>1, <2>1, <2>2 DEF Contract!Vanish, Contract!Makers, Made, Known, Making
  <2> QED
    BY <2>3 DEF Contract!Next
<1>3. CASE /\ \A d \in Disks : Usable(d)' <=> Usable(d)
           /\ \A d \in Disks : step'[d] = "info" => step[d] = "info"
  <2>1. Made' = Made
    BY <1>3 DEF Made, Usable
  <2>2. /\ \A d \in Disks : Making'[d] => Making[d]
        /\ Making' = [d \in Disks |-> Making'[d]]
    BY <1>3 DEF Making
  <2>3. Contract!Abandon
    BY <1>1, <2>1, <2>2 DEF Contract!Abandon, Made, Known, Making
  <2> QED
    BY <2>3 DEF Contract!Next
<1> QED
  BY <1>2, <1>3

\* A handler of a disk is a step of its contract, or none.
LEMMA DiskKeepsContract ==
    ASSUME ApplyInv, NEW d \in Disks, OfDisk(d)
    PROVE  [Contract!Next]_(Contract!vars)
<1>i. /\ TypeOK /\ DiskInv(d)
      /\ want[d] \in Sizes \cup {None}
      /\ step \in [Parts -> Steps] /\ d \in Parts
      /\ None \notin Media
  BY PartsApart, NoneAssumption DEF ApplyInv, TypeOK
<1>f. \A e \in Disks : e # d => step'[e] = step[e] /\ media'[e] = media[e] /\ stored'[e] = stored[e]
  BY <1>i, DiskFrame, PartsApart
<1>1. CASE CreateDiskFails(d) \/ CreatedDiskMissing(d) \/ DeleteDiskFails(d, Attached(d))
  <2>1. UNCHANGED <<media, stored>> /\ step'[d] = "done"
    BY <1>1, <1>i DEF CreateDiskFails, CreatedDiskMissing, DeleteDiskFails, Fail, Goto
  <2> QED
    BY <2>1, <1>f, NothingMade DEF Usable
<1>2. CASE ReadDisk(d) \/ CheckDisk(d) \/ ResizeDiskFails(d, Locked(d))
  <2>1. /\ UNCHANGED media
        /\ step[d] \in {"refresh", "check", "update"} /\ step'[d] \in {"plan", "done"}
    BY <1>2, <1>i DEF ReadDisk, CheckDisk, ResizeDiskFails, Done, Fail, Goto
  <2>2. stored[d] # None /\ stored'[d] # None
    BY <1>2, <1>i, DiskAssumption
       DEF ReadDisk, CheckDisk, ResizeDiskFails, Remember, DiskInv, TypeOK, Usable, Media
  <2>3. Made' = Made /\ Known' = Known /\ Making' = Making
    BY <2>1, <2>2, <1>f DEF Made, Known, Making
  <2> QED
    BY <2>3 DEF Contract!vars, Made, Known, Making
<1>3. CASE ReadDiskGone(d) \/ CheckDiskGone(d)
  <2>1. /\ UNCHANGED media /\ stored'[d] = None
        /\ step[d] \in {"refresh", "check"} /\ step'[d] \in {"plan", "done"}
    BY <1>3, <1>i DEF ReadDiskGone, CheckDiskGone, Fail, Goto, Remember, TypeOK
  <2>2. /\ Made' = Made /\ Making' = Making
        /\ Known' = [Known EXCEPT ![d] = {}]
    BY <2>1, <1>f DEF Made, Known, Making
  <2>3. Contract!Forget(d)
    BY <2>2 DEF Contract!Forget, Made, Known, Making
  <2> QED
    BY <2>3 DEF Contract!Next
<1>4. CASE CreateDisk(d)
  <2>1. /\ UNCHANGED stored /\ ~Usable(d) /\ Usable(d)'
        /\ step[d] = "create" /\ step'[d] = "info"
        /\ stored[d] = None
    <3>1. media'[d] = [size |-> want[d], file |-> TRUE] /\ want[d] \in Sizes
      BY <1>4, <1>i DEF CreateDisk, TypeOK, DiskInv
    <3>2. media'[d] \in Media /\ media'[d].file
      BY <3>1 DEF Media
    <3> QED
      BY <1>4, <1>i, <3>2 DEF CreateDisk, Goto, DiskInv, Usable
  <2>2. /\ Made' = [Made EXCEPT ![d] = @ \cup {d}]
        /\ Known' = Known
        /\ Making' = [Making EXCEPT ![d] = TRUE]
    BY <2>1, <1>f DEF Made, Known, Making, Usable
  <2>3. /\ d \in Made'[d] /\ Known[d] = {} /\ ~Making[d]
        /\ \A m \in Disks \cup {VM} : d \notin Made[m]
        /\ \A r \in Disks : d \notin Known[r]
    BY <2>1 DEF Made, Known, Making, Usable
  <2>4. Contract!MakeOne(d)
    <3>1. d \notin Contract!AllMade
      BY <2>3 DEF Contract!AllMade, Contract!Makers, Made
    <3>2. d \notin Contract!AllKnown
      BY <2>3 DEF Contract!AllKnown, Known
    <3> QED
      BY <2>2, <2>3, <3>1, <3>2, Zenon DEF Contract!MakeOne, Made
  <2>5. Contract!Make(d)
    BY <2>2, <2>3, <2>4, Zenon DEF Contract!Make, Known, Making
  <2> QED
    BY <2>5 DEF Contract!Next
<1>5. CASE CreatedDisk(d)
  <2>1. /\ UNCHANGED media /\ step[d] = "info" /\ step'[d] = "done"
        /\ stored'[d] # None
    BY <1>5, <1>i, DiskAssumption
       DEF CreatedDisk, Done, Goto, Remember, TypeOK, Usable, Media
  <2>2. /\ Made' = Made
        /\ Known' = [Known EXCEPT ![d] = {d}]
        /\ Making[d] /\ Making' = [Making EXCEPT ![d] = FALSE]
        /\ \A m \in (Disks \cup {VM}) \ {d} : d \notin Made[m]
    BY <2>1, <1>f DEF Made, Known, Making
  <2>3. d \in Known'[d]
    BY <2>1 DEF Known
  <2>4. Contract!Store(d)
    BY <2>2, <2>3 DEF Contract!Store, Contract!Makers, Made, Known, Making
  <2> QED
    BY <2>4 DEF Contract!Next
<1>6. CASE ResizeDisk(d, Locked(d))
  <2>1. /\ UNCHANGED stored /\ Usable(d)
        /\ step[d] = "update" /\ step'[d] = "check"
        /\ media[d] \in Media /\ media'[d] = [media[d] EXCEPT !.size = want[d]]
        /\ want[d] \in Sizes
    BY <1>6, <1>i DEF ResizeDisk, Resizable, Goto, TypeOK, Usable, DiskInv
  <2>2. media'[d] \in Media /\ media'[d].file
    BY <2>1 DEF Media, Usable
  <2>3. Usable(d)'
    BY <2>2, <1>i DEF Usable
  <2> QED
    BY <2>1, <2>3, <1>f, NothingMade DEF Usable
<1>7. CASE DeleteDisk(d, Attached(d))
  <2>1. /\ media'[d] = None /\ stored'[d] = None
        /\ step[d] = "delete" /\ step'[d] = "done"
        /\ stored[d] # None
    BY <1>7, <1>i DEF DeleteDisk, Done, Goto, Remember, TypeOK, DiskInv
  <2>2. /\ Made' = [Made EXCEPT ![d] = @ \ Known[d]]
        /\ Known[d] # {} /\ Known' = [Known EXCEPT ![d] = {}]
        /\ Making' = Making
    BY <2>1, <1>f DEF Made, Known, Making
  <2>3. Contract!Remove(d)
    BY <2>2 DEF Contract!Remove, Made, Known, Making
  <2> QED
    BY <2>3 DEF Contract!Next
<1> QED
  BY <1>1, <1>2, <1>3, <1>4, <1>5, <1>6, <1>7 DEF OfDisk, DiskHandler

\* The other resources, Terraform, users and crashes make no medium, and change
\* the state of no disk.
LEMMA StepKeepsContract ==
    ApplyInv /\ [Next]_vars => [Contract!Next]_(Contract!vars)
<1> SUFFICES ASSUME ApplyInv, [Next]_vars PROVE [Contract!Next]_(Contract!vars)
  OBVIOUS
<1>i. TypeOK /\ step \in [Parts -> Steps] /\ \A d \in Disks : d \in Parts /\ d # VM /\ d # Export
  BY PartsApart DEF ApplyInv, TypeOK
<1>1. CASE OfVM
  <2>1. /\ UNCHANGED stored
        /\ \A d \in Disks : step'[d] = step[d]
    BY <1>1, <1>i
       DEF OfVM, MakeVM, MakeVMFails, AttachDisk, AttachDiskFails, StartVM, StartVMFails,
           UpdateVM, UpdateVMFails, DeleteVM, DeleteVMFails, Goto, Done, Fail, disks
  <2>2. \A d \in Disks : media'[d] = None \/ media'[d] = media[d]
    BY <1>1
       DEF OfVM, MakeVM, MakeVMFails, AttachDisk, AttachDiskFails, StartVM, StartVMFails,
           UpdateVM, UpdateVMFails, DeleteVM, DeleteVMFails, disks
  <2> QED
    BY <2>1, <2>2, NothingMade DEF Usable
<1>2. CASE OfExport
  <2>1. /\ UNCHANGED stored
        /\ \A d \in Disks : step'[d] = step[d]
    BY <1>2, <1>i
       DEF OfExport, ReadExport, CreateExport, CreateExportFails, DeleteExport,
           Goto, Done, Fail, disks
  <2>2. \A d \in Disks : Usable(d)' => Usable(d)
    <3>1. CASE DeleteExport
      BY <3>1 DEF DeleteExport, Usable
    <3>2. CASE ReadExport \/ CreateExport \/ CreateExportFails
      BY <3>2 DEF ReadExport, CreateExport, CreateExportFails, disks, Usable
    <3> QED
      BY <1>2, <3>1, <3>2 DEF OfExport
  <2> QED
    BY <2>1, <2>2, NothingMade
<1>3. CASE StartApply \/ Plan \/ EndApply \/ (\E r \in Parts : Skip(r)) \/ EditConfig \/ Crash
  <2>1. UNCHANGED <<media, stored>>
    BY <1>3 DEF StartApply, Plan, EndApply, Skip, EditConfig, Crash, disks
  <2>2. ASSUME NEW d \in Disks PROVE step'[d] = "info" => step[d] = "info"
    <3>1. CASE StartApply \/ EndApply \/ Crash
      BY <3>1, <1>i DEF StartApply, EndApply, Crash
    <3>2. CASE Plan
      BY <3>2, <1>i DEF Plan, PlanOfDisk
    <3>3. CASE (\E r \in Parts : Skip(r)) \/ EditConfig
      BY <3>3, <1>i DEF Skip, Fail, Goto, EditConfig
    <3> QED
      BY <1>3, <3>1, <3>2, <3>3
  <2> QED
    BY <2>1, <2>2, NothingMade DEF Usable
<1>4. CASE UserPowersOff \/ UserRemoves \/ UNCHANGED vars
  <2>1. UNCHANGED <<stored, step>>
    BY <1>4 DEF UserPowersOff, UserRemoves, vars, disks
  <2>2. \A d \in Disks : media'[d] = None \/ media'[d] = media[d]
    BY <1>4, <1>i DEF UserPowersOff, UserRemoves, vars, disks, TypeOK
  <2> QED
    BY <2>1, <2>2, NothingMade DEF Usable
<1> QED
  BY <1>1, <1>2, <1>3, <1>4, DiskKeepsContract DEF Next, Apply

\* The disks are managed as the contract says: a create takes over no file that
\* is there, and only the medium of the disk that the state has is deleted,
\* whatever the VM and the export do to the media meanwhile.
THEOREM ContractKept == Spec => KeepsContract
<1>1. Init => Contract!Init
  BY PartsApart DEF Init, Contract!Init, Contract!Makers
<1>2. ApplyInv /\ [Next]_vars => [Contract!Next]_(Contract!vars)
  BY StepKeepsContract
<1> QED
  BY <1>1, <1>2, ApplyInvInit, ApplyInvInductive, PTL DEF Spec, KeepsContract, Contract!Spec

-----------------------------------------------------------------------------
(* What follows from the contract, for the resources of any kind that keep it *)

CONSTANTS Resources, Others, MayLapse
VARIABLES made, known, making
Managed == INSTANCE ManagedResource

\* made and known are functions; everything else about them is in the actions.
FunctionInv ==
    /\ made = [m \in Managed!Makers |-> made[m]]
    /\ known = [r \in Resources |-> known[r]]

\* Every step of the contract keeps the two properties.
LEMMA ContractInductive ==
    FunctionInv /\ Managed!NamesItsOwn /\ Managed!NamesOne /\ [Managed!Next]_(Managed!vars)
        => (FunctionInv /\ Managed!NamesItsOwn /\ Managed!NamesOne)'
<1> SUFFICES ASSUME FunctionInv, Managed!NamesItsOwn, Managed!NamesOne,
                    [Managed!Next]_(Managed!vars)
             PROVE  (FunctionInv /\ Managed!NamesItsOwn /\ Managed!NamesOne)'
  OBVIOUS
<1> USE DEF FunctionInv, Managed!NamesItsOwn, Managed!NamesOne
<1>1. ASSUME NEW m \in Managed!Makers, Managed!MakeOne(m), UNCHANGED known
      PROVE  (FunctionInv /\ Managed!NamesItsOwn /\ Managed!NamesOne)'
  <2>1. PICK o : /\ o \notin Managed!AllKnown
                 /\ made' = [made EXCEPT ![m] = @ \cup {o}]
    BY <1>1 DEF Managed!MakeOne
  <2>2. \A r \in Resources : o \notin known[r]
    BY <2>1 DEF Managed!AllKnown
  <2>3. \A n \in Managed!Makers : made'[n] \subseteq made[n] \cup {o}
    BY <2>1
  <2>4. FunctionInv'
    BY <2>1, <1>1
  <2>5. known' = known
    BY <1>1
  <2>6. ASSUME NEW r \in Resources, NEW n \in Managed!Makers \ {r}, NEW p \in known'[r]
        PROVE  p \notin made'[n]
    <3>1. p \in known[r] /\ p # o
      BY <2>2, <2>5, <2>6
    <3>2. p \notin made[n]
      BY <2>6, <3>1
    <3> QED
      BY <2>3, <2>6, <3>1, <3>2
  <2>7. Managed!NamesItsOwn'
    BY <2>6
  <2>8. Managed!NamesOne'
    BY <2>5
  <2> QED
    BY <2>4, <2>7, <2>8
<1>2. ASSUME NEW r \in Resources, Managed!Store(r)
      PROVE  (FunctionInv /\ Managed!NamesItsOwn /\ Managed!NamesOne)'
  <2>1. PICK o : /\ \A m \in Managed!Makers \ {r} : o \notin made[m]
                 /\ known' = [known EXCEPT ![r] = {o}]
                 /\ made' = made
    BY <1>2 DEF Managed!Store
  <2>2. known'[r] = {o} /\ \A q \in Resources \ {r} : known'[q] = known[q]
    BY <2>1
  <2>3. FunctionInv'
    BY <2>1
  <2> QED
    BY <2>1, <2>2, <2>3
<1>3. ASSUME NEW r \in Resources, Managed!Remove(r) \/ Managed!Forget(r)
      PROVE  (FunctionInv /\ Managed!NamesItsOwn /\ Managed!NamesOne)'
  <2>1. /\ known' = [known EXCEPT ![r] = {}]
        /\ \/ made' = made
           \/ made' = [made EXCEPT ![r] = @ \ known[r]]
    BY <1>3 DEF Managed!Remove, Managed!Forget
  <2>2. /\ \A q \in Resources : known'[q] \subseteq known[q]
        /\ \A m \in Managed!Makers : made'[m] \subseteq made[m]
    BY <2>1
  <2>3. FunctionInv'
    BY <2>1
  <2> QED
    BY <2>2, <2>3
<1>4. ASSUME Managed!Vanish
      PROVE  (FunctionInv /\ Managed!NamesItsOwn /\ Managed!NamesOne)'
  BY <1>4 DEF Managed!Vanish
<1>5. ASSUME UNCHANGED <<made, known>>
      PROVE  (FunctionInv /\ Managed!NamesItsOwn /\ Managed!NamesOne)'
  BY <1>5
<1> QED
  BY <1>1, <1>2, <1>3, <1>4, <1>5
     DEF Managed!Next, Managed!Make, Managed!Abandon, Managed!OthersMake, Managed!Makers,
         Managed!vars

\* Whoever keeps the contract never has in the state of a resource an object
\* that another maker made.
THEOREM NamesOnlyItsOwn == Managed!Spec => []Managed!NamesItsOwn
<1>1. Managed!Init => FunctionInv /\ Managed!NamesItsOwn /\ Managed!NamesOne
  BY DEF Managed!Init, FunctionInv, Managed!NamesItsOwn, Managed!NamesOne
<1> QED
  BY <1>1, ContractInductive, PTL DEF Managed!Spec

\* Whoever keeps the contract never has two objects in the state of a resource.
THEOREM NamesAtMostOne == Managed!Spec => []Managed!NamesOne
<1>1. Managed!Init => FunctionInv /\ Managed!NamesItsOwn /\ Managed!NamesOne
  BY DEF Managed!Init, FunctionInv, Managed!NamesItsOwn, Managed!NamesOne
<1> QED
  BY <1>1, ContractInductive, PTL DEF Managed!Spec
=============================================================================
