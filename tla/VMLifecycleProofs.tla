------------------------- MODULE VMLifecycleProofs --------------------------
(***************************************************************************)
(* What TLAPS proves about VMLifecycle, for any resources, UUIDs and       *)
(* faults, and any number of user actions and crashes.                     *)
(***************************************************************************)
EXTENDS VMLifecycle, TLAPS

\* Every resource has a VM name of its own.
OwnNames == \A r, q \in Resources : NameOf[r] = NameOf[q] => r = q

\* A create that looks its VM up by name cannot meet another resource's: names
\* are the resources' own, or no user deletes the VM of a running create, which
\* would let another resource make one under the same name.
Unambiguous == OwnNames \/ "userdelete" \notin Faults

-----------------------------------------------------------------------------
(* Type correctness *)

\* Refreshing and planning keep the types.
LEMMA RefreshType ==
    ASSUME TypeOK, NEW r \in Resources, StartApply(r) \/ Refresh(r) \/ Plan(r)
    PROVE  TypeOK'
  <1> USE ConfigAssumption, BoundsAssumption
      DEF TypeOK, StepNames, Ops, Goto, Begin, Return, Strike, host, tfstate, history
  <1>1. CASE StartApply(r)
    BY <1>1 DEF StartApply
  <1>2. CASE Exists(r)
    BY <1>2 DEF Exists
  <1>3. CASE ExistsFails(r)
    BY <1>3 DEF ExistsFails
  <1>4. CASE Read(r)
    BY <1>4 DEF Read, StatusOf
  <1>5. CASE ReadFails(r)
    BY <1>5 DEF ReadFails
  <1>6. CASE PlanDelete(r)
    BY <1>6 DEF PlanDelete
  <1>7. CASE PlanUpdate(r)
    BY <1>7 DEF PlanUpdate
  <1>8. CASE PlanNothing(r)
    BY <1>8 DEF PlanNothing
  <1>9. QED
    BY <1>1, <1>2, <1>3, <1>4, <1>5, <1>6, <1>7, <1>8 DEF Refresh, Plan

\* A change of one field of a registered VM gives a VM again.
LEMMA VMField ==
    ASSUME TypeOK, NEW u \in Registered,
           NEW p \in {"running", "stopping", "off"}, NEW b \in BOOLEAN, NEW c \in BOOLEAN
    PROVE  /\ [vms EXCEPT ![u].power = p] \in [Uuids -> VMs \cup {None}]
           /\ [vms EXCEPT ![u].current = b, ![u].rules = c] \in [Uuids -> VMs \cup {None}]
           /\ [vms EXCEPT ![u].rules = c] \in [Uuids -> VMs \cup {None}]
           /\ vms[u] \in VMs
  <1>1. vms[u] \in VMs /\ u \in Uuids
    BY DEF TypeOK, Registered
  <1>2. /\ [vms[u] EXCEPT !.power = p] \in VMs
        /\ [vms[u] EXCEPT !.current = b, !.rules = c] \in VMs
        /\ [vms[u] EXCEPT !.rules = c] \in VMs
    BY <1>1 DEF VMs
  <1>3. QED
    BY <1>1, <1>2 DEF TypeOK

\* Settings that fail have changed the rules of the VM, if anything.
LEMMA SettingsFailChanges ==
    ASSUME TypeOK, NEW r \in Resources, SettingsFail(r)
    PROVE  /\ used' = used
           /\ \/ UNCHANGED vms
              \/ /\ handle[r] \in Registered
                 /\ \E c \in BOOLEAN : vms' = [vms EXCEPT ![handle[r]].rules = c]
  <1>1. ASSUME PoweredOff(handle[r]),
               NEW c \in {vms[handle[r]].rules, r \in Forwarding}
        PROVE  c \in BOOLEAN /\ handle[r] \in Registered
    <2>1. handle[r] \in Registered /\ vms[handle[r]] \in VMs
      BY <1>1 DEF PoweredOff, Registered, TypeOK
    <2>2. vms[handle[r]].rules \in BOOLEAN
      BY <2>1 DEF VMs
    <2>3. (r \in Forwarding) \in BOOLEAN
      OBVIOUS
    <2>4. QED
      BY <1>1, <2>1, <2>2, <2>3, Zenon
  <1>2. QED
    BY <1>1 DEF SettingsFail

\* Settings that do not fail change one VM.
LEMMA SettingsChange ==
    ASSUME NEW r \in Resources, Settings(r)
    PROVE  /\ used' = used /\ handle[r] \in Registered
           /\ \E b, c \in BOOLEAN :
                vms' = [vms EXCEPT ![handle[r]].current = b, ![handle[r]].rules = c]
  <1>1. (r \in Forwarding) \in BOOLEAN /\ TRUE \in BOOLEAN
    OBVIOUS
  <1>2. QED
    BY <1>1, Zenon DEF Settings, PoweredOff

\* So has an edit, and the VM is no longer up to date.
LEMMA EditChanges ==
    ASSUME TypeOK, NEW r \in Resources, Edit(r)
    PROVE  /\ used' = used
           /\ \/ UNCHANGED vms
              \/ /\ id[r] \in Registered
                 /\ \E c \in BOOLEAN :
                      vms' = [vms EXCEPT ![id[r]].current = FALSE, ![id[r]].rules = c]
  <1>1. ASSUME id[r] \in Registered,
               NEW c \in {vms[id[r]].rules} \cup (IF r \in Forwarding THEN BOOLEAN ELSE {})
        PROVE  c \in BOOLEAN
    <2>1. vms[id[r]] \in VMs
      BY <1>1 DEF Registered, TypeOK
    <2>2. QED
      BY <2>1 DEF VMs
  <1>2. QED
    BY <1>1 DEF Edit

\* A handler that fails keeps the types of what it reports and stores.
LEMMA FailsType ==
    ASSUME TypeOK, NEW r \in Resources, Fails(r) \/ CreateFails(r)
    PROVE  /\ tainted' = tainted /\ id' = id /\ touched' = touched
           /\ status' \in [Resources -> {"running", "poweroff"}]
           /\ dirty' \in [Resources -> BOOLEAN]
           /\ op' \in [Resources -> Ops]
           /\ step' \in [Resources -> StepNames]
           /\ handle' \in [Resources -> Uuids \cup {None}]
           /\ result' \in [Resources -> {"none", "ok", "error"}]
           /\ reported' \subseteq Uuids
           /\ lost' \in [Resources -> BOOLEAN]
  <1> USE DEF TypeOK, Return, Ops, StepNames
  <1>1. CASE CreateFails(r)
    BY <1>1 DEF CreateFails, LeftBehind, Registered
  <1>2. CASE UpdateFails(r)
    BY <1>2 DEF UpdateFails
  <1>3. QED
    BY <1>1, <1>2 DEF Fails

\* Making, configuring and starting a VM keeps the types.
LEMMA CreateOrUpdateType ==
    ASSUME TypeOK, NEW r \in Resources, CreateOrUpdate(r)
    PROVE  TypeOK'
  <1> USE ConfigAssumption, BoundsAssumption
      DEF Goto, Begin, Strike, host, tfstate, history
  <1>1. CASE MakeVM(r)
    <2>1. PICK u \in Uuids \ used, has \in BOOLEAN :
            /\ used' = used \cup {u}
            /\ vms' = [vms EXCEPT ![u] = [name |-> NameOf[r], power |-> "off",
                                          current |-> FALSE, rules |-> has, maker |-> r]]
            /\ handle' = [handle EXCEPT ![r] = u]
      BY <1>1 DEF MakeVM
    <2>2. [name |-> NameOf[r], power |-> "off", current |-> FALSE, rules |-> has,
           maker |-> r] \in VMs
      BY DEF VMs
    <2>3. QED
      BY <1>1, <2>1, <2>2 DEF MakeVM, TypeOK, StepNames
  <1>2. CASE MakeVMFails(r)
    BY <1>2, FailsType DEF MakeVMFails, TypeOK
  <1>3. CASE GetMachine(r)
    <2>1. Found(r) \subseteq Uuids
      BY DEF Found, Named, Registered
    <2>2. QED
      BY <1>3, <2>1 DEF GetMachine, TypeOK, StepNames
  <1>4. CASE GetMachineFails(r)
    BY <1>4, FailsType DEF GetMachineFails, TypeOK
  <1>5. CASE Settings(r)
    <2>1. vms' \in [Uuids -> VMs \cup {None}]
      <3>1. PICK b \in BOOLEAN, c \in BOOLEAN :
              vms' = [vms EXCEPT ![handle[r]].current = b, ![handle[r]].rules = c]
        BY <1>5, SettingsChange
      <3>2. QED
        BY <1>5, <3>1, SettingsChange, VMField
    <2>2. QED
      BY <1>5, <2>1 DEF Settings, TypeOK, StepNames
  <1>6. CASE SettingsFail(r)
    <2>1. vms' \in [Uuids -> VMs \cup {None}] /\ used' = used
      <3>1. CASE UNCHANGED vms
        BY <1>6, <3>1, SettingsFailChanges DEF TypeOK
      <3>2. CASE ~UNCHANGED vms
        <4>1. PICK c \in BOOLEAN : vms' = [vms EXCEPT ![handle[r]].rules = c]
          BY <1>6, <3>2, SettingsFailChanges
        <4>2. QED
          BY <1>6, <3>2, <4>1, SettingsFailChanges, VMField
      <3>3. QED
        BY <3>1, <3>2
    <2>2. QED
      BY <1>6, <2>1, FailsType DEF SettingsFail, TypeOK
  <1>7. CASE StartVM(r)
    <2>1. vms' \in [Uuids -> VMs \cup {None}]
      BY <1>7, VMField DEF StartVM, PoweredOff
    <2>2. QED
      BY <1>7, <2>1 DEF StartVM, TypeOK, StepNames
  <1>8. CASE StartVMFails(r)
    BY <1>8, FailsType DEF StartVMFails, TypeOK
  <1>9. CASE FinalRead(r)
    BY <1>9 DEF FinalRead, Store, Return, StatusOf, TypeOK, StepNames, Ops
  <1>10. CASE FinalReadFails(r)
    BY <1>10 DEF FinalReadFails, Store, Return, TypeOK, StepNames, Ops
  <1>11. QED
    BY <1>1, <1>2, <1>3, <1>4, <1>5, <1>6, <1>7, <1>8, <1>9, <1>10 DEF CreateOrUpdate

\* Powering off and removing a VM keeps the types.
LEMMA PowerDownType ==
    ASSUME TypeOK, NEW r \in Resources, PowerDown(r)
    PROVE  TypeOK'
  <1> USE ConfigAssumption, BoundsAssumption
      DEF Goto, Begin, Strike, Return, host, tfstate, history
  <1>1. CASE PowerOff(r)
    <2>1. vms' \in [Uuids -> VMs \cup {None}]
      <3>1. CASE handle[r] \in Registered
        <4>1. [vms EXCEPT ![handle[r]].power = "stopping"] \in [Uuids -> VMs \cup {None}]
          BY <3>1, VMField
        <4>2. QED
          BY <1>1, <4>1 DEF PowerOff, TypeOK
      <3>2. CASE handle[r] \notin Registered
        BY <1>1, <3>2 DEF PowerOff, TypeOK
      <3>3. QED
        BY <3>1, <3>2
    <2>2. QED
      BY <1>1, <2>1 DEF PowerOff, TypeOK, StepNames
  <1>2. CASE PowerOffFails(r)
    BY <1>2 DEF PowerOffFails, TypeOK, StepNames
  <1>3. CASE Wake(r)
    BY <1>3 DEF Wake, TypeOK, StepNames
  <1>4. CASE Remove(r)
    BY <1>4 DEF Remove, TypeOK, StepNames, Ops
  <1>5. CASE RemoveFails(r)
    BY <1>5 DEF RemoveFails, TypeOK, StepNames, Ops
  <1>6. QED
    BY <1>1, <1>2, <1>3, <1>4, <1>5 DEF PowerDown

\* So do the user, VirtualBox and crashes.
LEMMA EnvironmentType ==
    ASSUME TypeOK,
           \/ \E u \in Uuids : Settle(u) \/ UserPowersOff(u) \/ UserDeletes(u)
           \/ \E r \in Resources : Edit(r)
           \/ Crash
    PROVE  TypeOK'
  <1> USE ConfigAssumption, BoundsAssumption DEF Strike, Touch, host, tfstate, history
  <1>1. ASSUME NEW u \in Uuids, Settle(u) PROVE TypeOK'
    <2>1. vms' \in [Uuids -> VMs \cup {None}]
      BY <1>1, VMField DEF Settle
    <2>2. QED
      BY <1>1, <2>1 DEF Settle, TypeOK
  <1>2. ASSUME NEW u \in Uuids, UserPowersOff(u) PROVE TypeOK'
    <2>1. vms' \in [Uuids -> VMs \cup {None}]
      BY <1>2, VMField DEF UserPowersOff
    <2>2. QED
      BY <1>2, <2>1 DEF UserPowersOff, TypeOK
  <1>3. ASSUME NEW u \in Uuids, UserDeletes(u) PROVE TypeOK'
    BY <1>3 DEF UserDeletes, TypeOK
  <1>4. ASSUME NEW r \in Resources, Edit(r) PROVE TypeOK'
    <2>1. vms' \in [Uuids -> VMs \cup {None}]
      <3>1. CASE UNCHANGED vms
        BY <3>1 DEF TypeOK
      <3>2. CASE ~UNCHANGED vms
        <4>1. PICK c \in BOOLEAN :
                vms' = [vms EXCEPT ![id[r]].current = FALSE, ![id[r]].rules = c]
          BY <1>4, <3>2, EditChanges
        <4>2. QED
          BY <1>4, <3>2, <4>1, EditChanges, VMField
      <3>3. QED
        BY <3>1, <3>2
    <2>2. /\ tainted' \in [Resources -> BOOLEAN]
          /\ dirty' \in [Resources -> BOOLEAN]
          /\ result' \in [Resources -> {"none", "ok", "error"}]
          /\ trouble' \in 0..MaxTrouble
      <3>1. trouble' \in 0..MaxTrouble
        BY <1>4 DEF Edit, TypeOK
      <3>2. result' \in [Resources -> {"none", "ok", "error"}]
        BY <1>4 DEF Edit, TypeOK
      <3>3. dirty' = [dirty EXCEPT ![r] = TRUE] \/ dirty' = dirty
        BY <1>4 DEF Edit
      <3>4. tainted' = [tainted EXCEPT ![r] = TRUE] \/ tainted' = tainted
        BY <1>4 DEF Edit
      <3>5. QED
        BY <3>1, <3>2, <3>3, <3>4 DEF TypeOK
    <2>3. UNCHANGED <<used, id, status, op, step, handle, touched, reported, lost>>
      BY <1>4 DEF Edit
    <2>4. QED
      BY <2>1, <2>2, <2>3 DEF TypeOK
  <1>5. ASSUME Crash PROVE TypeOK'
    BY <1>5 DEF Crash, TypeOK, Ops, StepNames, LeftBehind, Registered
  <1>6. QED
    BY <1>1, <1>2, <1>3, <1>4, <1>5

\* Every variable has its declared type in every reachable state.
THEOREM TypeCorrect == Spec => []TypeOK
  <1>1. Init => TypeOK
    BY BoundsAssumption DEF Init, TypeOK, Ops, StepNames
  <1>2. TypeOK /\ [Next]_vars => TypeOK'
    <2> SUFFICES ASSUME TypeOK, [Next]_vars PROVE TypeOK'
      OBVIOUS
    <2>1. CASE UNCHANGED vars
      BY <2>1 DEF vars, TypeOK
    <2>2. CASE Next
      BY <2>2, RefreshType, CreateOrUpdateType, PowerDownType, EnvironmentType
         DEF Next, Handler
    <2>3. QED
      BY <2>1, <2>2
  <1>3. QED
    BY <1>1, <1>2, PTL DEF Spec

-----------------------------------------------------------------------------
(* Where a handler is, and what it works on *)

\* The operation, the step and the handle of a resource go together; update and
\* delete work on the stored ID, and create has none yet.
Shape(r) ==
    \/ op[r] = "none" /\ step[r] = "rest" /\ handle[r] = None
    \/ op[r] = "refresh" /\ step[r] \in {"exists", "read", "plan"}
         /\ handle[r] = None /\ id[r] # None
    \/ op[r] = "create" /\ id[r] = None /\ step[r] = "make" /\ handle[r] = None
    \/ op[r] = "create" /\ id[r] = None /\ step[r] \in {"get", "set", "start", "final"}
         /\ handle[r] # None
    \/ op[r] = "update" /\ id[r] # None /\ step[r] = "get" /\ handle[r] = None
    \/ op[r] = "update" /\ id[r] # None /\ handle[r] = id[r]
         /\ step[r] \in {"off", "asleep", "set", "start", "final"}
    \/ op[r] = "delete" /\ id[r] # None /\ handle[r] = id[r]
         /\ step[r] \in {"off", "asleep", "remove"}
ShapeInv == \A r \in Resources : Shape(r)

\* A step of one resource leaves the others where they are.
LEMMA OthersStay ==
    ASSUME TypeOK, NEW r \in Resources, StartApply(r) \/ Handler(r) \/ Edit(r),
           NEW q \in Resources, q # r
    PROVE  op'[q] = op[q] /\ step'[q] = step[q] /\ handle'[q] = handle[q] /\ id'[q] = id[q]
  <1> USE DEF TypeOK, Goto, Begin, Return, host, tfstate, history
  <1>1. CASE StartApply(r) \/ Edit(r)
    BY <1>1 DEF StartApply, Edit
  <1>2. CASE Refresh(r)
    BY <1>2 DEF Refresh, Exists, ExistsFails, Read, ReadFails
  <1>3. CASE Plan(r)
    BY <1>3 DEF Plan, PlanDelete, PlanUpdate, PlanNothing
  <1>4. CASE MakeVMFails(r) \/ GetMachineFails(r) \/ SettingsFail(r) \/ StartVMFails(r)
    BY <1>4 DEF MakeVMFails, GetMachineFails, SettingsFail, StartVMFails, Fails,
                CreateFails, UpdateFails
  <1>5. CASE MakeVM(r) \/ GetMachine(r)
    BY <1>5 DEF MakeVM, GetMachine
  <1>6. CASE Settings(r) \/ StartVM(r)
    BY <1>6 DEF Settings, StartVM
  <1>7. CASE FinalRead(r) \/ FinalReadFails(r)
    BY <1>7 DEF FinalRead, FinalReadFails, Store
  <1>8. CASE PowerDown(r)
    BY <1>8 DEF PowerDown, PowerOff, PowerOffFails, Wake, Remove, RemoveFails
  <1>9. QED
    BY <1>1, <1>2, <1>3, <1>4, <1>5, <1>6, <1>7, <1>8 DEF Handler, CreateOrUpdate

\* A step of a resource keeps its own shape.
LEMMA ShapeStep ==
    ASSUME TypeOK, NEW r \in Resources, Shape(r), StartApply(r) \/ Handler(r) \/ Edit(r)
    PROVE  Shape(r)'
  <1> USE ConfigAssumption DEF TypeOK, Shape, Goto, Begin, Return, host, tfstate, history
  <1>1. CASE StartApply(r)
    BY <1>1 DEF StartApply
  <1>2. CASE Edit(r)
    BY <1>2 DEF Edit
  <1>3. CASE Refresh(r)
    BY <1>3 DEF Refresh, Exists, ExistsFails, Read, ReadFails
  <1>4. CASE Plan(r)
    BY <1>4 DEF Plan, PlanDelete, PlanUpdate, PlanNothing
  <1>5. CASE MakeVMFails(r) \/ GetMachineFails(r) \/ SettingsFail(r) \/ StartVMFails(r)
    BY <1>5 DEF MakeVMFails, GetMachineFails, SettingsFail, StartVMFails, Fails,
                CreateFails, UpdateFails
  <1>6. CASE MakeVM(r)
    BY <1>6 DEF MakeVM
  <1>7. CASE GetMachine(r)
    <2>1. PICK u \in Found(r) : handle' = [handle EXCEPT ![r] = u]
      BY <1>7 DEF GetMachine
    <2>2. u # None /\ (op[r] = "update" => u = id[r])
      BY <2>1 DEF Found, Named, Registered
    <2>3. QED
      BY <1>7, <2>1, <2>2 DEF GetMachine
  <1>8. CASE Settings(r) \/ StartVM(r)
    BY <1>8 DEF Settings, StartVM
  <1>9. CASE FinalRead(r) \/ FinalReadFails(r)
    BY <1>9 DEF FinalRead, FinalReadFails, Store
  <1>10. CASE PowerDown(r)
    BY <1>10 DEF PowerDown, PowerOff, PowerOffFails, Wake, Remove, RemoveFails
  <1>11. QED
    BY <1>1, <1>2, <1>3, <1>4, <1>5, <1>6, <1>7, <1>8, <1>9, <1>10 DEF Handler, CreateOrUpdate

\* The user and VirtualBox do not move the handlers; a crash ends them all.
LEMMA EnvironmentMoves ==
    ASSUME TypeOK, NEW q \in Resources,
           \/ \E u \in Uuids : Settle(u) \/ UserPowersOff(u) \/ UserDeletes(u)
           \/ Crash
           \/ UNCHANGED vars
    PROVE  /\ id'[q] = id[q]
           /\ \/ op'[q] = op[q] /\ step'[q] = step[q] /\ handle'[q] = handle[q]
              \/ Crash /\ op'[q] = "none" /\ step'[q] = "rest" /\ handle'[q] = None
  BY DEF Settle, UserPowersOff, UserDeletes, Crash, vars, tfstate

\* Every handler has one of the shapes in every reachable state.
LEMMA ShapeInvariant == Spec => []ShapeInv
  <1>1. Init => ShapeInv
    <2> SUFFICES ASSUME Init, NEW q \in Resources PROVE Shape(q)
      BY DEF ShapeInv
    <2>1. op[q] = "none" /\ step[q] = "rest" /\ handle[q] = None
      BY DEF Init
    <2>2. QED
      BY <2>1 DEF Shape
  <1>2. TypeOK /\ ShapeInv /\ [Next]_vars => ShapeInv'
    <2> SUFFICES ASSUME TypeOK, ShapeInv, [Next]_vars, NEW q \in Resources
                 PROVE  Shape(q)'
      BY DEF ShapeInv
    <2>1. ASSUME NEW r \in Resources, StartApply(r) \/ Handler(r) \/ Edit(r)
          PROVE  Shape(q)'
      <3>1. CASE q = r
        BY <2>1, <3>1, ShapeStep DEF ShapeInv
      <3>2. CASE q # r
        BY <2>1, <3>2, OthersStay DEF ShapeInv, Shape
      <3>3. QED
        BY <3>1, <3>2
    <2>2. CASE \/ \E u \in Uuids : Settle(u) \/ UserPowersOff(u) \/ UserDeletes(u)
               \/ Crash \/ UNCHANGED vars
      BY <2>2, EnvironmentMoves DEF ShapeInv, Shape
    <2>3. QED
      BY <2>1, <2>2 DEF Next
  <1>3. QED
    BY <1>1, <1>2, TypeCorrect, PTL DEF Spec

\* The Terraform state forgets a VM only in the step in which VirtualBox removes
\* it: a failed delete, a failed refresh or a crash never loses track of one.
THEOREM NeverForgotten == Spec => ForgottenOnlyWhenGone
  <1>1. TypeOK /\ ShapeInv /\ [Next]_vars
          => [\A r \in Resources :
                id[r] # None /\ id'[r] = None => vms'[id[r]] = None]_vars
    <2> SUFFICES ASSUME TypeOK, ShapeInv, [Next]_vars, NEW q \in Resources,
                        id[q] # None, id'[q] = None
                 PROVE  vms'[id[q]] = None
      OBVIOUS
    <2>1. PICK r \in Resources : StartApply(r) \/ Handler(r) \/ Edit(r)
      BY EnvironmentMoves DEF Next
    <2>2. q = r
      BY <2>1, OthersStay
    <2>3. CASE Remove(r)
      BY <2>2, <2>3 DEF Remove, ShapeInv, Shape, TypeOK
    <2>4. CASE FinalRead(r) \/ FinalReadFails(r)
      BY <2>2, <2>4 DEF FinalRead, FinalReadFails, Store, ShapeInv, Shape, TypeOK
    <2>5. Remove(r) \/ FinalRead(r) \/ FinalReadFails(r) \/ UNCHANGED id
      BY <2>1 DEF StartApply, Edit, Handler, Refresh, Plan, CreateOrUpdate, PowerDown,
                  Exists, ExistsFails, Read, ReadFails, PlanDelete, PlanUpdate,
                  PlanNothing, MakeVM, MakeVMFails, GetMachine, GetMachineFails,
                  Settings, SettingsFail, StartVM, StartVMFails, PowerOff,
                  PowerOffFails, Wake, RemoveFails, Fails, CreateFails, UpdateFails,
                  tfstate
    <2>6. QED
      BY <2>2, <2>3, <2>4, <2>5
  <1>2. QED
    BY <1>1, TypeCorrect, ShapeInvariant, PTL DEF Spec, ForgottenOnlyWhenGone

-----------------------------------------------------------------------------
(* What is registered with VirtualBox *)

\* The VMs that are registered afterwards were so before, under the same name.
Keeps ==
    /\ used' = used
    /\ \A u \in Registered' :
         u \in Registered /\ vms'[u].name = vms[u].name /\ vms'[u].maker = vms[u].maker

\* A registered VM has a UUID that was given out, the name its maker is
\* configured with, and shares that name with no other.
HostInv ==
    /\ Registered \subseteq used
    /\ \A u \in Registered : vms[u].name = NameOf[vms[u].maker]
    /\ \A u, v \in Registered : vms[u].name = vms[v].name => u = v

\* Only MakeVM adds a VM; nothing renames one.
LEMMA HostStep ==
    ASSUME TypeOK, [Next]_vars
    PROVE  (\E r \in Resources : MakeVM(r)) \/ Keeps
  <1> USE DEF Keeps, Registered
  <1>0. ASSUME UNCHANGED host PROVE Keeps
    BY <1>0 DEF host
  <1>1. ASSUME NEW u \in Registered, NEW p \in {"running", "stopping", "off"},
               NEW b \in BOOLEAN, NEW c \in BOOLEAN, used' = used,
               \/ vms' = [vms EXCEPT ![u].power = p]
               \/ vms' = [vms EXCEPT ![u].current = b, ![u].rules = c]
               \/ vms' = [vms EXCEPT ![u].rules = c]
        PROVE  Keeps
    <2>1. vms[u] \in VMs /\ vms \in [Uuids -> VMs \cup {None}]
      BY <1>1 DEF TypeOK
    <2>2. QED
      BY <1>1, <2>1 DEF VMs
  <1>2. ASSUME NEW u, used' = used, vms' = [vms EXCEPT ![u] = None] PROVE Keeps
    BY <1>2 DEF TypeOK
  <1>3. ASSUME NEW r \in Resources, StartApply(r) \/ Handler(r) \/ Edit(r)
        PROVE  MakeVM(r) \/ Keeps
    <2>1. CASE Settings(r)
      BY <2>1, <1>1, SettingsChange
    <2>2. CASE StartVM(r)
      BY <2>2, <1>1 DEF StartVM, PoweredOff
    <2>3. CASE PowerOff(r)
      <3>1. CASE handle[r] \in Registered /\ vms[handle[r]].power = "running"
        BY <2>3, <3>1, <1>1 DEF PowerOff
      <3>2. CASE ~(handle[r] \in Registered /\ vms[handle[r]].power = "running")
        BY <2>3, <3>2, <1>0 DEF PowerOff, host
      <3>3. QED
        BY <3>1, <3>2
    <2>4. CASE Remove(r)
      BY <2>4, <1>2 DEF Remove
    <2>5. CASE Edit(r)
      BY <2>5, <1>0, <1>1, EditChanges DEF host
    <2>6. CASE SettingsFail(r)
      BY <2>6, <1>0, <1>1, SettingsFailChanges DEF host
    <2>7. \/ MakeVM(r) \/ Settings(r) \/ StartVM(r) \/ PowerOff(r) \/ Remove(r) \/ Edit(r)
          \/ SettingsFail(r) \/ UNCHANGED host
      BY <1>3 DEF StartApply, Handler, Refresh, Plan, CreateOrUpdate, PowerDown,
                  Exists, ExistsFails, Read, ReadFails, PlanDelete, PlanUpdate,
                  PlanNothing, MakeVMFails, GetMachine, GetMachineFails, StartVMFails,
                  FinalRead, FinalReadFails, PowerOffFails, Wake,
                  RemoveFails, host
    <2>8. QED
      BY <1>0, <2>1, <2>2, <2>3, <2>4, <2>5, <2>6, <2>7
  <1>4. ASSUME NEW u \in Uuids, Settle(u) \/ UserPowersOff(u) PROVE Keeps
    BY <1>4, <1>1 DEF Settle, UserPowersOff
  <1>5. ASSUME NEW u \in Uuids, UserDeletes(u) PROVE Keeps
    BY <1>5, <1>2 DEF UserDeletes
  <1>6. CASE Crash \/ UNCHANGED vars
    BY <1>6, <1>0 DEF Crash, vars, host
  <1>7. QED
    BY <1>3, <1>4, <1>5, <1>6 DEF Next

\* What MakeVM adds: one VM with a fresh UUID and the configured name.
LEMMA MakeVMAdds ==
    ASSUME TypeOK, NEW r \in Resources, MakeVM(r)
    PROVE  \E u \in Uuids \ used :
             /\ used' = used \cup {u}
             /\ handle' = [handle EXCEPT ![r] = u]
             /\ Registered' = Registered \cup {u}
             /\ vms'[u].name = NameOf[r] /\ vms'[u].maker = r
             /\ \A v \in Registered \ {u} : vms'[v] = vms[v]
  <1>1. PICK u \in Uuids \ used, has \in BOOLEAN :
          /\ used' = used \cup {u}
          /\ vms' = [vms EXCEPT ![u] = [name |-> NameOf[r], power |-> "off",
                                        current |-> FALSE, rules |-> has, maker |-> r]]
          /\ handle' = [handle EXCEPT ![r] = u]
    BY DEF MakeVM
  <1> DEFINE new == [name |-> NameOf[r], power |-> "off", current |-> FALSE, rules |-> has,
                     maker |-> r]
  <1>2. vms'[u] = new
    BY <1>1 DEF TypeOK
  <1>3. vms'[u] # None
    <2>1. new \in VMs
      BY ConfigAssumption DEF VMs
    <2>2. QED
      BY <1>2, <2>1, NoneAssumption
  <1>4. QED
    BY <1>1, <1>2, <1>3, ZenonT(30) DEF TypeOK, Registered

\* Names stay unique and UUIDs are not given out twice.
LEMMA HostInvariant == Spec => []HostInv
  <1>1. Init => HostInv
    BY DEF Init, HostInv, Registered
  <1>2. TypeOK /\ HostInv /\ [Next]_vars => HostInv'
    <2> SUFFICES ASSUME TypeOK, HostInv, [Next]_vars PROVE HostInv'
      OBVIOUS
    <2>1. CASE Keeps
      BY <2>1 DEF Keeps, HostInv
    <2>2. ASSUME NEW r \in Resources, MakeVM(r) PROVE HostInv'
      <3>1. \A v \in Registered : vms[v].name # NameOf[r]
        BY <2>2 DEF MakeVM, Named
      <3>2. QED
        BY <2>2, <3>1, MakeVMAdds DEF HostInv
    <2>3. QED
      BY <2>1, <2>2, HostStep
  <1>3. QED
    BY <1>1, <1>2, TypeCorrect, PTL DEF Spec

\* A change of one setting of a VM leaves it registered.
LEMMA SettingStays ==
    ASSUME TypeOK, NEW u \in Registered, NEW p \in {"running", "stopping", "off"},
           NEW b \in BOOLEAN, NEW c \in BOOLEAN,
           \/ vms' = [vms EXCEPT ![u].power = p]
           \/ vms' = [vms EXCEPT ![u].current = b, ![u].rules = c]
           \/ vms' = [vms EXCEPT ![u].rules = c]
    PROVE  Registered' = Registered
  <1>1. vms[u] \in VMs /\ vms \in [Uuids -> VMs \cup {None}]
    BY DEF TypeOK, Registered
  <1>2. vms'[u] \in VMs /\ \A v \in Uuids \ {u} : vms'[v] = vms[v]
    BY <1>1 DEF VMs
  <1>3. vms'[u] # None
    BY <1>2, NoneAssumption
  <1>4. QED
    BY <1>2, <1>3 DEF Registered

\* Only MakeVM, Remove and a user change what is registered.
LEMMA RegisteredStep ==
    ASSUME TypeOK, [Next]_vars
    PROVE  \/ \E r \in Resources : MakeVM(r) \/ Remove(r)
           \/ \E u \in Uuids : UserDeletes(u)
           \/ Registered' = Registered
  <1>0. ASSUME UNCHANGED host PROVE Registered' = Registered
    BY <1>0 DEF host, Registered
  <1>1. ASSUME NEW r \in Resources, StartApply(r) \/ Handler(r) \/ Edit(r)
        PROVE  MakeVM(r) \/ Remove(r) \/ Registered' = Registered
    <2>1. CASE Settings(r)
      BY <2>1, SettingsChange, SettingStays
    <2>2. CASE StartVM(r)
      BY <2>2, SettingStays DEF StartVM, PoweredOff
    <2>3. CASE PowerOff(r)
      <3>1. CASE handle[r] \in Registered /\ vms[handle[r]].power = "running"
        BY <2>3, <3>1, SettingStays DEF PowerOff
      <3>2. CASE ~(handle[r] \in Registered /\ vms[handle[r]].power = "running")
        BY <2>3, <3>2, <1>0 DEF PowerOff, host
      <3>3. QED
        BY <3>1, <3>2
    <2>4. CASE Edit(r)
      BY <2>4, <1>0, EditChanges, SettingStays DEF host
    <2>5. CASE SettingsFail(r)
      BY <2>5, <1>0, SettingsFailChanges, SettingStays DEF host
    <2>6. \/ MakeVM(r) \/ Settings(r) \/ StartVM(r) \/ PowerOff(r) \/ Remove(r) \/ Edit(r)
          \/ SettingsFail(r) \/ UNCHANGED host
      BY <1>1 DEF StartApply, Handler, Refresh, Plan, CreateOrUpdate, PowerDown,
                  Exists, ExistsFails, Read, ReadFails, PlanDelete, PlanUpdate,
                  PlanNothing, MakeVMFails, GetMachine, GetMachineFails, StartVMFails,
                  FinalRead, FinalReadFails, PowerOffFails, Wake,
                  RemoveFails, host
    <2>7. QED
      BY <1>0, <2>1, <2>2, <2>3, <2>4, <2>5, <2>6
  <1>2. ASSUME NEW u \in Uuids, Settle(u) \/ UserPowersOff(u) PROVE Registered' = Registered
    BY <1>2, SettingStays DEF Settle, UserPowersOff
  <1>3. CASE Crash \/ UNCHANGED vars
    BY <1>3, <1>0 DEF Crash, vars, host
  <1>4. QED
    BY <1>1, <1>2, <1>3 DEF Next

\* A resource's own step that is not one of the creation of a VM does not bring
\* a create nearer to its ID.
LEMMA MakingStep ==
    ASSUME TypeOK, NEW r \in Resources, Shape(r), StartApply(r) \/ Handler(r) \/ Edit(r), ~MakeVM(r),
           op'[r] = "create", handle'[r] # None
    PROVE  op[r] = "create" /\ handle[r] # None
  <1> USE DEF TypeOK, Shape, Goto, Begin, Return, host, tfstate, history
  <1>1. CASE StartApply(r) \/ Edit(r)
    BY <1>1 DEF StartApply, Edit
  <1>2. CASE Refresh(r)
    BY <1>2 DEF Refresh, Exists, ExistsFails, Read, ReadFails
  <1>3. CASE Plan(r)
    BY <1>3 DEF Plan, PlanDelete, PlanUpdate, PlanNothing
  <1>4. CASE MakeVMFails(r) \/ GetMachineFails(r) \/ SettingsFail(r) \/ StartVMFails(r)
    BY <1>4 DEF MakeVMFails, GetMachineFails, SettingsFail, StartVMFails, Fails,
                CreateFails, UpdateFails
  <1>5. CASE GetMachine(r)
    BY <1>5 DEF GetMachine
  <1>6. CASE Settings(r) \/ StartVM(r)
    BY <1>6 DEF Settings, StartVM
  <1>7. CASE FinalRead(r) \/ FinalReadFails(r)
    BY <1>7 DEF FinalRead, FinalReadFails, Store
  <1>8. CASE PowerDown(r)
    BY <1>8 DEF PowerDown, PowerOff, PowerOffFails, Wake, Remove, RemoveFails
  <1>9. QED
    BY <1>1, <1>2, <1>3, <1>4, <1>5, <1>6, <1>7, <1>8 DEF Handler, CreateOrUpdate

-----------------------------------------------------------------------------
(* Who owns what *)

\* What a resource holds on to: the stored ID and the VM in its handler's hands.
Holds(r) == {id[r], handle[r]} \ {None}

\* Resources hold different VMs, which they made, and unless users delete VMs
\* the one a create works on is there until it ends.
OwnInv ==
    /\ \A r \in Resources : \A u \in Holds(r) :
         u \in used /\ (u \in Registered => vms[u].maker = r)
    /\ \A r, q \in Resources : r # q => Holds(r) \cap Holds(q) = {}
    /\ "userdelete" \notin Faults =>
         \A r \in Resources : op[r] = "create" /\ handle[r] # None => handle[r] \in Registered

\* Apart from making a VM and looking one up, no step makes a resource hold on
\* to something new.
LEMMA HoldsStep ==
    ASSUME TypeOK, ShapeInv, [Next]_vars
    PROVE  \/ \E r \in Resources : MakeVM(r) \/ GetMachine(r)
           \/ \A q \in Resources : Holds(q)' \subseteq Holds(q)
  <1> SUFFICES ASSUME ~ \E r \in Resources : MakeVM(r) \/ GetMachine(r),
                      NEW q \in Resources
               PROVE  Holds(q)' \subseteq Holds(q)
    OBVIOUS
  <1>1. ASSUME NEW r \in Resources, StartApply(r) \/ Handler(r) \/ Edit(r)
        PROVE  Holds(q)' \subseteq Holds(q)
    <2>1. CASE q # r
      BY <1>1, <2>1, OthersStay DEF Holds
    <2>2. CASE q = r
      <3> USE <2>2 DEF TypeOK, Holds, Goto, Begin, Return, host, tfstate, history
      <3>1. CASE StartApply(r) \/ Edit(r)
        BY <3>1 DEF StartApply, Edit
      <3>2. CASE Refresh(r)
        BY <3>2 DEF Refresh, Exists, ExistsFails, Read, ReadFails
      <3>3. CASE Plan(r)
        BY <3>3 DEF Plan, PlanDelete, PlanUpdate, PlanNothing
      <3>4. CASE MakeVMFails(r) \/ GetMachineFails(r) \/ SettingsFail(r) \/ StartVMFails(r)
        BY <3>4 DEF MakeVMFails, GetMachineFails, SettingsFail, StartVMFails, Fails,
                    CreateFails, UpdateFails
      <3>5. CASE Settings(r) \/ StartVM(r)
        BY <3>5 DEF Settings, StartVM
      <3>6. CASE FinalRead(r) \/ FinalReadFails(r)
        BY <3>6 DEF FinalRead, FinalReadFails, Store
      <3>7. CASE PowerDown(r)
        BY <3>7 DEF PowerDown, PowerOff, PowerOffFails, Wake, Remove, RemoveFails
      <3>8. QED
        BY <1>1, <3>1, <3>2, <3>3, <3>4, <3>5, <3>6, <3>7 DEF Handler, CreateOrUpdate
    <2>3. QED
      BY <2>1, <2>2
  <1>2. CASE \/ \E u \in Uuids : Settle(u) \/ UserPowersOff(u) \/ UserDeletes(u)
             \/ Crash \/ UNCHANGED vars
    BY <1>2, EnvironmentMoves DEF Holds
  <1>3. QED
    BY <1>1, <1>2 DEF Next

\* The two steps that do: a VM that was just made is nobody else's, and a VM
\* that is looked up by name is the one the create made, or bears a name that
\* nobody else uses.
LEMMA LookupStep ==
    ASSUME Unambiguous, TypeOK, ShapeInv, HostInv, OwnInv, NEW r \in Resources,
           MakeVM(r) \/ GetMachine(r)
    PROVE  OwnInv'
  <1>0. \A q \in Resources : q # r => Holds(q)' = Holds(q) /\ handle'[q] = handle[q] /\ op'[q] = op[q]
    BY OthersStay DEF Handler, CreateOrUpdate, Holds
  <1>1. CASE MakeVM(r)
    <2>1. PICK u \in Uuids \ used :
             /\ used' = used \cup {u}
             /\ handle' = [handle EXCEPT ![r] = u]
             /\ Registered' = Registered \cup {u}
             /\ vms'[u].name = NameOf[r] /\ vms'[u].maker = r
             /\ \A v \in Registered \ {u} : vms'[v] = vms[v]
      BY <1>1, MakeVMAdds
    <2>2. Holds(r)' \subseteq Holds(r) \cup {u} /\ handle'[r] = u
      BY <1>1, <2>1 DEF MakeVM, Holds, TypeOK, tfstate
    <2>3. \A q \in Resources : \A v \in Holds(q)' :
            v \in used' /\ (v \in Registered' => vms'[v].maker = q)
      BY <1>0, <2>1, <2>2 DEF OwnInv
    <2>4. \A p, q \in Resources : p # q => Holds(p)' \cap Holds(q)' = {}
      BY <1>0, <2>1, <2>2 DEF OwnInv
    <2>5. "userdelete" \notin Faults =>
            \A q \in Resources : op'[q] = "create" /\ handle'[q] # None => handle'[q] \in Registered'
      BY <1>0, <2>1, <2>2 DEF OwnInv
    <2>6. QED
      BY <2>3, <2>4, <2>5 DEF OwnInv
  <1>2. CASE GetMachine(r)
    <2>1. PICK u \in Found(r) : handle' = [handle EXCEPT ![r] = u]
      BY <1>2 DEF GetMachine
    <2>2. /\ Holds(r)' \subseteq Holds(r) \cup {u} /\ handle'[r] = u
          /\ UNCHANGED <<vms, used, op>> /\ Registered' = Registered
      BY <1>2, <2>1 DEF GetMachine, Holds, TypeOK, tfstate, host, Registered
    <2>3. u \in Registered /\ u \in used /\ u # None
      BY <2>1, ConfigAssumption DEF Found, Named, HostInv, Registered
    \* A create finds its VM by name; so it is the one it made, if that is still
    \* there or nobody else makes one with this name.
    <2>4. u \in Holds(r) \/ (OwnNames /\ vms[u].name = NameOf[r])
      <3>1. CASE u \in Holds(r)
        BY <3>1
      <3>2. CASE u \notin Holds(r)
        <4>1. u \in Named(NameOf[r]) /\ op[r] # "update"
          BY <2>1, <2>3, <3>2 DEF Found, Holds
        <4>2. op[r] = "create" /\ handle[r] # None
          BY <1>2, <4>1 DEF GetMachine, ShapeInv, Shape
        <4>3. ASSUME handle[r] \in Registered PROVE FALSE
          <5>1. vms[handle[r]].name = NameOf[r]
            BY <4>2, <4>3 DEF OwnInv, HostInv, Holds
          <5>2. u = handle[r]
            BY <4>1, <4>3, <5>1 DEF HostInv, Named
          <5>3. QED
            BY <3>2, <4>2, <5>2 DEF Holds
        <4>4. QED
          BY <4>1, <4>2, <4>3 DEF OwnInv, Unambiguous, Named
      <3>3. QED
        BY <3>1, <3>2
    <2>5. vms[u].maker = r
      <3>1. CASE u \in Holds(r)
        BY <2>3, <3>1 DEF OwnInv
      <3>2. CASE OwnNames /\ vms[u].name = NameOf[r]
        <4>1. vms[u].maker \in Resources /\ vms[u].name = NameOf[vms[u].maker]
          BY <2>3 DEF HostInv, TypeOK, Registered, VMs
        <4>2. QED
          BY <3>2, <4>1 DEF OwnNames
      <3>3. QED
        BY <2>4, <3>1, <3>2
    <2>6. \A q \in Resources : q # r => u \notin Holds(q)
      BY <2>3, <2>5 DEF OwnInv
    <2>7. \A q \in Resources : \A v \in Holds(q)' :
            v \in used' /\ (v \in Registered' => vms'[v].maker = q)
      BY <1>0, <2>2, <2>3, <2>5 DEF OwnInv
    <2>8. \A p, q \in Resources : p # q => Holds(p)' \cap Holds(q)' = {}
      BY <1>0, <2>2, <2>6 DEF OwnInv
    <2>9. "userdelete" \notin Faults =>
            \A q \in Resources : op'[q] = "create" /\ handle'[q] # None => handle'[q] \in Registered'
      BY <1>0, <2>2, <2>3 DEF OwnInv
    <2>10. QED
      BY <2>7, <2>8, <2>9 DEF OwnInv
  <1>3. QED
    BY <1>1, <1>2

\* Nothing but a user takes the VM of a running create away: a destroy removes
\* the VM of its own resource.
LEMMA WorkedOnStays ==
    ASSUME TypeOK, ShapeInv, OwnInv, [Next]_vars, "userdelete" \notin Faults,
           NEW q \in Resources, Holds(q)' \subseteq Holds(q),
           op'[q] = "create", handle'[q] # None, ~ \E r \in Resources : MakeVM(r)
    PROVE  handle'[q] \in Registered'
  <1>1. op[q] = "create" /\ handle[q] # None
    <2>1. ASSUME NEW r \in Resources, StartApply(r) \/ Handler(r) \/ Edit(r)
          PROVE  op[q] = "create" /\ handle[q] # None
      BY <2>1, OthersStay, MakingStep DEF ShapeInv
    <2>2. QED
      BY <2>1, EnvironmentMoves DEF Next
  <1>2. handle'[q] = handle[q] /\ handle[q] \in Registered
    <2>1. id[q] = None
      BY <1>1 DEF ShapeInv, Shape
    <2>2. handle'[q] \in Holds(q)
      BY DEF Holds
    <2>3. QED
      BY <1>1, <2>1, <2>2 DEF Holds, OwnInv
  <1>3. ASSUME NEW r \in Resources, Remove(r) PROVE handle[q] \in Registered'
    <2>1. handle[r] = id[r] /\ id[r] # None /\ r # q
      BY <1>1, <1>3 DEF Remove, ShapeInv, Shape
    <2>2. handle[q] # handle[r]
      BY <1>1, <2>1 DEF OwnInv, Holds
    <2>3. vms' = [vms EXCEPT ![handle[r]] = None]
      BY <1>3 DEF Remove
    <2>4. QED
      BY <1>2, <2>2, <2>3 DEF Registered, TypeOK
  <1>4. ASSUME NEW u \in Uuids, UserDeletes(u) PROVE FALSE
    BY <1>4 DEF UserDeletes, Strike
  <1>5. QED
    BY <1>2, <1>3, <1>4, RegisteredStep

\* Resources hold different VMs of their own in every reachable state.
LEMMA OwnInvariant ==
    ASSUME Unambiguous
    PROVE  Spec => []OwnInv
  <1>1. Init => OwnInv
    BY DEF Init, OwnInv, Holds
  <1>2. TypeOK /\ ShapeInv /\ HostInv /\ OwnInv /\ [Next]_vars => OwnInv'
    <2> SUFFICES ASSUME TypeOK, ShapeInv, HostInv, OwnInv, [Next]_vars PROVE OwnInv'
      OBVIOUS
    <2>1. CASE \E r \in Resources : MakeVM(r) \/ GetMachine(r)
      BY <2>1, LookupStep
    <2>2. CASE /\ ~ \E r \in Resources : MakeVM(r) \/ GetMachine(r)
               /\ \A q \in Resources : Holds(q)' \subseteq Holds(q)
      <3>1. Keeps
        BY <2>2, HostStep
      <3>2. "userdelete" \notin Faults =>
              \A q \in Resources : op'[q] = "create" /\ handle'[q] # None => handle'[q] \in Registered'
        BY <2>2, WorkedOnStays
      <3>3. QED
        BY <2>2, <3>1, <3>2 DEF OwnInv, Keeps
    <2>3. QED
      BY <2>1, <2>2, HoldsStep
  <1>3. QED
    BY <1>1, <1>2, TypeCorrect, ShapeInvariant, HostInvariant, PTL DEF Spec

\* When every resource has a VM name of its own, or no user deletes VMs, no two
\* resources ever manage one VM, whatever fails or is killed, although the OVA
\* and the linked clone path look theirs up by name.
THEOREM NeverShared ==
    ASSUME Unambiguous
    PROVE  Spec => []NoSharedVM
  <1>1. OwnInv => NoSharedVM
    BY DEF OwnInv, NoSharedVM, Holds
  <1>2. QED
    BY <1>1, OwnInvariant, PTL

-----------------------------------------------------------------------------
(* What a failed create leaves behind *)

\* Of the VMs a resource made and that are still registered, at most one is
\* neither stored nor reported: the one its running create holds on to.
Accounted(u) ==
    LET r == vms[u].maker
    IN  id[r] = u \/ u \in reported \/ (op[r] = "create" /\ handle[r] = u)
LeakInv == \A u \in Registered : Accounted(u)

\* A step that keeps the VMs keeps them accounted for, if the VMs it lets go of
\* are reported or removed.
LEMMA AccountedStep ==
    ASSUME TypeOK, ShapeInv, HostInv, LeakInv, [Next]_vars, Keeps
    PROVE  LeakInv'
  <1> SUFFICES ASSUME NEW u \in Registered, u \in Registered' PROVE Accounted(u)'
    BY DEF Keeps, LeakInv
  <1> DEFINE m == vms[u].maker
  <1>1. vms'[u].maker = m /\ m \in Resources /\ u \in Uuids /\ u # None
    BY ConfigAssumption DEF Keeps, Registered, TypeOK, VMs
  <1>2. Accounted(u)
    BY DEF LeakInv
  <1>3. ASSUME u \in reported PROVE u \in reported'
    <2>1. reported \subseteq reported'
      BY ZenonT(30) DEF Next, StartApply, Handler, Refresh, Plan, CreateOrUpdate, PowerDown, Exists,
             ExistsFails, Read, ReadFails, PlanDelete, PlanUpdate, PlanNothing, MakeVM,
             MakeVMFails, GetMachine, GetMachineFails, Settings, SettingsFail, StartVM,
             StartVMFails, FinalRead, FinalReadFails, PowerOff, PowerOffFails, Wake,
             Remove, RemoveFails, Fails, CreateFails, UpdateFails, Settle,
             UserPowersOff, UserDeletes, Edit, Crash, history, vars
    <2>2. QED
      BY <1>3, <2>1
  <1>4. ASSUME NEW r \in Resources, StartApply(r) \/ Handler(r) \/ Edit(r), u \notin reported
        PROVE  Accounted(u)'
    <2>1. CASE m # r
      BY <1>1, <1>2, <1>4, <2>1, OthersStay DEF Accounted
    <2>2. CASE m = r
      <3>0. Shape(r)
        BY DEF ShapeInv
      <3>1. CASE MakeVMFails(r) \/ GetMachineFails(r) \/ SettingsFail(r) \/ StartVMFails(r)
        <4>1. CASE CreateFails(r)
          <5>1. id'[r] = id[r]
            BY <4>1 DEF CreateFails
          <5>2. id[r] = u \/ u \in LeftBehind(r)
            BY <2>2 DEF LeftBehind
          <5>3. QED
            BY <1>1, <2>2, <4>1, <5>1, <5>2 DEF CreateFails, Accounted
        <4>2. CASE op[r] = "update" /\ UpdateFails(r)
          BY <1>1, <1>2, <1>4, <2>2, <4>2 DEF UpdateFails, Accounted
        <4>3. QED
          BY <3>1, <4>1, <4>2 DEF MakeVMFails, GetMachineFails, SettingsFail,
                                  StartVMFails, Fails
      <3>2. CASE FinalRead(r) \/ FinalReadFails(r)
        <4>1. id' = [id EXCEPT ![r] = handle[r]]
          BY <3>2 DEF FinalRead, FinalReadFails, Store
        <4>2. handle[r] = u \/ (id[r] = u /\ op[r] # "create")
          BY <1>1, <1>2, <1>4, <2>2, <3>0 DEF Accounted, Shape
        <4>3. step[r] = "final"
          BY <3>2 DEF FinalRead, FinalReadFails
        <4>4. handle[r] = u
          BY <1>1, <3>0, <4>2, <4>3 DEF Shape
        <4>5. QED
          BY <1>1, <2>2, <4>1, <4>4 DEF Accounted, TypeOK
      <3>3. CASE Remove(r)
        <4>1. vms' = [vms EXCEPT ![handle[r]] = None]
          BY <3>3 DEF Remove
        <4>2. step[r] = "remove" /\ handle[r] = id[r] /\ op[r] = "delete"
          BY <3>0, <3>3 DEF Remove, Shape
        <4>3. id[r] = u
          BY <1>2, <1>4, <2>2, <4>2 DEF Accounted
        <4>4. QED
          BY <4>1, <4>2, <4>3 DEF Registered, TypeOK
      <3>4. CASE GetMachine(r)
        <4>1. PICK w \in Found(r) : handle' = [handle EXCEPT ![r] = w]
          BY <3>4 DEF GetMachine
        <4>2. UNCHANGED <<id, op>>
          BY <3>4 DEF GetMachine, tfstate
        <4>3. CASE id[r] = u
          BY <1>1, <2>2, <4>2, <4>3 DEF Accounted
        <4>4. CASE op[r] = "create" /\ handle[r] = u
          <5>1. vms[u].name = NameOf[r]
            BY <2>2 DEF HostInv
          <5>2. w = u
            BY <4>1, <4>4, <5>1 DEF Found, Named, HostInv
          <5>3. QED
            BY <1>1, <2>2, <4>1, <4>2, <4>4, <5>2 DEF Accounted, TypeOK
        <4>5. QED
          BY <1>2, <1>4, <2>2, <4>3, <4>4 DEF Accounted
      <3>5. CASE MakeVM(r)
        BY <3>5, MakeVMAdds DEF Keeps, HostInv
      <3>6. CASE UNCHANGED <<id, op, handle>>
        BY <1>1, <1>2, <1>4, <3>6 DEF Accounted
      <3>7. CASE UNCHANGED id /\ op[r] # "create"
        BY <1>1, <1>2, <1>4, <2>2, <3>7 DEF Accounted
      <3>8. \/ MakeVMFails(r) \/ GetMachineFails(r) \/ SettingsFail(r) \/ StartVMFails(r)
            \/ FinalRead(r) \/ FinalReadFails(r) \/ Remove(r) \/ GetMachine(r) \/ MakeVM(r)
            \/ UNCHANGED <<id, op, handle>> \/ (UNCHANGED id /\ op[r] # "create")
        <4>1. CASE StartApply(r) \/ Edit(r)
          BY <3>0, <4>1 DEF StartApply, Edit, Shape, tfstate
        <4>2. CASE Refresh(r)
          BY <3>0, <4>2 DEF Refresh, Exists, ExistsFails, Read, ReadFails, Shape, tfstate
        <4>3. CASE Plan(r)
          BY <3>0, <4>3 DEF Plan, PlanDelete, PlanUpdate, PlanNothing, Shape, tfstate
        <4>4. CASE Settings(r) \/ StartVM(r)
          BY <4>4 DEF Settings, StartVM, tfstate
        <4>5. CASE PowerOff(r) \/ PowerOffFails(r) \/ Wake(r)
          BY <4>5 DEF PowerOff, PowerOffFails, Wake, tfstate
        <4>6. CASE RemoveFails(r)
          BY <3>0, <4>6 DEF RemoveFails, Shape, tfstate
        <4>7. QED
          BY <1>4, <4>1, <4>2, <4>3, <4>4, <4>5, <4>6 DEF Handler, CreateOrUpdate, PowerDown
      <3>9. QED
        BY <3>1, <3>2, <3>3, <3>4, <3>5, <3>6, <3>7, <3>8
    <2>3. QED
      BY <2>1, <2>2
  <1>5. CASE Crash
    <2>1. UNCHANGED id
      BY <1>5 DEF Crash, tfstate
    <2>2. CASE op[m] = "create" /\ id[m] # u
      BY <1>1, <1>5, <2>2 DEF Crash, LeftBehind, Accounted
    <2>3. CASE id[m] = u
      BY <1>1, <2>1, <2>3 DEF Accounted
    <2>4. QED
      BY <1>1, <1>2, <1>3, <2>2, <2>3 DEF Accounted
  <1>6. CASE UNCHANGED <<id, op, handle, reported>>
    BY <1>1, <1>2, <1>6 DEF Accounted
  <1>7. (\E w \in Uuids : Settle(w) \/ UserPowersOff(w) \/ UserDeletes(w)) \/ UNCHANGED vars
          => UNCHANGED <<id, op, handle, reported>>
    BY DEF Settle, UserPowersOff, UserDeletes, vars, tfstate, history
  <1>8. CASE u \in reported
    BY <1>3, <1>8 DEF Accounted
  <1>9. QED
    BY <1>4, <1>5, <1>6, <1>7, <1>8 DEF Next

\* Every VM the provider ever made and VirtualBox still has is in the Terraform
\* state, in the hands of a create, or was left behind by a create that ended
\* with an error.  No success, update, refresh or delete leaks one.
THEOREM NeverLeaked == Spec => []NoSilentLeak
  <1>1. Init => LeakInv
    BY DEF Init, LeakInv, Registered
  <1>2. TypeOK /\ ShapeInv /\ HostInv /\ LeakInv /\ [Next]_vars => LeakInv'
    <2> SUFFICES ASSUME TypeOK, ShapeInv, HostInv, LeakInv, [Next]_vars PROVE LeakInv'
      OBVIOUS
    <2>1. CASE Keeps
      BY <2>1, AccountedStep
    <2>2. ASSUME NEW r \in Resources, MakeVM(r) PROVE LeakInv'
      <3>1. PICK u \in Uuids \ used :
               /\ used' = used \cup {u}
               /\ handle' = [handle EXCEPT ![r] = u]
               /\ Registered' = Registered \cup {u}
               /\ vms'[u].name = NameOf[r] /\ vms'[u].maker = r
               /\ \A v \in Registered \ {u} : vms'[v] = vms[v]
        BY <2>2, MakeVMAdds
      <3>2. op[r] = "create" /\ handle[r] = None /\ UNCHANGED <<id, op, reported>>
        BY <2>2 DEF MakeVM, ShapeInv, Shape, tfstate, history
      <3>3. Accounted(u)'
        BY <3>1, <3>2 DEF Accounted, TypeOK
      <3>4. ASSUME NEW v \in Registered PROVE Accounted(v)'
        <4>1. v # u /\ vms'[v] = vms[v] /\ v # None
          BY <3>1, ConfigAssumption DEF HostInv, Registered
        <4>2. Accounted(v)
          BY DEF LeakInv
        <4>3. vms[v].maker = r => handle[vms[v].maker] # v
          BY <3>2, <4>1
        <4>4. vms[v].maker # r => handle'[vms[v].maker] = handle[vms[v].maker]
          BY <3>1 DEF TypeOK
        <4>5. QED
          BY <3>2, <4>1, <4>2, <4>3, <4>4 DEF Accounted
      <3>5. QED
        BY <3>1, <3>3, <3>4 DEF LeakInv
    <2>3. QED
      BY <2>1, <2>2, HostStep
  <1>3. LeakInv => NoSilentLeak
    BY DEF LeakInv, Accounted, NoSilentLeak
  <1>4. QED
    BY <1>1, <1>2, <1>3, TypeCorrect, ShapeInvariant, HostInvariant, PTL DEF Spec

-----------------------------------------------------------------------------
(* The contract of a managed resource *)

\* Every step is one of the contract, or none.
LEMMA ContractStep ==
    ASSUME TypeOK, ShapeInv, HostInv, OwnInv, [Next]_vars
    PROVE  [Contract!Next]_(Contract!vars)
  <1> DEFINE Made == [m \in Resources \cup {None} |-> {u \in Registered : vms[u].maker = m}]
             Known == [r \in Resources |-> {id[r]} \ {None}]
             Making == [r \in Resources |-> op[r] = "create" /\ handle[r] # None]
  <1>1. ASSUME Keeps, Registered' = Registered PROVE Made' = Made
    BY <1>1 DEF Keeps
  <1>2. ASSUME Made' = Made, Known' = Known, \A q \in Resources : Making'[q] => Making[q]
        PROVE  [Contract!Next]_(Contract!vars)
    <2>1. Making' = [q \in Resources |-> Making'[q]]
      OBVIOUS
    <2>2. Contract!Abandon
      BY <1>2, <2>1, Zenon DEF Contract!Abandon
    <2>3. QED
      BY <2>2 DEF Contract!Next
  \* What a resource holds on to, it has made.
  <1>3. ASSUME NEW r \in Resources, NEW u \in Holds(r), u \in Registered
        PROVE  vms[u].maker = r
    BY <1>3 DEF OwnInv
  <1>4. ASSUME NEW r \in Resources, MakeVM(r) PROVE [Contract!Next]_(Contract!vars)
    <2>1. PICK u \in Uuids \ used :
             /\ handle' = [handle EXCEPT ![r] = u]
             /\ Registered' = Registered \cup {u}
             /\ vms'[u].maker = r
             /\ \A v \in Registered \ {u} : vms'[v] = vms[v]
      BY <1>4, MakeVMAdds
    <2>2. step[r] = "make" /\ UNCHANGED <<id, op>>
      BY <1>4 DEF MakeVM, tfstate
    <2>3. op[r] = "create" /\ id[r] = None /\ handle[r] = None /\ u # None
      BY <2>2, ConfigAssumption DEF ShapeInv, Shape
    <2>4. u \notin Registered
      BY <2>1 DEF HostInv
    <2>5. Made' = [Made EXCEPT ![r] = @ \cup {u}]
      <3>1. {v \in Registered' : vms'[v].maker = r} = {v \in Registered : vms[v].maker = r} \cup {u}
        BY <2>1, <2>4
      <3>2. \A m : m # r => {v \in Registered' : vms'[v].maker = m} = {v \in Registered : vms[v].maker = m}
        BY <2>1, <2>4
      <3>3. QED
        BY <3>1, <3>2, ZenonT(30)
    <2>6. Known' = Known /\ Known[r] = {}
      BY <2>2, <2>3
    <2>7. Making' = [Making EXCEPT ![r] = TRUE] /\ ~Making[r]
      BY <2>1, <2>2, <2>3 DEF TypeOK
    <2>8. Contract!MakeOne(r)
      <3>1. u \notin Contract!AllMade
        BY <2>4 DEF Contract!AllMade, Contract!Makers
      <3>2. u \notin Contract!AllKnown
        BY <2>1, <2>3 DEF Contract!AllKnown, OwnInv, Holds
      <3>3. u \in Made'[r]
        BY <2>5
      <3>4. QED
        BY <2>5, <3>1, <3>2, <3>3, Zenon DEF Contract!MakeOne
    <2>9. Contract!Make(r)
      BY <2>6, <2>7, <2>8, Zenon DEF Contract!Make
    <2>10. QED
      BY <2>9 DEF Contract!Next
  <1>5. ASSUME NEW r \in Resources, Remove(r) PROVE [Contract!Next]_(Contract!vars)
    <2>1. /\ step[r] = "remove" /\ handle[r] \in Registered
          /\ vms' = [vms EXCEPT ![handle[r]] = None] /\ id' = [id EXCEPT ![r] = None]
          /\ op' = [op EXCEPT ![r] = "none"] /\ handle' = [handle EXCEPT ![r] = None]
      BY <1>5 DEF Remove, Return, PoweredOff
    <2>2. op[r] = "delete" /\ id[r] # None /\ handle[r] = id[r]
      BY <2>1 DEF ShapeInv, Shape
    <2>3. vms[id[r]].maker = r
      BY <1>3, <2>1, <2>2 DEF Holds
    <2>4. Registered' = Registered \ {id[r]} /\ \A v \in Registered' : vms'[v] = vms[v]
      BY <2>1, <2>2 DEF Registered, TypeOK
    <2>5. Made' = [Made EXCEPT ![r] = @ \ {id[r]}]
      <3>1. {v \in Registered' : vms'[v].maker = r} = {v \in Registered : vms[v].maker = r} \ {id[r]}
        BY <2>4
      <3>2. \A m : m # r => {v \in Registered' : vms'[v].maker = m} = {v \in Registered : vms[v].maker = m}
        BY <2>3, <2>4
      <3>3. QED
        BY <3>1, <3>2
    <2>6. Known[r] = {id[r]} /\ Known' = [Known EXCEPT ![r] = {}]
      BY <2>1, <2>2 DEF TypeOK
    <2>7. Making' = Making
      BY <2>1, <2>2 DEF TypeOK
    <2>8. Contract!Remove(r)
      BY <2>5, <2>6, <2>7 DEF Contract!Remove
    <2>9. QED
      BY <2>8 DEF Contract!Next
  <1>6. ASSUME NEW u \in Uuids, UserDeletes(u) PROVE [Contract!Next]_(Contract!vars)
    <2>1. UNCHANGED <<id, op, handle>> /\ vms' = [vms EXCEPT ![u] = None]
      BY <1>6 DEF UserDeletes, tfstate
    <2>2. \A v \in Registered' : v \in Registered /\ vms'[v] = vms[v]
      BY <2>1 DEF Registered, TypeOK
    <2>3. \A m \in Resources \cup {None} : Made'[m] \subseteq Made[m]
      BY <2>2
    <2>4. Known' = Known /\ Making' = Making
      BY <2>1
    <2>5. Contract!Vanish
      BY <2>3, <2>4, Zenon DEF Contract!Vanish, Contract!Makers
    <2>6. QED
      BY <2>5 DEF Contract!Next
  <1>7. ASSUME NEW r \in Resources, FinalRead(r) \/ FinalReadFails(r)
        PROVE  [Contract!Next]_(Contract!vars)
    <2>1. /\ step[r] = "final" /\ UNCHANGED vms /\ id' = [id EXCEPT ![r] = handle[r]]
          /\ op' = [op EXCEPT ![r] = "none"] /\ handle' = [handle EXCEPT ![r] = None]
      BY <1>7 DEF FinalRead, FinalReadFails, Store, Return, host
    <2>2. handle[r] # None /\ handle[r] \in Holds(r)
      BY <2>1 DEF ShapeInv, Shape, Holds
    <2>3. Made' = Made
      BY <2>1 DEF Registered
    <2>4. CASE op[r] = "create"
      <3>1. \A m \in (Resources \cup {None}) \ {r} : handle[r] \notin Made[m]
        BY <1>3, <2>2
      <3>2. Known' = [Known EXCEPT ![r] = {handle[r]}] /\ handle[r] \in Known'[r]
        BY <2>1, <2>2 DEF TypeOK
      <3>3. Making[r] /\ Making' = [Making EXCEPT ![r] = FALSE]
        BY <2>1, <2>2, <2>4 DEF TypeOK
      <3>4. Contract!Store(r)
        BY <2>3, <3>1, <3>2, <3>3, Zenon DEF Contract!Store, Contract!Makers
      <3>5. QED
        BY <3>4 DEF Contract!Next
    <2>5. CASE op[r] # "create"
      <3>1. Known' = Known
        BY <2>1, <2>5 DEF ShapeInv, Shape, TypeOK
      <3>2. \A q \in Resources : Making'[q] => Making[q]
        BY <2>1 DEF TypeOK
      <3>3. QED
        BY <1>2, <2>3, <3>1, <3>2
    <2>6. QED
      BY <2>4, <2>5
  <1>8. CASE ~ \/ \E r \in Resources : MakeVM(r) \/ Remove(r) \/ FinalRead(r) \/ FinalReadFails(r)
               \/ \E u \in Uuids : UserDeletes(u)
    <2>1. Made' = Made
      BY <1>1, <1>8, HostStep, RegisteredStep
    <2>2. ASSUME NEW r \in Resources, StartApply(r) \/ Handler(r) \/ Edit(r)
          PROVE  UNCHANGED id /\ \A q \in Resources : Making'[q] => Making[q]
      <3>1. UNCHANGED id
        BY <1>8, <2>2 DEF StartApply, Edit, Handler, Refresh, Plan, CreateOrUpdate, PowerDown,
                  Exists, ExistsFails, Read, ReadFails, PlanDelete, PlanUpdate,
                  PlanNothing, MakeVMFails, GetMachine, GetMachineFails,
                  Settings, SettingsFail, StartVM, StartVMFails, PowerOff,
                  PowerOffFails, Wake, RemoveFails, Fails, CreateFails, UpdateFails,
                  tfstate
      <3>2. ASSUME NEW q \in Resources, op'[q] = "create", handle'[q] # None
            PROVE  op[q] = "create" /\ handle[q] # None
        BY <1>8, <2>2, <3>2, OthersStay, MakingStep DEF ShapeInv
      <3>3. QED
        BY <3>1, <3>2
    <2>3. CASE \/ \E u \in Uuids : Settle(u) \/ UserPowersOff(u) \/ UserDeletes(u)
               \/ Crash \/ UNCHANGED vars
      <3>1. UNCHANGED id
        BY <2>3 DEF Settle, UserPowersOff, UserDeletes, Crash, vars, tfstate
      <3>2. \A q \in Resources : Making'[q] => Making[q]
        BY <2>3, EnvironmentMoves
      <3>3. QED
        BY <1>2, <2>1, <3>1, <3>2
    <2>4. QED
      BY <1>2, <2>1, <2>2, <2>3 DEF Next
  <1>9. QED
    BY <1>4, <1>5, <1>6, <1>7, <1>8

\* VMs are managed as the contract says when names are the resources' own or no
\* user deletes VMs: no second VM is made for a resource that has one in the state, a create stores
\* none that another made though it looks its VM up by name, and a destroy
\* removes the one the state names.
THEOREM ContractKept == ASSUME Unambiguous PROVE Spec => KeepsContract
  <1>1. Init => Contract!Init
    <2>1. Init => \A m : {u \in Registered : vms[u].maker = m} = {}
      BY DEF Init, Registered
    <2>2. Init => \A r \in Resources : {id[r]} \ {None} = {}
      <3>1. Init => id = [r \in Resources |-> None]
        BY DEF Init
      <3>2. QED
        BY <3>1
    <2>3. Init => \A r \in Resources : (op[r] = "create" /\ handle[r] # None) = FALSE
      BY DEF Init
    <2>4. QED
      BY <2>1, <2>2, <2>3 DEF Contract!Init, Contract!Makers
  <1>2. QED
    BY <1>1, ContractStep, TypeCorrect, ShapeInvariant, HostInvariant, OwnInvariant, PTL
       DEF Spec, KeepsContract, Contract!Spec

-----------------------------------------------------------------------------
(* What success means *)

Running(u) == u \in Registered /\ vms[u].power = "running"

\* A VM that runs has been set up for the stored configuration, or that
\* configuration is lost: an update that fails leaves the VM off or loses it, and
\* one that has run its settings starts the VM at once.
InForce(r) ==
    /\ Running(id[r]) /\ ~dirty[r] => vms[id[r]].current \/ lost[r]
    /\ step[r] = "start" => ~Running(handle[r])
    /\ step[r] \in {"start", "final"} /\ handle[r] \in Registered => vms[handle[r]].current
    /\ step[r] = "final" /\ ~touched[r] => Running(handle[r])
    /\ step[r] = "plan" /\ ~touched[r] /\ status[r] = "running" => Running(id[r])
    /\ result[r] = "ok" => step[r] = "rest"
    /\ result[r] = "ok" /\ id[r] # None /\ ~touched[r] => SetUp(r) \/ lost[r]
ForceInv == \A r \in Resources : InForce(r)

\* A step of another resource changes nothing about the VMs of this one.
LEMMA Elsewhere ==
    ASSUME TypeOK, ShapeInv, OwnInv, NEW r \in Resources, StartApply(r) \/ Handler(r) \/ Edit(r),
           NEW q \in Resources, q # r
    PROVE  /\ \A u \in Holds(q) : vms'[u] = vms[u]
           /\ dirty'[q] = dirty[q] /\ status'[q] = status[q]
           /\ touched'[q] = touched[q] /\ result'[q] = result[q] /\ lost'[q] = lost[q]
  <1>1. \A u \in Holds(q) : u \in used /\ u \in Uuids /\ u # id[r] /\ u # handle[r]
    BY ConfigAssumption DEF OwnInv, Holds, TypeOK
  <1> USE <1>1 DEF TypeOK, Goto, Begin, Return, host, tfstate, history
  <1>2. CASE StartApply(r)
    BY <1>2 DEF StartApply
  <1>3. CASE Edit(r)
    BY <1>3, EditChanges DEF Edit
  <1>4. CASE Refresh(r)
    BY <1>4 DEF Refresh, Exists, ExistsFails, Read, ReadFails
  <1>5. CASE Plan(r)
    BY <1>5 DEF Plan, PlanDelete, PlanUpdate, PlanNothing
  <1>6. CASE MakeVMFails(r) \/ GetMachineFails(r) \/ SettingsFail(r) \/ StartVMFails(r)
    BY <1>6, SettingsFailChanges
       DEF MakeVMFails, GetMachineFails, SettingsFail, StartVMFails, Fails,
           CreateFails, UpdateFails
  <1>7. CASE MakeVM(r) \/ GetMachine(r)
    BY <1>7 DEF MakeVM, GetMachine
  <1>8. CASE Settings(r) \/ StartVM(r)
    BY <1>8 DEF Settings, StartVM
  <1>9. CASE FinalRead(r) \/ FinalReadFails(r)
    BY <1>9 DEF FinalRead, FinalReadFails, Store
  <1>10. CASE PowerDown(r)
    BY <1>10 DEF PowerDown, PowerOff, PowerOffFails, Wake, Remove, RemoveFails
  <1>11. QED
    BY <1>2, <1>3, <1>4, <1>5, <1>6, <1>7, <1>8, <1>9, <1>10 DEF Handler, CreateOrUpdate

\* Where nothing about a resource and its VMs changes, what is in force stays so.
LEMMA SameInForce ==
    ASSUME TypeOK, NEW q \in Resources, InForce(q),
           op'[q] = op[q], step'[q] = step[q], handle'[q] = handle[q], id'[q] = id[q],
           dirty'[q] = dirty[q], status'[q] = status[q],
           touched'[q] = touched[q], result'[q] = result[q], lost'[q] = lost[q],
           \A u \in Holds(q) : vms'[u] = vms[u]
    PROVE  InForce(q)'
  <1>1. \A u \in {id[q], handle[q]} :
          /\ u \in Registered' <=> u \in Registered
          /\ u \in Registered => vms'[u] = vms[u]
    BY ConfigAssumption DEF Registered, Holds
  <1>2. \A u \in {id[q], handle[q]} : Running(u)' <=> Running(u)
    BY <1>1 DEF Running
  <1>3. QED
    BY <1>1, <1>2 DEF InForce, SetUp, Running

\* A step of a resource keeps in force what it has to.
LEMMA OwnForce ==
    ASSUME TypeOK, NEW r \in Resources, Shape(r), InForce(r),
           StartApply(r) \/ Handler(r) \/ Edit(r)
    PROVE  InForce(r)'
  <1>n. None \notin Registered /\ None \notin Registered'
    BY ConfigAssumption DEF Registered
  <1> USE <1>n
     DEF TypeOK, InForce, Running, SetUp, Goto, Begin, Return, host, tfstate, history
  <1>1. CASE StartApply(r)
    BY <1>1 DEF StartApply, Registered
  <1>2. CASE Edit(r)
    BY <1>2 DEF Edit, Registered
  <1>3. CASE Refresh(r)
    BY <1>3 DEF Refresh, Exists, ExistsFails, Read, ReadFails, StatusOf, Registered
  <1>4. CASE Plan(r)
    BY <1>4 DEF Plan, PlanDelete, PlanUpdate, PlanNothing, Differs, Registered, Shape
  <1>5. CASE MakeVMFails(r) \/ MakeVM(r)
    BY <1>5 DEF MakeVMFails, MakeVM, CreateFails, Registered, Shape
  <1>6. CASE GetMachine(r)
    BY <1>6 DEF GetMachine, Registered, Shape
  <1>7. CASE GetMachineFails(r)
    BY <1>7 DEF GetMachineFails, Fails, CreateFails, UpdateFails, RunsStale, Found,
                Registered, Shape
  <1>8. CASE StartVMFails(r)
    BY <1>8 DEF StartVMFails, Fails, CreateFails, UpdateFails, RunsStale, Registered, Shape
  <1>16. CASE SettingsFail(r)
    <2>1. Registered' = Registered
      BY <1>16, SettingsFailChanges, SettingStays DEF Registered
    <2>2. \A u \in Registered :
            vms'[u].power = vms[u].power /\ vms'[u].current = vms[u].current
      BY <1>16, SettingsFailChanges DEF Registered, VMs
    <2>3. QED
      BY <1>16, <2>1, <2>2 DEF SettingsFail, Fails, CreateFails, UpdateFails, RunsStale, Shape
  <1>9. CASE Settings(r)
    BY <1>9 DEF Settings, PoweredOff, Registered, Shape, VMs
  <1>10. CASE StartVM(r)
    <2>1. handle[r] \in Registered /\ vms[handle[r]] \in VMs /\ vms[handle[r]].current
      BY <1>10 DEF StartVM, PoweredOff, Registered
    <2>2. vms' = [vms EXCEPT ![handle[r]] = [vms[handle[r]] EXCEPT !.power = "running"]]
      BY <1>10 DEF StartVM
    <2>3. vms'[handle[r]].power = "running" /\ vms'[handle[r]].current
      BY <2>1, <2>2 DEF VMs, Registered
    <2>4. handle[r] \in Registered'
      BY <2>1, <2>2, NoneAssumption DEF VMs, Registered
    <2>5. op[r] \in {"create", "update"} /\ id[r] \in {None, handle[r]}
      BY <1>10 DEF StartVM, Shape
    <2>6. /\ step'[r] = "final" /\ result'[r] = result[r] /\ id'[r] = id[r] /\ handle'[r] = handle[r]
          /\ result[r] # "ok"
      BY <1>10 DEF StartVM
    <2>7. QED
      BY <2>3, <2>4, <2>5, <2>6
  <1>11. CASE FinalRead(r) \/ FinalReadFails(r)
    BY <1>11 DEF FinalRead, FinalReadFails, Store, Registered, Shape
  <1>12. CASE PowerOff(r)
    BY <1>12 DEF PowerOff, Registered, Shape, VMs
  <1>13. CASE PowerOffFails(r) \/ Wake(r)
    BY <1>13 DEF PowerOffFails, Wake, Registered, Shape
  <1>14. CASE Remove(r) \/ RemoveFails(r)
    BY <1>14 DEF Remove, RemoveFails, Registered, Shape
  <1>15. QED
    BY <1>1, <1>2, <1>3, <1>4, <1>5, <1>6, <1>7, <1>8, <1>9, <1>10, <1>11, <1>12, <1>13, <1>14, <1>16
       DEF Handler, CreateOrUpdate, PowerDown

\* VirtualBox, users and kills do neither: nobody but a handler starts a VM, and
\* whoever stops or deletes one is remembered.
LEMMA EnvironmentForce ==
    ASSUME TypeOK, ShapeInv, ForceInv, NEW q \in Resources,
           \/ \E u \in Uuids : Settle(u) \/ UserPowersOff(u) \/ UserDeletes(u)
           \/ Crash
           \/ UNCHANGED vars
    PROVE  InForce(q)'
  <1>n. None \notin Registered /\ None \notin Registered'
    BY ConfigAssumption DEF Registered
  <1>q. Shape(q) /\ InForce(q)
    BY DEF ShapeInv, ForceInv
  <1>1. ASSUME NEW u \in Uuids, Settle(u)
        PROVE  InForce(q)'
    BY <1>1, <1>q, <1>n
       DEF Settle, InForce, Running, SetUp, Registered, TypeOK, VMs, tfstate, history
  <1>2. ASSUME NEW u \in Uuids, UserPowersOff(u)
        PROVE  InForce(q)'
    BY <1>2, <1>q, <1>n
       DEF UserPowersOff, Touch, InForce, Running, SetUp, Registered, TypeOK, VMs, tfstate
  <1>3. ASSUME NEW u \in Uuids, UserDeletes(u)
        PROVE  InForce(q)'
    BY <1>3, <1>q, <1>n
       DEF UserDeletes, Touch, InForce, Running, SetUp, Registered, TypeOK, tfstate
  <1>4. CASE Crash
    BY <1>4, <1>q, <1>n
       DEF Crash, InForce, Running, SetUp, Registered, TypeOK, host, tfstate, Shape
  <1>5. CASE UNCHANGED vars
    BY <1>5, <1>q DEF vars, InForce, Running, SetUp, Registered
  <1>6. QED
    BY <1>1, <1>2, <1>3, <1>4, <1>5

\* When every resource has a name of its own, or no user deletes VMs, an apply that
\* reports success leaves its VM registered and running, with all settings run for
\* the configuration as it is, whatever failed before, but for an update that
\* failed with the VM running.
THEOREM OkIsSetUp ==
    ASSUME Unambiguous
    PROVE  Spec => []OkMeansSetUp
  <1>1. Init => ForceInv
    <2> SUFFICES ASSUME Init, NEW r \in Resources PROVE InForce(r)
      BY DEF ForceInv
    <2>1. Registered = {} /\ step[r] = "rest" /\ result[r] = "none"
      BY DEF Init, Registered
    <2>2. QED
      BY <2>1 DEF InForce, Running
  <1>2. TypeOK /\ ShapeInv /\ OwnInv /\ ForceInv /\ [Next]_vars => ForceInv'
    <2> SUFFICES ASSUME TypeOK, ShapeInv, OwnInv, ForceInv, [Next]_vars, NEW q \in Resources
                 PROVE  InForce(q)'
      BY DEF ForceInv
    <2>1. ASSUME NEW r \in Resources, StartApply(r) \/ Handler(r) \/ Edit(r)
          PROVE  InForce(q)'
      <3>1. CASE q = r
        BY <2>1, <3>1, OwnForce DEF ShapeInv, ForceInv
      <3>2. CASE q # r
        BY <2>1, <3>2, OthersStay, Elsewhere, SameInForce DEF ForceInv
      <3>3. QED
        BY <3>1, <3>2
    <2>2. CASE \/ \E u \in Uuids : Settle(u) \/ UserPowersOff(u) \/ UserDeletes(u)
               \/ Crash \/ UNCHANGED vars
      BY <2>2, EnvironmentForce
    <2>3. QED
      BY <2>1, <2>2 DEF Next
  <1>3. ForceInv => OkMeansSetUp
    BY DEF ForceInv, InForce, OkMeansSetUp
  <1>4. QED
    BY <1>1, <1>2, <1>3, TypeCorrect, ShapeInvariant, OwnInvariant, PTL DEF Spec
=============================================================================
