---------------------------- MODULE VMLifecycle -----------------------------
(***************************************************************************)
(* virtualbox_vm from the first plan to the last destroy: the Terraform    *)
(* state, the VMs registered with VirtualBox, and the handlers of          *)
(* resource_vm_crud.go that are to keep the two together.                  *)
(*                                                                         *)
(* The handlers of different resources interleave; each VBoxManage command *)
(* is one step, because VirtualBox serialises them and anybody else may    *)
(* run one in between.  The settings are reduced to whether a handler has  *)
(* run all that it has for the configuration as it is now ("current");     *)
(* which attributes these leave out, or leave as they were, is VMConfig's  *)
(* subject.                                                                *)
(*                                                                         *)
(* What the handlers report counts: Terraform stores the ID only when a    *)
(* create returns, and stores the new configuration when an update         *)
(* returns, even with an error.                                            *)
(***************************************************************************)
EXTENDS Naturals

CONSTANTS
    Resources,   \* the virtualbox_vm resources of the configuration
    Names,       \* VM names
    NameOf,      \* NameOf[r]: the configured name (ForceNew)
    Kind,        \* Kind[r]: which of the three ways to make a VM r uses
    Unstable,    \* resources of which a refresh never reads what is configured
    Forwarding,  \* those with a port forwarding rule
    Uuids,       \* bound: the VMs there can ever be on this host
    Faults,      \* what may go wrong in this instance
    MaxTrouble,  \* bound: faults, user actions and configuration edits, in all
    None

Kinds == {"image", "ova", "linked"}
FaultKinds == {"make",     \* import, clonevm or createvm fails
               "get",      \* showvminfo fails although the VM is there
               "poweroff", \* controlvm poweroff fails on a running VM
               "set",      \* modifyvm or one of the later settings fails
               "start",    \* startvm fails
               "remove",   \* unregistervm --delete fails
               "crash",    \* terraform is killed
               "useroff",  \* somebody powers a VM off
               "userdelete"} \* somebody deletes a VM

ASSUME ConfigAssumption ==
    /\ NameOf \in [Resources -> Names]
    /\ Kind \in [Resources -> Kinds]
    /\ Unstable \subseteq Resources
    \* A rule belongs to an adapter, and adapters are never read back as configured.
    /\ Forwarding \subseteq Unstable
    /\ None \notin Uuids
ASSUME BoundsAssumption ==
    /\ MaxTrouble \in Nat
    /\ Faults \subseteq FaultKinds

VARIABLES
    \* VirtualBox
    vms,       \* vms[u]: the VM registered under UUID u, if any
    used,      \* the UUIDs VirtualBox has given out
    \* the Terraform state and configuration
    id,        \* id[r]: the stored ID
    tainted,   \* r is to be replaced at the next apply
    status,    \* status[r]: the power state the last refresh stored
    dirty,     \* the configuration was edited since it was stored
    \* the provider process
    op,        \* the operation a resource is in
    step,      \* and where in it
    handle,    \* the UUID the handler works on
    result,    \* what the last operation on r reported
    \* history
    touched,   \* somebody changed r's VM since its last operation began
    reported,  \* VMs a create left behind when it failed or was killed
    lost,      \* the state holds a configuration of r no handler was done with,
               \* because an update failed with the VM running
    trouble    \* faults, user actions and edits so far

vars == <<vms, used, id, tainted, status, dirty, op, step, handle, result,
          touched, reported, lost, trouble>>

Ops == {"none", "refresh", "create", "update", "delete"}
StepNames == {"rest", "exists", "read", "plan", "make", "get", "off", "asleep",
              "set", "start", "final", "remove"}
\* current: all settings of a handler were run since the configuration was last
\* edited; rules: the VM has a port forwarding rule of a configured name.
VMs == [name : Names, power : {"running", "stopping", "off"},
        current : BOOLEAN, rules : BOOLEAN, maker : Resources]
ASSUME NoneAssumption == None \notin VMs

TypeOK ==
    /\ vms \in [Uuids -> VMs \cup {None}]
    /\ used \subseteq Uuids
    /\ id \in [Resources -> Uuids \cup {None}]
    /\ tainted \in [Resources -> BOOLEAN]
    /\ status \in [Resources -> {"running", "poweroff"}]
    /\ dirty \in [Resources -> BOOLEAN]
    /\ op \in [Resources -> Ops]
    /\ step \in [Resources -> StepNames]
    /\ handle \in [Resources -> Uuids \cup {None}]
    /\ result \in [Resources -> {"none", "ok", "error"}]
    /\ touched \in [Resources -> BOOLEAN]
    /\ reported \subseteq Uuids
    /\ lost \in [Resources -> BOOLEAN]
    /\ trouble \in 0..MaxTrouble

Init ==
    /\ vms = [u \in Uuids |-> None]
    /\ used = {}
    /\ id = [r \in Resources |-> None]
    /\ tainted = [r \in Resources |-> FALSE]
    /\ status = [r \in Resources |-> "poweroff"]
    /\ dirty = [r \in Resources |-> FALSE]
    /\ op = [r \in Resources |-> "none"]
    /\ step = [r \in Resources |-> "rest"]
    /\ handle = [r \in Resources |-> None]
    /\ result = [r \in Resources |-> "none"]
    /\ touched = [r \in Resources |-> FALSE]
    /\ reported = {}
    /\ lost = [r \in Resources |-> FALSE]
    /\ trouble = 0

Registered == {u \in Uuids : vms[u] # None}
Named(n) == {u \in Registered : vms[u].name = n}
PoweredOff(u) == u \in Registered /\ vms[u].power = "off"

host == <<vms, used>>
tfstate == <<id, tainted, status, dirty>>
history == <<touched, reported, lost>>

Goto(r, s) == step' = [step EXCEPT ![r] = s]
Begin(r, o, s) == op' = [op EXCEPT ![r] = o] /\ Goto(r, s)
\* A fault of kind f strikes; each one counts against the bound.
Strike(f) == f \in Faults /\ trouble < MaxTrouble /\ trouble' = trouble + 1
\* The handler returns to Terraform.
Return(r, res) ==
    /\ op' = [op EXCEPT ![r] = "none"]
    /\ step' = [step EXCEPT ![r] = "rest"]
    /\ handle' = [handle EXCEPT ![r] = None]
    /\ result' = [result EXCEPT ![r] = res]

-----------------------------------------------------------------------------
(* Terraform: one resource of a terraform apply *)

\* A resource without an ID is created; one with an ID is refreshed first.
StartApply(r) ==
    /\ step[r] = "rest"
    /\ IF id[r] = None THEN Begin(r, "create", "make")
                       ELSE Begin(r, "refresh", "exists")
    /\ result' = [result EXCEPT ![r] = "none"]
    /\ touched' = [touched EXCEPT ![r] = FALSE]
    /\ UNCHANGED <<host, tfstate, handle, reported, lost, trouble>>

\* resourceVMExists asks for the name.  When there is no such VM the error
\* says "exit status 1" and stdout is empty, so getMachine cannot tell, and
\* the answer is an error, never "does not exist".
Exists(r) ==
    /\ step[r] = "exists"
    /\ Named(NameOf[r]) # {}
    /\ Goto(r, "read")
    /\ UNCHANGED <<host, tfstate, op, handle, result, history, trouble>>

ExistsFails(r) ==
    /\ step[r] = "exists"
    /\ \/ Named(NameOf[r]) = {} /\ UNCHANGED trouble
       \/ Strike("get")
    /\ Return(r, "error")
    /\ UNCHANGED <<host, tfstate, history>>

\* Mutant: the state VirtualBox names is stored as it is.
StatusUnmapped(u) == vms[u].power

\* What setState stores; a state it does not know is a powered-off VM.
StatusOf(u) == IF vms[u].power = "running" THEN "running" ELSE "poweroff"

\* Mutant: the power state is not read back.
ReadNoStatus(r) ==
    /\ step[r] = "read"
    /\ id[r] \in Registered
    /\ Goto(r, "plan")
    /\ UNCHANGED <<host, tfstate, op, handle, result, history, trouble>>

\* resourceVMRead asks for the ID.
Read(r) ==
    /\ step[r] = "read"
    /\ id[r] \in Registered
    /\ status' = [status EXCEPT ![r] = StatusOf(id[r])]
    /\ Goto(r, "plan")
    /\ UNCHANGED <<host, id, tainted, dirty, op, handle, result, history, trouble>>

\* Mutant: any error of showvminfo drops the resource.
ReadFailsForget(r) ==
    /\ step[r] = "read"
    /\ \/ id[r] \notin Registered /\ UNCHANGED trouble
       \/ Strike("get")
    /\ id' = [id EXCEPT ![r] = None]
    /\ Return(r, "ok")
    /\ UNCHANGED <<host, tainted, status, dirty, history>>

ReadFails(r) ==
    /\ step[r] = "read"
    /\ \/ id[r] \notin Registered /\ UNCHANGED trouble
       \/ Strike("get")
    /\ Return(r, "error")
    /\ UNCHANGED <<host, tfstate, history>>

\* A plan.  A refresh stores adapters without their device and a boot order of
\* four slots, so that a configuration with an adapter or another boot order
\* differs every time; the other resources differ when they were edited or do
\* not run.
Differs(r) == dirty[r] \/ status[r] # "running" \/ r \in Unstable

\* Something differs: replace it, update it, or report "no changes".
PlanDelete(r) ==
    /\ step[r] = "plan"
    /\ tainted[r]
    /\ Begin(r, "delete", "off")
    /\ handle' = [handle EXCEPT ![r] = id[r]]
    /\ UNCHANGED <<host, tfstate, result, history, trouble>>

PlanUpdate(r) ==
    /\ step[r] = "plan"
    /\ ~tainted[r]
    /\ Differs(r)
    /\ Begin(r, "update", "get")
    /\ UNCHANGED <<host, tfstate, handle, result, history, trouble>>

PlanNothing(r) ==
    /\ step[r] = "plan"
    /\ ~tainted[r] /\ ~Differs(r)
    /\ Return(r, "ok")
    /\ UNCHANGED <<host, tfstate, history, trouble>>

-----------------------------------------------------------------------------
(* How a handler ends *)

\* The VMs that r made and the state does not know.
LeftBehind(r) == {u \in Registered : vms[u].maker = r /\ id[r] # u}

\* Create fails before SetId: Terraform stores nothing.
CreateFails(r) ==
    /\ Return(r, "error")
    /\ reported' = reported \cup LeftBehind(r)
    /\ UNCHANGED <<id, tainted, status, dirty, touched, lost>>

\* Its settings are not those of the configuration, and it runs: no refresh
\* finds anything to do.
RunsStale(u) == u \in Registered /\ vms[u].power = "running" /\ ~vms[u].current

\* Update fails: the planned configuration is stored all the same.
UpdateFails(r) ==
    /\ Return(r, "error")
    /\ dirty' = [dirty EXCEPT ![r] = FALSE]
    /\ status' = [status EXCEPT ![r] = "running"]
    /\ lost' = [lost EXCEPT ![r] = @ \/ RunsStale(id[r])]
    /\ UNCHANGED <<id, tainted, touched, reported>>

Fails(r) ==
    \/ op[r] = "create" /\ CreateFails(r)
    \/ op[r] = "update" /\ UpdateFails(r)

-----------------------------------------------------------------------------
(* resourceVMCreate *)

\* import --vmname, clonevm --name, createvm --name: a new VM under that name.
\* An imported VM or a clone may have a rule of the configured name already.
MakeVM(r) ==
    /\ step[r] = "make"
    /\ Named(NameOf[r]) = {}
    /\ \E u \in Uuids \ used, has \in BOOLEAN :
         /\ has => r \in Forwarding /\ Kind[r] # "image"
         /\ used' = used \cup {u}
         /\ vms' = [vms EXCEPT ![u] = [name |-> NameOf[r], power |-> "off",
                                       current |-> FALSE, rules |-> has, maker |-> r]]
         /\ handle' = [handle EXCEPT ![r] = u]
    /\ Goto(r, "get")
    /\ UNCHANGED <<tfstate, op, result, history, trouble>>

\* Mutant: a name that is taken is no error.
MakeVMAdopts(r) ==
    /\ step[r] = "make"
    /\ Named(NameOf[r]) # {}
    /\ Goto(r, "get")
    /\ UNCHANGED <<host, tfstate, op, handle, result, history, trouble>>

\* VirtualBox refuses a name that is taken.
MakeVMFails(r) ==
    /\ step[r] = "make"
    /\ \/ Named(NameOf[r]) # {} /\ UNCHANGED trouble
       \/ Uuids = used /\ UNCHANGED trouble
       \/ Strike("make")
    /\ CreateFails(r)
    /\ UNCHANGED host

\* createMachine looks its VM up by the UUID createvm printed; the OVA and the
\* linked clone path look theirs up by name.
Found(r) ==
    IF op[r] = "update" THEN {id[r]} \cap Registered
    ELSE IF Kind[r] = "image" THEN {handle[r]} \cap Registered
    ELSE Named(NameOf[r])

\* getMachine in resourceVMCreate and resourceVMUpdate.
GetMachine(r) ==
    /\ step[r] = "get"
    /\ \E u \in Found(r) : handle' = [handle EXCEPT ![r] = u]
    /\ Goto(r, IF op[r] = "update" THEN "off" ELSE "set")
    /\ UNCHANGED <<host, tfstate, op, result, history, trouble>>

GetMachineFails(r) ==
    /\ step[r] = "get"
    /\ \/ Found(r) = {} /\ UNCHANGED trouble
       \/ Strike("get")
    /\ Fails(r)
    /\ UNCHANGED host

\* VirtualBox refuses a rule that the VM has already, and the handlers delete
\* none before they add theirs ("delete all" deletes the rule called "all").
RuleRefused(r) == r \in Forwarding /\ vms[handle[r]].rules

\* modifyvm and the settings, media and customize commands after it.  They
\* need a VM that is registered and not locked by a session.
Settings(r) ==
    /\ step[r] = "set"
    /\ PoweredOff(handle[r]) /\ ~RuleRefused(r)
    /\ vms' = [vms EXCEPT ![handle[r]].current = TRUE,
                          ![handle[r]].rules = r \in Forwarding]
    /\ lost' = [lost EXCEPT ![r] = FALSE]
    /\ Goto(r, "start")
    /\ UNCHANGED <<used, tfstate, op, handle, result, touched, reported, trouble>>

\* One of them fails; those before it were applied, a rule perhaps among them.
SettingsFail(r) ==
    /\ step[r] = "set"
    /\ \/ ~PoweredOff(handle[r]) /\ UNCHANGED <<vms, trouble>>
       \/ PoweredOff(handle[r]) /\ RuleRefused(r) /\ UNCHANGED <<vms, trouble>>
       \/ /\ PoweredOff(handle[r]) /\ Strike("set")
          /\ \E has \in {vms[handle[r]].rules, r \in Forwarding} :
               vms' = [vms EXCEPT ![handle[r]].rules = has]
    /\ Fails(r)
    /\ UNCHANGED used

\* startVM; waitUntilVMIsReady, which follows, swallows every error.
StartVM(r) ==
    /\ step[r] = "start"
    /\ PoweredOff(handle[r])
    /\ vms' = [vms EXCEPT ![handle[r]].power = "running"]
    /\ Goto(r, "final")
    /\ UNCHANGED <<used, tfstate, op, handle, result, history, trouble>>

\* Mutant: an error of startvm is not looked at.
StartVMIgnored(r) ==
    /\ step[r] = "start"
    /\ \/ ~PoweredOff(handle[r]) /\ UNCHANGED trouble
       \/ Strike("start")
    /\ Goto(r, "final")
    /\ UNCHANGED <<host, tfstate, op, handle, result, history>>

StartVMFails(r) ==
    /\ step[r] = "start"
    /\ \/ ~PoweredOff(handle[r]) /\ UNCHANGED trouble
       \/ Strike("start")
    /\ Fails(r)
    /\ UNCHANGED host

\* SetId was called after startVM: the resourceVMRead at the end decides
\* whether the resource is stored as good or as tainted.
Store(r, good) ==
    /\ id' = [id EXCEPT ![r] = handle[r]]
    /\ dirty' = [dirty EXCEPT ![r] = FALSE]
    /\ tainted' = [tainted EXCEPT ![r] = op[r] = "create" /\ ~good]
    /\ Return(r, IF good THEN "ok" ELSE "error")

FinalRead(r) ==
    /\ step[r] = "final"
    /\ handle[r] \in Registered
    /\ status' = [status EXCEPT ![r] = StatusOf(handle[r])]
    /\ Store(r, TRUE)
    /\ UNCHANGED <<host, history, trouble>>

FinalReadFails(r) ==
    /\ step[r] = "final"
    /\ \/ handle[r] \notin Registered /\ UNCHANGED trouble
       \/ Strike("get")
    /\ status' = [status EXCEPT ![r] = "running"]
    /\ Store(r, FALSE)
    /\ UNCHANGED <<host, history>>

-----------------------------------------------------------------------------
(* resourceVMUpdate and resourceVMDelete *)

\* controlvm poweroff; its errors are ignored.
PowerOff(r) ==
    /\ step[r] = "off"
    /\ IF handle[r] \in Registered /\ vms[handle[r]].power = "running"
       THEN vms' = [vms EXCEPT ![handle[r]].power = "stopping"]
       ELSE UNCHANGED vms
    /\ Goto(r, "asleep")
    /\ UNCHANGED <<used, tfstate, op, handle, result, history, trouble>>

PowerOffFails(r) ==
    /\ step[r] = "off"
    /\ Strike("poweroff")
    /\ Goto(r, "asleep")
    /\ UNCHANGED <<host, tfstate, op, handle, result, history>>

\* time.Sleep(3s) says nothing about how far VirtualBox got.
Wake(r) ==
    /\ step[r] = "asleep"
    /\ Goto(r, IF op[r] = "update" THEN "set" ELSE "remove")
    /\ UNCHANGED <<host, tfstate, op, handle, result, history, trouble>>

\* unregistervm --delete: the VM and its files are gone.
Remove(r) ==
    /\ step[r] = "remove"
    /\ PoweredOff(handle[r])
    /\ vms' = [vms EXCEPT ![handle[r]] = None]
    /\ id' = [id EXCEPT ![r] = None]
    /\ tainted' = [tainted EXCEPT ![r] = FALSE]
    /\ dirty' = [dirty EXCEPT ![r] = FALSE]
    /\ lost' = [lost EXCEPT ![r] = FALSE]
    /\ Return(r, "ok")
    /\ UNCHANGED <<used, status, touched, reported, trouble>>

\* Mutant: an error of unregistervm is ignored like that of poweroff.
RemoveIgnored(r) ==
    /\ step[r] = "remove"
    /\ \/ ~PoweredOff(handle[r]) /\ UNCHANGED trouble
       \/ Strike("remove")
    /\ id' = [id EXCEPT ![r] = None]
    /\ Return(r, "ok")
    /\ UNCHANGED <<host, tainted, status, dirty, history>>

RemoveFails(r) ==
    /\ step[r] = "remove"
    /\ \/ ~PoweredOff(handle[r]) /\ UNCHANGED trouble
       \/ Strike("remove")
    /\ Return(r, "error")
    /\ UNCHANGED <<host, tfstate, history>>

-----------------------------------------------------------------------------
(* VirtualBox, the user and crashes *)

\* A VM that is being powered off reaches "off" and its session is released.
Settle(u) ==
    /\ u \in Registered
    /\ vms[u].power = "stopping"
    /\ vms' = [vms EXCEPT ![u].power = "off"]
    /\ UNCHANGED <<used, tfstate, op, step, handle, result, history, trouble>>

Touch(u) == touched' = [r \in Resources |-> touched[r] \/ u \in {id[r], handle[r]}]

UserPowersOff(u) ==
    /\ Strike("useroff")
    /\ u \in Registered
    /\ vms[u].power = "running"
    /\ vms' = [vms EXCEPT ![u].power = "off"]
    /\ Touch(u)
    /\ UNCHANGED <<used, tfstate, op, step, handle, result, reported, lost>>

UserDeletes(u) ==
    /\ Strike("userdelete")
    /\ PoweredOff(u)
    /\ vms' = [vms EXCEPT ![u] = None]
    /\ Touch(u)
    /\ UNCHANGED <<used, tfstate, op, step, handle, result, reported, lost>>

\* The configuration is edited between two applies: in an attribute that is
\* updated in place, maybe the name of a rule, or in one that forces a replacement.
Edit(r) ==
    /\ step[r] = "rest"
    /\ id[r] # None
    /\ trouble < MaxTrouble
    /\ trouble' = trouble + 1
    /\ \/ /\ dirty' = [dirty EXCEPT ![r] = TRUE]
          /\ IF id[r] \in Registered
             THEN \E has \in {vms[id[r]].rules} \cup (IF r \in Forwarding THEN BOOLEAN ELSE {}) :
                    vms' = [vms EXCEPT ![id[r]].current = FALSE, ![id[r]].rules = has]
             ELSE UNCHANGED vms
          /\ UNCHANGED tainted
       \/ /\ tainted' = [tainted EXCEPT ![r] = TRUE]
          /\ UNCHANGED <<vms, dirty>>
    /\ result' = [result EXCEPT ![r] = "none"]
    /\ UNCHANGED <<used, id, status, op, step, handle, history>>

\* terraform is killed: no handler returns, so nothing it did is stored.
Crash ==
    /\ Strike("crash")
    /\ \E r \in Resources : step[r] # "rest"
    /\ op' = [r \in Resources |-> "none"]
    /\ step' = [r \in Resources |-> "rest"]
    /\ handle' = [r \in Resources |-> None]
    /\ result' = [r \in Resources |-> IF step[r] = "rest" THEN result[r] ELSE "error"]
    /\ reported' = reported \cup UNION {LeftBehind(r) : r \in {q \in Resources : op[q] = "create"}}
    /\ UNCHANGED <<host, tfstate, touched, lost>>

Refresh(r) == Exists(r) \/ ExistsFails(r) \/ Read(r) \/ ReadFails(r)
Plan(r) == PlanDelete(r) \/ PlanUpdate(r) \/ PlanNothing(r)
CreateOrUpdate(r) ==
    \/ MakeVM(r) \/ MakeVMFails(r) \/ GetMachine(r) \/ GetMachineFails(r)
    \/ Settings(r) \/ SettingsFail(r) \/ StartVM(r) \/ StartVMFails(r)
    \/ FinalRead(r) \/ FinalReadFails(r)
PowerDown(r) == PowerOff(r) \/ PowerOffFails(r) \/ Wake(r) \/ Remove(r) \/ RemoveFails(r)
Handler(r) == Refresh(r) \/ Plan(r) \/ CreateOrUpdate(r) \/ PowerDown(r)

Next ==
    \/ \E r \in Resources : StartApply(r) \/ Handler(r) \/ Edit(r)
    \/ \E u \in Uuids : Settle(u) \/ UserPowersOff(u) \/ UserDeletes(u)
    \/ Crash

Spec == Init /\ [][Next]_vars

\* Handlers run on, VirtualBox finishes what it was asked, and apply is run
\* again as long as it is needed.
Fairness ==
    /\ \A r \in Resources : WF_vars(Handler(r)) /\ WF_vars(StartApply(r))
    /\ \A u \in Uuids : WF_vars(Settle(u))
FairSpec == Spec /\ Fairness

-----------------------------------------------------------------------------
(* Properties *)

\* No two resources manage one VM, although the OVA and the linked clone path
\* find "their" VM by its name.
NoSharedVM ==
    \A r, q \in Resources : id[r] = id[q] /\ id[r] # None => r = q

\* A VM the provider made is in the state, is being made or updated, or was
\* left behind by a create that said so: success never leaks one.
NoSilentLeak ==
    \A u \in Registered :
        LET r == vms[u].maker
        IN  id[r] = u \/ op[r] = "create" \/ u \in reported

\* The state lets go of a VM only when VirtualBox has let go of it too.
ForgottenOnlyWhenGone ==
    [][\A r \in Resources : id[r] # None /\ id'[r] = None => vms'[id[r]] = None]_vars

SetUp(r) ==
    /\ id[r] \in Registered
    /\ vms[id[r]].power = "running"
    /\ vms[id[r]].current

\* When apply reports success, "no changes" included, the VM is registered and
\* runs, and a handler has run all its settings for the configuration as it is:
\* what an update that failed half way has stored is never taken for done, unless
\* the update failed with the VM running.
OkMeansSetUp ==
    \A r \in Resources :
        result[r] = "ok" /\ id[r] # None /\ ~touched[r] /\ ~lost[r] => SetUp(r)

\* However an update failed, the refresh of a later apply finds something to do,
\* until an update has come to its end (or the VM is given up by a failed
\* replacement).  It does not when the update failed with the VM running and the
\* configuration is read back as it is.  A VM with a port forwarding rule is
\* refused that rule at every update.
UpdatesAreCompleted ==
    \A r \in Resources \ Forwarding :
        id[r] # None ~> SetUp(r) \/ id[r] = None \/ (lost[r] /\ r \notin Unstable)

\* "VM no longer exists": a VM that was deleted behind Terraform's back is
\* dropped from the state by a refresh.
GoneIsForgotten ==
    \A r \in Resources :
        id[r] # None /\ id[r] \notin Registered ~> id[r] = None \/ id[r] \in Registered

\* The contract of a managed resource, for VMs by their UUIDs: also that
\* nothing makes a second VM for a resource that has one in the state, and that
\* a destroy removes the VM the resource made and no other.
Contract == INSTANCE ManagedResource WITH
    Others <- None,
    MayLapse <- {},
    made <- [m \in Resources \cup {None} |-> {u \in Registered : vms[u].maker = m}],
    known <- [r \in Resources |-> {id[r]} \ {None}],
    making <- [r \in Resources |-> op[r] = "create" /\ handle[r] # None]
KeepsContract == Contract!Spec
=============================================================================
