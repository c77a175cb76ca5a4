------------------------------ MODULE VMConfig ------------------------------
(***************************************************************************)
(* How the settings of one virtualbox_vm are carried from the              *)
(* configuration to the VM, and what is read back.                         *)
(*                                                                         *)
(* Four handlers set up a VM: the create from an image, the create from an *)
(* OVA, the linked clone, and the update.  They run one sequence of        *)
(* VBoxManage commands, of which the two last creates leave out the end,   *)
(* and the three creates the removal of shared folders.  They differ in    *)
(* how they treat an attribute; each treatment has a representative here:  *)
(*   memory    set by modifyvm every time; read back as humanize prints it *)
(*             (cpus is the memory that is written as it is printed)       *)
(*   vram      set by modifyvm every time, never read back (os_type, flags)*)
(*   firmware  set only when the value is not VirtualBox's default, never  *)
(*             read back (cpu_execution_cap, promiscuous_mode, ...)        *)
(*   chipset   like firmware, but not by the create from an OVA and not by *)
(*             the linked clone (clipboard_mode, drag_and_drop,            *)
(*             usb_controller, serial_port; user_data not by the clone)    *)
(*   nics      set slot by slot; read back without device, rules, ...      *)
(*   rules     port forwarding of the first adapter (NAT), added one by    *)
(*             one, never read back                                        *)
(*   boot      the boot order; VirtualBox always has four slots            *)
(*   folders   shared folders, removed and added one by one                *)
(* The order of the stages is that of resourceVMUpdate.                    *)
(***************************************************************************)
EXTENDS Naturals

CONSTANTS
    Memories,  \* values of memory as they are written
    Printed,   \* Printed[m]: what humanize.IBytes makes of m
    Levels,    \* values of another scalar; 0 is VirtualBox's default
    MaxNics,   \* adapters a configuration has at most
    Rules,     \* names of port forwarding rules
    Folders,   \* names of shared folders
    Kinds,     \* the ways to make a VM
    Sources,   \* the settings an OVA or a VM to be cloned comes with
    Failing,   \* stages at which a command may fail
    MaxTrouble \* bound: edits, failures and changes by the user, in all

Default == 0
Unread == {"vram", "firmware", "chipset"}
NonDefault == {"firmware", "chipset"}
Stages == {"rest", "get", "off", "modify", "firmware", "delrules", "addrules",
           "delfolders", "addfolders", "chipset", "start", "read"}

\* boot: all four slots are listed.
Settings == [memory : Memories, vram : Levels, firmware : Levels, chipset : Levels,
             nics : 0..MaxNics, rules : SUBSET Rules, folders : SUBSET Folders,
             boot : BOOLEAN]
\* Rules are part of an adapter.
Configs == {c \in Settings : c.rules # {} => c.nics > 0}

ASSUME ConstantsAssumption ==
    /\ Levels \subseteq Nat /\ Default \in Levels
    /\ MaxNics \in Nat
    /\ MaxTrouble \in Nat
    /\ Kinds \subseteq {"image", "ova", "linked"}
    /\ Sources \subseteq {s \in Settings : s.boot}
    /\ Failing \subseteq Stages
\* What was printed once is printed the same again.
ASSUME PrintedAssumption ==
    /\ Memories # {}
    /\ Printed \in [Memories -> Memories]
    /\ \A m \in Memories : Printed[Printed[m]] = Printed[m]

\* What createvm makes, and a configuration that leaves everything out.
Fresh == [memory |-> CHOOSE m \in Memories : TRUE, vram |-> Default, firmware |-> Default,
          chipset |-> Default, nics |-> 0, rules |-> {}, folders |-> {}, boot |-> TRUE]
Minimal == [Fresh EXCEPT !.boot = FALSE]
Nothing == [settings |-> {}, rules |-> {}, folders |-> {}]

VARIABLES
    kind,     \* how the VM is made
    want,     \* the configuration
    stored,   \* the Terraform state
    known,    \* its adapters have what the configuration gave them (device,
              \* DNS settings, ...), not what netVboxToTf puts there
    vm,       \* the settings of the VM
    on,       \* the VM runs
    created,  \* the resource has an ID
    tainted,  \* its create failed after SetId: it is to be replaced
    stage,    \* what the running handler does next, "rest" when there is none
    result,   \* what the last apply reported; "none" once something changed
    loose,    \* history: what no handler is bound to bring in line, because it was
              \* taken out of the configuration, came with the OVA or the cloned VM,
              \* is left out by this kind of create, or was changed by the user
              \* where no refresh looks; and no command has set it since
    lost,     \* history: the state has a configuration that no handler has
              \* applied, because an update failed with the VM running
    trouble   \* edits, failures and changes by the user so far

vars == <<kind, want, stored, known, vm, on, created, tainted, stage, result,
          loose, lost, trouble>>

TypeOK ==
    /\ kind \in Kinds
    /\ want \in Configs
    /\ stored \in Configs
    /\ known \in BOOLEAN
    /\ vm \in Settings
    /\ on \in BOOLEAN
    /\ created \in BOOLEAN
    /\ tainted \in BOOLEAN
    /\ stage \in Stages
    /\ result \in {"none", "ok", "error"}
    /\ loose \in [settings : SUBSET (Unread \cup {"nics"}), rules : SUBSET Rules,
                  folders : SUBSET Folders]
    /\ lost \in BOOLEAN
    /\ trouble \in 0..MaxTrouble

Init ==
    /\ kind \in Kinds
    /\ want = Minimal
    /\ stored = Minimal
    /\ known = TRUE
    /\ vm = Fresh
    /\ on = FALSE
    /\ created = FALSE
    /\ tainted = FALSE
    /\ stage = "rest"
    /\ result = "none"
    /\ loose = Nothing
    /\ lost = FALSE
    /\ trouble = 0

Spend == trouble < MaxTrouble /\ trouble' = trouble + 1
Larger(a, b) == IF a > b THEN a ELSE b

\* resourceVMRead overwrites what it reads.  With a guest that reports its
\* adapters but not yet their addresses it leaves the adapters alone ("quiet").
Quiets == {quiet \in BOOLEAN : quiet => on /\ vm.nics > 0}
ReadBack(state, quiet) ==
    [state EXCEPT !.memory = Printed[vm.memory], !.boot = vm.boot,
                  !.nics = IF quiet THEN @ ELSE vm.nics,
                  !.rules = IF quiet THEN @ ELSE {}]
Known(quiet) == known /\ quiet
\* The plan after a refresh: an update when anything differs, a VM that does
\* not run included (status defaults to "running").  An adapter always has a
\* device in the configuration and never in what was read back.
NeedsUpdate(quiet) ==
    \/ ReadBack(stored, quiet) # want
    \/ want.nics > 0 /\ ~Known(quiet)
    \/ ~on

-----------------------------------------------------------------------------
(* Terraform *)

\* An apply that has to create or to update.
StartApply ==
    /\ stage = "rest"
    /\ \/ ~created /\ UNCHANGED <<stored, known>>
       \/ /\ created /\ ~tainted
          /\ \E quiet \in Quiets :
               /\ NeedsUpdate(quiet)
               /\ stored' = ReadBack(stored, quiet)
               /\ known' = Known(quiet)
    /\ stage' = "get"
    /\ result' = "none"
    /\ UNCHANGED <<kind, want, vm, on, created, tainted, loose, lost, trouble>>

\* A tainted resource is destroyed, and then created like a new one.
Replace ==
    /\ stage = "rest"
    /\ tainted
    /\ vm' = Fresh
    /\ loose' = Nothing
    /\ on' = FALSE /\ created' = FALSE /\ tainted' = FALSE /\ lost' = FALSE
    /\ result' = "none"
    /\ UNCHANGED <<kind, want, stored, known, stage, trouble>>

\* "No changes."
NoChanges ==
    /\ stage = "rest"
    /\ created /\ ~tainted
    /\ \E quiet \in Quiets :
         /\ ~NeedsUpdate(quiet)
         /\ stored' = ReadBack(stored, quiet)
         /\ known' = Known(quiet)
    /\ result' = "ok"
    /\ UNCHANGED <<kind, want, vm, on, created, tainted, stage, loose, lost, trouble>>

\* Mutant: what was powered off is started again before the error is returned.
AbortRestarts(left) ==
    /\ stage' = "rest"
    /\ result' = "error"
    /\ \/ created /\ stored' = want /\ known' = TRUE /\ vm' = left /\ UNCHANGED loose
       \/ ~created /\ vm' = Fresh /\ loose' = Nothing /\ UNCHANGED <<stored, known>>
    /\ lost' = (lost \/ (created /\ on))
    /\ on' = created
    /\ UNCHANGED <<kind, want, created, tainted>>

\* The handler returns an error and leaves the VM as it is by then.  After an
\* update the planned configuration is stored all the same; a failed create
\* stores nothing, and the next one starts from another VM.
Abort(left) ==
    /\ stage' = "rest"
    /\ result' = "error"
    /\ \/ created /\ stored' = want /\ known' = TRUE /\ vm' = left /\ UNCHANGED loose
       \/ ~created /\ vm' = Fresh /\ loose' = Nothing /\ UNCHANGED <<stored, known>>
    /\ lost' = (lost \/ (created /\ on))
    /\ UNCHANGED <<kind, want, on, created, tainted>>

\* A command fails for a reason of its own; of several rules or folders those
\* before it were added.
Fault == stage \in Failing /\ Spend
CommandFails ==
    /\ stage \in {"get", "modify", "firmware", "addrules", "addfolders", "chipset", "start"}
    /\ Fault
    /\ CASE stage = "addrules" ->
              \E some \in SUBSET (want.rules \ vm.rules) :
                  Abort([vm EXCEPT !.rules = @ \cup some])
         [] stage = "addfolders" ->
              \E some \in SUBSET (want.folders \ vm.folders) :
                  Abort([vm EXCEPT !.folders = @ \cup some])
         [] OTHER -> Abort(vm)

-----------------------------------------------------------------------------
(* The handler's stages *)

Proceed(next) ==
    /\ stage' = next
    /\ UNCHANGED <<kind, want, stored, known, on, created, tainted, result, lost, trouble>>

\* Update: getMachine.
GetMachine ==
    /\ stage = "get" /\ created
    /\ Proceed("off")
    /\ UNCHANGED <<vm, loose>>

\* Create: createvm, import or clonevm, and getMachine.  An imported VM and a
\* clone have settings of their own.
MakeMachine ==
    /\ stage = "get" /\ ~created
    /\ vm' \in IF kind = "image" THEN {Fresh} ELSE Sources
    /\ loose' = [settings |-> {a \in NonDefault : vm'[a] # Default}
                              \cup (IF vm'.nics > 0 THEN {"nics"} ELSE {})
                              \cup (IF kind = "image" THEN {} ELSE {"chipset"}),
                  rules |-> vm'.rules, folders |-> vm'.folders]
    /\ Proceed("modify")

\* controlvm poweroff; whether the VM ran and whether that worked is not looked at.
PowerOff ==
    /\ stage = "off"
    /\ on' = FALSE
    /\ stage' = "modify"
    /\ UNCHANGED <<kind, want, stored, known, vm, created, tainted, result, loose, lost, trouble>>

PowerOffFails ==
    /\ stage = "off"
    /\ Fault
    /\ stage' = "modify"
    /\ UNCHANGED <<kind, want, stored, known, vm, on, created, tainted, result, loose, lost>>

\* Mutant: the adapters are added to those the VM has.
ModifyAdds ==
    /\ stage = "modify"
    /\ ~on
    /\ vm' = [vm EXCEPT !.memory = want.memory, !.vram = want.vram,
                        !.nics = vm.nics + want.nics]
    /\ loose' = [loose EXCEPT !.settings = @ \ {"vram"}]
    /\ Proceed("firmware")

\* modifyVM sets adapters 1..n and leaves those beyond alone.
Modify ==
    /\ stage = "modify"
    /\ ~on
    /\ vm' = [vm EXCEPT !.memory = want.memory, !.vram = want.vram,
                        !.nics = Larger(vm.nics, want.nics)]
    /\ loose' = [loose EXCEPT !.settings =
                    @ \ (IF want.nics >= vm.nics THEN {"vram", "nics"} ELSE {"vram"})]
    /\ Proceed("firmware")

\* A running VM is locked.
ModifyRefused ==
    /\ stage = "modify"
    /\ on
    /\ Abort(vm)
    /\ UNCHANGED trouble

\* Mutant: a setting is made when it differs from the state, not from the default.
AppliedIfChanged(attr) ==
    IF want[attr] = stored[attr]
    THEN UNCHANGED <<vm, loose>>
    ELSE /\ vm' = [vm EXCEPT ![attr] = want[attr]]
         /\ loose' = [loose EXCEPT !.settings = @ \ {attr}]

\* Settings that are left alone when the default is wanted.
Applied(attr) ==
    IF want[attr] = Default
    THEN UNCHANGED <<vm, loose>>
    ELSE /\ vm' = [vm EXCEPT ![attr] = want[attr]]
         /\ loose' = [loose EXCEPT !.settings = @ \ {attr}]

Firmware ==
    /\ stage = "firmware"
    /\ Applied("firmware")
    /\ Proceed("delrules")

\* "modifyvm --natpf1 delete all" deletes the rule whose name is "all"; the
\* error it gives when there is none is ignored.
DeleteRules ==
    /\ stage = "delrules"
    /\ vm' = [vm EXCEPT !.rules = @ \ {"all"}]
    /\ Proceed("addrules")
    /\ UNCHANGED loose

\* Whatever becomes of it, its error is ignored.
DeleteRulesFails ==
    /\ stage = "delrules"
    /\ Fault
    /\ stage' = "addrules"
    /\ UNCHANGED <<kind, want, stored, known, vm, on, created, tainted, result, loose, lost>>

\* The rules are added in the order of the configuration; VirtualBox refuses a
\* name it has, and the handler gives up there.  Only an update then removes
\* shared folders.
AddRules ==
    /\ stage = "addrules"
    /\ want.rules \cap vm.rules = {}
    /\ vm' = [vm EXCEPT !.rules = @ \cup want.rules]
    /\ Proceed(IF created THEN "delfolders" ELSE "addfolders")
    /\ UNCHANGED loose

AddRulesRefused ==
    /\ stage = "addrules"
    /\ want.rules \cap vm.rules # {}
    /\ \E before \in SUBSET (want.rules \ vm.rules) :
         Abort([vm EXCEPT !.rules = @ \cup before])
    /\ UNCHANGED trouble

\* removeSharedFolders goes by the new configuration.
RemoveFolders ==
    /\ stage = "delfolders"
    /\ vm' = [vm EXCEPT !.folders = @ \ want.folders]
    /\ Proceed("addfolders")
    /\ UNCHANGED loose

\* Errors of "sharedfolder remove" are ignored; a folder may be left.
RemoveFoldersFails ==
    /\ stage = "delfolders"
    /\ Fault
    /\ \E some \in SUBSET (vm.folders \cap want.folders) :
         vm' = [vm EXCEPT !.folders = @ \ some]
    /\ stage' = "addfolders"
    /\ UNCHANGED <<kind, want, stored, known, on, created, tainted, result, loose, lost>>

\* The creates from an OVA and by a linked clone go on to start the VM.
AddFolders ==
    /\ stage = "addfolders"
    /\ want.folders \cap vm.folders = {}
    /\ vm' = [vm EXCEPT !.folders = @ \cup want.folders]
    /\ Proceed(IF created \/ kind = "image" THEN "chipset" ELSE "start")
    /\ UNCHANGED loose

\* A folder that could not be removed, or came with the VM, is refused like a rule.
AddFoldersRefused ==
    /\ stage = "addfolders"
    /\ want.folders \cap vm.folders # {}
    /\ \E before \in SUBSET (want.folders \ vm.folders) :
         Abort([vm EXCEPT !.folders = @ \cup before])
    /\ UNCHANGED trouble

Chipset ==
    /\ stage = "chipset"
    /\ Applied("chipset")
    /\ Proceed("start")

\* The VM is started whatever "status" says, and waited for.
Start ==
    /\ stage = "start"
    /\ on' = TRUE
    /\ lost' = FALSE
    /\ stage' = "read"
    /\ UNCHANGED <<kind, want, stored, known, vm, created, tainted, result, loose, trouble>>

\* Mutant: every attribute is read back, the ones that were left alone too.
FinalReadAll ==
    /\ stage = "read"
    /\ stored' = vm
    /\ known' = FALSE
    /\ created' = TRUE
    /\ stage' = "rest"
    /\ result' = "ok"
    /\ UNCHANGED <<kind, want, vm, on, tainted, loose, lost, trouble>>

\* SetId, and resourceVMRead.
FinalRead ==
    /\ stage = "read"
    /\ \E quiet \in Quiets :
         /\ stored' = ReadBack(want, quiet)
         /\ known' = quiet
    /\ created' = TRUE
    /\ stage' = "rest"
    /\ result' = "ok"
    /\ UNCHANGED <<kind, want, vm, on, tainted, loose, lost, trouble>>

\* getMachine fails there, or netVboxToTf does; the wait before it, or this read,
\* may have stored some of what it read.  SetId was called: after a create the
\* resource is tainted.
FinalReadFails ==
    /\ stage = "read"
    /\ Fault
    /\ \/ stored' \in {want, [want EXCEPT !.memory = Printed[vm.memory]]} /\ known' = TRUE
       \/ \E quiet \in Quiets : stored' = ReadBack(want, quiet) /\ known' = quiet
    /\ created' = TRUE
    /\ tainted' = ~created
    /\ stage' = "rest"
    /\ result' = "error"
    /\ UNCHANGED <<kind, want, vm, on, loose, lost>>

-----------------------------------------------------------------------------
(* The user *)

\* The configuration becomes c.  What it has no more stays loose in the VM.
Reconfigure(c) ==
    /\ c # want
    /\ want' = c
    /\ loose' = [settings |-> loose.settings
                    \cup {a \in NonDefault : c[a] = Default /\ want[a] # Default}
                    \cup (IF c.nics < want.nics THEN {"nics"} ELSE {}),
                  rules |-> loose.rules \cup (want.rules \ c.rules),
                  folders |-> loose.folders \cup (want.folders \ c.folders)]

\* One attribute of the configuration is edited between two applies.
Edit ==
    /\ stage = "rest"
    /\ Spend
    /\ \/ \E m \in Memories : Reconfigure([want EXCEPT !.memory = m])
       \/ \E a \in Unread, v \in Levels : Reconfigure([want EXCEPT ![a] = v])
       \/ \E n \in 0..MaxNics :
            Reconfigure([want EXCEPT !.nics = n, !.rules = IF n = 0 THEN {} ELSE @])
       \/ \E s \in SUBSET Rules : want.nics > 0 /\ Reconfigure([want EXCEPT !.rules = s])
       \/ \E s \in SUBSET Folders : Reconfigure([want EXCEPT !.folders = s])
       \/ \E b \in BOOLEAN : Reconfigure([want EXCEPT !.boot = b])
    /\ result' = "none"
    /\ UNCHANGED <<kind, stored, known, vm, on, created, tainted, stage, lost>>

\* Somebody changes the VM with other means, powers it off, or starts it after
\* an update that failed has left it off.
Drift ==
    /\ stage = "rest"
    /\ created
    /\ Spend
    /\ \/ /\ \E m \in Memories : vm' = [vm EXCEPT !.memory = m]
          /\ UNCHANGED <<on, loose, lost>>
       \/ /\ \E a \in Unread, v \in Levels :
               /\ vm' = [vm EXCEPT ![a] = v]
               /\ loose' = [loose EXCEPT !.settings = @ \cup {a}]
          /\ UNCHANGED <<on, lost>>
       \/ /\ on' = ~on
          /\ lost' = (lost \/ ~on)
          /\ UNCHANGED <<vm, loose>>
    /\ result' = "none"
    /\ UNCHANGED <<kind, want, stored, known, created, tainted, stage>>

Handler ==
    \/ GetMachine \/ MakeMachine \/ PowerOff \/ PowerOffFails
    \/ Modify \/ ModifyRefused \/ Firmware
    \/ DeleteRules \/ DeleteRulesFails \/ AddRules \/ AddRulesRefused
    \/ RemoveFolders \/ RemoveFoldersFails \/ AddFolders \/ AddFoldersRefused
    \/ Chipset \/ Start \/ FinalRead \/ FinalReadFails
Next == StartApply \/ Replace \/ NoChanges \/ CommandFails \/ Handler \/ Edit \/ Drift

Spec == Init /\ [][Next]_vars

-----------------------------------------------------------------------------
(* Properties *)

\* The VM has the settings of the configuration: all that it asks for, and but
\* for what is loose no other value, adapter, rule or folder.
AsConfigured ==
    /\ Printed[vm.memory] = Printed[want.memory]
    /\ \A a \in (Unread \cup {"nics"}) \ loose.settings : vm[a] = want[a]
    /\ vm.nics >= want.nics
    /\ want.rules \subseteq vm.rules /\ vm.rules \subseteq want.rules \cup loose.rules
    /\ want.folders \subseteq vm.folders /\ vm.folders \subseteq want.folders \cup loose.folders

\* When apply reports success, "no changes" included, the VM runs as configured:
\* after any number of failed updates, each of which stored the new configuration
\* before it was in effect, unless one failed with the VM running.  What may
\* differ is named by `loose`: above all what was taken out of the configuration,
\* although rules and folders are to be replaced, and what creating from an OVA or
\* by a linked clone leaves out.
OkMeansApplied == result = "ok" /\ ~lost => on /\ AsConfigured

\* After a success the next plan is empty, as the guides promise, exactly when
\* the configuration lists four boot devices, writes memory as it is printed, and
\* the VM has no adapter; otherwise it may be another update, with no end.
PlanSettles ==
    result = "ok" =>
        ((\A quiet \in Quiets : ~NeedsUpdate(quiet))
           <=> want.boot /\ Printed[want.memory] = want.memory /\ vm.nics = 0)

\* An update that failed leaves something a later apply sees (the VM is off), or
\* else it has done everything but read the VM back, so that what it stored does
\* not hide what is missing; updates that fail with the VM running are the
\* exception.  A create that failed after SetId is replaced.
FailedUpdateIsVisible ==
    result = "error" /\ created /\ ~lost =>
        \/ tainted
        \/ \A quiet \in Quiets : NeedsUpdate(quiet)
        \/ on /\ AsConfigured
=============================================================================
