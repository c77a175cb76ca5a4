----------------------------- MODULE NATNetwork -----------------------------
(***************************************************************************)
(* virtualbox_nat_network: one resource, its NAT network and the port      *)
(* forwarding rules of that network.                                       *)
(*                                                                         *)
(* A create is "natnetwork add" and one command per rule; an update        *)
(* modifies the attributes, deletes by name the rules of the state, and    *)
(* adds those of the configuration.  "natnetwork list" is the only way to  *)
(* see what became of it, and the parser keeps only the rules whose line   *)
(* has ":udp:" in it: the test for ":tcp:" also asks for leading blanks,   *)
(* which the line has been stripped of.  When no rule is found the stored  *)
(* list is left as it was.                                                 *)
(*                                                                         *)
(* CIDR, DHCP, IPv6 and enabled are treated alike, and are one value here. *)
(***************************************************************************)
EXTENDS Naturals

CONSTANTS
    Attributes, \* what the attributes but the rules may be set to
    Rules,      \* port forwarding rules
    RuleNames,
    NameOf,     \* NameOf[rule]
    Readable,   \* the rules a refresh finds: those of protocol udp
    Lists,      \* the lists of rules a configuration may have
    Faults,     \* what may go wrong in this instance
    MaxTrouble, \* bound: faults, user actions and edits, in all
    None

FaultKinds == {"list",     \* natnetwork list fails
               "add",      \* natnetwork add fails
               "modify",   \* natnetwork modify of the attributes fails
               "rule",     \* adding a rule fails
               "unrule",   \* deleting a rule fails
               "remove",   \* natnetwork remove fails
               "crash",    \* terraform is killed
               "user",     \* somebody changes the network
               "userremove"} \* somebody removes it

ASSUME RulesAssumption ==
    /\ NameOf \in [Rules -> RuleNames]
    /\ Readable \subseteq Rules
    /\ Lists \subseteq SUBSET Rules
ASSUME BoundsAssumption ==
    /\ MaxTrouble \in Nat
    /\ Faults \subseteq FaultKinds

Configs == [attrs : Attributes, rules : Lists]
Networks == [attrs : Attributes, rules : SUBSET Rules]
ASSUME NoneAssumption == None \notin Networks

VARIABLES
    net,      \* the network of the resource's name, if there is one
    stored,   \* the stored attributes, if the resource is in the state
    tainted,  \* the resource is to be replaced
    want,     \* the configuration
    wanted,   \* the configuration has the resource
    step,     \* where the running operation is
    todo,     \* the rules it still has to delete or to add
    result,   \* what the last operation reported
    touched,  \* a user changed something since the last operation began
    unseen,   \* rules were changed, or left unchanged, behind the state's back
    trouble   \* faults, user actions and edits so far

vars == <<net, stored, tainted, want, wanted, step, todo, result, touched,
          unseen, trouble>>

Steps == {"rest", "read", "add", "modify", "drop", "rules", "check", "remove"}
Troubles == 0..MaxTrouble

TypeOK ==
    /\ net \in Networks \cup {None}
    /\ stored \in Networks \cup {None}
    /\ tainted \in BOOLEAN
    /\ want \in Configs
    /\ wanted \in BOOLEAN
    /\ step \in Steps
    /\ todo \subseteq Rules
    /\ result \in {"none", "ok", "error"}
    /\ touched \in BOOLEAN
    /\ unseen \in BOOLEAN
    /\ trouble \in Troubles
    /\ todo # {} => step \in {"drop", "rules"}
    /\ tainted => stored # None

Init ==
    /\ net = None
    /\ stored = None
    /\ tainted = FALSE
    /\ want \in Configs
    /\ wanted = TRUE
    /\ step = "rest"
    /\ todo = {}
    /\ result = "none"
    /\ touched = FALSE
    /\ unseen = FALSE
    /\ trouble = 0

tfstate == <<stored, tainted>>
config == <<want, wanted>>
history == <<touched, unseen>>

Spend == trouble < MaxTrouble /\ trouble' = trouble + 1
Strike(f) == f \in Faults /\ Spend
Goto(s) == step' = s
Return(res) == step' = "rest" /\ todo' = {} /\ result' = res
\* SetId comes after the last command of a create.
Creating == stored = None
ChangesRules == Creating \/ stored.rules # want.rules

-----------------------------------------------------------------------------
(* Terraform, and resourceNATNetworkRead before a plan *)

StartApply ==
    /\ step = "rest"
    /\ \/ ~Creating /\ Goto("read")
       \/ Creating /\ wanted /\ Goto("add")
    /\ result' = "none"
    /\ touched' = FALSE
    /\ UNCHANGED <<net, tfstate, config, todo, unseen, trouble>>

\* Mutant: the attributes are not read back.
ReadBackRules(state) ==
    IF net = None THEN state
    ELSE [state EXCEPT !.rules = IF net.rules \cap Readable = {} THEN @
                                 ELSE net.rules \cap Readable]

\* What parseNATNetworkList stores over the state; of a network that is not
\* there "natnetwork list" may print nothing, and then nothing is stored.
\* Rules are a set here: a difference of order alone is not a difference.
ReadBack(state) ==
    IF net = None THEN state
    ELSE [attrs |-> net.attrs,
          rules |-> IF net.rules \cap Readable = {} THEN state.rules
                    ELSE net.rules \cap Readable]

Read ==
    /\ step = "read"
    /\ stored' = ReadBack(stored)
    /\ \/ (tainted \/ ~wanted) /\ Goto("remove") /\ UNCHANGED <<todo, result>>
       \/ ~tainted /\ wanted /\ stored' # want /\ Goto("modify") /\ UNCHANGED <<todo, result>>
       \/ ~tainted /\ wanted /\ stored' = want /\ Return("ok")
    /\ UNCHANGED <<net, tainted, config, history, trouble>>

\* For a network that is not there it may also fail: the error is "exit status
\* 1" and stdout has no "does not exist", so that the resource is not dropped.
ReadFails ==
    /\ step = "read"
    /\ \/ net = None /\ UNCHANGED trouble
       \/ Strike("list")
    /\ Return("error")
    /\ UNCHANGED <<net, tfstate, config, history>>

-----------------------------------------------------------------------------
(* resourceNATNetworkCreate, resourceNATNetworkUpdate, addPortForwardingRules *)

\* A handler returns an error: a create stores nothing, an update what it had
\* planned, rules included that it did not get to.
Fails ==
    /\ Return("error")
    /\ stored' = IF Creating THEN None ELSE want
    /\ unseen' = (unseen \/ (~Creating /\ ChangesRules))
    /\ UNCHANGED <<tainted, config, touched>>

Add ==
    /\ step = "add"
    /\ net = None
    /\ net' = [attrs |-> want.attrs, rules |-> {}]
    /\ todo' = want.rules
    /\ Goto("rules")
    /\ UNCHANGED <<tfstate, config, result, history, trouble>>

\* A create that failed has left a network of this name.
AddFails ==
    /\ step = "add"
    /\ \/ net # None /\ UNCHANGED trouble
       \/ Strike("add")
    /\ Fails
    /\ UNCHANGED net

\* The old rules are those of the state.
Modify ==
    /\ step = "modify"
    /\ stored.attrs # want.attrs => net # None
    /\ net' = IF stored.attrs # want.attrs THEN [net EXCEPT !.attrs = want.attrs] ELSE net
    /\ IF ChangesRules THEN todo' = stored.rules /\ Goto("drop") /\ unseen' = TRUE
                       ELSE Goto("check") /\ UNCHANGED <<todo, unseen>>
    /\ UNCHANGED <<tfstate, config, result, touched, trouble>>

ModifyFails ==
    /\ step = "modify"
    /\ stored.attrs # want.attrs
    /\ \/ net = None /\ UNCHANGED trouble
       \/ Strike("modify")
    /\ Fails
    /\ UNCHANGED net

Named(rule) == {other \in net.rules : NameOf[other] = NameOf[rule]}

\* Deleting goes by the name; an error, of a rule that is not there too, is
\* logged and forgotten.
DropRule ==
    /\ step = "drop"
    /\ \E rule \in todo :
         /\ todo' = todo \ {rule}
         /\ net' = IF net = None THEN None
                   ELSE [net EXCEPT !.rules = @ \ Named(rule)]
    /\ UNCHANGED <<tfstate, config, step, result, history, trouble>>

DropRuleFails ==
    /\ step = "drop"
    /\ Strike("unrule")
    /\ \E rule \in todo : todo' = todo \ {rule}
    /\ UNCHANGED <<net, tfstate, config, step, result, history>>

DropDone ==
    /\ step = "drop"
    /\ todo = {}
    /\ todo' = want.rules
    /\ Goto("rules")
    /\ UNCHANGED <<net, tfstate, config, result, history, trouble>>

\* Mutant: a rule whose name is taken is passed over.
Accepted(rule) == net # None

\* VirtualBox refuses a rule whose name it has.
Acceptable(rule) == net # None /\ Named(rule) = {}

AddRule ==
    /\ step = "rules"
    /\ \E rule \in todo :
         /\ Acceptable(rule)
         /\ todo' = todo \ {rule}
         /\ net' = [net EXCEPT !.rules =
                      IF Named(rule) = {} THEN @ \cup {rule} ELSE @]
    /\ UNCHANGED <<tfstate, config, step, result, history, trouble>>

AddRuleFails ==
    /\ step = "rules"
    /\ \E rule \in todo : \/ ~Acceptable(rule) /\ UNCHANGED trouble
                          \/ Strike("rule")
    /\ Fails
    /\ UNCHANGED net

RulesDone ==
    /\ step = "rules"
    /\ todo = {}
    /\ Goto("check")
    /\ UNCHANGED <<net, tfstate, config, todo, result, history, trouble>>

\* SetId in a create, and the read at the end.
Seen == unseen' = IF ChangesRules THEN touched ELSE unseen
Check ==
    /\ step = "check"
    /\ stored' = ReadBack(want)
    /\ Seen
    /\ Return("ok")
    /\ UNCHANGED <<net, tainted, config, touched, trouble>>

\* The read fails: a new resource is stored as tainted.
CheckFails ==
    /\ step = "check"
    /\ \/ net = None /\ UNCHANGED trouble
       \/ Strike("list")
    /\ stored' = want
    /\ tainted' = Creating
    /\ Seen
    /\ Return("error")
    /\ UNCHANGED <<net, config, touched>>

-----------------------------------------------------------------------------
(* resourceNATNetworkDelete *)

\* Mutant: what is made again is still to be replaced.
RemoveKeepsTaint ==
    /\ step = "remove"
    /\ net # None
    /\ net' = None
    /\ stored' = None
    /\ IF wanted THEN Goto("add") /\ UNCHANGED <<todo, result>> ELSE Return("ok")
    /\ UNCHANGED <<tainted, config, history, trouble>>

Remove ==
    /\ step = "remove"
    /\ net # None
    /\ net' = None
    /\ stored' = None
    /\ tainted' = FALSE
    /\ IF wanted THEN Goto("add") /\ UNCHANGED <<todo, result>> ELSE Return("ok")
    /\ UNCHANGED <<config, history, trouble>>

\* Mutant: an error of the command is taken for "already gone".
RemoveFailsForget ==
    /\ step = "remove"
    /\ \/ net = None /\ UNCHANGED trouble
       \/ Strike("remove")
    /\ stored' = None
    /\ Return("error")
    /\ UNCHANGED <<net, tainted, config, history>>

\* The network stays in the state, gone or not.
RemoveFails ==
    /\ step = "remove"
    /\ \/ net = None /\ UNCHANGED trouble
       \/ Strike("remove")
    /\ Return("error")
    /\ UNCHANGED <<net, tfstate, config, history>>

-----------------------------------------------------------------------------
(* Users and crashes *)

EditConfig ==
    /\ step = "rest"
    /\ Spend
    /\ \/ want' \in Configs \ {want} /\ UNCHANGED wanted
       \/ wanted' = ~wanted /\ UNCHANGED want
    /\ result' = "none"
    /\ UNCHANGED <<net, tfstate, step, todo, history>>

UserChanges ==
    /\ Strike("user")
    /\ net # None
    /\ \/ /\ \E a \in Attributes \ {net.attrs} : net' = [net EXCEPT !.attrs = a]
          /\ UNCHANGED unseen
       \/ /\ \E rule \in net.rules : net' = [net EXCEPT !.rules = @ \ {rule}]
          /\ unseen' = TRUE
    /\ touched' = TRUE
    /\ UNCHANGED <<tfstate, config, step, todo, result>>

UserRemoves ==
    /\ Strike("userremove")
    /\ net # None
    /\ net' = None
    /\ touched' = TRUE
    /\ unseen' = TRUE
    /\ UNCHANGED <<tfstate, config, step, todo, result>>

\* terraform is killed: nothing is stored, the network is as it is.
Crash ==
    /\ Strike("crash")
    /\ step # "rest"
    /\ Return("error")
    /\ UNCHANGED <<net, tfstate, config, history>>

Refresh == Read \/ ReadFails
CreateOrUpdate ==
    \/ Add \/ AddFails \/ Modify \/ ModifyFails \/ DropRule \/ DropRuleFails \/ DropDone
    \/ AddRule \/ AddRuleFails \/ RulesDone \/ Check \/ CheckFails
Delete == Remove \/ RemoveFails
Handler == Refresh \/ CreateOrUpdate \/ Delete
Next == StartApply \/ Handler \/ EditConfig \/ UserChanges \/ UserRemoves \/ Crash

Spec == Init /\ [][Next]_vars

\* A handler runs on, and apply is run again as long as it is needed.
FairSpec == Spec /\ WF_vars(Handler) /\ WF_vars(StartApply)

-----------------------------------------------------------------------------
(* Properties *)

\* When apply reports success, the network, if it is there, has the attributes
\* of the configuration, and all its rules unless an update or a user changed
\* the rules behind the state's back: of a tcp rule the state never learns, and
\* of a udp rule only as long as there is another one.
OkMeansConfigured ==
    result = "ok" /\ wanted /\ ~touched /\ net # None =>
        /\ net.attrs = want.attrs
        /\ unseen \/ want.rules \subseteq net.rules

\* Repeated applies end with the attributes of the configuration, or without
\* the network, however updates failed.  The exceptions are a network that
\* somebody removed, which the state never drops, and one that a failed create
\* left, which the next create meets.
Converges ==
    <>[]IF wanted THEN \/ net # None /\ net.attrs = want.attrs
                       \/ net = None /\ stored # None
                       \/ net # None /\ stored = None
                  ELSE stored = None \/ net = None

\* The contract of a managed resource, for the network of the configured name:
\* a create does not take over one that is there, and the state never drops one.
Contract == INSTANCE ManagedResource WITH
    Resources <- {"it"},
    Others <- "others",
    MayLapse <- {},
    made <- [m \in {"it", "others"} |-> IF m = "it" /\ net # None THEN {"net"} ELSE {}],
    known <- [r \in {"it"} |-> IF Creating THEN {} ELSE {"net"}],
    making <- [r \in {"it"} |-> Creating /\ step \in {"rules", "check"}]
KeepsContract == Contract!Spec
=============================================================================
