--------------------------- MODULE HostonlyNetwork --------------------------
(***************************************************************************)
(* virtualbox_hostonly_network: one resource, and the two objects it       *)
(* stands for, a host-only interface and the DHCP server of its network.   *)
(*                                                                         *)
(* VirtualBox names an interface (vboxnet0, vboxnet1, ...; here by their   *)
(* numbers, the least free one) and that name is the ID.  Every attribute  *)
(* has a command of its own, any of them may fail, and an update that      *)
(* fails stores the planned attributes all the same.  What is read back    *)
(* are the addresses and whether there is a DHCP server; the server's own  *)
(* address and its range are not.                                          *)
(***************************************************************************)
EXTENDS Naturals

CONSTANTS
    Addresses,  \* IPv4 addresses (and netmasks)
    Addresses6, \* IPv6 addresses (and prefixes)
    Ranges,     \* lower and upper address of a DHCP server
    Faults,     \* what may go wrong in this instance
    MaxTrouble, \* bound: faults, user actions and edits, in all
    None

FaultKinds == {"list",    \* list hostonlyifs fails
               "make",    \* hostonlyif create, or reading its output, fails
               "ip",      \* hostonlyif ipconfig fails
               "dhcp",    \* dhcpserver add, modify or remove fails
               "remove",  \* hostonlyif remove fails
               "crash",   \* terraform is killed
               "user"}    \* somebody changes or removes the objects

ASSUME NoneAssumption == None \notin Nat \cup Addresses6 \cup Ranges
ASSUME ConstantsAssumption ==
    /\ Addresses # {}
    /\ MaxTrouble \in Nat
    /\ Faults \subseteq FaultKinds

Configs == [addr : Addresses, ip6 : Addresses6 \cup {None},
            dhcp : BOOLEAN, range : Ranges \cup {None}]
Interfaces == [addr : Addresses, ip6 : Addresses6 \cup {None}]
Servers == [addr : Addresses, range : Ranges]
ASSUME ObjectsAssumption == None \notin Interfaces \cup Servers

\* The names VirtualBox has to give: enough for an interface left behind at
\* every fault.
IfNames == 0..MaxTrouble

VARIABLES
    ifs,      \* ifs[n]: the interface vboxnet<n>, if there is one
    servers,  \* servers[n]: the DHCP server of its network
    id,       \* the stored ID
    stored,   \* the stored attributes
    tainted,  \* the resource is to be replaced
    want,     \* the configuration
    wanted,   \* the configuration has the resource
    step,     \* where the running operation is
    handle,   \* the interface it works on
    result,   \* what the last operation reported
    touched,  \* a user changed something since the last operation began
    reported, \* interfaces that creates left behind when they failed
    trouble   \* faults, user actions and edits so far

vars == <<ifs, servers, id, stored, tainted, want, wanted, step, handle, result,
          touched, reported, trouble>>

Steps == {"rest", "read", "make", "ip", "ip6", "dhcp", "check", "rmdhcp", "rmif"}
Troubles == 0..MaxTrouble

TypeOK ==
    /\ ifs \in [IfNames -> Interfaces \cup {None}]
    /\ servers \in [IfNames -> Servers \cup {None}]
    /\ id \in IfNames \cup {None}
    /\ stored \in Configs
    /\ tainted \in BOOLEAN
    /\ want \in Configs
    /\ wanted \in BOOLEAN
    /\ step \in Steps
    /\ handle \in IfNames \cup {None}
    /\ result \in {"none", "ok", "error"}
    /\ touched \in BOOLEAN
    /\ reported \subseteq IfNames
    /\ trouble \in Troubles

Init ==
    /\ ifs = [n \in IfNames |-> None]
    /\ servers = [n \in IfNames |-> None]
    /\ id = None
    /\ want \in Configs
    /\ stored = want
    /\ tainted = FALSE
    /\ wanted = TRUE
    /\ step = "rest"
    /\ handle = None
    /\ result = "none"
    /\ touched = FALSE
    /\ reported = {}
    /\ trouble = 0

host == <<ifs, servers>>
tfstate == <<id, stored, tainted>>
config == <<want, wanted>>
history == <<touched, reported>>

Spend == trouble < MaxTrouble /\ trouble' = trouble + 1
Strike(f) == f \in Faults /\ Spend
Goto(s) == step' = s
Return(res) == step' = "rest" /\ handle' = None /\ result' = res
\* SetId comes after the last command of a create.
Creating == id = None

-----------------------------------------------------------------------------
(* Terraform, and resourceHostonlyNetworkRead before a plan *)

StartApply ==
    /\ step = "rest"
    /\ \/ id # None /\ Goto("read")
       \/ id = None /\ wanted /\ Goto("make")
    /\ result' = "none"
    /\ touched' = FALSE
    /\ UNCHANGED <<host, tfstate, config, handle, reported, trouble>>

\* Mutant: whether there is a DHCP server is not read back.
ReadBackNoDHCP(n, state) ==
    [state EXCEPT !.addr = ifs[n].addr,
                  !.ip6 = IF ifs[n].ip6 = None THEN @ ELSE ifs[n].ip6]

\* What resourceHostonlyNetworkRead stores over the state.
ReadBack(n, state) ==
    [state EXCEPT !.addr = ifs[n].addr,
                  !.ip6 = IF ifs[n].ip6 = None THEN @ ELSE ifs[n].ip6,
                  !.dhcp = servers[n] # None]

\* Mutant: a destroy goes by the configuration, not by the state.
DestroyByConfig(state) == IF want.dhcp THEN "rmdhcp" ELSE "rmif"

\* resourceHostonlyNetworkDelete goes by the state.
Destroy(state) == IF state.dhcp THEN "rmdhcp" ELSE "rmif"

Read ==
    /\ step = "read"
    /\ ifs[id] # None
    /\ stored' = ReadBack(id, stored)
    /\ \/ /\ tainted \/ ~wanted
          /\ Goto(Destroy(stored'))
          /\ handle' = id
          /\ UNCHANGED result
       \/ /\ ~tainted /\ wanted /\ stored' # want
          /\ Goto("ip")
          /\ handle' = id
          /\ UNCHANGED result
       \/ ~tainted /\ wanted /\ stored' = want /\ Return("ok")
    /\ UNCHANGED <<host, id, tainted, config, history, trouble>>

ReadGone ==
    /\ step = "read"
    /\ ifs[id] = None
    /\ id' = None
    /\ tainted' = FALSE
    /\ IF wanted THEN Goto("make") /\ UNCHANGED <<handle, result>> ELSE Return("ok")
    /\ UNCHANGED <<host, stored, config, history, trouble>>

\* Mutant: any error of the list drops the resource, as for a snapshot.
ReadFailsForget ==
    /\ step = "read"
    /\ Strike("list")
    /\ Return("error")
    /\ id' = None
    /\ UNCHANGED <<host, stored, tainted, config, history>>

ReadFails ==
    /\ step = "read"
    /\ Strike("list")
    /\ Return("error")
    /\ UNCHANGED <<host, tfstate, config, history>>

-----------------------------------------------------------------------------
(* resourceHostonlyNetworkCreate and resourceHostonlyNetworkUpdate *)

\* A handler returns an error: a create stores nothing, an update what it
\* has planned.
Fails ==
    /\ Return("error")
    /\ IF Creating THEN reported' = reported \cup ({handle} \ {None}) /\ UNCHANGED stored
                   ELSE stored' = want /\ UNCHANGED reported
    /\ UNCHANGED <<id, tainted, touched>>

Free == {n \in IfNames : ifs[n] = None /\ \A m \in IfNames : m < n => ifs[m] # None}
NewInterface(n) ==
    \E a \in Addresses : ifs' = [ifs EXCEPT ![n] = [addr |-> a, ip6 |-> None]]

Make ==
    /\ step = "make"
    /\ \E n \in Free : NewInterface(n) /\ handle' = n
    /\ Goto("ip")
    /\ UNCHANGED <<servers, tfstate, config, result, history, trouble>>

\* The command fails, or makes an interface whose name is not understood.
MakeFails ==
    /\ step = "make"
    /\ \/ Free = {} /\ UNCHANGED <<ifs, reported, trouble>>
       \/ Strike("make") /\ UNCHANGED <<ifs, reported>>
       \/ Strike("make") /\ \E n \in Free : NewInterface(n) /\ reported' = reported \cup {n}
    /\ Return("error")
    /\ UNCHANGED <<servers, tfstate, config, touched>>

Changed(attr) == Creating \/ stored[attr] # want[attr]

\* One command of a handler, and the step after it.
Command(next) ==
    /\ Goto(next)
    /\ UNCHANGED <<tfstate, config, handle, result, history, trouble>>
CommandFails(f, refused) ==
    /\ \/ refused /\ UNCHANGED trouble
       \/ Strike(f)
    /\ Fails
    /\ UNCHANGED <<host, config>>

SetsIP == Changed("addr")
SetIP ==
    /\ step = "ip"
    /\ SetsIP => ifs[handle] # None
    /\ ifs' = IF SetsIP THEN [ifs EXCEPT ![handle].addr = want.addr] ELSE ifs
    /\ UNCHANGED servers
    /\ Command("ip6")
SetIPFails == step = "ip" /\ SetsIP /\ CommandFails("ip", ifs[handle] = None)

\* An IPv6 address that is taken out of the configuration stays.
SetsIP6 == Changed("ip6") /\ want.ip6 # None
SetIP6 ==
    /\ step = "ip6"
    /\ SetsIP6 => ifs[handle] # None
    /\ ifs' = IF SetsIP6 THEN [ifs EXCEPT ![handle].ip6 = want.ip6] ELSE ifs
    /\ UNCHANGED servers
    /\ Command("dhcp")
SetIP6Fails == step = "ip6" /\ SetsIP6 /\ CommandFails("ip", ifs[handle] = None)

\* Mutant: a server is added or modified, never removed.
DHCPCommandKeeps ==
    CASE ~ (Changed("dhcp") \/ Changed("range")) \/ ~want.dhcp -> "none"
      [] OTHER -> IF Creating \/ ~stored.dhcp THEN "add" ELSE "modify"

\* Which dhcpserver command the handler runs; it goes by what the state says.
DHCPCommand ==
    CASE ~ (Changed("dhcp") \/ Changed("range")) -> "none"
      [] want.dhcp /\ (Creating \/ ~stored.dhcp) -> "add"
      [] want.dhcp /\ ~Creating /\ stored.dhcp -> "modify"
      [] ~want.dhcp /\ ~Creating /\ stored.dhcp -> "remove"
      [] OTHER -> "none"
\* Mutant: a server is added with no range.
RefusedByHost(command) ==
    \/ command = "add" /\ servers[handle] # None
    \/ command \in {"modify", "remove"} /\ servers[handle] = None

\* VirtualBox has at most one server for an interface; the provider asks for a
\* range, here, after the interface has been made.
Refused(command) ==
    \/ command \in {"add", "modify"} /\ want.range = None
    \/ command = "add" /\ servers[handle] # None
    \/ command \in {"modify", "remove"} /\ servers[handle] = None
SetDHCP ==
    /\ step = "dhcp"
    /\ ~Refused(DHCPCommand)
    /\ servers' = CASE DHCPCommand = "none" -> servers
                    [] DHCPCommand = "remove" -> [servers EXCEPT ![handle] = None]
                    [] OTHER -> [servers EXCEPT ![handle] =
                                   [addr |-> want.addr, range |-> want.range]]
    /\ UNCHANGED ifs
    /\ Command("check")
SetDHCPFails ==
    /\ step = "dhcp"
    /\ DHCPCommand # "none"
    /\ CommandFails("dhcp", Refused(DHCPCommand))

\* SetId in a create, and the read at the end.
Check ==
    /\ step = "check"
    /\ ifs[handle] # None
    /\ id' = handle
    /\ stored' = ReadBack(handle, want)
    /\ Return("ok")
    /\ UNCHANGED <<host, tainted, config, history, trouble>>

\* The read clears the ID: "root object was present, but now absent".
CheckGone ==
    /\ step = "check"
    /\ ifs[handle] = None
    /\ id' = None
    /\ tainted' = FALSE
    /\ Return("error")
    /\ UNCHANGED <<host, stored, config, history, trouble>>

\* The read fails: a new resource is stored as tainted.
CheckFails ==
    /\ step = "check"
    /\ Strike("list")
    /\ id' = handle
    /\ stored' = want
    /\ tainted' = Creating
    /\ Return("error")
    /\ UNCHANGED <<host, config, history>>

-----------------------------------------------------------------------------
(* resourceHostonlyNetworkDelete *)

RemoveDHCP ==
    /\ step = "rmdhcp"
    /\ ~Refused("remove")
    /\ servers' = [servers EXCEPT ![handle] = None]
    /\ Goto("rmif")
    /\ UNCHANGED <<ifs, tfstate, config, handle, result, history, trouble>>

RemoveInterface ==
    /\ step = "rmif"
    /\ ifs[handle] # None
    /\ ifs' = [ifs EXCEPT ![handle] = None]
    /\ id' = None
    /\ tainted' = FALSE
    /\ handle' = None
    /\ IF wanted THEN Goto("make") /\ UNCHANGED result
                 ELSE Goto("rest") /\ result' = "ok"
    /\ UNCHANGED <<servers, stored, config, history, trouble>>

\* Mutant: a delete that fails clears the ID.
DeleteFailsForget ==
    /\ \/ step = "rmdhcp" /\ Refused("remove") /\ UNCHANGED trouble
       \/ step = "rmdhcp" /\ Strike("dhcp")
       \/ step = "rmif" /\ ifs[handle] = None /\ UNCHANGED trouble
       \/ step = "rmif" /\ Strike("remove")
    /\ Return("error")
    /\ id' = None
    /\ UNCHANGED <<host, stored, tainted, config, history>>

\* What was removed before stays removed; the state stays as it was.
DeleteFails ==
    /\ \/ step = "rmdhcp" /\ Refused("remove") /\ UNCHANGED trouble
       \/ step = "rmdhcp" /\ Strike("dhcp")
       \/ step = "rmif" /\ ifs[handle] = None /\ UNCHANGED trouble
       \/ step = "rmif" /\ Strike("remove")
    /\ Return("error")
    /\ UNCHANGED <<host, tfstate, config, history>>

-----------------------------------------------------------------------------
(* Users and crashes *)

EditConfig ==
    /\ step = "rest"
    /\ Spend
    /\ \/ want' \in Configs \ {want} /\ UNCHANGED wanted
       \/ wanted' = ~wanted /\ UNCHANGED want
    /\ result' = "none"
    /\ UNCHANGED <<host, tfstate, step, handle, history>>

\* An interface is given another address or removed, with its DHCP server or
\* without; or the server is removed.
UserChanges ==
    /\ Strike("user")
    /\ \E n \in IfNames :
         \/ /\ ifs[n] # None
            /\ \E a \in Addresses \ {ifs[n].addr} : ifs' = [ifs EXCEPT ![n].addr = a]
            /\ UNCHANGED servers
         \/ /\ ifs[n] # None
            /\ ifs' = [ifs EXCEPT ![n] = None]
            /\ servers' \in {servers, [servers EXCEPT ![n] = None]}
         \/ /\ servers[n] # None
            /\ servers' = [servers EXCEPT ![n] = None]
            /\ UNCHANGED ifs
    /\ touched' = TRUE
    /\ UNCHANGED <<tfstate, config, step, handle, result, reported>>

Crash ==
    /\ Strike("crash")
    /\ step # "rest"
    /\ step' = "rest"
    /\ handle' = None
    /\ result' = "error"
    /\ reported' = IF Creating THEN reported \cup ({handle} \ {None}) ELSE reported
    /\ UNCHANGED <<host, tfstate, config, touched>>

Refresh == Read \/ ReadGone \/ ReadFails
CreateOrUpdate ==
    \/ Make \/ MakeFails \/ SetIP \/ SetIPFails \/ SetIP6 \/ SetIP6Fails
    \/ SetDHCP \/ SetDHCPFails \/ Check \/ CheckGone \/ CheckFails
Delete == RemoveDHCP \/ RemoveInterface \/ DeleteFails
Handler == Refresh \/ CreateOrUpdate \/ Delete
Next == StartApply \/ Handler \/ EditConfig \/ UserChanges \/ Crash

Spec == Init /\ [][Next]_vars

\* A handler runs on, and apply is run again as long as it is needed.
FairSpec == Spec /\ WF_vars(Handler) /\ WF_vars(StartApply)

-----------------------------------------------------------------------------
(* Properties *)

\* What is read back when it is unset too: an IPv6 address, a server's own
\* address or its range that an update failed to set is not missed any more.
AddressAsConfigured == id # None /\ ifs[id] # None /\ ifs[id].addr = want.addr
AsConfigured == AddressAsConfigured /\ (servers[id] # None <=> want.dhcp)

\* When apply reports success, both objects are as configured, although earlier
\* updates stopped half way and stored what they had not done; only a server
\* that a user left behind is found under a new interface of the same name, and
\* then the state says so.
OkMeansConfigured ==
    result = "ok" /\ wanted /\ ~touched =>
        \/ AsConfigured
        \/ AddressAsConfigured /\ stored.dhcp /\ servers[id] # None

\* An interface is in the state, in the hands of a handler, or was left behind
\* by a create that returned an error or was killed.
NoSilentLeak == \A n \in IfNames : ifs[n] # None => n \in {id, handle} \cup reported

\* Repeated applies end with what is configured, or with nothing at all when the
\* resource is taken out of the configuration: an update or a destroy that
\* failed half way can always be taken up again.  The exceptions are a server
\* without a range, which is refused only once an interface has been made, and
\* what it leads to: every apply leaves an interface behind until VirtualBox has
\* no name for another.
Converges ==
    <>[]IF wanted THEN AsConfigured \/ (want.dhcp /\ want.range = None) \/ Free = {}
                  ELSE id = None

\* The contract of a managed resource, for interfaces by their names, which
\* VirtualBox gives again: a create never takes over what an earlier one left.
Contract == INSTANCE ManagedResource WITH
    Resources <- {"it"},
    Others <- "others",
    MayLapse <- {},
    made <- [m \in {"it", "others"} |-> IF m = "it" THEN {n \in IfNames : ifs[n] # None} ELSE {}],
    known <- [r \in {"it"} |-> {id} \ {None}],
    making <- [r \in {"it"} |-> id = None /\ handle # None]
KeepsContract == Contract!Spec
=============================================================================
