----------------------- MODULE HostonlyNetworkProofs ------------------------
(***************************************************************************)
(* Theorems about HostonlyNetwork, for any addresses, ranges and faults,   *)
(* and any number of interfaces.                                           *)
(***************************************************************************)
EXTENDS HostonlyNetwork, TLAPS

-----------------------------------------------------------------------------
(* Types *)

\* What an operation works on: an update or a destroy on the interface in the
\* state, a create on one that is not there yet.
Flow ==
    /\ step = "read" => id # None
    /\ step \in {"rest", "read", "make"} => handle = None
    /\ step = "make" => id = None
    /\ step \in {"ip", "ip6", "dhcp", "check"} => handle # None /\ id \in {None, handle}
    /\ step \in {"rmdhcp", "rmif"} => id # None /\ handle = id

\* Faults are counted up to the bound.
LEMMA SpendType ==
    ASSUME trouble \in Troubles, Spend PROVE trouble' \in Troubles
BY ConstantsAssumption DEF Spend, Troubles

\* A name is not None.
LEMMA NameType == None \notin IfNames
BY NoneAssumption DEF IfNames

\* An interface or a server that is there has its fields.
LEMMA ObjectType ==
    ASSUME TypeOK, NEW n \in IfNames
    PROVE  /\ ifs[n] # None => ifs[n] \in Interfaces
           /\ servers[n] # None => servers[n] \in Servers
BY DEF TypeOK

\* What is read back: the address, and whether there is a server.
LEMMA ReadBackFields ==
    ASSUME TypeOK, NEW n \in IfNames, ifs[n] # None, NEW state \in Configs
    PROVE  /\ ReadBack(n, state) \in Configs
           /\ ReadBack(n, state).addr = ifs[n].addr
           /\ ReadBack(n, state).dhcp <=> servers[n] # None
<1>1. ifs[n].addr \in Addresses /\ ifs[n].ip6 \in Addresses6 \cup {None}
  BY ObjectType DEF Interfaces
<1>2. (servers[n] # None) \in BOOLEAN
  OBVIOUS
<1> QED
  BY <1>1, <1>2 DEF ReadBack, Configs

\* The commands give an interface and a server their types.
LEMMA CommandTypes ==
    ASSUME TypeOK, NEW n \in IfNames
    PROVE  /\ NewInterface(n) => ifs' \in [IfNames -> Interfaces \cup {None}]
           /\ \A a \in Addresses : ifs[n] # None =>
                [ifs EXCEPT ![n].addr = a] \in [IfNames -> Interfaces \cup {None}]
           /\ \A a \in Addresses6 : ifs[n] # None =>
                [ifs EXCEPT ![n].ip6 = a] \in [IfNames -> Interfaces \cup {None}]
           /\ \A s \in Servers \cup {None} :
                [servers EXCEPT ![n] = s] \in [IfNames -> Servers \cup {None}]
<1>1. ASSUME NEW a \in Addresses PROVE [addr |-> a, ip6 |-> None] \in Interfaces
  BY DEF Interfaces
<1>2. ASSUME ifs[n] # None, NEW a \in Addresses PROVE [ifs[n] EXCEPT !.addr = a] \in Interfaces
  BY <1>2, ObjectType DEF Interfaces
<1>3. ASSUME ifs[n] # None, NEW a \in Addresses6 PROVE [ifs[n] EXCEPT !.ip6 = a] \in Interfaces
  BY <1>3, ObjectType DEF Interfaces
<1> QED
  BY <1>1, <1>2, <1>3 DEF TypeOK, NewInterface

\* Every action keeps the type of every variable.
LEMMA TypeInductive == TypeOK /\ Flow /\ [Next]_vars => TypeOK'
<1> SUFFICES ASSUME TypeOK, Flow, [Next]_vars PROVE TypeOK'
  OBVIOUS
<1>s. Spend => trouble' \in Troubles
  BY SpendType DEF TypeOK
<1>h. step \in {"ip", "ip6", "dhcp", "check", "rmdhcp", "rmif"} => handle \in IfNames
  BY DEF TypeOK, Flow
<1>c. want.addr \in Addresses /\ (want.ip6 # None => want.ip6 \in Addresses6)
  BY DEF TypeOK, Configs
<1> USE DEF TypeOK, Steps
<1>1. CASE StartApply
  BY <1>1 DEF StartApply, Goto, host, tfstate, config
<1>2. CASE Read
  <2>1. id \in IfNames /\ ifs[id] # None /\ stored' \in Configs
    BY <1>2, ReadBackFields DEF Read, Flow
  <2>2. /\ step' \in {"rmdhcp", "rmif", "ip", "rest"} /\ handle' \in {id, None}
        /\ result' \in {result, "ok"}
    BY <1>2 DEF Read, Destroy, Goto, Return
  <2> QED
    BY <1>2, <2>1, <2>2 DEF Read, host, config, history
<1>3. CASE ReadGone
  <2>1. step' \in {"make", "rest"} /\ handle' \in {handle, None} /\ result' \in {result, "ok"}
    BY <1>3 DEF ReadGone, Goto, Return
  <2> QED
    BY <1>3, <2>1 DEF ReadGone, host, config, history
<1>4. CASE ReadFails \/ DeleteFails
  BY <1>4, <1>s DEF ReadFails, DeleteFails, Return, Strike, host, tfstate, config, history
<1>5. CASE Make
  <2>1. PICK n \in IfNames : NewInterface(n) /\ handle' = n
    BY <1>5 DEF Make, Free
  <2> QED
    BY <1>5, <2>1, CommandTypes DEF Make, Goto, tfstate, config, history
<1>6. CASE MakeFails
  <2>1. ifs' \in [IfNames -> Interfaces \cup {None}] /\ reported' \subseteq IfNames
    BY <1>6, CommandTypes DEF MakeFails, Free
  <2> QED
    BY <1>6, <1>s, <2>1 DEF MakeFails, Return, Strike, tfstate, config
<1>7. ASSUME Fails, UNCHANGED <<host, config>>, trouble' = trouble \/ Spend PROVE TypeOK'
  <2>1. stored' \in {stored, want} /\ reported' \subseteq reported \cup ({handle} \ {None})
    BY <1>7 DEF Fails
  <2> QED
    BY <1>7, <1>s, <2>1 DEF Fails, Return, host, config
<1>8. CASE SetIPFails \/ SetIP6Fails \/ SetDHCPFails
  BY <1>7, <1>8 DEF SetIPFails, SetIP6Fails, SetDHCPFails, CommandFails, Strike
<1>9. CASE SetIP \/ SetIP6
  <2>1. ifs' \in [IfNames -> Interfaces \cup {None}]
    BY <1>9, <1>h, <1>c, CommandTypes DEF SetIP, SetIP6, SetsIP6
  <2> QED
    BY <1>9, <2>1 DEF SetIP, SetIP6, Command, Goto, tfstate, config, history
<1>10. CASE SetDHCP
  <2>1. servers' \in [IfNames -> Servers \cup {None}]
    <3>1. handle \in IfNames
      BY <1>10, <1>h DEF SetDHCP
    <3>2. DHCPCommand \in {"none", "add", "modify", "remove"}
      BY DEF DHCPCommand
    <3>3. DHCPCommand \in {"add", "modify"} => [addr |-> want.addr, range |-> want.range] \in Servers
      BY <1>10, <1>c DEF SetDHCP, Refused, Configs, Servers
    <3> QED
      BY <1>10, <3>1, <3>2, <3>3, CommandTypes DEF SetDHCP
  <2> QED
    BY <1>10, <2>1 DEF SetDHCP, Command, Goto, tfstate, config, history
<1>11. CASE Check
  <2>1. stored' \in Configs
    BY <1>11, <1>h, ReadBackFields DEF Check
  <2> QED
    BY <1>11, <2>1 DEF Check, Return, host, config, history
<1>12. CASE CheckGone
  BY <1>12 DEF CheckGone, Return, host, config, history
<1>13. CASE CheckFails
  <2>1. tainted' \in BOOLEAN
    BY <1>13, Zenon DEF CheckFails, Creating
  <2> QED
    BY <1>13, <1>s, <2>1 DEF CheckFails, Return, Strike, host, config, history
<1>14. CASE RemoveDHCP
  BY <1>14, <1>h, CommandTypes DEF RemoveDHCP, Goto, tfstate, config, history
<1>15. CASE RemoveInterface
  <2>1. step' \in {"make", "rest"} /\ result' \in {result, "ok"}
    BY <1>15 DEF RemoveInterface, Goto
  <2> QED
    BY <1>15, <2>1 DEF RemoveInterface, config, history
<1>16. CASE EditConfig
  <2>1. wanted' \in BOOLEAN
    BY <1>16, Zenon DEF EditConfig
  <2> QED
    BY <1>16, <1>s, <2>1 DEF EditConfig, host, tfstate, history
<1>17. CASE UserChanges
  <2>1. /\ ifs' \in [IfNames -> Interfaces \cup {None}]
        /\ servers' \in [IfNames -> Servers \cup {None}]
    BY <1>17, CommandTypes DEF UserChanges
  <2> QED
    BY <1>17, <1>s, <2>1 DEF UserChanges, Strike, tfstate, config
<1>18. CASE Crash
  <2>1. reported' \subseteq IfNames
    BY <1>18 DEF Crash
  <2> QED
    BY <1>18, <1>s, <2>1 DEF Crash, Strike, host, tfstate, config
<1>19. CASE UNCHANGED vars
  BY <1>19 DEF vars
<1> QED
  BY <1>1, <1>2, <1>3, <1>4, <1>5, <1>6, <1>8, <1>9, <1>10, <1>11, <1>12, <1>13, <1>14,
     <1>15, <1>16, <1>17, <1>18, <1>19 DEF Next, Handler, Refresh, CreateOrUpdate, Delete

\* The steps come in the order of the handlers.
LEMMA FlowInductive == TypeOK /\ Flow /\ [Next]_vars => Flow'
<1> SUFFICES ASSUME TypeOK, Flow, [Next]_vars PROVE Flow'
  OBVIOUS
<1> USE NameType DEF Flow, Creating
<1>1. CASE StartApply
  BY <1>1 DEF StartApply, Goto, tfstate
<1>2. CASE Read
  BY <1>2 DEF Read, Destroy, Goto, Return
<1>3. CASE ReadGone
  BY <1>3 DEF ReadGone, Goto, Return
<1>4. CASE ReadFails \/ DeleteFails \/ MakeFails \/ CheckGone \/ CheckFails \/ Check \/ Crash
  BY <1>4 DEF ReadFails, DeleteFails, MakeFails, CheckGone, CheckFails, Check, Crash, Return
<1>5. CASE Make
  BY <1>5 DEF Make, Free, Goto, tfstate
<1>6. CASE SetIPFails \/ SetIP6Fails \/ SetDHCPFails
  BY <1>6 DEF SetIPFails, SetIP6Fails, SetDHCPFails, CommandFails, Fails, Return
<1>7. CASE SetIP \/ SetIP6 \/ SetDHCP
  BY <1>7 DEF SetIP, SetIP6, SetDHCP, Command, Goto, tfstate
<1>8. CASE RemoveDHCP
  BY <1>8 DEF RemoveDHCP, Goto, tfstate
<1>9. CASE RemoveInterface
  BY <1>9 DEF RemoveInterface, Goto
<1>10. CASE EditConfig \/ UserChanges
  BY <1>10 DEF EditConfig, UserChanges, tfstate
<1>11. CASE UNCHANGED vars
  BY <1>11 DEF vars
<1> QED
  BY <1>1, <1>2, <1>3, <1>4, <1>5, <1>6, <1>7, <1>8, <1>9, <1>10, <1>11
     DEF Next, Handler, Refresh, CreateOrUpdate, Delete

\* The initial states are typed, and in order.
LEMMA InitType == Init => TypeOK /\ Flow
<1>0. 0 \in Troubles
  BY ConstantsAssumption DEF Troubles
<1> QED
  BY <1>0 DEF Init, TypeOK, Flow, Steps

\* Every variable of HostonlyNetwork keeps its type.
THEOREM TypeCorrect == Spec => []TypeOK
BY InitType, TypeInductive, FlowInductive, PTL DEF Spec

-----------------------------------------------------------------------------
(* No interface is lost silently *)

\* The names of the interfaces that are there.
There == {n \in IfNames : ifs[n] # None}

\* What a step may do to the interfaces: none comes but the one that a create
\* makes, and keeps in hand or reports.
LEMMA NewInterfaces ==
    ASSUME TypeOK, Flow, [Next]_vars
    PROVE  \/ There' \subseteq There
           \/ \E n \in Free : /\ There' = There \cup {n}
                              /\ id' = id /\ id = None /\ handle = None
                              /\ \/ Make /\ handle' = n /\ reported' = reported
                                 \/ MakeFails /\ handle' = None /\ reported' = reported \cup {n}
<1> USE DEF There
<1>1. ASSUME NEW n \in IfNames, NewInterface(n) PROVE There' = There \cup {n}
  <2>1. PICK a \in Addresses : ifs' = [ifs EXCEPT ![n] = [addr |-> a, ip6 |-> None]]
    BY <1>1 DEF NewInterface
  <2>2. [addr |-> a, ip6 |-> None] # None
    BY ObjectsAssumption DEF Interfaces
  <2> QED
    BY <2>1, <2>2 DEF TypeOK
<1>2. CASE Make
  BY <1>1, <1>2 DEF Make, Free, Flow, tfstate, history
<1>3. CASE MakeFails
  BY <1>1, <1>3 DEF MakeFails, Free, Flow, Return, tfstate
<1>4. CASE SetIP \/ SetIP6
  <2>1. handle \in IfNames
    BY <1>4 DEF SetIP, SetIP6, Flow, TypeOK
  <2> QED
    BY <1>4, <2>1 DEF SetIP, SetIP6, TypeOK
<1>5. CASE RemoveInterface
  BY <1>5 DEF RemoveInterface, TypeOK
<1>6. CASE UserChanges
  BY <1>6 DEF UserChanges, TypeOK
<1>7. CASE Refresh \/ (Delete /\ ~RemoveInterface) \/ StartApply \/ EditConfig \/ Crash
  BY <1>7 DEF Refresh, Read, ReadGone, ReadFails, Delete, RemoveDHCP, DeleteFails,
              StartApply, EditConfig, Crash, host
<1>8. CASE SetIPFails \/ SetIP6Fails \/ SetDHCP \/ SetDHCPFails \/ Check \/ CheckGone \/ CheckFails
  BY <1>8 DEF SetIPFails, SetIP6Fails, SetDHCP, SetDHCPFails, CommandFails, Check, CheckGone,
              CheckFails, host
<1>9. CASE UNCHANGED vars
  BY <1>9 DEF vars
<1> QED
  BY <1>2, <1>3, <1>4, <1>5, <1>6, <1>7, <1>8, <1>9
     DEF Next, Handler, CreateOrUpdate, Delete

\* What a step may do to what is known of an interface that is still there.
LEMMA KeptInMind ==
    ASSUME TypeOK, Flow, [Next]_vars, NEW n \in There', n \in {id, handle} \cup reported
    PROVE  n \in {id', handle'} \cup reported'
<1>n. n \in IfNames /\ ifs'[n] # None /\ n # None
  BY NameType DEF There
<1> USE DEF Flow
<1>1. CASE StartApply \/ Read \/ ReadFails
  BY <1>n, <1>1 DEF StartApply, Read, ReadFails, Return, tfstate, history
<1>2. CASE ReadGone
  BY <1>n, <1>2 DEF ReadGone, host, history
<1>3. CASE Make \/ MakeFails
  BY <1>n, <1>3 DEF Make, MakeFails, tfstate, history
<1>4. CASE SetIP \/ SetIP6 \/ SetDHCP \/ RemoveDHCP
  BY <1>4 DEF SetIP, SetIP6, SetDHCP, Command, RemoveDHCP, tfstate, history
<1>5. CASE SetIPFails \/ SetIP6Fails \/ SetDHCPFails
  BY <1>n, <1>5 DEF SetIPFails, SetIP6Fails, SetDHCPFails, CommandFails, Fails, Creating
<1>6. CASE Check \/ CheckFails
  BY <1>n, <1>6 DEF Check, CheckFails, history
<1>7. CASE CheckGone
  BY <1>n, <1>7 DEF CheckGone, host, history
<1>8. CASE RemoveInterface
  BY <1>n, <1>8 DEF RemoveInterface, history, TypeOK
<1>9. CASE DeleteFails
  BY <1>n, <1>9 DEF DeleteFails, tfstate, history
<1>10. CASE EditConfig \/ UserChanges
  BY <1>10 DEF EditConfig, UserChanges, tfstate, history
<1>11. CASE Crash
  BY <1>n, <1>11 DEF Crash, Creating, tfstate, TypeOK, Steps
<1>12. CASE UNCHANGED vars
  BY <1>12 DEF vars
<1> QED
  BY <1>1, <1>2, <1>3, <1>4, <1>5, <1>6, <1>7, <1>8, <1>9, <1>10, <1>11, <1>12
     DEF Next, Handler, Refresh, CreateOrUpdate, Delete

\* Whatever fails, an interface that VirtualBox has is in the state, in the
\* hands of a handler, or was left behind by a create that failed.
THEOREM NothingLostSilently == Spec => []NoSilentLeak
<1>1. Init => NoSilentLeak
  BY DEF Init, NoSilentLeak
<1>2. TypeOK /\ Flow /\ NoSilentLeak /\ [Next]_vars => NoSilentLeak'
  <2> SUFFICES ASSUME TypeOK, Flow, NoSilentLeak, [Next]_vars, NEW n \in There'
               PROVE  n \in {id', handle'} \cup reported'
    BY DEF NoSilentLeak, There
  <2>1. CASE n \in There
    BY <2>1, KeptInMind DEF NoSilentLeak, There
  <2>2. CASE n \notin There
    BY <2>2, NewInterfaces
  <2> QED
    BY <2>1, <2>2
<1> QED
  BY <1>1, <1>2, InitType, TypeInductive, FlowInductive, PTL DEF Spec

-----------------------------------------------------------------------------
(* The contract of a managed resource *)

\* Every step of the network is a step of the contract, or none.
LEMMA StepKeepsContract ==
    TypeOK /\ Flow /\ [Next]_vars => [Contract!Next]_(Contract!vars)
<1> SUFFICES ASSUME TypeOK, Flow, [Next]_vars PROVE [Contract!Next]_(Contract!vars)
  OBVIOUS
<1> DEFINE Made == [m \in {"it", "others"} |-> IF m = "it" THEN {n \in IfNames : ifs[n] # None}
                                               ELSE {}]
           Known == [r \in {"it"} |-> {id} \ {None}]
           Making == [r \in {"it"} |-> id = None /\ handle # None]
<1> USE DEF Flow
<1>1. ASSUME There' \subseteq There, id' = id, (id = None /\ handle # None)' <=> (id = None /\ handle # None)
      PROVE  [Contract!Next]_(Contract!vars)
  <2>1. Known' = Known /\ Making' = Making
    BY <1>1, Zenon
  <2>2. Contract!Vanish
    BY <1>1, <2>1 DEF Contract!Vanish, Contract!Makers, There
  <2> QED
    BY <2>2 DEF Contract!Next
<1>2. ASSUME There' = There, id' = id, handle' = None
      PROVE  [Contract!Next]_(Contract!vars)
  <2>1. Made' = Made /\ Known' = Known /\ Making' = [r \in {"it"} |-> FALSE]
    BY <1>2 DEF There
  <2>2. Contract!Abandon
    BY <2>1 DEF Contract!Abandon
  <2> QED
    BY <2>2 DEF Contract!Next
<1>3. ASSUME There' = There, id' = None, handle = id \/ handle = None, handle' = None,
             id \notin There
      PROVE  [Contract!Next]_(Contract!vars)
  <2>1. /\ Made' = Made /\ Known' = [Known EXCEPT !["it"] = {}] /\ Making' = Making
        /\ Known["it"] \cap Made["it"] = {}
    BY <1>3 DEF There
  <2>2. Contract!Forget("it")
    BY <2>1 DEF Contract!Forget
  <2> QED
    BY <2>2 DEF Contract!Next
<1>4. ASSUME NEW n \in Free, There' = There \cup {n}, id' = id, id = None, handle = None,
             handle' \in {n, None}
      PROVE  [Contract!Next]_(Contract!vars)
  <2>1. /\ Made' = [Made EXCEPT !["it"] = @ \cup {n}] /\ Known' = Known
        /\ Known["it"] = {} /\ ~Making["it"]
        /\ n \in Made'["it"]
        /\ \A m \in {"it", "others"} : n \notin Made[m]
    BY <1>4 DEF There, Free
  <2>2. Making' \in {Making, [Making EXCEPT !["it"] = TRUE]}
    BY <1>4, NameType DEF Free
  <2>3. Contract!MakeOne("it")
    <3>1. n \notin Contract!AllMade
      BY <2>1 DEF Contract!AllMade, Contract!Makers
    <3>2. n \notin Contract!AllKnown
      BY <1>4, NameType DEF Contract!AllKnown, Free
    <3> QED
      BY <2>1, <3>1, <3>2 DEF Contract!MakeOne
  <2>4. Contract!Make("it")
    BY <2>1, <2>2, <2>3, Zenon DEF Contract!Make
  <2> QED
    BY <2>4 DEF Contract!Next
<1>5. ASSUME There' \subseteq There PROVE [Contract!Next]_(Contract!vars)
  <2>h. UNCHANGED ifs => There' = There
    BY DEF There
  <2>1. CASE StartApply \/ Read \/ ReadFails
    BY <1>1, <1>5, <2>1 DEF StartApply, Read, ReadFails, Return, tfstate
  <2>2. CASE ReadGone
    BY <1>3, <2>2, <2>h DEF ReadGone, Return, host, There
  <2>3. CASE Make
    <3>1. PICK n \in Free : NewInterface(n)
      BY <2>3 DEF Make
    <3>2. n \in There' /\ n \notin There
      BY <3>1, ObjectsAssumption DEF There, Free, NewInterface, Interfaces, TypeOK
    <3> QED
      BY <1>5, <3>2
  <2>4. CASE MakeFails
    <3>1. CASE UNCHANGED ifs
      BY <1>2, <2>4, <3>1, <2>h DEF MakeFails, Return, tfstate
    <3>2. CASE \E n \in Free : NewInterface(n)
      <4>1. PICK n \in Free : NewInterface(n)
        BY <3>2
      <4>2. n \in There' /\ n \notin There
        BY <4>1, ObjectsAssumption DEF There, Free, NewInterface, Interfaces, TypeOK
      <4> QED
        BY <1>5, <4>2
    <3> QED
      BY <2>4, <3>1, <3>2 DEF MakeFails
  <2>5. CASE SetIP \/ SetIP6 \/ SetDHCP \/ RemoveDHCP
    BY <1>1, <1>5, <2>5 DEF SetIP, SetIP6, SetDHCP, RemoveDHCP, Command, tfstate
  <2>6. CASE SetIPFails \/ SetIP6Fails \/ SetDHCPFails \/ Crash \/ DeleteFails
    BY <1>2, <2>6, <2>h DEF SetIPFails, SetIP6Fails, SetDHCPFails, CommandFails, Fails, Crash,
                            DeleteFails, Return, host, tfstate
  <2>7. CASE Check \/ CheckFails
    <3>1. There' = There /\ handle # None /\ id \in {None, handle} /\ id' = handle /\ handle' = None
      BY <2>7, <2>h DEF Check, CheckFails, Return, host
    <3>2. CASE id # None
      BY <1>1, <3>1, <3>2
    <3>3. CASE id = None
      <4>1. /\ Made' = Made /\ Known' = [Known EXCEPT !["it"] = {handle}]
            /\ Made["others"] = {} /\ handle \in Known'["it"]
        BY <3>1, <3>3 DEF There
      <4>2. Making["it"] /\ Making' = [Making EXCEPT !["it"] = FALSE]
        BY <3>1, <3>3, Zenon
      <4>3. Contract!Store("it")
        BY <4>1, <4>2 DEF Contract!Store, Contract!Makers
      <4> QED
        BY <4>3 DEF Contract!Next
    <3> QED
      BY <3>2, <3>3
  <2>8. CASE CheckGone
    <3>1. There' = There /\ handle \notin There /\ id \in {None, handle} /\ id' = None
          /\ handle' = None
      BY <2>8, <2>h DEF CheckGone, Return, host, There
    <3> QED
      BY <1>2, <1>3, <3>1
  <2>9. CASE RemoveInterface
    <3>1. id # None /\ handle = id /\ id' = None /\ handle' = None
          /\ There' = There \ {id}
      BY <2>9 DEF RemoveInterface, There, TypeOK
    <3>k. Known["it"] = {id} /\ Known' = [Known EXCEPT !["it"] = {}]
      BY <3>1
    <3>2. Made' = [Made EXCEPT !["it"] = @ \ Known["it"]]
      <4>1. {n \in IfNames : ifs[n] # None}' = {n \in IfNames : ifs[n] # None} \ {id}
        BY <3>1 DEF There
      <4> QED
        BY <3>k, <4>1
    <3>m. Making' = Making
      BY <3>1, Zenon
    <3>3. Contract!Remove("it")
      BY <3>2, <3>k, <3>m DEF Contract!Remove
    <3> QED
      BY <3>3 DEF Contract!Next
  <2>10. CASE EditConfig \/ UserChanges
    BY <1>1, <1>5, <2>10 DEF EditConfig, UserChanges, tfstate
  <2>11. CASE UNCHANGED vars
    BY <1>1, <1>5, <2>11 DEF vars
  <2> QED
    BY <2>1, <2>2, <2>3, <2>4, <2>5, <2>6, <2>7, <2>8, <2>9, <2>10, <2>11
       DEF Next, Handler, Refresh, CreateOrUpdate, Delete
<1> QED
  BY <1>4, <1>5, NewInterfaces

\* A host-only interface is managed as the contract says, although VirtualBox
\* gives its name again: a create takes over nothing that is there, a destroy
\* removes only what the resource made, and the state lets go of an interface
\* only together with it or after it.
THEOREM ContractKept == Spec => KeepsContract
<1>1. Init => Contract!Init
  BY DEF Init, Contract!Init, Contract!Makers
<1> QED
  BY <1>1, InitType, TypeInductive, FlowInductive, StepKeepsContract, PTL
     DEF Spec, KeepsContract, Contract!Spec

-----------------------------------------------------------------------------
(* What success means *)

\* A running operation has not reported anything.
Running == step # "rest" => result = "none"

\* The interface is there, with the address of the state and then with that of
\* the configuration.
AddressSet ==
    /\ step \in {"ip", "ip6", "dhcp", "check"} /\ ~touched => ifs[handle] # None
    /\ step = "ip" /\ id # None /\ ~touched => ifs[handle].addr = stored.addr
    /\ step \in {"ip6", "dhcp", "check"} /\ ~touched => ifs[handle].addr = want.addr

\* An update begins with a state that knows whether there is a server, and one
\* that is wanted is there in the end.
ServerSet ==
    /\ step \in {"ip", "ip6", "dhcp"} /\ id # None /\ ~touched =>
         (stored.dhcp <=> servers[handle] # None)
    /\ step = "check" /\ ~touched /\ want.dhcp => servers[handle] # None

OkInv == Running /\ AddressSet /\ ServerSet /\ OkMeansConfigured

\* Every step keeps what success rests on.
LEMMA OkInductive == TypeOK /\ Flow /\ OkInv /\ [Next]_vars => OkInv'
<1> SUFFICES ASSUME TypeOK, Flow, OkInv, [Next]_vars PROVE OkInv'
  OBVIOUS
<1>h. step \in {"ip", "ip6", "dhcp", "check", "rmdhcp", "rmif"} => handle \in IfNames
  BY DEF TypeOK, Flow
<1> USE DEF OkInv, Running, AddressSet, ServerSet, OkMeansConfigured, AsConfigured,
            AddressAsConfigured
<1>1. CASE StartApply
  BY <1>1 DEF StartApply, Goto
<1>2. CASE Read
  <2>1. id \in IfNames /\ ifs[id] # None /\ stored' = ReadBack(id, stored)
    BY <1>2 DEF Read, Flow, TypeOK
  <2>2. stored'.addr = ifs[id].addr /\ (stored'.dhcp <=> servers[id] # None)
    BY <2>1, ReadBackFields DEF TypeOK
  <2>3. CASE stored' = want /\ Return("ok")
    <3>1. id' = id /\ UNCHANGED <<ifs, servers, want>> /\ step' = "rest" /\ id # None
      BY <1>2, <2>3 DEF Read, Return, Flow, host, config
    <3>2. ifs[id].addr = want.addr /\ (servers[id] # None <=> want.dhcp)
      BY <2>2, <2>3
    <3> QED
      BY <2>1, <3>1, <3>2
  <2>4. CASE Goto("ip") /\ handle' = id /\ UNCHANGED result
    BY <1>2, <2>1, <2>2, <2>4 DEF Read, Goto, host, config, history
  <2>5. CASE Goto(Destroy(stored')) /\ UNCHANGED result
    <3>1. step' \in {"rmdhcp", "rmif"} /\ step = "read"
      BY <1>2, <2>5 DEF Read, Goto, Destroy
    <3> QED
      BY <2>5, <3>1
  <2> QED
    BY <1>2, <2>3, <2>4, <2>5 DEF Read
<1>3. CASE ReadGone
  BY <1>3 DEF ReadGone, Goto, Return, config
<1>4. CASE ReadFails \/ DeleteFails \/ MakeFails \/ CheckGone \/ CheckFails \/ Crash
  BY <1>4 DEF ReadFails, DeleteFails, MakeFails, CheckGone, CheckFails, Crash, Return
<1>5. CASE SetIPFails \/ SetIP6Fails \/ SetDHCPFails
  BY <1>5 DEF SetIPFails, SetIP6Fails, SetDHCPFails, CommandFails, Fails, Return
<1>6. CASE Make
  <2>1. PICK n \in IfNames : NewInterface(n) /\ handle' = n
    BY <1>6 DEF Make, Free
  <2>2. ifs'[n] # None
    BY <2>1, ObjectsAssumption DEF NewInterface, Interfaces, TypeOK
  <2> QED
    BY <1>6, <2>1, <2>2 DEF Make, Goto, Flow, tfstate, history
<1>7. CASE SetIP
  <2>1. ifs[handle] # None => ifs'[handle] # None /\ (~touched => ifs'[handle].addr = want.addr)
    <3>1. ifs[handle] # None => [ifs[handle] EXCEPT !.addr = want.addr] \in Interfaces
      BY <1>7, <1>h, ObjectType DEF SetIP, Interfaces, TypeOK, Configs
    <3> QED
      BY <1>7, <1>h, <3>1, ObjectsAssumption
         DEF SetIP, SetsIP, Changed, Creating, TypeOK, Interfaces
  <2> QED
    BY <1>7, <2>1 DEF SetIP, Command, Goto, tfstate, config, history
<1>8. CASE SetIP6
  <2>1. ifs[handle] # None => ifs'[handle] # None /\ ifs'[handle].addr = ifs[handle].addr
    <3>1. SetsIP6 => [ifs[handle] EXCEPT !.ip6 = want.ip6] \in Interfaces
      BY <1>8, <1>h, ObjectType DEF SetIP6, SetsIP6, Interfaces, TypeOK, Configs
    <3> QED
      BY <1>8, <1>h, <3>1, ObjectsAssumption DEF SetIP6, TypeOK, Interfaces
  <2> QED
    BY <1>8, <2>1 DEF SetIP6, Command, Goto, tfstate, config, history
<1>9. CASE SetDHCP
  <2>1. ~touched /\ want.dhcp => servers'[handle] # None
    <3>1. DHCPCommand \in {"none", "add", "modify", "remove"}
      BY DEF DHCPCommand
    <3>2. CASE DHCPCommand \in {"add", "modify"}
      <4>1. [addr |-> want.addr, range |-> want.range] \in Servers
        BY <1>9, <3>2 DEF SetDHCP, Refused, Servers, TypeOK, Configs
      <4> QED
        BY <1>9, <1>h, <3>2, <4>1, ObjectsAssumption DEF SetDHCP, TypeOK
    <3>3. CASE DHCPCommand = "remove"
      BY <3>3 DEF DHCPCommand
    <3>4. CASE DHCPCommand = "none"
      <4>1. want.dhcp => ~Creating /\ stored.dhcp
        BY <3>4 DEF DHCPCommand, Changed
      <4> QED
        BY <1>9, <3>4, <4>1 DEF SetDHCP, Creating
    <3> QED
      BY <3>1, <3>2, <3>3, <3>4
  <2> QED
    BY <1>9, <2>1 DEF SetDHCP, Command, Goto, tfstate, config, history
<1>10. CASE Check
  <2>1. stored'.dhcp <=> servers[handle] # None
    BY <1>10, <1>h, ReadBackFields DEF Check, TypeOK
  <2> QED
    BY <1>10, <1>h, <2>1, NameType DEF Check, Return, host, config, history
<1>11. CASE RemoveDHCP \/ RemoveInterface
  BY <1>11 DEF RemoveDHCP, RemoveInterface, Goto, config
<1>12. CASE EditConfig
  BY <1>12 DEF EditConfig
<1>13. CASE UserChanges
  BY <1>13 DEF UserChanges
<1>14. CASE UNCHANGED vars
  BY <1>14 DEF vars
<1> QED
  BY <1>1, <1>2, <1>3, <1>4, <1>5, <1>6, <1>7, <1>8, <1>9, <1>10, <1>11, <1>12, <1>13, <1>14
     DEF Next, Handler, Refresh, CreateOrUpdate, Delete

\* When apply reports success the interface has its address and a server exactly
\* when one is configured, or the state says that one is there that a user left:
\* what failed updates stored too early is made good or seen.
THEOREM SuccessMeansConfigured == Spec => []OkMeansConfigured
<1>1. Init => OkInv
  BY DEF Init, OkInv, Running, AddressSet, ServerSet, OkMeansConfigured
<1>2. OkInv => OkMeansConfigured
  BY DEF OkInv
<1> QED
  BY <1>1, <1>2, InitType, TypeInductive, FlowInductive, OkInductive, PTL DEF Spec
=============================================================================
