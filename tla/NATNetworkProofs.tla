-------------------------- MODULE NATNetworkProofs --------------------------
(***************************************************************************)
(* Theorems about NATNetwork, for any rules, attributes and faults.        *)
(***************************************************************************)
EXTENDS NATNetwork, TLAPS

-----------------------------------------------------------------------------
(* Types *)

\* What is read back over a state is again one.
LEMMA ReadBackType ==
    ASSUME net \in Networks \cup {None}, NEW state \in Networks
    PROVE  ReadBack(state) \in Networks
BY RulesAssumption DEF ReadBack, Networks

\* The configuration can be stored.
LEMMA WantType ==
    ASSUME TypeOK PROVE want \in Networks /\ want # None
BY RulesAssumption, NoneAssumption DEF TypeOK, Configs, Networks

\* A resource that is read, updated or removed is in the state, one that is
\* added is not.
Flow ==
    /\ step \in {"read", "modify", "drop", "remove"} => stored # None
    /\ step = "add" => stored = None

\* Faults are counted up to the bound.
LEMMA SpendType ==
    ASSUME trouble \in Troubles, Spend PROVE trouble' \in Troubles
BY BoundsAssumption DEF Spend, Troubles

\* Every action keeps the type of every variable.
LEMMA TypeInductive == TypeOK /\ Flow /\ [Next]_vars => TypeOK'
<1> SUFFICES ASSUME TypeOK, Flow, [Next]_vars PROVE TypeOK'
  OBVIOUS
<1>w. want \in Networks /\ want # None
  BY WantType
<1>s. Spend => trouble' \in Troubles
  BY SpendType DEF TypeOK
<1> USE <1>s DEF TypeOK, Steps
<1>1. CASE StartApply
  BY <1>1 DEF StartApply, Goto, tfstate, config
<1>2. CASE Read
  <2>1. stored' \in Networks
    BY <1>2, ReadBackType DEF Read, Flow
  <2>2. tainted' = tainted /\ wanted' = wanted /\ touched' = touched /\ unseen' = unseen
    BY <1>2 DEF Read, config, history
  <2>3. step' \in {"rest", "modify", "remove"} /\ todo' = {} /\ result' \in {"none", "ok", "error"}
    BY <1>2 DEF Read, Goto, Return
  <2> QED
    BY <1>2, <2>1, <2>2, <2>3, NoneAssumption DEF Read, config
<1>3. CASE ReadFails
  BY <1>3 DEF ReadFails, Return, Strike, tfstate, config, history
<1>4. CASE Add
  BY <1>4, <1>w, RulesAssumption DEF Add, Goto, Networks, Configs, tfstate, config, history
<1>5. CASE AddFails \/ ModifyFails \/ AddRuleFails
  <2>1. unseen' \in BOOLEAN
    BY <1>5, Zenon DEF AddFails, ModifyFails, AddRuleFails, Fails
  <2>2. tainted' = tainted /\ stored' \in {None, want} /\ (stored # None => stored' # None)
    BY <1>5, <1>w DEF AddFails, ModifyFails, AddRuleFails, Fails, Creating
  <2>3. UNCHANGED <<net, want, wanted, touched>> /\ trouble' \in Troubles
    BY <1>5 DEF AddFails, ModifyFails, AddRuleFails, Fails, Strike, config
  <2>4. step' = "rest" /\ todo' = {} /\ result' = "error"
    BY <1>5 DEF AddFails, ModifyFails, AddRuleFails, Fails, Return
  <2> QED
    BY <1>w, <2>1, <2>2, <2>3, <2>4
<1>6. CASE Modify
  <2>1. stored # None /\ todo = {}
    BY <1>6 DEF Modify, Flow
  <2>2. net' \in Networks \cup {None} /\ todo' \subseteq Rules
    BY <1>6, <1>w, <2>1 DEF Modify, Networks
  <2>3. step' \in {"drop", "check"} /\ (todo' # {} => step' = "drop")
    BY <1>6, <2>1 DEF Modify, Goto
  <2>4. unseen' \in BOOLEAN
    BY <1>6 DEF Modify
  <2> QED
    BY <1>6, <2>2, <2>3, <2>4 DEF Modify, tfstate, config
<1>7. CASE DropRule \/ DropRuleFails \/ DropDone
  BY <1>7, <1>w DEF DropRule, DropRuleFails, DropDone, Goto, Networks, Strike,
                    tfstate, config, history
<1>8. CASE AddRule \/ RulesDone
  BY <1>8 DEF AddRule, RulesDone, Acceptable, Goto, Networks, tfstate, config, history
<1>9. CASE Check \/ CheckFails
  <2>1. ReadBack(want) \in Networks
    BY <1>w, ReadBackType
  <2>2. tainted' \in BOOLEAN /\ unseen' \in BOOLEAN
    BY <1>9, Zenon DEF Check, CheckFails, Seen, Creating
  <2> QED
    BY <1>9, <1>w, <2>1, <2>2, NoneAssumption
       DEF Check, CheckFails, Return, Strike, config
<1>10. CASE Remove
  <2>1. step' \in {"rest", "add"} /\ todo' = {} /\ result' \in {"none", "ok", "error"}
    BY <1>10 DEF Remove, Goto, Return
  <2> QED
    BY <1>10, <2>1 DEF Remove, config, history
<1>10a. CASE RemoveFails
  BY <1>10a DEF RemoveFails, Return, Strike, tfstate, config, history
<1>11. CASE EditConfig
  <2>1. wanted' \in BOOLEAN
    BY <1>11, Zenon DEF EditConfig
  <2> QED
    BY <1>11, <2>1 DEF EditConfig, tfstate, history
<1>12. CASE UserChanges \/ UserRemoves
  <2>1. net # None
    BY <1>12 DEF UserChanges, UserRemoves
  <2>2. net' \in Networks \cup {None}
    BY <1>12, <2>1 DEF UserChanges, UserRemoves, Networks
  <2>3. unseen' \in BOOLEAN /\ touched' \in BOOLEAN
    BY <1>12 DEF UserChanges, UserRemoves
  <2> QED
    BY <1>12, <2>2, <2>3 DEF UserChanges, UserRemoves, Strike, tfstate, config
<1>13. CASE Crash
  BY <1>13 DEF Crash, Return, Strike, tfstate, config, history
<1>14. CASE UNCHANGED vars
  BY <1>14 DEF vars
<1> QED
  BY <1>1, <1>2, <1>3, <1>4, <1>5, <1>6, <1>7, <1>8, <1>9, <1>10, <1>10a, <1>11, <1>12,
     <1>13, <1>14 DEF Next, Handler, Refresh, CreateOrUpdate, Delete

\* The steps come in the order of the handlers.
LEMMA FlowInductive == TypeOK /\ Flow /\ [Next]_vars => Flow'
<1> SUFFICES ASSUME TypeOK, Flow, [Next]_vars PROVE Flow'
  OBVIOUS
<1>w. want # None
  BY WantType
<1> USE DEF Flow, Creating
<1>1. CASE StartApply
  BY <1>1 DEF StartApply, Goto, tfstate
<1>2. CASE Read
  <2>1. stored' # None
    BY <1>2, ReadBackType, NoneAssumption DEF Read, TypeOK
  <2> QED
    BY <1>2, <2>1 DEF Read, Goto, Return
<1>3. CASE ReadFails \/ RemoveFails \/ Crash
  BY <1>3 DEF ReadFails, RemoveFails, Crash, Return
<1>4. CASE Add \/ Modify \/ DropDone \/ RulesDone
  BY <1>4 DEF Add, Modify, DropDone, RulesDone, Goto, tfstate
<1>5. CASE AddFails \/ ModifyFails \/ AddRuleFails \/ Check \/ CheckFails
  BY <1>5 DEF AddFails, ModifyFails, AddRuleFails, Check, CheckFails, Fails, Return
<1>6. CASE DropRule \/ DropRuleFails \/ AddRule
  BY <1>6 DEF DropRule, DropRuleFails, AddRule, tfstate
<1>7. CASE Remove
  BY <1>7 DEF Remove, Goto, Return
<1>8. CASE EditConfig \/ UserChanges \/ UserRemoves
  BY <1>8 DEF EditConfig, UserChanges, UserRemoves, tfstate
<1>9. CASE UNCHANGED vars
  BY <1>9 DEF vars
<1> QED
  BY <1>1, <1>2, <1>3, <1>4, <1>5, <1>6, <1>7, <1>8, <1>9
     DEF Next, Handler, Refresh, CreateOrUpdate, Delete

\* Every variable of NATNetwork keeps its type.
THEOREM TypeCorrect == Spec => []TypeOK
<1>0. 0 \in Troubles
  BY BoundsAssumption DEF Troubles
<1>1. Init => TypeOK /\ Flow
  BY <1>0 DEF Init, TypeOK, Flow, Steps
<1> QED
  BY <1>1, TypeInductive, FlowInductive, PTL DEF Spec

-----------------------------------------------------------------------------
(* The contract of a managed resource *)

\* A network that is changed is still there.
LEMMA FieldChanged ==
    ASSUME TypeOK, net # None
    PROVE  /\ \A a \in Attributes : [net EXCEPT !.attrs = a] # None
           /\ \A rules \in SUBSET Rules : [net EXCEPT !.rules = rules] # None
BY NoneAssumption DEF TypeOK, Networks

\* Every step of the network is a step of the contract, or none.
LEMMA StepKeepsContract ==
    TypeOK /\ Flow /\ TypeOK' /\ [Next]_vars => [Contract!Next]_(Contract!vars)
<1> SUFFICES ASSUME TypeOK, Flow, TypeOK', [Next]_vars
             PROVE  [Contract!Next]_(Contract!vars)
  OBVIOUS
<1>w. want # None
  BY WantType
<1> DEFINE Made == [m \in {"it", "others"} |-> IF m = "it" /\ net # None THEN {"net"} ELSE {}]
           Known == [r \in {"it"} |-> IF Creating THEN {} ELSE {"net"}]
           Making == [r \in {"it"} |-> Creating /\ step \in {"rules", "check"}]
<1>1. ASSUME Made' = Made, Known' = Known, Making' = Making
      PROVE  [Contract!Next]_(Contract!vars)
  BY <1>1 DEF Contract!vars
<1>2. ASSUME Made' = Made, Known' = Known, Making' = [r \in {"it"} |-> FALSE]
      PROVE  Contract!Abandon
  BY <1>2 DEF Contract!Abandon
<1>4. CASE \/ StartApply \/ ReadFails \/ AddFails \/ Modify \/ ModifyFails \/ DropRule
           \/ DropRuleFails \/ DropDone \/ AddRule \/ RulesDone \/ RemoveFails
           \/ EditConfig \/ UserChanges
  <2>1. (net # None)' <=> net # None
    <3>1. CASE \/ StartApply \/ ReadFails \/ AddFails \/ ModifyFails \/ DropRuleFails
               \/ DropDone \/ RulesDone \/ RemoveFails \/ EditConfig
      BY <3>1 DEF StartApply, ReadFails, AddFails, ModifyFails, DropRuleFails, DropDone,
                  RulesDone, RemoveFails, EditConfig
    <3>2. CASE Modify
      BY <3>2, <1>w, FieldChanged DEF Modify, TypeOK, Configs
    <3>3. CASE DropRule
      BY <3>3, FieldChanged DEF DropRule, TypeOK, Networks
    <3>4. CASE AddRule
      BY <3>4, FieldChanged DEF AddRule, Acceptable, TypeOK, Networks
    <3>5. CASE UserChanges
      BY <3>5, FieldChanged DEF UserChanges, TypeOK, Networks
    <3> QED
      BY <1>4, <3>1, <3>2, <3>3, <3>4, <3>5
  <2>2. Creating' <=> Creating
    BY <1>4, <1>w
       DEF StartApply, ReadFails, AddFails, Modify, ModifyFails, DropRule, DropRuleFails,
           DropDone, AddRule, RulesDone, RemoveFails, EditConfig, UserChanges, Fails,
           Creating, Flow, tfstate
  <2>3. (Creating /\ step \in {"rules", "check"})' <=> (Creating /\ step \in {"rules", "check"})
    BY <1>4, <2>2
       DEF StartApply, ReadFails, AddFails, Modify, ModifyFails, DropRule, DropRuleFails,
           DropDone, AddRule, RulesDone, RemoveFails, EditConfig, UserChanges, Fails,
           Creating, Flow, Goto, Return
  <2> QED
    BY <1>1, <2>1, <2>2, <2>3, Zenon
<1>5. CASE Read
  <2>1. stored # None /\ stored' # None /\ UNCHANGED net
    BY <1>5, ReadBackType, NoneAssumption DEF Read, Flow, TypeOK
  <2> QED
    BY <1>1, <2>1 DEF Creating
<1>6. CASE AddRuleFails \/ Crash
  <2>1. UNCHANGED net /\ (Creating' <=> Creating) /\ step' = "rest"
    BY <1>6, <1>w DEF AddRuleFails, Crash, Fails, Return, Creating, tfstate
  <2> QED
    BY <1>2, <2>1, Zenon DEF Contract!Next
<1>7. CASE Check \/ CheckFails
  <2>1. UNCHANGED net /\ stored' # None /\ step = "check" /\ step' = "rest"
    BY <1>7, <1>w, WantType, ReadBackType, NoneAssumption
       DEF Check, CheckFails, Return, TypeOK
  <2>2. CASE ~Creating
    BY <1>1, <2>1, <2>2 DEF Creating
  <2>3. CASE Creating
    <3>1. /\ Made' = Made /\ Known' = [Known EXCEPT !["it"] = {"net"}]
          /\ Making["it"] /\ Making' = [Making EXCEPT !["it"] = FALSE]
          /\ \A m \in {"others"} : Made[m] = {}
      BY <2>1, <2>3 DEF Creating
    <3>2. Contract!Store("it")
      BY <3>1, SMTT(30) DEF Contract!Store, Contract!Makers
    <3> QED
      BY <3>2 DEF Contract!Next
  <2> QED
    BY <2>2, <2>3
<1>8. CASE Add
  <2>1. Creating /\ Creating' /\ net = None /\ net' # None /\ step = "add" /\ step' = "rules"
    BY <1>8, RulesAssumption, NoneAssumption
       DEF Add, Flow, Creating, Goto, tfstate, TypeOK, Networks, Configs
  <2>2. Contract!Make("it")
    BY <2>1 DEF Contract!Make, Contract!MakeOne, Contract!AllMade, Contract!AllKnown,
                Contract!Makers
  <2> QED
    BY <2>2 DEF Contract!Next
<1>9. CASE Remove
  <2>1. /\ ~Creating /\ Creating' /\ net' = None
        /\ step = "remove" /\ step' \in {"add", "rest"}
    BY <1>9 DEF Remove, Flow, Creating, Goto, Return
  <2>2. Contract!Remove("it")
    BY <2>1 DEF Contract!Remove
  <2> QED
    BY <2>2 DEF Contract!Next
<1>10. CASE UserRemoves
  <2>1. net' = None /\ (Creating' <=> Creating) /\ step' = step
    BY <1>10 DEF UserRemoves, Creating, tfstate
  <2>2. Contract!Vanish
    BY <2>1 DEF Contract!Vanish, Contract!Makers
  <2> QED
    BY <2>2 DEF Contract!Next
<1>11. CASE UNCHANGED vars
  BY <1>1, <1>11 DEF vars, Creating
<1> QED
  BY <1>4, <1>5, <1>6, <1>7, <1>8, <1>9, <1>10, <1>11
     DEF Next, Handler, Refresh, CreateOrUpdate, Delete

\* A NAT network is managed as the contract says: a create takes over nothing
\* that is there, nothing is removed that it has not made, and the state never
\* lets go of a network that is there.
THEOREM ContractKept == Spec => KeepsContract
<1>0. 0 \in Troubles
  BY BoundsAssumption DEF Troubles
<1>1. Init => TypeOK /\ Flow
  BY <1>0 DEF Init, TypeOK, Flow, Steps
<1>2. Init => Contract!Init
  BY DEF Init, Contract!Init, Contract!Makers, Creating
<1> QED
  BY <1>1, <1>2, TypeInductive, FlowInductive, StepKeepsContract, PTL
     DEF Spec, KeepsContract, Contract!Spec

-----------------------------------------------------------------------------
(* What success means *)

\* Unless something happened behind its back, the state knows only rules that
\* are there: those that a refresh does not see are what it stored itself.
RulesKnown == stored # None /\ net # None /\ ~unseen => stored.rules \subseteq net.rules

\* The attributes are right before the rules are begun.
AttrsSet ==
    /\ step = "modify" /\ ~touched /\ net # None => net.attrs = stored.attrs
    /\ step \in {"drop", "rules", "check"} /\ ~touched /\ net # None => net.attrs = want.attrs

\* The rules are changed one by one, until all are there.
RulesSet ==
    /\ step = "drop" => unseen
    /\ step \in {"drop", "rules"} => ChangesRules
    /\ step \in {"rules", "check"} /\ ChangesRules /\ ~touched /\ net # None =>
         want.rules \ todo \subseteq net.rules

\* A running operation has not reported anything.
Running == step # "rest" => result = "none"

OkInv == RulesKnown /\ AttrsSet /\ RulesSet /\ Running /\ OkMeansConfigured

\* Every step keeps what success rests on.
LEMMA OkInductive == TypeOK /\ Flow /\ OkInv /\ [Next]_vars => OkInv'
<1> SUFFICES ASSUME TypeOK, Flow, OkInv, [Next]_vars PROVE OkInv'
  OBVIOUS
<1>w. /\ want # None
      /\ want.rules \subseteq Rules
      /\ want \in Networks
  BY WantType DEF Networks
<1> USE DEF OkInv, RulesKnown, AttrsSet, RulesSet, Running, OkMeansConfigured
<1>1. CASE StartApply
  BY <1>1 DEF StartApply, Goto, Creating, ChangesRules, tfstate, config
<1>2. CASE Read
  BY <1>2, <1>w, ReadBackType
     DEF Read, ReadBack, Goto, Return, Flow, TypeOK, Networks, config, history
<1>3. CASE ReadFails \/ RemoveFails \/ Crash
  BY <1>3 DEF ReadFails, RemoveFails, Crash, Return, tfstate, config, history
<1>4. CASE Add
  BY <1>4 DEF Add, Goto, Flow, Creating, ChangesRules, tfstate, config, history
<1>5. CASE AddFails \/ ModifyFails \/ AddRuleFails
  <2>1. /\ step' = "rest" /\ result' = "error" /\ net' = net
        /\ stored' # None => stored' = want /\ stored # None
        /\ unseen \/ (~Creating /\ ChangesRules) => unseen'
    BY <1>5, <1>w DEF AddFails, ModifyFails, AddRuleFails, Fails, Return, Creating
  <2> QED
    BY <2>1 DEF Creating, ChangesRules
<1>6. CASE Modify
  BY <1>6, <1>w DEF Modify, Goto, Flow, Creating, ChangesRules, TypeOK, Networks, tfstate, config
<1>7. CASE DropRule \/ DropRuleFails \/ DropDone
  BY <1>7 DEF DropRule, DropRuleFails, DropDone, Goto, Flow, ChangesRules, Creating,
              TypeOK, Networks, tfstate, config, history
<1>8. CASE AddRule
  BY <1>8 DEF AddRule, Acceptable, ChangesRules, Creating, TypeOK, Networks,
              tfstate, config, history
<1>9. CASE RulesDone
  BY <1>9 DEF RulesDone, Goto, ChangesRules, Creating, tfstate, config, history
<1>10. CASE Check \/ CheckFails
  BY <1>10, <1>w DEF Check, CheckFails, ReadBack, Return, Seen, ChangesRules, Creating,
              TypeOK, Networks, config
<1>11. CASE Remove
  BY <1>11 DEF Remove, Goto, Return
<1>12. CASE EditConfig
  BY <1>12 DEF EditConfig, tfstate, history
<1>13. CASE UserChanges \/ UserRemoves
  BY <1>13 DEF UserChanges, UserRemoves, ChangesRules, Creating, TypeOK, Networks,
               tfstate, config
<1>14. CASE UNCHANGED vars
  BY <1>14 DEF vars, ChangesRules, Creating
<1> QED
  BY <1>1, <1>2, <1>3, <1>4, <1>5, <1>6, <1>7, <1>8, <1>9, <1>10, <1>11, <1>12, <1>13, <1>14
     DEF Next, Handler, Refresh, CreateOrUpdate, Delete

\* When apply reports success the network, if it is there, is as configured,
\* rules included unless they were changed behind the state's back.
THEOREM SuccessMeansConfigured == Spec => []OkMeansConfigured
<1>0. 0 \in Troubles
  BY BoundsAssumption DEF Troubles
<1>1. Init => TypeOK /\ Flow
  BY <1>0 DEF Init, TypeOK, Flow, Steps
<1>2. Init => OkInv
  BY DEF Init, OkInv, RulesKnown, AttrsSet, RulesSet, Running, OkMeansConfigured
<1>3. OkInv => OkMeansConfigured
  BY DEF OkInv
<1> QED
  BY <1>1, <1>2, <1>3, TypeInductive, FlowInductive, OkInductive, PTL DEF Spec
=============================================================================
