--------------------------- MODULE VMConfigProofs ---------------------------
(***************************************************************************)
(* What is proved about VMConfig, for all attribute values, adapters,      *)
(* rules, folders, ways of printing the memory, sources of an import or a  *)
(* clone, failing stages, and any number of edits and failures.            *)
(***************************************************************************)
EXTENDS VMConfig, TLAPS

(***************************************************************************)
(* Types.                                                                  *)
(***************************************************************************)

\* Reading back keeps a configuration a configuration: rules are dropped with
\* the adapters they belong to.
LEMMA ReadBackType ==
  ASSUME TypeOK, NEW state \in Configs, NEW quiet \in BOOLEAN
  PROVE  ReadBack(state, quiet) \in Configs
  <1>1. /\ state \in Settings /\ vm \in Settings
        /\ state.rules # {} => state.nics > 0
        /\ Printed[vm.memory] \in Memories
    BY PrintedAssumption DEF TypeOK, Configs, Settings
  <1>2. CASE quiet
    <2>1. ReadBack(state, quiet) = [state EXCEPT !.memory = Printed[vm.memory],
                                                 !.boot = vm.boot, !.nics = @, !.rules = @]
      BY <1>2 DEF ReadBack
    <2> QED
      BY <1>1, <2>1 DEF Configs, Settings
  <1>3. CASE ~quiet
    <2>1. ReadBack(state, quiet) = [state EXCEPT !.memory = Printed[vm.memory],
                                                 !.boot = vm.boot, !.nics = vm.nics,
                                                 !.rules = {}]
      BY <1>3 DEF ReadBack
    <2> QED
      BY <1>1, <2>1 DEF Configs, Settings
  <1> QED
    BY <1>2, <1>3

LEMMA FreshType == Fresh \in Settings
  <1>1. Default \in Levels /\ 0 \in 0..MaxNics
    BY ConstantsAssumption
  <1>2. (CHOOSE m \in Memories : TRUE) \in Memories
    BY PrintedAssumption
  <1>3. {} \in SUBSET Rules /\ {} \in SUBSET Folders /\ TRUE \in BOOLEAN
    OBVIOUS
  <1> QED
    BY <1>1, <1>2, <1>3 DEF Fresh, Settings

LEMMA LooseType ==
  Nothing \in [settings : SUBSET (Unread \cup {"nics"}), rules : SUBSET Rules,
               folders : SUBSET Folders]
  BY DEF Nothing

LEMMA InitType == Init => TypeOK
  <1> SUFFICES ASSUME Init PROVE TypeOK
    OBVIOUS
  <1>1. Fresh \in Settings
    BY FreshType
  <1>2. Minimal \in Settings /\ Minimal.rules = {}
    BY <1>1 DEF Minimal, Settings, Fresh
  <1>3. want \in Configs /\ stored \in Configs /\ vm \in Settings
    BY <1>1, <1>2 DEF Init, Configs
  <1>4. /\ kind \in Kinds /\ known \in BOOLEAN /\ on \in BOOLEAN /\ created \in BOOLEAN
        /\ tainted \in BOOLEAN /\ lost \in BOOLEAN
    BY DEF Init
  <1>5. stage \in Stages /\ result \in {"none", "ok", "error"}
    BY DEF Init, Stages
  <1>6. trouble \in 0..MaxTrouble
    BY ConstantsAssumption DEF Init
  <1>7. loose \in [settings : SUBSET (Unread \cup {"nics"}), rules : SUBSET Rules,
                   folders : SUBSET Folders]
    BY LooseType DEF Init
  <1> QED
    BY <1>3, <1>4, <1>5, <1>6, <1>7 DEF TypeOK

LEMMA SpendType ==
  ASSUME TypeOK, Spend
  PROVE  trouble' \in 0..MaxTrouble
  BY ConstantsAssumption DEF Spend, TypeOK

LEMMA AbortType ==
  ASSUME TypeOK, NEW left \in Settings, Abort(left), trouble' \in 0..MaxTrouble
  PROVE  TypeOK'
  <1>1. vm' \in Settings /\ stored' \in Configs /\ known' \in BOOLEAN
    BY FreshType DEF Abort, TypeOK
  <1>2. /\ kind' \in Kinds /\ want' \in Configs /\ on' \in BOOLEAN
        /\ created' \in BOOLEAN /\ tainted' \in BOOLEAN /\ lost' \in BOOLEAN
    BY DEF Abort, TypeOK
  <1>3. stage' \in Stages /\ result' \in {"none", "ok", "error"}
    BY DEF Abort, Stages
  <1>4. loose' \in [settings : SUBSET (Unread \cup {"nics"}), rules : SUBSET Rules,
                    folders : SUBSET Folders]
    BY LooseType DEF Abort, TypeOK
  <1> QED
    BY <1>1, <1>2, <1>3, <1>4 DEF TypeOK

\* The VMs that an aborted handler may leave are VMs.
LEMMA AbortLeaves ==
  ASSUME TypeOK, CommandFails \/ ModifyRefused \/ AddRulesRefused \/ AddFoldersRefused
  PROVE  /\ \E left \in Settings : Abort(left)
         /\ trouble' \in 0..MaxTrouble
  <1>1. CASE CommandFails
    <2>1. trouble' \in 0..MaxTrouble
      BY <1>1, SpendType DEF CommandFails, Fault
    <2>2. CASE stage = "addrules"
      <3>1. PICK some \in SUBSET (want.rules \ vm.rules) :
              Abort([vm EXCEPT !.rules = @ \cup some])
        BY <1>1, <2>2 DEF CommandFails
      <3>2. [vm EXCEPT !.rules = @ \cup some] \in Settings
        BY <3>1 DEF TypeOK, Configs, Settings
      <3> QED
        BY <2>1, <3>1, <3>2
    <2>3. CASE stage = "addfolders"
      <3>1. PICK some \in SUBSET (want.folders \ vm.folders) :
              Abort([vm EXCEPT !.folders = @ \cup some])
        BY <1>1, <2>3 DEF CommandFails
      <3>2. [vm EXCEPT !.folders = @ \cup some] \in Settings
        BY <3>1 DEF TypeOK, Configs, Settings
      <3> QED
        BY <2>1, <3>1, <3>2
    <2>4. CASE stage \notin {"addrules", "addfolders"}
      <3>1. Abort(vm)
        BY <1>1, <2>4 DEF CommandFails
      <3> QED
        BY <2>1, <3>1 DEF TypeOK
    <2> QED
      BY <2>2, <2>3, <2>4
  <1>2. CASE ModifyRefused
    BY <1>2 DEF ModifyRefused, TypeOK
  <1>3. CASE AddRulesRefused
    <2>1. PICK before \in SUBSET (want.rules \ vm.rules) :
            Abort([vm EXCEPT !.rules = @ \cup before])
      BY <1>3 DEF AddRulesRefused
    <2>2. [vm EXCEPT !.rules = @ \cup before] \in Settings
      BY <2>1 DEF TypeOK, Configs, Settings
    <2> QED
      BY <1>3, <2>1, <2>2 DEF AddRulesRefused, TypeOK
  <1>4. CASE AddFoldersRefused
    <2>1. PICK before \in SUBSET (want.folders \ vm.folders) :
            Abort([vm EXCEPT !.folders = @ \cup before])
      BY <1>4 DEF AddFoldersRefused
    <2>2. [vm EXCEPT !.folders = @ \cup before] \in Settings
      BY <2>1 DEF TypeOK, Configs, Settings
    <2> QED
      BY <1>4, <2>1, <2>2 DEF AddFoldersRefused, TypeOK
  <1> QED
    BY <1>1, <1>2, <1>3, <1>4

LEMMA ApplyType ==
  ASSUME TypeOK, StartApply \/ Replace \/ NoChanges
  PROVE  TypeOK'
  <1>1. CASE StartApply
    <2>1. CASE stored' = stored /\ known' = known
      BY <1>1, <2>1 DEF StartApply, TypeOK, Stages
    <2>2. CASE ~(stored' = stored /\ known' = known)
      <3>1. PICK quiet \in Quiets : /\ stored' = ReadBack(stored, quiet)
                                    /\ known' = Known(quiet)
        BY <1>1, <2>2 DEF StartApply
      <3>2. stored' \in Configs /\ known' \in BOOLEAN
        BY <3>1, ReadBackType DEF Quiets, Known, TypeOK
      <3> QED
        BY <1>1, <3>2 DEF StartApply, TypeOK, Stages
    <2> QED
      BY <2>1, <2>2
  <1>2. CASE NoChanges
    <2>1. PICK quiet \in Quiets : /\ stored' = ReadBack(stored, quiet)
                                  /\ known' = Known(quiet)
      BY <1>2 DEF NoChanges
    <2>2. stored' \in Configs /\ known' \in BOOLEAN
      BY <2>1, ReadBackType DEF Quiets, Known, TypeOK
    <2> QED
      BY <1>2, <2>2 DEF NoChanges, TypeOK
  <1>3. CASE Replace
    BY <1>3, FreshType, LooseType DEF Replace, TypeOK
  <1> QED
    BY <1>1, <1>2, <1>3

\* The stages that go on to the next one.
LEMMA StagesType ==
  ASSUME TypeOK,
         \/ GetMachine \/ MakeMachine \/ PowerOff \/ PowerOffFails \/ Modify \/ Firmware
         \/ DeleteRules \/ DeleteRulesFails \/ AddRules
         \/ RemoveFolders \/ RemoveFoldersFails \/ AddFolders \/ Chipset \/ Start
  PROVE  TypeOK'
  <1> USE DEF Proceed
  <1>1. CASE GetMachine
    BY <1>1 DEF GetMachine, TypeOK, Stages
  <1>2. CASE MakeMachine
    <2>1. vm' \in Settings
      BY <1>2, FreshType, ConstantsAssumption DEF MakeMachine
    <2>2. loose' \in [settings : SUBSET (Unread \cup {"nics"}), rules : SUBSET Rules,
                      folders : SUBSET Folders]
      <3>1. {a \in NonDefault : vm'[a] # Default}
              \cup (IF vm'.nics > 0 THEN {"nics"} ELSE {})
              \cup (IF kind = "image" THEN {} ELSE {"chipset"})
            \in SUBSET (Unread \cup {"nics"})
        BY DEF NonDefault, Unread
      <3>2. vm'.rules \in SUBSET Rules /\ vm'.folders \in SUBSET Folders
        BY <2>1 DEF Settings
      <3> HIDE DEF NonDefault, Unread
      <3> QED
        BY <1>2, <3>1, <3>2 DEF MakeMachine
    <2> QED
      BY <1>2, <2>1, <2>2 DEF MakeMachine, TypeOK, Stages
  <1>3. CASE PowerOff
    BY <1>3 DEF PowerOff, TypeOK, Stages
  <1>4. CASE PowerOffFails
    BY <1>4, SpendType DEF PowerOffFails, Fault, TypeOK, Stages
  <1>5. CASE Modify
    <2>1. vm' \in Settings
      BY <1>5, ConstantsAssumption DEF Modify, Larger, TypeOK, Configs, Settings
    <2>2. loose' = [loose EXCEPT !.settings = @ \ {"vram", "nics"}]
          \/ loose' = [loose EXCEPT !.settings = @ \ {"vram"}]
      BY <1>5 DEF Modify
    <2>3. loose' \in [settings : SUBSET (Unread \cup {"nics"}), rules : SUBSET Rules,
                      folders : SUBSET Folders]
      BY <2>2 DEF TypeOK
    <2> QED
      BY <1>5, <2>1, <2>3 DEF Modify, TypeOK, Stages
  <1>6. CASE Firmware
    BY <1>6 DEF Firmware, Applied, TypeOK, Configs, Settings, Stages
  <1>7. CASE DeleteRules
    BY <1>7 DEF DeleteRules, TypeOK, Settings, Stages
  <1>8. CASE DeleteRulesFails
    BY <1>8, SpendType DEF DeleteRulesFails, Fault, TypeOK, Stages
  <1>9. CASE AddRules
    BY <1>9 DEF AddRules, TypeOK, Configs, Settings, Stages
  <1>10. CASE RemoveFolders
    BY <1>10 DEF RemoveFolders, TypeOK, Settings, Stages
  <1>11. CASE RemoveFoldersFails
    BY <1>11, SpendType DEF RemoveFoldersFails, Fault, TypeOK, Settings, Stages
  <1>12. CASE AddFolders
    BY <1>12 DEF AddFolders, TypeOK, Configs, Settings, Stages
  <1>13. CASE Chipset
    BY <1>13 DEF Chipset, Applied, TypeOK, Configs, Settings, Stages
  <1>14. CASE Start
    BY <1>14 DEF Start, TypeOK, Stages
  <1> QED
    BY <1>1, <1>2, <1>3, <1>4, <1>5, <1>6, <1>7, <1>8, <1>9, <1>10, <1>11,
       <1>12, <1>13, <1>14

\* What the last read may store.
LEMMA FinalReadStores ==
  ASSUME TypeOK, FinalRead \/ FinalReadFails
  PROVE  /\ \/ stored' = want
            \/ stored' = [want EXCEPT !.memory = Printed[vm.memory]]
            \/ \E quiet \in Quiets : stored' = ReadBack(want, quiet)
         /\ stored' \in Configs
         /\ known' \in BOOLEAN
  <1>1. \/ stored' = want /\ known' \in BOOLEAN
        \/ stored' = [want EXCEPT !.memory = Printed[vm.memory]] /\ known' \in BOOLEAN
        \/ \E quiet \in Quiets : stored' = ReadBack(want, quiet) /\ known' \in BOOLEAN
    BY DEF FinalRead, FinalReadFails, Quiets
  <1>2. CASE stored' = want
    BY <1>1, <1>2 DEF TypeOK, Quiets
  <1>3. CASE stored' = [want EXCEPT !.memory = Printed[vm.memory]]
    <2>1. Printed[vm.memory] \in Memories
      BY PrintedAssumption DEF TypeOK, Settings
    <2> QED
      BY <1>1, <1>3, <2>1 DEF TypeOK, Configs, Settings
  <1>4. CASE \E quiet \in Quiets : stored' = ReadBack(want, quiet)
    <2>1. PICK quiet \in Quiets : stored' = ReadBack(want, quiet)
      BY <1>4
    <2>2. want \in Configs /\ quiet \in BOOLEAN
      BY DEF TypeOK, Quiets
    <2>3. stored' \in Configs
      BY <2>1, <2>2, ReadBackType
    <2> QED
      BY <1>1, <1>4, <2>3
  <1> QED
    BY <1>1, <1>2, <1>3, <1>4

LEMMA ReadType ==
  ASSUME TypeOK, FinalRead \/ FinalReadFails
  PROVE  TypeOK'
  <1>1. stored' \in Configs /\ known' \in BOOLEAN
    BY FinalReadStores
  <1>2. CASE FinalRead
    BY <1>1, <1>2 DEF FinalRead, TypeOK, Stages
  <1>3. CASE FinalReadFails
    <2>1. trouble' \in 0..MaxTrouble
      BY <1>3, SpendType DEF FinalReadFails, Fault
    <2>2. /\ created' = TRUE /\ tainted' = ~created /\ stage' = "rest" /\ result' = "error"
          /\ UNCHANGED <<kind, want, vm, on, loose, lost>>
      BY <1>3 DEF FinalReadFails
    <2> QED
      BY <1>1, <2>1, <2>2 DEF TypeOK, Stages
  <1> QED
    BY <1>2, <1>3

LEMMA HandlerType ==
  ASSUME TypeOK, Handler \/ CommandFails
  PROVE  TypeOK'
  <1>1. CASE CommandFails \/ ModifyRefused \/ AddRulesRefused \/ AddFoldersRefused
    BY <1>1, AbortLeaves, AbortType
  <1>2. CASE FinalRead \/ FinalReadFails
    BY <1>2, ReadType
  <1> QED
    BY <1>1, <1>2, StagesType DEF Handler

\* An edit of one attribute gives a configuration again.
LEMMA EditReconfigures ==
  ASSUME TypeOK, Edit
  PROVE  \E c \in Configs : Reconfigure(c)
  <1>1. CASE \E m \in Memories : Reconfigure([want EXCEPT !.memory = m])
    <2>1. PICK m \in Memories : Reconfigure([want EXCEPT !.memory = m])
      BY <1>1
    <2>2. [want EXCEPT !.memory = m] \in Configs
      BY DEF TypeOK, Configs, Settings
    <2> QED
      BY <2>1, <2>2
  <1>2. CASE \E a \in Unread, v \in Levels : Reconfigure([want EXCEPT ![a] = v])
    <2>1. PICK a \in Unread, v \in Levels : Reconfigure([want EXCEPT ![a] = v])
      BY <1>2
    <2>2. [want EXCEPT ![a] = v] \in Configs
      BY DEF TypeOK, Configs, Settings, Unread
    <2> QED
      BY <2>1, <2>2
  <1>3. CASE \E n \in 0..MaxNics :
               Reconfigure([want EXCEPT !.nics = n, !.rules = IF n = 0 THEN {} ELSE @])
    <2>1. PICK n \in 0..MaxNics :
            Reconfigure([want EXCEPT !.nics = n, !.rules = IF n = 0 THEN {} ELSE @])
      BY <1>3
    <2> DEFINE c == [want EXCEPT !.nics = n, !.rules = IF n = 0 THEN {} ELSE @]
    <2>2. c \in Configs
      <3>1. CASE n = 0
        <4>1. c = [want EXCEPT !.nics = n, !.rules = {}]
          BY <3>1
        <4> QED
          BY <4>1 DEF TypeOK, Configs, Settings
      <3>2. CASE n # 0
        <4>1. c = [want EXCEPT !.nics = n, !.rules = @] /\ n > 0
          BY <3>2, ConstantsAssumption
        <4> QED
          BY <4>1 DEF TypeOK, Configs, Settings
      <3> QED
        BY <3>1, <3>2
    <2> QED
      BY <2>1, <2>2
  <1>4. CASE \E s \in SUBSET Rules : want.nics > 0 /\ Reconfigure([want EXCEPT !.rules = s])
    <2>1. PICK s \in SUBSET Rules : want.nics > 0 /\ Reconfigure([want EXCEPT !.rules = s])
      BY <1>4
    <2>2. [want EXCEPT !.rules = s] \in Configs
      BY <2>1 DEF TypeOK, Configs, Settings
    <2> QED
      BY <2>1, <2>2
  <1>5. CASE \E s \in SUBSET Folders : Reconfigure([want EXCEPT !.folders = s])
    <2>1. PICK s \in SUBSET Folders : Reconfigure([want EXCEPT !.folders = s])
      BY <1>5
    <2>2. [want EXCEPT !.folders = s] \in Configs
      BY DEF TypeOK, Configs, Settings
    <2> QED
      BY <2>1, <2>2
  <1>6. CASE \E b \in BOOLEAN : Reconfigure([want EXCEPT !.boot = b])
    <2>1. PICK b \in BOOLEAN : Reconfigure([want EXCEPT !.boot = b])
      BY <1>6
    <2>2. [want EXCEPT !.boot = b] \in Configs
      BY DEF TypeOK, Configs, Settings
    <2> QED
      BY <2>1, <2>2
  <1> QED
    BY <1>1, <1>2, <1>3, <1>4, <1>5, <1>6 DEF Edit

LEMMA EditType ==
  ASSUME TypeOK, Edit
  PROVE  TypeOK'
  <1>1. PICK c \in Configs : Reconfigure(c)
    BY EditReconfigures
  <1>2. want' \in Configs
    BY <1>1 DEF Reconfigure
  <1>3. loose' \in [settings : SUBSET (Unread \cup {"nics"}), rules : SUBSET Rules,
                    folders : SUBSET Folders]
    <2>1. NonDefault \subseteq Unread
      BY DEF NonDefault, Unread
    <2>2. want.rules \subseteq Rules /\ want.folders \subseteq Folders
      BY DEF TypeOK, Configs, Settings
    <2>3. /\ loose.settings \subseteq Unread \cup {"nics"}
          /\ loose.rules \subseteq Rules /\ loose.folders \subseteq Folders
      BY DEF TypeOK
    <2> QED
      BY <1>1, <2>1, <2>2, <2>3 DEF Reconfigure
  <1>4. /\ result' = "none" /\ trouble' \in 0..MaxTrouble
        /\ UNCHANGED <<kind, stored, known, vm, on, created, tainted, stage, lost>>
    BY SpendType DEF Edit
  <1> QED
    BY <1>2, <1>3, <1>4 DEF TypeOK

LEMMA DriftType ==
  ASSUME TypeOK, Drift
  PROVE  TypeOK'
  <1>1. vm' \in Settings /\ on' \in BOOLEAN /\ lost' \in BOOLEAN
    BY DEF Drift, Unread, TypeOK, Settings
  <1>2. loose' \in [settings : SUBSET (Unread \cup {"nics"}), rules : SUBSET Rules,
                    folders : SUBSET Folders]
    BY DEF Drift, Unread, TypeOK
  <1> QED
    BY <1>1, <1>2, SpendType DEF Drift, TypeOK

\* Every variable keeps its type: what is stored is always a configuration
\* that could have been written, rules only with an adapter.
THEOREM TypeCorrect == Spec => []TypeOK
  <1>1. Init => TypeOK
    BY InitType
  <1>2. TypeOK /\ [Next]_vars => TypeOK'
    <2> SUFFICES ASSUME TypeOK, [Next]_vars PROVE TypeOK'
      OBVIOUS
    <2>1. CASE UNCHANGED vars
      BY <2>1 DEF vars, TypeOK
    <2>2. CASE Next
      BY <2>2, ApplyType, HandlerType, EditType, DriftType DEF Next
    <2> QED
      BY <2>1, <2>2
  <1> QED
    BY <1>1, <1>2, PTL DEF Spec

(***************************************************************************)
(* The inductive invariant.  Leftovers: what the VM has and the            *)
(* configuration has not is loose.  Progress: what a handler has done by   *)
(* the stage it is at.  Power: when the VM runs.  InForce: what of the     *)
(* state the VM has while it runs and no update has failed with the VM     *)
(* running.  Settled: where a success leaves the state.                    *)
(***************************************************************************)
AfterModify == Stages \ {"rest", "get", "off", "modify"}
AfterFirmware == AfterModify \ {"firmware"}
AfterRules == {"delfolders", "addfolders", "chipset", "start", "read"}
AfterFolders == {"chipset", "start", "read"}
AfterChipset == {"start", "read"}

Leftovers ==
  /\ \A a \in NonDefault :
       want[a] = Default => vm[a] = Default \/ a \in loose.settings
  /\ vm.nics > want.nics => "nics" \in loose.settings
  /\ vm.rules \subseteq want.rules \cup loose.rules
  /\ vm.folders \subseteq want.folders \cup loose.folders
  /\ vm.boot = TRUE

Progress ==
  /\ stage \in AfterModify =>
       vm.memory = want.memory /\ vm.vram = want.vram /\ vm.nics >= want.nics
  /\ stage \in AfterFirmware =>
       (want.firmware # Default => vm.firmware = want.firmware)
  /\ stage \in AfterRules => want.rules \subseteq vm.rules
  /\ stage \in AfterFolders => want.folders \subseteq vm.folders
  /\ stage \in AfterChipset =>
       (want.chipset # Default => vm.chipset = want.chipset \/ "chipset" \in loose.settings)
  /\ stage = "off" => created
  /\ stage = "chipset" => created \/ kind = "image"
  /\ ~created /\ kind # "image" /\ stage \notin {"rest", "get"} =>
       "chipset" \in loose.settings

Power ==
  /\ stage \in AfterModify \ {"read"} => ~on
  /\ stage = "read" => on /\ ~lost
  /\ ~created /\ stage # "read" => ~on
  /\ stage # "rest" => result = "none"
  /\ result = "error" /\ created /\ ~lost => tainted \/ ~on \/ AsConfigured

InForce ==
  stage = "rest" /\ created /\ on /\ ~lost =>
    /\ stored.vram = vm.vram \/ "vram" \in loose.settings
    /\ \A a \in NonDefault :
         stored[a] # Default => vm[a] = stored[a] \/ a \in loose.settings
    /\ stored.nics <= vm.nics
    /\ stored.rules \subseteq vm.rules
    /\ stored.folders \subseteq vm.folders

Settled ==
  result = "ok" =>
    /\ stage = "rest" /\ created /\ on
    /\ stored.vram = want.vram /\ stored.firmware = want.firmware
    /\ stored.chipset = want.chipset /\ stored.folders = want.folders
    /\ Printed[vm.memory] = Printed[want.memory]
    /\ vm.nics = 0 => want.nics = 0
    /\ ~lost => AsConfigured

ConfigInv == Leftovers /\ Progress /\ Power /\ InForce /\ Settled
Numbers == want.nics \in Nat /\ vm.nics \in Nat /\ stored.nics \in Nat

LEMMA NumbersHold == TypeOK => Numbers
  BY ConstantsAssumption DEF TypeOK, Configs, Settings, Numbers

LEMMA InitInv == Init => ConfigInv
  <1> SUFFICES ASSUME Init PROVE ConfigInv
    OBVIOUS
  <1>1. Leftovers
    <2>1. /\ vm.firmware = Default /\ vm.chipset = Default /\ vm.nics = 0
          /\ vm.rules = {} /\ vm.folders = {} /\ vm.boot = TRUE /\ want.nics = 0
      BY DEF Init, Fresh, Minimal
    <2>2. \A a \in NonDefault : vm[a] = Default
      BY <2>1 DEF NonDefault
    <2> QED
      BY <2>1, <2>2 DEF Leftovers
  <1>2. Progress /\ Power /\ InForce /\ Settled
    BY DEF Init, Progress, Power, InForce, Settled, Stages,
           AfterModify, AfterFirmware, AfterRules, AfterFolders, AfterChipset
  <1> QED
    BY <1>1, <1>2 DEF ConfigInv

\* With all stages but the last behind it, a handler has the VM as configured.
LEMMA DoneIsAsConfigured ==
  ASSUME TypeOK, Leftovers, Progress, stage = "read"
  PROVE  AsConfigured
  <1>1. /\ vm.memory = want.memory /\ vm.vram = want.vram /\ vm.nics >= want.nics
        /\ want.firmware # Default => vm.firmware = want.firmware
        /\ want.chipset # Default => vm.chipset = want.chipset \/ "chipset" \in loose.settings
        /\ want.rules \subseteq vm.rules /\ want.folders \subseteq vm.folders
    BY DEF Progress, AfterModify, AfterFirmware, AfterRules, AfterFolders, AfterChipset,
           Stages
  <1>2. Numbers
    BY NumbersHold
  <1>3. \A a \in (Unread \cup {"nics"}) \ loose.settings : vm[a] = want[a]
    <2> SUFFICES ASSUME NEW a \in (Unread \cup {"nics"}) \ loose.settings
                 PROVE  vm[a] = want[a]
      OBVIOUS
    <2>1. CASE a = "vram"
      BY <1>1, <2>1
    <2>2. CASE a = "nics"
      BY <1>1, <1>2, <2>2 DEF Leftovers, Numbers
    <2>3. CASE a = "firmware"
      BY <1>1, <2>3 DEF Leftovers, NonDefault
    <2>4. CASE a = "chipset"
      BY <1>1, <2>4 DEF Leftovers, NonDefault
    <2> QED
      BY <2>1, <2>2, <2>3, <2>4 DEF Unread
  <1> QED
    BY <1>1, <1>3 DEF AsConfigured, Leftovers

\* An error is returned with the VM off, or with the configuration that was
\* stored lost; a create that failed leaves nothing behind here.
LEMMA AbortInv ==
  ASSUME TypeOK, ConfigInv, NEW left \in Settings, Abort(left), stage # "read",
         left.boot = TRUE,
         \A a \in NonDefault : left[a] = vm[a],
         left.nics = vm.nics,
         left.rules \subseteq vm.rules \cup want.rules,
         left.folders \subseteq vm.folders \cup want.folders
  PROVE  ConfigInv'
  <1>1. /\ stage' = "rest" /\ result' = "error" /\ created' = created /\ want' = want
        /\ on' = on /\ tainted' = tainted
        /\ lost' = (lost \/ (created /\ on))
    BY DEF Abort
  <1>2. ~created => ~on
    BY DEF ConfigInv, Power
  <1>3. Leftovers'
    <2>1. CASE created /\ vm' = left /\ loose' = loose
      BY <1>1, <2>1 DEF ConfigInv, Leftovers
    <2>2. CASE vm' = Fresh /\ loose' = Nothing
      <3>1. Numbers
        BY NumbersHold
      <3> QED
        BY <1>1, <2>2, <3>1 DEF Leftovers, Fresh, Nothing, NonDefault, Numbers
    <2> QED
      BY <2>1, <2>2 DEF Abort
  <1>4. Progress' /\ Power' /\ InForce' /\ Settled'
    BY <1>1, <1>2 DEF Progress, Power, InForce, Settled, Stages,
           AfterModify, AfterFirmware, AfterRules, AfterFolders, AfterChipset
  <1> QED
    BY <1>3, <1>4 DEF ConfigInv

LEMMA RefusedInv ==
  ASSUME TypeOK, ConfigInv,
         CommandFails \/ ModifyRefused \/ AddRulesRefused \/ AddFoldersRefused
  PROVE  ConfigInv'
  <1> DEFINE LeavesRules(some) == [vm EXCEPT !.rules = @ \cup some]
             LeavesFolders(some) == [vm EXCEPT !.folders = @ \cup some]
  <1>1. /\ vm \in Settings /\ vm.boot = TRUE /\ stage # "read"
        /\ want.rules \subseteq Rules /\ want.folders \subseteq Folders
    BY DEF TypeOK, Configs, Settings, ConfigInv, Leftovers, CommandFails, ModifyRefused,
           AddRulesRefused, AddFoldersRefused
  <1>2. ASSUME NEW some \in SUBSET want.rules, Abort(LeavesRules(some))
        PROVE  ConfigInv'
    <2>1. /\ LeavesRules(some) \in Settings /\ LeavesRules(some).boot = TRUE
          /\ \A a \in NonDefault : LeavesRules(some)[a] = vm[a]
          /\ LeavesRules(some).nics = vm.nics
          /\ LeavesRules(some).rules \subseteq vm.rules \cup want.rules
          /\ LeavesRules(some).folders = vm.folders
      BY <1>1 DEF Settings, NonDefault
    <2> QED
      BY <1>1, <1>2, <2>1, AbortInv
  <1>3. ASSUME NEW some \in SUBSET want.folders, Abort(LeavesFolders(some))
        PROVE  ConfigInv'
    <2>1. /\ LeavesFolders(some) \in Settings /\ LeavesFolders(some).boot = TRUE
          /\ \A a \in NonDefault : LeavesFolders(some)[a] = vm[a]
          /\ LeavesFolders(some).nics = vm.nics
          /\ LeavesFolders(some).rules = vm.rules
          /\ LeavesFolders(some).folders \subseteq vm.folders \cup want.folders
      BY <1>1 DEF Settings, NonDefault
    <2> QED
      BY <1>1, <1>3, <2>1, AbortInv
  <1>4. Abort(vm) => ConfigInv'
    BY <1>1, AbortInv
  <1>5. CASE CommandFails
    <2>1. CASE stage = "addrules"
      <3>1. PICK some \in SUBSET (want.rules \ vm.rules) : Abort(LeavesRules(some))
        BY <1>5, <2>1 DEF CommandFails
      <3> QED
        BY <1>2, <3>1
    <2>2. CASE stage = "addfolders"
      <3>1. PICK some \in SUBSET (want.folders \ vm.folders) : Abort(LeavesFolders(some))
        BY <1>5, <2>2 DEF CommandFails
      <3> QED
        BY <1>3, <3>1
    <2>3. CASE stage \notin {"addrules", "addfolders"}
      BY <1>4, <1>5, <2>3 DEF CommandFails
    <2> QED
      BY <2>1, <2>2, <2>3
  <1>6. CASE ModifyRefused
    BY <1>4, <1>6 DEF ModifyRefused
  <1>7. CASE AddRulesRefused
    <2>1. PICK some \in SUBSET (want.rules \ vm.rules) : Abort(LeavesRules(some))
      BY <1>7 DEF AddRulesRefused
    <2> QED
      BY <1>2, <2>1
  <1>8. CASE AddFoldersRefused
    <2>1. PICK some \in SUBSET (want.folders \ vm.folders) : Abort(LeavesFolders(some))
      BY <1>8 DEF AddFoldersRefused
    <2> QED
      BY <1>3, <2>1
  <1> QED
    BY <1>5, <1>6, <1>7, <1>8

StageStep ==
  \/ GetMachine \/ MakeMachine \/ PowerOff \/ PowerOffFails \/ Modify \/ Firmware
  \/ DeleteRules \/ DeleteRulesFails \/ AddRules
  \/ RemoveFolders \/ RemoveFoldersFails \/ AddFolders \/ Chipset \/ Start

\* Nothing a stage adds is unwanted.
LEMMA StagesLeave ==
  ASSUME TypeOK, ConfigInv, StageStep
  PROVE  Leftovers'
  <1> USE DEF Proceed, Leftovers
  <1>1. Leftovers /\ Numbers
    BY NumbersHold DEF ConfigInv
  <1>2. CASE GetMachine \/ PowerOff \/ PowerOffFails \/ DeleteRulesFails \/ Start
    BY <1>1, <1>2 DEF GetMachine, PowerOff, PowerOffFails, DeleteRulesFails, Start
  <1>3. CASE MakeMachine
    <2>1. vm' \in Settings /\ vm'.boot = TRUE /\ want' = want
      <3>1. Fresh.boot = TRUE
        BY DEF Fresh
      <3>2. vm' = Fresh \/ vm' \in Sources
        BY <1>3 DEF MakeMachine
      <3>3. want' = want
        BY <1>3 DEF MakeMachine
      <3>4. \A s \in Sources : s \in Settings /\ s.boot
        BY ConstantsAssumption
      <3>5. vm' \in Settings /\ vm'.boot
        BY <3>1, <3>2, <3>4, FreshType
      <3> QED
        BY <3>3, <3>5 DEF Settings
    <2>2. vm'.nics \in Nat
      BY <2>1, ConstantsAssumption DEF Settings
    <2>3. /\ \A a \in NonDefault : vm'[a] = Default \/ a \in loose'.settings
          /\ vm'.nics > 0 => "nics" \in loose'.settings
          /\ loose'.rules = vm'.rules /\ loose'.folders = vm'.folders
      BY <1>3 DEF MakeMachine
    <2> QED
      BY <1>1, <2>1, <2>2, <2>3 DEF Numbers
  <1>4. CASE Modify
    BY <1>1, <1>4 DEF Modify, Larger, TypeOK, Configs, Settings, NonDefault, Numbers
  <1>5. CASE Firmware
    BY <1>1, <1>5 DEF Firmware, Applied, TypeOK, Settings, NonDefault
  <1>6. CASE DeleteRules
    BY <1>1, <1>6 DEF DeleteRules, TypeOK, Settings, NonDefault
  <1>7. CASE AddRules
    BY <1>1, <1>7 DEF AddRules, TypeOK, Settings, NonDefault
  <1>8. CASE RemoveFolders
    BY <1>1, <1>8 DEF RemoveFolders, TypeOK, Settings, NonDefault
  <1>9. CASE RemoveFoldersFails
    BY <1>1, <1>9 DEF RemoveFoldersFails, TypeOK, Settings, NonDefault
  <1>10. CASE AddFolders
    BY <1>1, <1>10 DEF AddFolders, TypeOK, Settings, NonDefault
  <1>11. CASE Chipset
    BY <1>1, <1>11 DEF Chipset, Applied, TypeOK, Settings, NonDefault
  <1> QED
    BY <1>2, <1>3, <1>4, <1>5, <1>6, <1>7, <1>8, <1>9, <1>10, <1>11 DEF StageStep

LEMMA StagesProgress ==
  ASSUME TypeOK, ConfigInv, StageStep
  PROVE  Progress'
  <1> USE DEF Proceed, Progress, AfterModify, AfterFirmware, AfterRules, AfterFolders,
              AfterChipset, Stages
  <1>1. Progress /\ Numbers
    BY NumbersHold DEF ConfigInv
  <1>2. CASE GetMachine
    BY <1>1, <1>2 DEF GetMachine
  <1>3. CASE MakeMachine
    BY <1>1, <1>3 DEF MakeMachine
  <1>4. CASE PowerOff \/ PowerOffFails
    BY <1>1, <1>4 DEF PowerOff, PowerOffFails
  <1>5. CASE Modify
    BY <1>1, <1>5 DEF Modify, Larger, TypeOK, Configs, Settings, Numbers
  <1>6. CASE Firmware
    BY <1>1, <1>6 DEF Firmware, Applied, TypeOK, Configs, Settings
  <1>7. CASE DeleteRules
    BY <1>1, <1>7 DEF DeleteRules, TypeOK, Settings
  <1>8. CASE DeleteRulesFails
    BY <1>1, <1>8 DEF DeleteRulesFails
  <1>9. CASE AddRules
    BY <1>1, <1>9 DEF AddRules, TypeOK, Settings
  <1>10. CASE RemoveFolders
    BY <1>1, <1>10 DEF RemoveFolders, TypeOK, Settings
  <1>11. CASE RemoveFoldersFails
    BY <1>1, <1>11 DEF RemoveFoldersFails, TypeOK, Settings
  <1>12. CASE AddFolders
    BY <1>1, <1>12 DEF AddFolders, TypeOK, Settings
  <1>13. CASE Chipset
    BY <1>1, <1>13 DEF Chipset, Applied, TypeOK, Configs, Settings
  <1>14. CASE Start
    BY <1>1, <1>14 DEF Start
  <1> QED
    BY <1>2, <1>3, <1>4, <1>5, <1>6, <1>7, <1>8, <1>9, <1>10, <1>11, <1>12,
       <1>13, <1>14 DEF StageStep

\* While a handler runs there is nothing to say about the state or a result.
LEMMA StagesInv ==
  ASSUME TypeOK, ConfigInv, StageStep
  PROVE  ConfigInv'
  <1>1. stage # "rest" /\ result' = result /\ stage' # "rest"
    BY DEF StageStep, Proceed, GetMachine, MakeMachine, PowerOff, PowerOffFails, Modify,
           Firmware, DeleteRules, DeleteRulesFails, AddRules, RemoveFolders,
           RemoveFoldersFails, AddFolders, Chipset, Start
  <1>2. result = "none"
    BY <1>1 DEF ConfigInv, Power
  <1>3. created' = created
    BY DEF StageStep, Proceed, GetMachine, MakeMachine, PowerOff, PowerOffFails, Modify,
           Firmware, DeleteRules, DeleteRulesFails, AddRules, RemoveFolders,
           RemoveFoldersFails, AddFolders, Chipset, Start
  <1>4. /\ stage' \in AfterModify \ {"read"} => ~on'
        /\ stage' = "read" => on' /\ ~lost'
        /\ ~created' /\ stage' # "read" => ~on'
    <2> USE DEF ConfigInv, Power, AfterModify, Stages
    <2>1. CASE GetMachine \/ MakeMachine \/ PowerOff \/ PowerOffFails \/ Modify
      <3>1. stage' \in {"off", "modify"} \/ ~on'
        BY <2>1 DEF GetMachine, MakeMachine, PowerOff, PowerOffFails, Modify, Proceed
      <3>2. ~created => ~on'
        BY <2>1 DEF GetMachine, MakeMachine, PowerOff, PowerOffFails, Modify, Proceed
      <3>3. stage' # "read"
        BY <2>1 DEF GetMachine, MakeMachine, PowerOff, PowerOffFails, Modify, Proceed
      <3> QED
        BY <1>3, <3>1, <3>2, <3>3
    <2>2. CASE Start
      BY <2>2 DEF Start
    <2>3. CASE ~(GetMachine \/ MakeMachine \/ PowerOff \/ PowerOffFails \/ Modify \/ Start)
      <3>1. ~on /\ on' = on /\ stage' # "read"
        BY <2>3 DEF StageStep, Firmware, DeleteRules, DeleteRulesFails, AddRules,
                    RemoveFolders, RemoveFoldersFails, AddFolders, Chipset, Proceed
      <3> QED
        BY <3>1
    <2> QED
      BY <2>1, <2>2, <2>3
  <1>5. Leftovers' /\ Progress'
    BY StagesLeave, StagesProgress
  <1> QED
    BY <1>1, <1>2, <1>4, <1>5 DEF ConfigInv, Power, InForce, Settled

\* What a read-back holds: what is never read of the state it starts from, and
\* no more adapters or rules than that or the VM has.
LEMMA ReadBackFields ==
  ASSUME TypeOK, NEW state \in Configs, NEW quiet \in BOOLEAN
  PROVE  /\ ReadBack(state, quiet).memory = Printed[vm.memory]
         /\ ReadBack(state, quiet).vram = state.vram
         /\ ReadBack(state, quiet).firmware = state.firmware
         /\ ReadBack(state, quiet).chipset = state.chipset
         /\ ReadBack(state, quiet).folders = state.folders
         /\ ReadBack(state, quiet).boot = vm.boot
         /\ ReadBack(state, quiet).nics = IF quiet THEN state.nics ELSE vm.nics
         /\ ReadBack(state, quiet).rules = IF quiet THEN state.rules ELSE {}
  <1>1. CASE quiet
    BY <1>1 DEF ReadBack, Configs, Settings, TypeOK
  <1>2. CASE ~quiet
    BY <1>2 DEF ReadBack, Configs, Settings, TypeOK
  <1> QED
    BY <1>1, <1>2

LEMMA ReadInv ==
  ASSUME TypeOK, ConfigInv, FinalRead \/ FinalReadFails
  PROVE  ConfigInv'
  <1>1. /\ stage = "read" /\ stage' = "rest" /\ created'
        /\ UNCHANGED <<want, vm, on, loose, lost>>
        /\ result' \in {"ok", "error"}
    BY DEF FinalRead, FinalReadFails
  <1>2. on /\ ~lost /\ Leftovers /\ Progress /\ AsConfigured /\ Numbers
    BY <1>1, DoneIsAsConfigured, NumbersHold DEF ConfigInv, Power
  <1>3. /\ vm.memory = want.memory /\ vm.vram = want.vram /\ vm.nics >= want.nics
        /\ want.firmware # Default => vm.firmware = want.firmware
        /\ want.chipset # Default => vm.chipset = want.chipset \/ "chipset" \in loose.settings
        /\ want.rules \subseteq vm.rules /\ want.folders \subseteq vm.folders
    BY <1>1, <1>2 DEF Progress, AfterModify, AfterFirmware, AfterRules, AfterFolders,
           AfterChipset, Stages
  <1>4. /\ stored'.vram = want.vram /\ stored'.firmware = want.firmware
        /\ stored'.chipset = want.chipset /\ stored'.folders = want.folders
        /\ stored'.nics \in {want.nics, vm.nics} /\ stored'.rules \subseteq want.rules
    <2>1. CASE stored' = want
      BY <2>1
    <2>2. CASE stored' = [want EXCEPT !.memory = Printed[vm.memory]]
      BY <2>2 DEF TypeOK, Configs, Settings
    <2>3. CASE \E quiet \in Quiets : stored' = ReadBack(want, quiet)
      BY <2>3, ReadBackFields DEF Quiets, TypeOK
    <2> QED
      BY <2>1, <2>2, <2>3, FinalReadStores
  <1>5. AsConfigured'
    BY <1>1, <1>2 DEF AsConfigured
  <1>6. Leftovers'
    BY <1>1, <1>2 DEF Leftovers
  <1>7. Progress'
    BY <1>1 DEF Progress, AfterModify, AfterFirmware, AfterRules, AfterFolders,
           AfterChipset, Stages
  <1>8. Power'
    BY <1>1, <1>5 DEF Power, AfterModify, Stages
  <1>9. InForce'
    BY <1>1, <1>2, <1>3, <1>4 DEF InForce, NonDefault, Numbers
  <1>10. Settled'
    BY <1>1, <1>2, <1>3, <1>4, <1>5 DEF Settled, Numbers
  <1> QED
    BY <1>6, <1>7, <1>8, <1>9, <1>10 DEF ConfigInv

\* A plan that is empty, after any history, means that the VM is as configured.
LEMMA NoChangesInv ==
  ASSUME TypeOK, ConfigInv, NoChanges
  PROVE  ConfigInv'
  <1>1. PICK quiet \in Quiets : ~NeedsUpdate(quiet) /\ stored' = ReadBack(stored, quiet)
    BY DEF NoChanges
  <1>2. /\ stage = "rest" /\ stage' = "rest" /\ created /\ created' /\ result' = "ok"
        /\ UNCHANGED <<kind, want, vm, on, loose, lost>>
    BY DEF NoChanges
  <1>3. /\ on /\ stored' = want /\ quiet \in BOOLEAN /\ stored \in Configs /\ Numbers
        /\ quiet => vm.nics > 0
    BY <1>1, NumbersHold DEF NeedsUpdate, Quiets, TypeOK
  <1>4. /\ want.memory = Printed[vm.memory] /\ want.vram = stored.vram
        /\ want.firmware = stored.firmware /\ want.chipset = stored.chipset
        /\ want.folders = stored.folders
        /\ \/ want.nics = stored.nics /\ want.rules = stored.rules /\ vm.nics > 0
           \/ want.nics = vm.nics /\ want.rules = {}
    <2>1. want = ReadBack(stored, quiet)
      BY <1>1, <1>3
    <2>2. CASE quiet
      BY <1>3, <2>1, <2>2, ReadBackFields
    <2>3. CASE ~quiet
      BY <1>3, <2>1, <2>3, ReadBackFields
    <2> QED
      BY <2>2, <2>3
  <1>5. Printed[vm.memory] = Printed[want.memory]
    BY <1>4, PrintedAssumption DEF TypeOK, Settings
  <1>6. Leftovers /\ InForce
    BY DEF ConfigInv
  <1>7. ~lost => AsConfigured
    <2> SUFFICES ASSUME ~lost PROVE AsConfigured
      OBVIOUS
    <2>1. /\ stored.vram = vm.vram \/ "vram" \in loose.settings
          /\ \A a \in NonDefault :
               stored[a] # Default => vm[a] = stored[a] \/ a \in loose.settings
          /\ stored.nics <= vm.nics /\ stored.rules \subseteq vm.rules
          /\ stored.folders \subseteq vm.folders
      <3>1. stage = "rest" /\ created /\ on
        BY <1>2, <1>3
      <3> QED
        BY <1>6, <3>1 DEF InForce
    <2>2. \A a \in (Unread \cup {"nics"}) \ loose.settings : vm[a] = want[a]
      <3> SUFFICES ASSUME NEW a \in (Unread \cup {"nics"}) \ loose.settings
                   PROVE  vm[a] = want[a]
        OBVIOUS
      <3>1. CASE a = "vram"
        BY <1>4, <2>1, <3>1
      <3>2. CASE a = "nics"
        BY <1>3, <1>4, <1>6, <2>1, <3>2 DEF Leftovers, Numbers
      <3>3. CASE a = "firmware"
        BY <1>4, <1>6, <2>1, <3>3 DEF Leftovers, NonDefault
      <3>4. CASE a = "chipset"
        BY <1>4, <1>6, <2>1, <3>4 DEF Leftovers, NonDefault
      <3> QED
        BY <3>1, <3>2, <3>3, <3>4 DEF Unread
    <2>3. vm.nics >= want.nics
      BY <1>3, <1>4, <2>1 DEF Numbers
    <2> QED
      BY <1>4, <1>5, <1>6, <2>1, <2>2, <2>3 DEF AsConfigured, Leftovers
  <1>8. AsConfigured <=> AsConfigured'
    BY <1>2 DEF AsConfigured
  <1>9. Leftovers'
    BY <1>2, <1>6 DEF Leftovers
  <1>10. Progress' /\ Power'
    BY <1>2, <1>3 DEF Progress, Power, AfterModify, AfterFirmware, AfterRules, AfterFolders,
           AfterChipset, Stages
  <1>11. InForce'
    BY <1>2, <1>3, <1>4, <1>6 DEF InForce, NonDefault, Numbers
  <1>12. Settled'
    BY <1>2, <1>3, <1>4, <1>5, <1>7, <1>8 DEF Settled, Numbers
  <1> QED
    BY <1>9, <1>10, <1>11, <1>12 DEF ConfigInv

LEMMA StartApplyInv ==
  ASSUME TypeOK, ConfigInv, StartApply
  PROVE  ConfigInv'
  <1>1. /\ stage = "rest" /\ stage' = "get" /\ result' = "none"
        /\ UNCHANGED <<kind, want, vm, on, created, loose, lost>>
    BY DEF StartApply
  <1>2. Leftovers'
    BY <1>1 DEF ConfigInv, Leftovers
  <1>3. Progress' /\ Power' /\ InForce' /\ Settled'
    BY <1>1 DEF ConfigInv, Progress, Power, InForce, Settled, Stages, AfterModify,
           AfterFirmware, AfterRules, AfterFolders, AfterChipset
  <1> QED
    BY <1>2, <1>3 DEF ConfigInv

LEMMA ReplaceInv ==
  ASSUME TypeOK, ConfigInv, Replace
  PROVE  ConfigInv'
  <1>1. /\ stage = "rest" /\ stage' = "rest" /\ result' = "none" /\ ~on' /\ ~created'
        /\ vm' = Fresh /\ loose' = Nothing /\ want' = want
    BY DEF Replace
  <1>2. Leftovers'
    BY <1>1, NumbersHold DEF Leftovers, Fresh, Nothing, NonDefault, Numbers
  <1>3. Progress' /\ Power' /\ InForce' /\ Settled'
    BY <1>1 DEF Progress, Power, InForce, Settled, Stages, AfterModify,
           AfterFirmware, AfterRules, AfterFolders, AfterChipset
  <1> QED
    BY <1>2, <1>3 DEF ConfigInv

LEMMA EditInv ==
  ASSUME TypeOK, ConfigInv, Edit
  PROVE  ConfigInv'
  <1>1. PICK c \in Configs : Reconfigure(c)
    BY EditReconfigures
  <1>2. /\ stage = "rest" /\ result' = "none"
        /\ UNCHANGED <<kind, stored, vm, on, created, stage, lost>>
    BY DEF Edit
  <1>3. c.nics \in Nat /\ Numbers
    BY ConstantsAssumption, NumbersHold DEF Configs, Settings
  <1>4. /\ want' = c
        /\ loose.settings \subseteq loose'.settings
        /\ \A a \in NonDefault : c[a] = Default /\ want[a] # Default => a \in loose'.settings
        /\ c.nics < want.nics => "nics" \in loose'.settings
        /\ loose'.rules = loose.rules \cup (want.rules \ c.rules)
        /\ loose'.folders = loose.folders \cup (want.folders \ c.folders)
    BY <1>1 DEF Reconfigure
  <1>5. Leftovers'
    BY <1>2, <1>3, <1>4 DEF ConfigInv, Leftovers, Numbers
  <1>6. Progress' /\ Power' /\ Settled'
    BY <1>2 DEF ConfigInv, Progress, Power, Settled, Stages, AfterModify,
           AfterFirmware, AfterRules, AfterFolders, AfterChipset
  <1>7. InForce'
    BY <1>2, <1>4 DEF ConfigInv, InForce
  <1> QED
    BY <1>5, <1>6, <1>7 DEF ConfigInv

LEMMA DriftInv ==
  ASSUME TypeOK, ConfigInv, Drift
  PROVE  ConfigInv'
  <1>1. /\ stage = "rest" /\ result' = "none" /\ created
        /\ UNCHANGED <<kind, want, stored, created, stage>>
    BY DEF Drift
  <1>2. \/ /\ \E m \in Memories : vm' = [vm EXCEPT !.memory = m]
           /\ UNCHANGED <<on, loose, lost>>
        \/ /\ \E a \in Unread, v \in Levels :
                /\ vm' = [vm EXCEPT ![a] = v]
                /\ loose' = [loose EXCEPT !.settings = @ \cup {a}]
           /\ UNCHANGED <<on, lost>>
        \/ on' = ~on /\ lost' = (lost \/ ~on) /\ UNCHANGED <<vm, loose>>
    BY DEF Drift
  <1>3. /\ vm'.nics = vm.nics /\ vm'.rules = vm.rules /\ vm'.folders = vm.folders
        /\ vm'.boot = vm.boot
        /\ loose'.rules = loose.rules /\ loose'.folders = loose.folders
        /\ loose.settings \subseteq loose'.settings
        /\ \A a \in Unread : vm'[a] = vm[a] \/ a \in loose'.settings
        /\ on' /\ ~lost' => on /\ ~lost
    BY <1>2 DEF Unread, TypeOK, Settings
  <1>4. Leftovers'
    BY <1>1, <1>3 DEF ConfigInv, Leftovers, NonDefault, Unread
  <1>5. Progress' /\ Power' /\ Settled'
    BY <1>1 DEF ConfigInv, Progress, Power, Settled, Stages, AfterModify,
           AfterFirmware, AfterRules, AfterFolders, AfterChipset
  <1>6. InForce'
    BY <1>1, <1>3 DEF ConfigInv, InForce, NonDefault, Unread
  <1> QED
    BY <1>4, <1>5, <1>6 DEF ConfigInv

LEMMA ConfigInvariant == Spec => []ConfigInv
  <1>1. Init => ConfigInv
    BY InitInv
  <1>2. TypeOK /\ ConfigInv /\ [Next]_vars => ConfigInv'
    <2> SUFFICES ASSUME TypeOK, ConfigInv, [Next]_vars PROVE ConfigInv'
      OBVIOUS
    <2>1. CASE UNCHANGED vars
      <3>1. Leftovers' /\ Progress'
        BY <2>1 DEF vars, ConfigInv, Leftovers, Progress
      <3>2. AsConfigured' <=> AsConfigured
        BY <2>1 DEF vars, AsConfigured
      <3>3. Power' /\ InForce' /\ Settled'
        BY <2>1, <3>2 DEF vars, ConfigInv, Power, InForce, Settled
      <3> QED
        BY <3>1, <3>3 DEF ConfigInv
    <2>2. CASE CommandFails \/ ModifyRefused \/ AddRulesRefused \/ AddFoldersRefused
      BY <2>2, RefusedInv
    <2>3. CASE StageStep
      BY <2>3, StagesInv
    <2>4. CASE FinalRead \/ FinalReadFails
      BY <2>4, ReadInv
    <2>5. CASE NoChanges
      BY <2>5, NoChangesInv
    <2>6. CASE StartApply
      BY <2>6, StartApplyInv
    <2>7. CASE Replace
      BY <2>7, ReplaceInv
    <2>8. CASE Edit
      BY <2>8, EditInv
    <2>9. CASE Drift
      BY <2>9, DriftInv
    <2> QED
      BY <2>1, <2>2, <2>3, <2>4, <2>5, <2>6, <2>7, <2>8, <2>9 DEF Next, Handler, StageStep
  <1> QED
    BY <1>1, <1>2, TypeCorrect, PTL DEF Spec

\* When apply reports success the VM runs with what the configuration asks for
\* and, but for what is loose, with nothing else, however many updates failed half
\* way and stored what they did not apply, unless one failed with the VM running.
THEOREM OkIsApplied == Spec => []OkMeansApplied
  <1>1. ConfigInv => OkMeansApplied
    BY DEF ConfigInv, Settled, OkMeansApplied
  <1> QED
    BY <1>1, ConfigInvariant, PTL

\* After a success the next plan is empty, whatever of the adapters the refresh
\* sees, for exactly the configurations that list four boot devices and write
\* memory as it is printed, and VMs with no adapter.
THEOREM SettlesExactly == Spec => []PlanSettles
  <1>1. TypeOK /\ ConfigInv => PlanSettles
    <2> SUFFICES ASSUME TypeOK, ConfigInv, result = "ok"
                 PROVE  (\A quiet \in Quiets : ~NeedsUpdate(quiet))
                          <=> want.boot /\ Printed[want.memory] = want.memory /\ vm.nics = 0
      BY DEF PlanSettles
    <2>1. /\ on /\ stored.vram = want.vram /\ stored.firmware = want.firmware
          /\ stored.chipset = want.chipset /\ stored.folders = want.folders
          /\ Printed[vm.memory] = Printed[want.memory] /\ vm.boot = TRUE
          /\ vm.nics = 0 => want.nics = 0
      BY DEF ConfigInv, Settled, Leftovers
    <2>2. stored \in Configs /\ want \in Configs /\ Numbers
      BY NumbersHold DEF TypeOK
    <2>3. FALSE \in Quiets /\ ~Known(FALSE)
      BY DEF Quiets, Known
    <2>4. ASSUME \A quiet \in Quiets : ~NeedsUpdate(quiet)
          PROVE  want.boot /\ Printed[want.memory] = want.memory /\ vm.nics = 0
      <3>1. ReadBack(stored, FALSE) = want /\ ~(want.nics > 0)
        BY <2>3, <2>4 DEF NeedsUpdate
      <3>2. want.boot = vm.boot /\ want.memory = Printed[vm.memory] /\ want.nics = vm.nics
        BY <2>2, <3>1, ReadBackFields
      <3> QED
        BY <2>1, <2>2, <3>1, <3>2 DEF Numbers
    <2>5. ASSUME want.boot, Printed[want.memory] = want.memory, vm.nics = 0,
                 NEW quiet \in Quiets
          PROVE  ~NeedsUpdate(quiet)
      <3>1. quiet = FALSE
        BY <2>5 DEF Quiets
      <3>2. want.nics = 0 /\ want.rules = {} /\ want.boot = TRUE
        BY <2>1, <2>2, <2>5 DEF Configs, Settings, Numbers
      <3> DEFINE read == ReadBack(stored, FALSE)
      <3>3. read \in Settings /\ want \in Settings
        BY <2>2, ReadBackType DEF Configs
      <3>4. /\ read.memory = want.memory /\ read.vram = want.vram
            /\ read.firmware = want.firmware /\ read.chipset = want.chipset
            /\ read.folders = want.folders /\ read.boot = want.boot
            /\ read.nics = want.nics /\ read.rules = want.rules
        BY <2>1, <2>2, <2>5, <3>2, ReadBackFields
      <3>5. read = want
        <4> HIDE DEF read
        <4> QED
          BY <3>3, <3>4 DEF Settings
      <3>6. ReadBack(stored, quiet) = want
        BY <3>1, <3>5
      <3>7. ~(want.nics > 0)
        BY <3>2
      <3> QED
        BY <2>1, <3>6, <3>7, Zenon DEF NeedsUpdate
    <2> QED
      BY <2>4, <2>5
  <1> QED
    BY <1>1, TypeCorrect, ConfigInvariant, PTL

\* A failed update that did not leave the VM running as configured left it off, so
\* that the next plan is an update; a create that failed after SetId is replaced.
THEOREM FailureIsVisible == Spec => []FailedUpdateIsVisible
  <1>1. ConfigInv => FailedUpdateIsVisible
    BY DEF ConfigInv, Power, FailedUpdateIsVisible, NeedsUpdate
  <1> QED
    BY <1>1, ConfigInvariant, PTL
=============================================================================
