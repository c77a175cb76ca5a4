--------------------------- MODULE SnapshotProofs ---------------------------
(***************************************************************************)
(* Theorems about Snapshot, for any number of resources and snapshots.     *)
(*                                                                         *)
(* A resource goes by a name only while it creates, and by a UUID from     *)
(* then on.  That the two never lead to a snapshot of somebody else needs  *)
(* names of its own, and that VirtualBox gives no UUID twice.              *)
(***************************************************************************)
EXTENDS Snapshot, FiniteSetTheorems, TLAPS

\* Resources and users give names of their own.
OwnNames ==
    /\ \A r, q \in Resources : NameOf[r] = NameOf[q] => r = q
    /\ \A r \in Resources : NameOf[r] \notin UserNames

-----------------------------------------------------------------------------
(* Types *)

\* Every action keeps the type of every variable.
LEMMA TypeInductive == TypeOK /\ [Next]_vars => TypeOK'
<1> SUFFICES ASSUME TypeOK, [Next]_vars PROVE TypeOK'
  OBVIOUS
<1> USE NamesAssumption, BoundsAssumption DEF TypeOK, Snapshots, Steps, NoId
<1>1. ASSUME NEW r \in Resources, StartApply(r) \/ Read(r) \/ ReadMissing(r) PROVE TypeOK'
  BY <1>1 DEF StartApply, Read, ReadMissing, Goto, Return, Lapse, Strike, Spend,
              host, config
<1>2. ASSUME NEW r \in Resources, Take(r) PROVE TypeOK'
  BY <1>2 DEF Take, Goto, config
<1>3. ASSUME NEW r \in Resources, TakeFails(r) \/ FindFails(r) \/ ConfirmFails(r) PROVE TypeOK'
  BY <1>3 DEF TakeFails, FindFails, ConfirmFails, CreateFails, Goto, Return, Lapse,
              Strike, Spend, host, config
<1>4. ASSUME NEW r \in Resources, Find(r) PROVE TypeOK'
  BY <1>4 DEF Find, FirstNamed, Goto, host, config
<1>5. ASSUME NEW r \in Resources, Confirm(r) PROVE TypeOK'
  BY <1>5 DEF Confirm, Goto, Return, host, config
<1>6. ASSUME NEW r \in Resources, Edit(r) PROVE TypeOK'
  <2>1. PICK s \in FirstNamed(NameOf[r]) :
          snaps' = (snaps \ {s}) \cup {[s EXCEPT !.desc = want[r]]}
    BY <1>6 DEF Edit
  <2>2. [s EXCEPT !.desc = want[r]] \in Snapshots
    BY <2>1 DEF FirstNamed
  <2> QED
    BY <1>6, <2>1, <2>2 DEF Edit, Goto, config
<1>7. ASSUME NEW r \in Resources, EditFails(r) \/ Check(r) \/ CheckFails(r) PROVE TypeOK'
  BY <1>7 DEF EditFails, Check, CheckFails, Goto, Return, Lapse, Strike, Spend,
              host, config
<1>8. ASSUME NEW r \in Resources, Delete(r) \/ DeleteFails(r) PROVE TypeOK'
  BY <1>8 DEF Delete, DeleteFails, Goto, Return, Strike, Spend, host, config
<1>9. ASSUME NEW r \in Resources, EditConfig(r) PROVE TypeOK'
  <2>1. snaps' \subseteq Snapshots /\ next' \in Nat \ {NoId} /\ id' \in [Resources -> Nat]
    BY <1>9 DEF EditConfig, host
  <2>2. wanted' \in [Resources -> BOOLEAN]
    BY <1>9, Zenon DEF EditConfig
  <2>3. want' \in [Resources -> Descriptions]
    BY <1>9 DEF EditConfig
  <2>4. UNCHANGED <<step, handle, lapses>> /\ trouble' \in 0..MaxTrouble
    BY <1>9 DEF EditConfig, Spend
  <2> QED
    BY <2>1, <2>2, <2>3, <2>4
<1>10. CASE UserTakes
  BY <1>10 DEF UserTakes, Strike, Spend, config
<1>11. CASE UserDeletes
  BY <1>11 DEF UserDeletes, Strike, Spend, config
<1>12. CASE Crash
  BY <1>12 DEF Crash, Strike, Spend, host, config
<1>13. CASE UNCHANGED vars
  BY <1>13 DEF vars
<1> QED
  BY <1>1, <1>2, <1>3, <1>4, <1>5, <1>6, <1>7, <1>8, <1>9, <1>10, <1>11, <1>12, <1>13
     DEF Next, Handler, Create, UpdateOrDelete

\* Every variable of Snapshot keeps its type.
THEOREM TypeCorrect == Spec => []TypeOK
<1>1. Init => TypeOK
  BY NamesAssumption, BoundsAssumption DEF Init, TypeOK, Snapshots, Steps, NoId
<1> QED
  BY <1>1, TypeInductive, PTL DEF Spec

-----------------------------------------------------------------------------
(* Whose snapshot a resource holds *)

\* A UUID is given out once.
UuidInv ==
    /\ \A s \in snaps : s.uuid < next
    /\ \A s, t \in snaps : s.uuid = t.uuid => s = t

\* The UUIDs resources know have been given out.
KnownInv == \A r \in Resources : id[r] < next /\ handle[r] < next

\* A snapshot has the name its maker gives.
NameInv ==
    \A s \in snaps : IF s.maker = User THEN s.name \in UserNames
                                       ELSE s.name = NameOf[s.maker]

OwnInv == TypeOK /\ UuidInv /\ KnownInv /\ NameInv /\ HoldsItsOwn

\* The first snapshot of a resource's name is one the resource has taken.
LEMMA NamedIsOwn ==
    ASSUME OwnNames, TypeOK, NameInv, NEW r \in Resources, NEW s \in FirstNamed(NameOf[r])
    PROVE  s \in snaps /\ s.maker = r
BY NamesAssumption DEF OwnNames, TypeOK, NameInv, FirstNamed, Snapshots

\* Steps that touch no snapshot and learn no UUID.
LEMMA HostKept ==
    ASSUME OwnInv, UNCHANGED host,
           \A q \in Resources : id'[q] \in {id[q], NoId},
           \A q \in Resources : handle'[q] \in {handle[q], NoId}
    PROVE  (UuidInv /\ KnownInv /\ NameInv /\ HoldsItsOwn)'
<1> USE DEF OwnInv, host
<1>1. UuidInv' /\ NameInv'
  BY DEF UuidInv, NameInv
<1>2. KnownInv'
  BY DEF KnownInv, TypeOK, NoId
<1>3. ASSUME NEW q \in Resources, NEW s \in snaps, s.uuid = id'[q] \/ s.uuid = handle'[q]
      PROVE  s.maker = q
  BY <1>3 DEF HoldsItsOwn, Holding, TypeOK, Snapshots, NoId
<1>4. HoldsItsOwn'
  BY <1>3 DEF HoldsItsOwn, Holding
<1> QED
  BY <1>1, <1>2, <1>4

\* Steps that delete snapshots and learn no UUID.
LEMMA Fewer ==
    ASSUME OwnInv, snaps' \subseteq snaps, next' = next,
           \A q \in Resources : id'[q] \in {id[q], NoId},
           \A q \in Resources : handle'[q] \in {handle[q], NoId}
    PROVE  (UuidInv /\ KnownInv /\ NameInv /\ HoldsItsOwn)'
<1> USE DEF OwnInv
<1>1. UuidInv' /\ NameInv'
  BY DEF UuidInv, NameInv
<1>2. KnownInv'
  BY DEF KnownInv, TypeOK, NoId
<1>3. ASSUME NEW q \in Resources, NEW s \in snaps', s.uuid = id'[q] \/ s.uuid = handle'[q]
      PROVE  s.maker = q
  BY <1>3 DEF HoldsItsOwn, Holding, TypeOK, Snapshots, NoId
<1>4. HoldsItsOwn'
  BY <1>3 DEF HoldsItsOwn, Holding
<1> QED
  BY <1>1, <1>2, <1>4

\* A snapshot that is taken has a UUID nobody knows.
LEMMA OneMore ==
    ASSUME OwnInv, NEW n \in Names, NEW d \in Descriptions,
           NEW k \in Resources \cup {User},
           IF k = User THEN n \in UserNames ELSE n = NameOf[k],
           snaps' = snaps \cup {[uuid |-> next, name |-> n, desc |-> d, maker |-> k]},
           next' = next + 1, UNCHANGED <<id, handle>>
    PROVE  (UuidInv /\ KnownInv /\ NameInv /\ HoldsItsOwn)'
<1> DEFINE new == [uuid |-> next, name |-> n, desc |-> d, maker |-> k]
<1> USE DEF OwnInv
<1>1. UuidInv'
  BY DEF UuidInv, TypeOK, Snapshots
<1>2. KnownInv'
  BY DEF KnownInv, TypeOK
<1>3. NameInv'
  BY DEF NameInv
<1>4. ASSUME NEW q \in Resources, NEW s \in snaps', s.uuid = id[q] \/ s.uuid = handle[q]
      PROVE  s \in snaps /\ s.maker = q
  <2>1. id[q] # next /\ handle[q] # next
    BY DEF KnownInv, TypeOK
  <2> QED
    BY <1>4, <2>1 DEF HoldsItsOwn, Holding
<1>5. HoldsItsOwn'
  BY <1>4 DEF HoldsItsOwn, Holding
<1> QED
  BY <1>1, <1>2, <1>3, <1>5

\* "snapshot edit" changes a description and nothing else.
LEMMA Edited ==
    ASSUME OwnInv, NEW r \in Resources, Edit(r)
    PROVE  (UuidInv /\ KnownInv /\ NameInv /\ HoldsItsOwn)'
<1> USE DEF OwnInv
<1>1. PICK e \in snaps : snaps' = (snaps \ {e}) \cup {[e EXCEPT !.desc = want[r]]}
  BY DEF Edit, FirstNamed
<1>2. \A s \in snaps' : \E t \in snaps :
        /\ s.uuid = t.uuid /\ s.name = t.name /\ s.maker = t.maker
        /\ s = IF t = e THEN [e EXCEPT !.desc = want[r]] ELSE t
  BY <1>1 DEF TypeOK, Snapshots
<1>3. UNCHANGED <<next, id, handle>>
  BY DEF Edit, config
<1>4. UuidInv'
  BY <1>2, <1>3 DEF UuidInv
<1>5. KnownInv'
  BY <1>3 DEF KnownInv
<1>6. NameInv'
  BY <1>2 DEF NameInv
<1>7. HoldsItsOwn'
  BY <1>2, <1>3 DEF HoldsItsOwn, Holding
<1> QED
  BY <1>4, <1>5, <1>6, <1>7

\* A create learns the UUID of a snapshot of its own.
LEMMA Found ==
    ASSUME OwnNames, OwnInv, NEW r \in Resources, Find(r)
    PROVE  (UuidInv /\ KnownInv /\ NameInv /\ HoldsItsOwn)'
<1> USE DEF OwnInv
<1>1. PICK f \in FirstNamed(NameOf[r]) : handle' = [handle EXCEPT ![r] = f.uuid]
  BY DEF Find
<1>2. f \in snaps /\ f.maker = r
  BY NamedIsOwn
<1>3. UNCHANGED <<snaps, next, id>>
  BY DEF Find, host
<1>4. UuidInv' /\ NameInv'
  BY <1>3 DEF UuidInv, NameInv
<1>5. KnownInv'
  BY <1>1, <1>2, <1>3 DEF KnownInv, UuidInv, TypeOK
<1>6. ASSUME NEW q \in Resources, NEW s \in snaps, s.uuid = id[q] \/ s.uuid = handle'[q]
      PROVE  s.maker = q
  <2>1. CASE q = r /\ s.uuid = f.uuid
    BY <1>2, <2>1 DEF UuidInv
  <2>2. CASE s.uuid = id[q] \/ s.uuid = handle[q]
    BY <2>2 DEF HoldsItsOwn, Holding
  <2> QED
    BY <1>1, <1>6, <2>1, <2>2 DEF TypeOK
<1>7. HoldsItsOwn'
  BY <1>3, <1>6 DEF HoldsItsOwn, Holding
<1> QED
  BY <1>4, <1>5, <1>7

\* SetId stores the UUID the create has learnt.
LEMMA Confirmed ==
    ASSUME OwnInv, NEW r \in Resources, Confirm(r)
    PROVE  (UuidInv /\ KnownInv /\ NameInv /\ HoldsItsOwn)'
<1> USE DEF OwnInv, Confirm, Return, host
<1>1. UuidInv' /\ NameInv'
  BY DEF UuidInv, NameInv
<1>2. KnownInv'
  BY DEF KnownInv, TypeOK, NoId
<1>3. ASSUME NEW q \in Resources, NEW s \in snaps, s.uuid = id'[q] \/ s.uuid = handle'[q]
      PROVE  s.maker = q
  BY <1>3 DEF HoldsItsOwn, Holding, TypeOK, Snapshots, NoId
<1>4. HoldsItsOwn'
  BY <1>3 DEF HoldsItsOwn, Holding
<1> QED
  BY <1>1, <1>2, <1>4

\* OwnInv is inductive when names are the resources' own.
LEMMA OwnInductive == OwnNames /\ OwnInv /\ [Next]_vars => OwnInv'
<1> SUFFICES ASSUME OwnNames, OwnInv, [Next]_vars PROVE OwnInv'
  OBVIOUS
<1> DEFINE Rest == UuidInv /\ KnownInv /\ NameInv /\ HoldsItsOwn
<1>0. TypeOK /\ TypeOK'
  BY TypeInductive DEF OwnInv
<1> SUFFICES Rest'
  BY <1>0 DEF OwnInv
<1>1. ASSUME NEW r \in Resources,
             \/ StartApply(r) \/ Read(r) \/ ReadMissing(r) \/ TakeFails(r) \/ FindFails(r)
             \/ ConfirmFails(r) \/ EditFails(r) \/ Check(r) \/ CheckFails(r)
             \/ DeleteFails(r) \/ EditConfig(r)
      PROVE  Rest'
  <2>1. UNCHANGED host
    BY <1>1 DEF StartApply, Read, ReadMissing, TakeFails, FindFails, ConfirmFails,
                CreateFails, EditFails, Check, CheckFails, DeleteFails, EditConfig
  <2>2. \A q \in Resources : id'[q] \in {id[q], NoId}
    BY <1>0, <1>1 DEF TypeOK, StartApply, Read, ReadMissing, TakeFails, FindFails,
                ConfirmFails, CreateFails, EditFails, Check, CheckFails, DeleteFails, EditConfig
  <2>3. \A q \in Resources : handle'[q] \in {handle[q], NoId}
    BY <1>0, <1>1 DEF TypeOK, StartApply, Read, ReadMissing, TakeFails, FindFails, Return,
                ConfirmFails, CreateFails, EditFails, Check, CheckFails, DeleteFails, EditConfig
  <2> QED
    BY <2>1, <2>2, <2>3, HostKept
<1>2. ASSUME NEW r \in Resources, Take(r) PROVE Rest'
  <2>1. /\ snaps' = snaps \cup {[uuid |-> next, name |-> NameOf[r],
                                 desc |-> want[r], maker |-> r]}
        /\ next' = next + 1
        /\ UNCHANGED <<id, handle>>
    BY <1>2 DEF Take
  <2>2. NameOf[r] \in Names /\ want[r] \in Descriptions /\ r # User
    BY <1>0, NamesAssumption DEF TypeOK
  <2> QED
    BY <2>1, <2>2, OneMore
<1>3. ASSUME NEW r \in Resources, Delete(r) PROVE Rest'
  <2>1. /\ snaps' \subseteq snaps
        /\ next' = next
        /\ \A q \in Resources : id'[q] \in {id[q], NoId}
        /\ \A q \in Resources : handle'[q] \in {handle[q], NoId}
    BY <1>0, <1>3 DEF TypeOK, Delete, Return
  <2> QED
    BY <2>1, Fewer
<1>4. CASE UserTakes
  <2>1. PICK n \in UserNames, d \in Descriptions :
          snaps' = snaps \cup {[uuid |-> next, name |-> n, desc |-> d, maker |-> User]}
    BY <1>4 DEF UserTakes
  <2>2. n \in Names /\ next' = next + 1 /\ UNCHANGED <<id, handle>>
    BY <1>4, NamesAssumption DEF UserTakes
  <2> QED
    BY <2>1, <2>2, OneMore
<1>5. CASE UserDeletes
  <2>1. snaps' \subseteq snaps /\ UNCHANGED <<next, id, handle>>
    BY <1>5 DEF UserDeletes
  <2> QED
    BY <2>1, Fewer
<1>6. CASE Crash
  <2>1. UNCHANGED <<snaps, next, id>> /\ \A q \in Resources : handle'[q] = NoId
    BY <1>6 DEF Crash, host
  <2> QED
    BY <2>1, Fewer
<1>7. CASE UNCHANGED vars
  <2>1. UNCHANGED <<snaps, next, id, handle>>
    BY <1>7 DEF vars
  <2> QED
    BY <2>1, Fewer
<1> QED
  BY <1>1, <1>2, <1>3, <1>4, <1>5, <1>6, <1>7, Edited, Found, Confirmed
     DEF Next, Handler, Create, UpdateOrDelete

\* A resource finds its snapshot by name and never gets hold of another's, when
\* resources and users give names of their own.
THEOREM HoldsOwn == ASSUME OwnNames PROVE Spec => []HoldsItsOwn
<1>1. Init => TypeOK
  BY NamesAssumption, BoundsAssumption DEF Init, TypeOK, Snapshots, Steps, NoId
<1>2. Init => OwnInv
  BY <1>1 DEF Init, OwnInv, UuidInv, KnownInv, NameInv, HoldsItsOwn, Holding, NoId
<1>3. OwnInv /\ [Next]_vars => OwnInv'
  BY OwnInductive
<1>4. OwnInv => HoldsItsOwn
  BY DEF OwnInv
<1> QED
  BY <1>2, <1>3, <1>4, PTL DEF Spec

-----------------------------------------------------------------------------
(* The contract of a managed resource *)

\* A create is of a resource without an ID, everything else of one with an ID.
Flow ==
    \A r \in Resources : /\ step[r] \in Creating => id[r] = NoId
                         /\ step[r] \in {"read", "edit", "check", "delete"} => id[r] # NoId

\* The steps come in the order of the handlers.
LEMMA FlowInductive == TypeOK /\ Flow /\ [Next]_vars => Flow'
<1> SUFFICES ASSUME TypeOK, Flow, [Next]_vars PROVE Flow'
  OBVIOUS
<1> USE DEF TypeOK, Flow, Steps, Creating, Goto, Return
<1>1. ASSUME NEW r \in Resources, StartApply(r) \/ Read(r) PROVE Flow'
  BY <1>1 DEF StartApply, Read
<1>2. ASSUME NEW r \in Resources, ReadMissing(r) \/ CheckFails(r) PROVE Flow'
  BY <1>2 DEF ReadMissing, CheckFails
<1>3. ASSUME NEW r \in Resources, Take(r) \/ Find(r) \/ Edit(r) PROVE Flow'
  BY <1>3 DEF Take, Find, Edit
<1>4. ASSUME NEW r \in Resources, TakeFails(r) \/ FindFails(r) \/ ConfirmFails(r) \/ EditFails(r)
                                  \/ Check(r) \/ DeleteFails(r) PROVE Flow'
  BY <1>4 DEF TakeFails, FindFails, ConfirmFails, CreateFails, EditFails, Check, DeleteFails
<1>5. ASSUME NEW r \in Resources, Confirm(r) \/ Delete(r) PROVE Flow'
  BY <1>5 DEF Confirm, Delete
<1>6. ASSUME NEW r \in Resources, EditConfig(r) PROVE Flow'
  BY <1>6 DEF EditConfig
<1>7. CASE UserTakes \/ UserDeletes \/ Crash \/ UNCHANGED vars
  BY <1>7 DEF UserTakes, UserDeletes, Crash, vars
<1> QED
  BY <1>1, <1>2, <1>3, <1>4, <1>5, <1>6, <1>7 DEF Next, Handler, Create, UpdateOrDelete

\* The snapshots a maker has, by their UUIDs.
UuidsOf(m) == {s.uuid : s \in {t \in snaps : t.maker = m}}

\* A snapshot that is taken adds its UUID to those of its maker.
LEMMA UuidsOfOneMore ==
    ASSUME NEW n, NEW d, NEW k,
           snaps' = snaps \cup {[uuid |-> next, name |-> n, desc |-> d, maker |-> k]}
    PROVE  /\ UuidsOf(k)' = UuidsOf(k) \cup {next}
           /\ \A m : m # k => UuidsOf(m)' = UuidsOf(m)
<1> DEFINE new == [uuid |-> next, name |-> n, desc |-> d, maker |-> k]
<1>1. \A m, u : u \in UuidsOf(m)' <=> \E s \in snaps \cup {new} : s.maker = m /\ s.uuid = u
  BY DEF UuidsOf
<1>2. \A m, u : u \in UuidsOf(m) <=> \E s \in snaps : s.maker = m /\ s.uuid = u
  BY DEF UuidsOf
<1>3. new.maker = k /\ new.uuid = next
  OBVIOUS
<1> HIDE DEF new
<1>4. \A m, u : u \in UuidsOf(m)' <=> u \in UuidsOf(m) \/ (m = k /\ u = next)
  BY <1>1, <1>2, <1>3
<1>5. UuidsOf(k)' = UuidsOf(k) \cup {next}
  BY <1>4, Zenon
<1>6. ASSUME NEW m, m # k PROVE UuidsOf(m)' = UuidsOf(m)
  <2>1. \A u : u \in UuidsOf(m)' <=> u \in UuidsOf(m)
    BY <1>4, <1>6
  <2> QED
    BY <2>1, Zenon
<1> QED
  BY <1>5, <1>6

\* "snapshot edit" leaves the UUIDs and makers as they are.
LEMMA UuidsOfEdited ==
    ASSUME TypeOK, NEW r \in Resources, Edit(r), NEW m
    PROVE  UuidsOf(m)' = UuidsOf(m)
<1>1. PICK e \in snaps : snaps' = (snaps \ {e}) \cup {[e EXCEPT !.desc = want[r]]}
  BY DEF Edit, FirstNamed
<1>2. [e EXCEPT !.desc = want[r]].uuid = e.uuid /\ [e EXCEPT !.desc = want[r]].maker = e.maker
  BY DEF TypeOK, Snapshots
<1> QED
  BY <1>1, <1>2 DEF UuidsOf

\* Every step of the snapshots is a step of the contract, or none.
LEMMA StepKeepsContract ==
    OwnInv /\ Flow /\ [Next]_vars => [Contract!Next]_(Contract!vars)
<1> SUFFICES ASSUME OwnInv, Flow, [Next]_vars PROVE [Contract!Next]_(Contract!vars)
  OBVIOUS
<1> DEFINE Made == [m \in Resources \cup {User} |->
                      {s.uuid : s \in {t \in snaps : t.maker = m}}]
           Known == [r \in Resources |-> {id[r]} \ {NoId}]
           Making == [r \in Resources |-> step[r] \in {"find", "confirm"}]
<1>t. TypeOK
  BY DEF OwnInv
<1>m. (\A m \in Resources \cup {User} : UuidsOf(m)' = UuidsOf(m)) => Made' = Made
  BY DEF UuidsOf
<1>1. ASSUME Made' = Made, id' = id,
             \A q \in Resources : step'[q] \in {"find", "confirm"} => step[q] \in {"find", "confirm"}
      PROVE  [Contract!Next]_(Contract!vars)
  <2>1. Known' = Known
    BY <1>1
  <2>2. \A q \in Resources : Making'[q] => Making[q]
    BY <1>1, Zenon
  <2>3. Contract!Abandon
    BY <1>1, <2>1, <2>2, Zenon DEF Contract!Abandon
  <2> QED
    BY <2>3 DEF Contract!Next
<1>2. ASSUME NEW r \in Resources, Made' = Made, id' = [id EXCEPT ![r] = NoId],
             Making' = Making
      PROVE  [Contract!Next]_(Contract!vars)
  <2>1. Known' = [Known EXCEPT ![r] = {}]
    BY <1>t, <1>2 DEF TypeOK
  <2>2. Contract!Forget(r)
    BY <1>2, <2>1 DEF Contract!Forget
  <2> QED
    BY <2>2 DEF Contract!Next
<1>3. ASSUME NEW r \in Resources, Take(r) PROVE [Contract!Next]_(Contract!vars)
  <2>1. r # User /\ id[r] = NoId /\ step[r] = "take"
    BY <1>3, NamesAssumption DEF Take, Flow, Creating
  <2>2. Made' = [Made EXCEPT ![r] = @ \cup {next}]
    <3>1. UuidsOf(r)' = UuidsOf(r) \cup {next} /\ \A m : m # r => UuidsOf(m)' = UuidsOf(m)
      <4>1. snaps' = snaps \cup {[uuid |-> next, name |-> NameOf[r], desc |-> want[r], maker |-> r]}
        BY <1>3 DEF Take
      <4> QED
        BY <4>1, UuidsOfOneMore
    <3> QED
      BY <3>1 DEF UuidsOf
  <2>3. Known' = Known /\ Known[r] = {}
    BY <1>3, <2>1 DEF Take
  <2>4. ~Making[r] /\ Making' = [Making EXCEPT ![r] = TRUE]
    <3>1. step \in [Resources -> Steps] /\ step' = [step EXCEPT ![r] = "find"]
      BY <1>3, <1>t DEF Take, Goto, TypeOK
    <3> QED
      BY <2>1, <3>1
  <2>5. \A m \in Resources \cup {User} : next \notin Made[m]
    BY <1>t DEF OwnInv, UuidInv, TypeOK, Snapshots
  <2>6. \A q \in Resources : next \notin Known[q]
    BY <1>t DEF OwnInv, KnownInv, TypeOK
  <2>7. Contract!MakeOne(r)
    <3>1. next \notin Contract!AllMade
      BY <2>5 DEF Contract!AllMade, Contract!Makers
    <3>2. next \notin Contract!AllKnown
      BY <2>6 DEF Contract!AllKnown
    <3> QED
      BY <2>2, <3>1, <3>2, ZenonT(30) DEF Contract!MakeOne
  <2>8. Contract!Make(r)
    BY <2>3, <2>4, <2>7, Zenon DEF Contract!Make
  <2> QED
    BY <2>8 DEF Contract!Next
<1>4. CASE UserTakes
  <2>1. Made' = [Made EXCEPT ![User] = @ \cup {next}]
    <3>1. UuidsOf(User)' = UuidsOf(User) \cup {next}
          /\ \A m : m # User => UuidsOf(m)' = UuidsOf(m)
      BY <1>4, UuidsOfOneMore DEF UserTakes
    <3> QED
      BY <3>1 DEF UuidsOf
  <2>2. Known' = Known /\ Making' = Making
    BY <1>4 DEF UserTakes
  <2>3. \A m \in Resources \cup {User} : next \notin Made[m]
    BY <1>t DEF OwnInv, UuidInv, TypeOK, Snapshots
  <2>4. \A q \in Resources : next \notin Known[q]
    BY <1>t DEF OwnInv, KnownInv, TypeOK
  <2>5. Contract!MakeOne(User)
    <3>1. next \notin Contract!AllMade
      BY <2>3 DEF Contract!AllMade, Contract!Makers
    <3>2. next \notin Contract!AllKnown
      BY <2>4 DEF Contract!AllKnown
    <3> QED
      BY <2>1, <3>1, <3>2 DEF Contract!MakeOne
  <2>6. Contract!OthersMake
    BY <2>2, <2>5, Zenon DEF Contract!OthersMake
  <2> QED
    BY <2>6 DEF Contract!Next
<1>5. ASSUME NEW r \in Resources, Confirm(r) PROVE [Contract!Next]_(Contract!vars)
  <2>1. step[r] = "confirm" /\ step' = [step EXCEPT ![r] = "rest"] /\ UNCHANGED snaps
    BY <1>5 DEF Confirm, Return, Goto, host
  <2>2. handle[r] # NoId /\ \A s \in snaps : s.uuid = handle[r] => s.maker = r
    BY <1>5, <1>t DEF Confirm, Holding, TypeOK, Snapshots, OwnInv, HoldsItsOwn
  <2>3. Made' = Made /\ \A m \in (Resources \cup {User}) \ {r} : handle[r] \notin Made[m]
    BY <2>1, <2>2
  <2>4. Known' = [Known EXCEPT ![r] = {handle[r]}]
    BY <1>5, <1>t, <2>2 DEF Confirm, TypeOK
  <2>5. Making[r] /\ Making' = [Making EXCEPT ![r] = FALSE]
    <3>1. step \in [Resources -> Steps]
      BY <1>t DEF TypeOK
    <3>2. Making' = [Making EXCEPT ![r] = FALSE]
      <4>1. step' = [step EXCEPT ![r] = "rest"] /\ ("rest" \in {"find", "confirm"}) = FALSE
        BY <2>1
      <4> QED
        BY <3>1, <4>1
    <3>3. Making[r]
      BY <2>1
    <3> QED
      BY <3>2, <3>3
  <2>6. handle[r] \in Known'[r]
    BY <2>4
  <2>7. Contract!Store(r)
    BY <2>3, <2>4, <2>5, <2>6, Zenon DEF Contract!Store, Contract!Makers
  <2> QED
    BY <2>7 DEF Contract!Next
<1>6. ASSUME NEW r \in Resources, Delete(r) PROVE [Contract!Next]_(Contract!vars)
  <2>1. step[r] = "delete" /\ step' = [step EXCEPT ![r] = "rest"] /\ id[r] # NoId
        /\ snaps' = snaps \ Holding(id[r])
    BY <1>6 DEF Delete, Return, Goto, Flow
  <2>2. \A s \in snaps : s.uuid = id[r] => s.maker = r
    BY DEF OwnInv, HoldsItsOwn, Holding
  <2>3. \A m, u : u \in UuidsOf(m) <=> \E s \in snaps : s.maker = m /\ s.uuid = u
    BY DEF UuidsOf
  <2>4. \A m, u : u \in UuidsOf(m)' <=> \E s \in snaps : s.maker = m /\ s.uuid = u /\ u # id[r]
    BY <2>1 DEF UuidsOf, Holding
  <2>5. Made' = [Made EXCEPT ![r] = @ \ {id[r]}]
    <3>1. UuidsOf(r)' = UuidsOf(r) \ {id[r]}
      BY <2>3, <2>4
    <3>2. \A m : m # r => UuidsOf(m)' = UuidsOf(m)
      <4>1. ASSUME NEW m, m # r PROVE UuidsOf(m)' = UuidsOf(m)
        <5>1. \A u : u \in UuidsOf(m)' <=> u \in UuidsOf(m)
          BY <2>2, <2>3, <2>4, <4>1
        <5> QED
          BY <5>1, Zenon
      <4> QED
        BY <4>1
    <3> QED
      BY <3>1, <3>2 DEF UuidsOf
  <2>6. Known[r] = {id[r]} /\ Known' = [Known EXCEPT ![r] = {}]
    BY <1>6, <1>t, <2>1 DEF Delete, TypeOK
  <2>7. Making' = Making
    BY <1>t, <2>1 DEF TypeOK
  <2>8. Contract!Remove(r)
    BY <2>5, <2>6, <2>7 DEF Contract!Remove
  <2> QED
    BY <2>8 DEF Contract!Next
<1>7. ASSUME NEW r \in Resources, ReadMissing(r) \/ CheckFails(r)
      PROVE  [Contract!Next]_(Contract!vars)
  <2>1. /\ step[r] \in {"read", "check"} /\ UNCHANGED snaps /\ id' = [id EXCEPT ![r] = NoId]
        /\ \E s \in {"take", "rest"} : step' = [step EXCEPT ![r] = s]
    BY <1>7 DEF ReadMissing, CheckFails, Goto, Return, host
  <2>2. Making' = Making
    BY <1>t, <2>1 DEF TypeOK
  <2> QED
    BY <1>2, <2>1, <2>2
<1>8. ASSUME NEW r \in Resources,
             \/ StartApply(r) \/ Read(r) \/ TakeFails(r) \/ Find(r) \/ FindFails(r)
             \/ ConfirmFails(r) \/ EditFails(r) \/ Check(r) \/ DeleteFails(r) \/ EditConfig(r)
      PROVE  [Contract!Next]_(Contract!vars)
  <2>1. UNCHANGED <<snaps, id>>
    BY <1>8 DEF StartApply, Read, TakeFails, Find, FindFails, ConfirmFails, CreateFails,
                EditFails, Check, DeleteFails, EditConfig, host
  <2>2. \A q \in Resources : step'[q] \in {"find", "confirm"} => step[q] \in {"find", "confirm"}
    BY <1>8, <1>t DEF StartApply, Read, TakeFails, Find, FindFails, ConfirmFails, CreateFails,
                      EditFails, Check, DeleteFails, EditConfig, Goto, Return, TypeOK
  <2> QED
    BY <1>1, <2>1, <2>2
<1>9. ASSUME NEW r \in Resources, Edit(r) PROVE [Contract!Next]_(Contract!vars)
  <2>1. Made' = Made
    BY <1>9, <1>t, <1>m, UuidsOfEdited
  <2>2. id' = id
    BY <1>9 DEF Edit
  <2>3. \A q \in Resources : step'[q] \in {"find", "confirm"} => step[q] \in {"find", "confirm"}
    BY <1>9, <1>t DEF Edit, Goto, TypeOK
  <2> QED
    BY <1>1, <2>1, <2>2, <2>3
<1>10. CASE UserDeletes
  <2>1. \A m \in Resources \cup {User} : Made'[m] \subseteq Made[m]
    BY <1>10 DEF UserDeletes
  <2>2. Known' = Known /\ Making' = Making
    BY <1>10 DEF UserDeletes
  <2>3. Contract!Vanish
    BY <2>1, <2>2, Zenon DEF Contract!Vanish, Contract!Makers
  <2> QED
    BY <2>3 DEF Contract!Next
<1>11. CASE Crash \/ UNCHANGED vars
  <2>1. UNCHANGED <<snaps, id>>
    BY <1>11 DEF Crash, vars, host
  <2>2. \A q \in Resources : step'[q] \in {"find", "confirm"} => step[q] \in {"find", "confirm"}
    BY <1>11 DEF Crash, vars
  <2> QED
    BY <1>1, <2>1, <2>2
<1> QED
  BY <1>3, <1>4, <1>5, <1>6, <1>7, <1>8, <1>9, <1>10, <1>11
     DEF Next, Handler, Create, UpdateOrDelete

\* Snapshots are managed as the contract says when names are the resources' own:
\* a create that looks for its snapshot by name stores none that another made,
\* and a destroy removes the one the state names.
THEOREM ContractKept == ASSUME OwnNames PROVE Spec => KeepsContract
<1>1. Init => TypeOK
  BY NamesAssumption, BoundsAssumption DEF Init, TypeOK, Snapshots, Steps, NoId
<1>2. Init => OwnInv /\ Flow
  BY <1>1 DEF Init, OwnInv, UuidInv, KnownInv, NameInv, HoldsItsOwn, Holding, NoId, Flow,
              Creating
<1>3. Init => Contract!Init
  <2>1. Init => \A m : {s.uuid : s \in {t \in snaps : t.maker = m}} = {}
    BY DEF Init
  <2>2. Init => \A r \in Resources : {id[r]} \ {NoId} = {}
    BY DEF Init
  <2>3. Init => \A r \in Resources : (step[r] \in {"find", "confirm"}) = FALSE
    BY DEF Init
  <2> QED
    BY <2>1, <2>2, <2>3 DEF Contract!Init, Contract!Makers
<1>4. OwnInv => TypeOK
  BY DEF OwnInv
<1>5. OwnInv /\ [Next]_vars => OwnInv'
  BY OwnInductive
<1> QED
  BY <1>2, <1>3, <1>4, <1>5, FlowInductive, StepKeepsContract, PTL
     DEF Spec, KeepsContract, Contract!Spec

-----------------------------------------------------------------------------
(* How many snapshots a resource leaves behind *)

\* The snapshots of a resource that its state does not name.  One lapse excuses
\* one of them, and a create that has taken its own has it to come.
Strays(r) == Taken(r) \ Holding(id[r])
Budget(r) == lapses[r] + IF step[r] \in {"find", "confirm"} THEN 1 ELSE 0
StrayBound(r) == Cardinality(Strays(r)) <= Budget(r)
StrayInv == IsFiniteSet(snaps) /\ \A r \in Resources : StrayBound(r)

\* The sets of snapshots that are counted are finite.
LEMMA SomeFinite ==
    ASSUME IsFiniteSet(snaps), NEW S \in SUBSET snaps
    PROVE  IsFiniteSet(S) /\ Cardinality(S) \in Nat
BY FS_Subset, FS_CardinalityType

\* An element adds one to a cardinality at most.
LEMMA AtMostOneMore ==
    ASSUME NEW S, IsFiniteSet(S), NEW x
    PROVE  IsFiniteSet(S \cup {x}) /\ Cardinality(S \cup {x}) <= Cardinality(S) + 1
<1>1. Cardinality(S) \in Nat
  BY FS_CardinalityType
<1>2. /\ IsFiniteSet(S \cup {x})
      /\ Cardinality(S \cup {x}) = IF x \in S THEN Cardinality(S) ELSE Cardinality(S) + 1
  BY FS_AddElement
<1> QED
  BY <1>1, <1>2

\* Strays that do not multiply stay within a budget that does not shrink.
LEMMA NoMoreStrays ==
    ASSUME StrayInv, NEW r \in Resources, Strays(r)' \subseteq Strays(r),
           TypeOK, TypeOK', Budget(r) <= Budget(r)'
    PROVE  StrayBound(r)'
<1>1. IsFiniteSet(Strays(r)) /\ Cardinality(Strays(r)) \in Nat
  BY SomeFinite DEF StrayInv, Strays, Taken
<1>2. Cardinality(Strays(r)') <= Cardinality(Strays(r))
  BY <1>1, FS_Subset
<1>3. Cardinality(Strays(r)') \in Nat
  BY <1>1, FS_Subset, FS_CardinalityType
<1>4. Budget(r) \in Nat /\ Budget(r)' \in Nat
  BY DEF Budget, TypeOK
<1> QED
  BY <1>1, <1>2, <1>3, <1>4 DEF StrayInv, StrayBound

\* One stray more is within a budget that has grown.
LEMMA OneMoreStray ==
    ASSUME StrayInv, NEW r \in Resources, NEW x, Strays(r)' \subseteq Strays(r) \cup {x},
           TypeOK, TypeOK', Budget(r) + 1 <= Budget(r)'
    PROVE  StrayBound(r)'
<1>1. IsFiniteSet(Strays(r)) /\ Cardinality(Strays(r)) \in Nat
  BY SomeFinite DEF StrayInv, Strays, Taken
<1>2. /\ IsFiniteSet(Strays(r) \cup {x})
      /\ Cardinality(Strays(r) \cup {x}) <= Cardinality(Strays(r)) + 1
  BY <1>1, AtMostOneMore
<1>3. Cardinality(Strays(r)') <= Cardinality(Strays(r) \cup {x})
  BY <1>2, FS_Subset
<1>4. Cardinality(Strays(r)') \in Nat /\ Cardinality(Strays(r) \cup {x}) \in Nat
  BY <1>2, FS_Subset, FS_CardinalityType
<1>5. Budget(r) \in Nat /\ Budget(r)' \in Nat
  BY DEF Budget, TypeOK
<1> QED
  BY <1>1, <1>2, <1>3, <1>4, <1>5 DEF StrayInv, StrayBound

\* A snapshot that exists becomes an ID's, and the budget shrinks by one.
LEMMA OneStrayLess ==
    ASSUME StrayInv, NEW r \in Resources, NEW x \in Strays(r),
           Strays(r)' \subseteq Strays(r) \ {x},
           TypeOK, TypeOK', Budget(r) <= Budget(r)' + 1
    PROVE  StrayBound(r)'
<1>1. IsFiniteSet(Strays(r)) /\ Cardinality(Strays(r)) \in Nat
  BY SomeFinite DEF StrayInv, Strays, Taken
<1>2. /\ IsFiniteSet(Strays(r) \ {x})
      /\ Cardinality(Strays(r) \ {x}) = Cardinality(Strays(r)) - 1
  BY <1>1, FS_RemoveElement
<1>3. Cardinality(Strays(r)') <= Cardinality(Strays(r) \ {x})
  BY <1>2, FS_Subset
<1>4. Cardinality(Strays(r)') \in Nat /\ Cardinality(Strays(r) \ {x}) \in Nat
  BY <1>2, FS_Subset, FS_CardinalityType
<1>5. Budget(r) \in Nat /\ Budget(r)' \in Nat
  BY DEF Budget, TypeOK
<1> QED
  BY <1>1, <1>2, <1>3, <1>4, <1>5 DEF StrayInv, StrayBound

\* An edit puts one snapshot in the place of another.
LEMMA StraysEdited ==
    ASSUME OwnInv, TypeOK', StrayInv, NEW r \in Resources, Edit(r), NEW q \in Resources
    PROVE  StrayBound(q)'
<1>t. TypeOK
  BY DEF OwnInv
<1>1. PICK e \in snaps : snaps' = (snaps \ {e}) \cup {[e EXCEPT !.desc = want[r]]}
  BY DEF Edit, FirstNamed
<1> DEFINE f == [e EXCEPT !.desc = want[r]]
<1>2. f.uuid = e.uuid /\ f.maker = e.maker
  BY <1>t DEF TypeOK, Snapshots
<1>3. UNCHANGED <<id, lapses>> /\ step[r] = "edit" /\ step' = [step EXCEPT ![r] = "check"]
  BY DEF Edit, Goto
<1>4. Budget(q)' = Budget(q)
  BY <1>3, <1>t DEF Budget, TypeOK
<1>5. CASE e \in Strays(q)
  <2>1. IsFiniteSet(Strays(q)) /\ Cardinality(Strays(q)) \in Nat
    BY SomeFinite DEF StrayInv, Strays, Taken
  <2>2. Strays(q)' \subseteq (Strays(q) \ {e}) \cup {f}
    BY <1>1, <1>2, <1>3 DEF Strays, Taken, Holding
  <2>3. /\ IsFiniteSet(Strays(q) \ {e})
        /\ Cardinality(Strays(q) \ {e}) = Cardinality(Strays(q)) - 1
    BY <1>5, <2>1, FS_RemoveElement
  <2> HIDE DEF f
  <2>4. /\ IsFiniteSet((Strays(q) \ {e}) \cup {f})
        /\ Cardinality((Strays(q) \ {e}) \cup {f}) <= Cardinality(Strays(q))
    BY <2>1, <2>3, FS_AddElement
  <2>5. Cardinality(Strays(q)') <= Cardinality((Strays(q) \ {e}) \cup {f})
    BY <2>2, <2>4, FS_Subset
  <2>6. Cardinality(Strays(q)') \in Nat /\ Cardinality((Strays(q) \ {e}) \cup {f}) \in Nat
    BY <2>2, <2>4, FS_Subset, FS_CardinalityType
  <2>7. Budget(q) \in Nat
    BY <1>t DEF Budget, TypeOK
  <2> QED
    BY <1>4, <2>1, <2>4, <2>5, <2>6, <2>7 DEF StrayInv, StrayBound
<1>6. CASE e \notin Strays(q)
  <2>1. Strays(q)' \subseteq Strays(q)
    BY <1>1, <1>2, <1>3, <1>6 DEF Strays, Taken, Holding
  <2>2. Budget(q) <= Budget(q)'
    BY <1>4, <1>t DEF Budget, TypeOK
  <2> QED
    BY <1>t, <2>1, <2>2, NoMoreStrays
<1> QED
  BY <1>5, <1>6

\* StrayInv is inductive along OwnInv and the order of the steps: what a failed
\* create or a failed list leaves behind is paid for by the lapse it counts.
LEMMA StraysInductive ==
    OwnNames /\ OwnInv /\ Flow /\ StrayInv /\ [Next]_vars => StrayInv'
<1> SUFFICES ASSUME OwnNames, OwnInv, Flow, StrayInv, [Next]_vars PROVE StrayInv'
  OBVIOUS
<1>t. TypeOK /\ TypeOK'
  BY TypeInductive DEF OwnInv
<1>n. \A s \in snaps : s.uuid # NoId
  BY <1>t DEF TypeOK, Snapshots
<1>f. IsFiniteSet(snaps')
  <2>1. ASSUME NEW r \in Resources, Edit(r) PROVE IsFiniteSet(snaps')
    <3>1. PICK e \in snaps : snaps' = (snaps \ {e}) \cup {[e EXCEPT !.desc = want[r]]}
      BY <2>1 DEF Edit, FirstNamed
    <3> QED
      BY <3>1, FS_RemoveElement, FS_AddElement DEF StrayInv
  <2>2. ASSUME NEW r \in Resources, Take(r) PROVE IsFiniteSet(snaps')
    BY <2>2, FS_AddElement DEF Take, StrayInv
  <2>3. CASE UserTakes
    BY <2>3, FS_AddElement DEF UserTakes, StrayInv
  <2>4. CASE snaps' \subseteq snaps
    BY <2>4, SomeFinite DEF StrayInv
  <2>5. (~\E r \in Resources : Edit(r) \/ Take(r)) /\ ~UserTakes => snaps' \subseteq snaps
    BY DEF Next, Handler, Create, UpdateOrDelete, StartApply, Read, ReadMissing, TakeFails,
           Find, FindFails, Confirm, ConfirmFails, CreateFails, EditFails, Check, CheckFails,
           Delete, DeleteFails, EditConfig, UserDeletes, Crash, vars, host
  <2> QED
    BY <2>1, <2>2, <2>3, <2>4, <2>5
<1> SUFFICES ASSUME NEW q \in Resources PROVE StrayBound(q)'
  BY <1>f DEF StrayInv
<1>a. ASSUME snaps' \subseteq snaps, id'[q] = id[q], Budget(q) <= Budget(q)'
      PROVE  StrayBound(q)'
  <2>1. Strays(q)' \subseteq Strays(q)
    BY <1>a DEF Strays, Taken, Holding
  <2> QED
    BY <1>a, <1>t, <2>1, NoMoreStrays
<1>b. lapses'[q] = lapses[q] /\ step'[q] = step[q] => Budget(q) <= Budget(q)'
  BY <1>t DEF Budget, TypeOK
<1>1. ASSUME NEW r \in Resources,
             \/ StartApply(r) \/ Read(r) \/ Find(r) \/ EditFails(r) \/ Check(r)
             \/ DeleteFails(r) \/ EditConfig(r)
      PROVE  StrayBound(q)'
  <2>1. UNCHANGED <<snaps, id, lapses>>
    BY <1>1 DEF StartApply, Read, Find, EditFails, Check, DeleteFails, EditConfig, host
  <2>2. step[q] \in {"find", "confirm"} => step'[q] \in {"find", "confirm"}
    BY <1>1, <1>t DEF StartApply, Read, Find, EditFails, Check, DeleteFails, EditConfig,
                      Goto, Return, TypeOK
  <2> QED
    BY <1>a, <1>t, <2>1, <2>2 DEF Budget, TypeOK
<1>2. ASSUME NEW r \in Resources, TakeFails(r) \/ FindFails(r) \/ ConfirmFails(r)
      PROVE  StrayBound(q)'
  <2>1. /\ UNCHANGED <<snaps, id>>
        /\ lapses' = [lapses EXCEPT ![r] = @ + 1]
        /\ step' = [step EXCEPT ![r] = "rest"]
    BY <1>2, <1>t DEF TakeFails, FindFails, ConfirmFails, CreateFails, Return, Goto, Lapse,
                      host, TypeOK
  <2> QED
    BY <1>a, <1>t, <2>1 DEF Budget, TypeOK
<1>3. ASSUME NEW r \in Resources, ReadMissing(r) \/ CheckFails(r) PROVE StrayBound(q)'
  <2>1. /\ UNCHANGED snaps /\ id' = [id EXCEPT ![r] = NoId]
        /\ step[r] \in {"read", "check"}
        /\ \E s \in {"take", "rest"} : step' = [step EXCEPT ![r] = s]
        /\ lapses' = [lapses EXCEPT ![r] = IF Holding(id[r]) # {} THEN @ + 1 ELSE @]
    BY <1>3 DEF ReadMissing, CheckFails, Goto, Return, Lapse, host
  <2>2. CASE q # r
    BY <1>a, <1>b, <1>t, <2>1, <2>2 DEF TypeOK
  <2>3. CASE q = r /\ Holding(id[r]) = {}
    <3>1. Strays(q)' \subseteq Strays(q)
      BY <2>1, <2>3 DEF Strays, Taken, Holding
    <3>2. Budget(q) <= Budget(q)'
      BY <1>t, <2>1, <2>3 DEF Budget, TypeOK
    <3> QED
      BY <1>t, <3>1, <3>2, NoMoreStrays
  <2>4. CASE q = r /\ Holding(id[r]) # {}
    <3>1. PICK x \in snaps : Holding(id[r]) = {x}
      BY <2>4 DEF Holding, OwnInv, UuidInv
    <3>2. Strays(q)' \subseteq Strays(q) \cup {x}
      BY <2>1, <2>4, <3>1 DEF Strays, Taken
    <3>3. Budget(q) + 1 <= Budget(q)'
      BY <1>t, <2>1, <2>4 DEF Budget, TypeOK
    <3> QED
      BY <1>t, <3>2, <3>3, OneMoreStray
  <2> QED
    BY <2>2, <2>3, <2>4
<1>4. ASSUME NEW r \in Resources, Take(r) PROVE StrayBound(q)'
  <2>0. \E x : snaps' = snaps \cup {x} /\ x.maker = r
    <3> DEFINE new == [uuid |-> next, name |-> NameOf[r], desc |-> want[r], maker |-> r]
    <3>1. snaps' = snaps \cup {new} /\ new.maker = r
      BY <1>4 DEF Take
    <3> HIDE DEF new
    <3> QED
      BY <3>1
  <2>1. PICK x : snaps' = snaps \cup {x} /\ x.maker = r
    BY <2>0
  <2>2. /\ UNCHANGED <<id, lapses>> /\ step[r] = "take"
        /\ step' = [step EXCEPT ![r] = "find"]
    BY <1>4 DEF Take, Goto
  <2>3. CASE q # r
    <3>1. Strays(q)' \subseteq Strays(q)
      BY <2>1, <2>2, <2>3 DEF Strays, Taken, Holding
    <3>2. Budget(q) <= Budget(q)'
      BY <1>b, <1>t, <2>2, <2>3 DEF TypeOK
    <3> QED
      BY <1>t, <3>1, <3>2, NoMoreStrays
  <2>4. CASE q = r
    <3>1. Strays(q)' \subseteq Strays(q) \cup {x}
      BY <2>1, <2>2 DEF Strays, Taken, Holding
    <3>2. Budget(q) + 1 <= Budget(q)'
      BY <1>t, <2>2, <2>4 DEF Budget, TypeOK
    <3> QED
      BY <1>t, <3>1, <3>2, OneMoreStray
  <2> QED
    BY <2>3, <2>4
<1>5. ASSUME NEW r \in Resources, Confirm(r) PROVE StrayBound(q)'
  <2>1. /\ UNCHANGED <<snaps, lapses>> /\ step[r] = "confirm"
        /\ id' = [id EXCEPT ![r] = handle[r]]
        /\ step' = [step EXCEPT ![r] = "rest"]
        /\ Holding(handle[r]) # {}
    BY <1>5 DEF Confirm, Return, Goto, host
  <2>2. CASE q # r
    BY <1>a, <1>b, <1>t, <2>1, <2>2 DEF TypeOK
  <2>3. CASE q = r
    <3>1. PICK x \in Holding(handle[r]) : TRUE
      BY <2>1
    <3>2. x \in snaps /\ x.maker = r /\ id[r] = NoId
      BY <2>1, <3>1 DEF Holding, OwnInv, HoldsItsOwn, Flow, Creating
    <3>3. x \in Strays(q)
      BY <1>n, <2>3, <3>2 DEF Strays, Taken, Holding
    <3>4. Strays(q)' \subseteq Strays(q) \ {x}
      BY <1>n, <1>t, <2>1, <2>3, <3>1, <3>2 DEF Strays, Taken, Holding, TypeOK
    <3>5. Budget(q) <= Budget(q)' + 1
      BY <1>t, <2>1, <2>3 DEF Budget, TypeOK
    <3> QED
      BY <1>t, <3>3, <3>4, <3>5, OneStrayLess
  <2> QED
    BY <2>2, <2>3
<1>6. ASSUME NEW r \in Resources, Edit(r) PROVE StrayBound(q)'
  BY <1>6, <1>t, StraysEdited
<1>7. ASSUME NEW r \in Resources, Delete(r) PROVE StrayBound(q)'
  <2>1. /\ snaps' = snaps \ Holding(id[r]) /\ UNCHANGED lapses
        /\ id' = [id EXCEPT ![r] = NoId]
        /\ step[r] = "delete" /\ step' = [step EXCEPT ![r] = "rest"]
    BY <1>7 DEF Delete, Return, Goto
  <2>2. Strays(q)' \subseteq Strays(q)
    BY <1>t, <2>1 DEF Strays, Taken, Holding, TypeOK
  <2>3. Budget(q) <= Budget(q)'
    BY <1>t, <2>1 DEF Budget, TypeOK
  <2> QED
    BY <1>t, <2>2, <2>3, NoMoreStrays
<1>8. CASE UserTakes
  <2>1. PICK n, d :
          snaps' = snaps \cup {[uuid |-> next, name |-> n, desc |-> d, maker |-> User]}
    BY <1>8 DEF UserTakes
  <2>2. UNCHANGED <<id, lapses, step>>
    BY <1>8 DEF UserTakes
  <2>3. q # User
    BY NamesAssumption
  <2>4. Strays(q)' \subseteq Strays(q)
    BY <2>1, <2>2, <2>3 DEF Strays, Taken, Holding
  <2> QED
    BY <1>b, <1>t, <2>2, <2>4, NoMoreStrays
<1>9. CASE UserDeletes \/ UNCHANGED vars
  <2>1. snaps' \subseteq snaps /\ UNCHANGED <<id, lapses, step>>
    BY <1>9 DEF UserDeletes, vars
  <2> QED
    BY <1>a, <1>b, <2>1
<1>10. CASE Crash
  <2>1. UNCHANGED <<snaps, id>> /\ step'[q] = "rest"
    BY <1>10 DEF Crash, host
  <2>2. lapses'[q] = IF step[q] \in Creating THEN lapses[q] + 1 ELSE lapses[q]
    BY <1>10 DEF Crash
  <2> QED
    BY <1>a, <1>t, <2>1, <2>2 DEF Budget, Creating, TypeOK
<1> QED
  BY <1>1, <1>2, <1>3, <1>4, <1>5, <1>6, <1>7, <1>8, <1>9, <1>10
     DEF Next, Handler, Create, UpdateOrDelete

\* Retries do not multiply snapshots when names are the resources' own: what a
\* resource has beyond the one it stands for, a lapse of its own accounts for.
THEOREM SurplusBounded == ASSUME OwnNames PROVE Spec => []SurplusHasACause
<1>1. Init => TypeOK
  BY NamesAssumption, BoundsAssumption DEF Init, TypeOK, Snapshots, Steps, NoId
<1>2. Init => OwnInv /\ Flow
  BY <1>1 DEF Init, OwnInv, UuidInv, KnownInv, NameInv, HoldsItsOwn, Holding, NoId, Flow,
              Creating
<1>3. Init => StrayInv
  <2> SUFFICES ASSUME Init PROVE StrayInv
    OBVIOUS
  <2>1. snaps = {} /\ \A r \in Resources : lapses[r] = 0 /\ step[r] = "rest"
    BY DEF Init
  <2>2. \A r \in Resources : Strays(r) = {}
    BY <2>1 DEF Strays, Taken
  <2> QED
    BY <2>1, <2>2, FS_EmptySet DEF StrayInv, StrayBound, Budget
<1>4. OwnInv /\ Flow /\ StrayInv => SurplusHasACause
  <2> SUFFICES ASSUME OwnInv, Flow, StrayInv, NEW r \in Resources
               PROVE  Cardinality(Taken(r)) <= Excused(r)
    BY DEF SurplusHasACause
  <2>t. TypeOK
    BY DEF OwnInv
  <2>1. IsFiniteSet(Strays(r)) /\ Cardinality(Strays(r)) \in Nat
    BY SomeFinite DEF StrayInv, Strays, Taken
  <2>2. Cardinality(Strays(r)) <= Budget(r) /\ lapses[r] \in Nat
    BY <2>t DEF StrayInv, StrayBound, TypeOK
  <2>3. CASE Holding(id[r]) = {}
    <3>1. Taken(r) = Strays(r)
      BY <2>3 DEF Strays
    <3> QED
      BY <2>1, <2>2, <3>1 DEF Excused, Budget
  <2>4. CASE Holding(id[r]) # {}
    <3>1. PICK x \in snaps : Holding(id[r]) = {x}
      BY <2>4 DEF Holding, OwnInv, UuidInv
    <3>2. id[r] # NoId /\ step[r] \notin {"find", "confirm"}
      BY <2>t, <3>1 DEF Holding, Flow, Creating, TypeOK, Snapshots
    <3>3. Taken(r) \subseteq Strays(r) \cup {x}
      BY <3>1 DEF Strays
    <3>4. /\ IsFiniteSet(Strays(r) \cup {x})
          /\ Cardinality(Strays(r) \cup {x}) <= Cardinality(Strays(r)) + 1
      BY <2>1, AtMostOneMore
    <3>5. Cardinality(Taken(r)) <= Cardinality(Strays(r) \cup {x})
      BY <3>3, <3>4, FS_Subset
    <3>6. Cardinality(Taken(r)) \in Nat /\ Cardinality(Strays(r) \cup {x}) \in Nat
      BY <3>3, <3>4, FS_Subset, FS_CardinalityType
    <3> QED
      BY <2>1, <2>2, <3>2, <3>4, <3>5, <3>6 DEF Excused, Budget
  <2> QED
    BY <2>3, <2>4
<1>5. OwnInv => TypeOK
  BY DEF OwnInv
<1>6. OwnInv /\ [Next]_vars => OwnInv'
  BY OwnInductive
<1> QED
  BY <1>2, <1>3, <1>4, <1>5, <1>6, FlowInductive, StraysInductive, PTL DEF Spec
=============================================================================
