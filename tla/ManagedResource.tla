-------------------------- MODULE ManagedResource ---------------------------
(***************************************************************************)
(* What every resource of the provider promises, whatever it manages: an   *)
(* object is made only for a resource that has none in the state, at most  *)
(* one per create; only a create that made something stores an ID, and it  *)
(* is never that of an object somebody else made; only the object that the *)
(* state names is removed; and the state lets go of an object only         *)
(* together with it or after it.                                           *)
(*                                                                         *)
(* Handlers may fail or be killed anywhere, and users may remove anything. *)
(* An object whose create failed is lost to its resource: nothing here     *)
(* removes it.                                                             *)
(***************************************************************************)
CONSTANTS
    Resources, \* resources of one kind
    Others,    \* whoever else makes such objects
    MayLapse   \* resources that may drop an object that is still there

VARIABLES
    made,      \* made[m]: the objects that m made and that are still there
    known,     \* known[r]: the object that the state of r names, if any
    making     \* making[r]: a create of r has made something and not returned

vars == <<made, known, making>>

Makers == Resources \cup {Others}
AllMade == UNION {made[m] : m \in Makers}
AllKnown == UNION {known[r] : r \in Resources}

Init ==
    /\ made = [m \in Makers |-> {}]
    /\ known = [r \in Resources |-> {}]
    /\ making = [r \in Resources |-> FALSE]

\* Something that nobody has and no state names comes into being.
MakeOne(m) ==
    \E o \in made'[m] :
        /\ o \notin AllMade \cup AllKnown
        /\ made' = [made EXCEPT ![m] = @ \cup {o}]

Make(r) ==
    /\ known[r] = {} /\ ~making[r]
    /\ MakeOne(r)
    /\ making' \in {making, [making EXCEPT ![r] = TRUE]}
    /\ UNCHANGED known

\* The create returns an ID: of an object of its own, or of one that has been
\* removed in the meantime.
Store(r) ==
    /\ making[r]
    /\ \E o \in known'[r] :
         /\ \A m \in Makers \ {r} : o \notin made[m]
         /\ known' = [known EXCEPT ![r] = {o}]
    /\ making' = [making EXCEPT ![r] = FALSE]
    /\ UNCHANGED made

\* A create fails; a kill ends several at once.
Abandon ==
    /\ \A r \in Resources : making'[r] => making[r]
    /\ making' = [r \in Resources |-> making'[r]]
    /\ UNCHANGED <<made, known>>

Remove(r) ==
    /\ known[r] # {}
    /\ made' = [made EXCEPT ![r] = @ \ known[r]]
    /\ known' = [known EXCEPT ![r] = {}]
    /\ UNCHANGED making

Forget(r) ==
    /\ known[r] \cap made[r] = {} \/ r \in MayLapse
    /\ known' = [known EXCEPT ![r] = {}]
    /\ UNCHANGED <<made, making>>

OthersMake == MakeOne(Others) /\ UNCHANGED <<known, making>>

\* Users remove objects.
Vanish ==
    /\ \A m \in Makers : made'[m] \subseteq made[m]
    /\ made' = [m \in Makers |-> made'[m]]
    /\ UNCHANGED <<known, making>>

Next ==
    \/ \E r \in Resources : Make(r) \/ Store(r) \/ Remove(r) \/ Forget(r)
    \/ Abandon \/ OthersMake \/ Vanish

Spec == Init /\ [][Next]_vars

-----------------------------------------------------------------------------
(* Properties *)

\* The state of a resource never names an object that somebody else made, so
\* that a destroy cannot remove one.
NamesItsOwn ==
    \A r \in Resources : \A m \in Makers \ {r} : known[r] \cap made[m] = {}

\* The state of a resource never names two objects.
NamesOne == \A r \in Resources : \A o, p \in known[r] : o = p
=============================================================================
