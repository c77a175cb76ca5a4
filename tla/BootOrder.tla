----------------------------- MODULE BootOrder ------------------------------
(***************************************************************************)
(* The package variable defaultBootOrder as memory that the handlers share.*)
(*                                                                         *)
(* tfToVbox lets vm.BootOrder be defaultBootOrder itself, not a copy, and  *)
(* writes the configured devices into its first slots; modifyVM reads all  *)
(* slots to make its arguments.  Handlers run concurrently and without a   *)
(* lock.  A slot is a Go string, two words that are read and written one   *)
(* by one: a handler may find the text of one device with the length of    *)
(* another.  Both are done by every create and by every update, and a new  *)
(* provider process begins with the default again.                         *)
(***************************************************************************)
EXTENDS Naturals, Sequences

CONSTANTS
    Resources,  \* the virtualbox_vm resources
    Devices,    \* floppy, dvd, disk, net, none
    Length,     \* Length[dev]: of the word
    Slots,      \* four in VirtualBox
    Default,    \* defaultBootOrder as it is declared
    Lists,      \* the values of boot_order there are
    None

ASSUME BootAssumption ==
    /\ Slots \in Nat \ {0}
    /\ Length \in [Devices -> Nat]
    /\ Default \in [1..Slots -> Devices]
    /\ \A list \in Lists : \E n \in 0..Slots : list \in [1..n -> Devices]
    /\ None \notin Devices

Words == {"text", "length"}
Strings == [Words -> Devices]
Literal(dev) == [w \in Words |-> dev]

VARIABLES
    order,    \* order[r]: the configured boot_order
    memory,   \* defaultBootOrder
    pc,       \* where the handler of r is
    slot,     \* the slot it writes or reads
    words,    \* the words of that slot it still has to write or to read
    args,     \* args[r]: the slots it has read
    boot,     \* boot[r]: the order this process has given the VM, if it has
    result,   \* what the last handler of r came to
    raced,    \* raced[r]: the resources whose handlers ran while that of r did
    ran       \* the resources whose handlers ran in this process

vars == <<order, memory, pc, slot, words, args, boot, result, raced, ran>>

TypeOK ==
    /\ order \in [Resources -> Lists]
    /\ memory \in [1..Slots -> Strings]
    /\ pc \in [Resources -> {"idle", "write", "read", "modify"}]
    /\ slot \in [Resources -> 1..(Slots + 1)]
    /\ words \in [Resources -> SUBSET Words]
    /\ args \in [Resources -> [1..Slots -> Strings]]
    /\ boot \in [Resources -> [1..Slots -> Devices] \cup {None}]
    /\ result \in [Resources -> {"none", "ok", "error"}]
    /\ raced \in [Resources -> SUBSET Resources]
    /\ ran \subseteq Resources

Fresh == [k \in 1..Slots |-> Literal(Default[k])]

Init ==
    /\ order \in [Resources -> Lists]
    /\ memory = Fresh
    /\ pc = [r \in Resources |-> "idle"]
    /\ slot = [r \in Resources |-> 1]
    /\ words = [r \in Resources |-> Words]
    /\ args = [r \in Resources |-> Fresh]
    /\ boot = [r \in Resources |-> None]
    /\ result = [r \in Resources |-> "none"]
    /\ raced = [r \in Resources |-> {}]
    /\ ran = {}

Busy == {r \in Resources : pc[r] # "idle"}

\* A handler that calls tfToVbox begins; in one process, at most one for each
\* resource.
Begin(r) ==
    /\ pc[r] = "idle" /\ r \notin ran
    /\ pc' = [pc EXCEPT ![r] = "write"]
    /\ slot' = [slot EXCEPT ![r] = 1]
    /\ words' = [words EXCEPT ![r] = Words]
    /\ raced' = [q \in Resources |-> IF q = r THEN Busy
                                     ELSE IF q \in Busy THEN raced[q] \cup {r} ELSE raced[q]]
    /\ ran' = ran \cup {r}
    /\ result' = [result EXCEPT ![r] = "none"]
    /\ UNCHANGED <<order, memory, args, boot>>

\* One word of the slot is done; after the second one the next slot is on.
Advance(r, w) ==
    IF words[r] = {w}
    THEN slot' = [slot EXCEPT ![r] = @ + 1] /\ words' = [words EXCEPT ![r] = Words]
    ELSE words' = [words EXCEPT ![r] = @ \ {w}] /\ UNCHANGED slot

\* Mutant: the slice is filled from its end.
WriteWordShifted(r) ==
    /\ pc[r] = "write" /\ slot[r] <= Len(order[r])
    /\ \E w \in words[r] :
         /\ memory' = [memory EXCEPT ![Slots + 1 - slot[r]][w] = order[r][slot[r]]]
         /\ Advance(r, w)
    /\ UNCHANGED <<order, pc, args, boot, result, raced, ran>>

\* vm.BootOrder[i] = bootDev.(string)
WriteWord(r) ==
    /\ pc[r] = "write" /\ slot[r] <= Len(order[r])
    /\ \E w \in words[r] :
         /\ memory' = [memory EXCEPT ![slot[r]][w] = order[r][slot[r]]]
         /\ Advance(r, w)
    /\ UNCHANGED <<order, pc, args, boot, result, raced, ran>>

Written(r) ==
    /\ pc[r] = "write" /\ slot[r] = Len(order[r]) + 1
    /\ pc' = [pc EXCEPT ![r] = "read"]
    /\ slot' = [slot EXCEPT ![r] = 1]
    /\ UNCHANGED <<order, memory, words, args, boot, result, raced, ran>>

\* Mutant: a word of the slot before is taken with it.
ReadWordStale(r) ==
    /\ pc[r] = "read" /\ slot[r] <= Slots
    /\ \E w \in words[r] :
         /\ args' = [args EXCEPT ![r][slot[r]][w] =
                       memory[IF w = "length" /\ slot[r] > 1 THEN slot[r] - 1 ELSE slot[r]][w]]
         /\ Advance(r, w)
    /\ UNCHANGED <<order, memory, pc, boot, result, raced, ran>>

\* modifyVM: for i, dev := range m.BootOrder
ReadWord(r) ==
    /\ pc[r] = "read" /\ slot[r] <= Slots
    /\ \E w \in words[r] :
         /\ args' = [args EXCEPT ![r][slot[r]][w] = memory[slot[r]][w]]
         /\ Advance(r, w)
    /\ UNCHANGED <<order, memory, pc, boot, result, raced, ran>>

\* Mutant: one slot more is read.
ReadDoneLate(r) ==
    /\ pc[r] = "read" /\ slot[r] = Slots + 1
    /\ pc' = [pc EXCEPT ![r] = "modify"]
    /\ slot' = [slot EXCEPT ![r] = @ + 1]
    /\ UNCHANGED <<order, memory, words, args, boot, result, raced, ran>>

ReadDone(r) ==
    /\ pc[r] = "read" /\ slot[r] = Slots + 1
    /\ pc' = [pc EXCEPT ![r] = "modify"]
    /\ UNCHANGED <<order, memory, slot, words, args, boot, result, raced, ran>>

\* VirtualBox knows the device by its whole name: another length, and it is
\* some other word.
Whole(string) == Length[string["text"]] = Length[string["length"]]

Modify(r) ==
    /\ pc[r] = "modify"
    /\ IF \A k \in 1..Slots : Whole(args[r][k])
       THEN /\ boot' = [boot EXCEPT ![r] = [k \in 1..Slots |-> args[r][k]["text"]]]
            /\ result' = [result EXCEPT ![r] = "ok"]
       ELSE result' = [result EXCEPT ![r] = "error"] /\ UNCHANGED boot
    /\ pc' = [pc EXCEPT ![r] = "idle"]
    /\ slot' = [slot EXCEPT ![r] = 1]
    /\ args' = [args EXCEPT ![r] = Fresh]
    /\ UNCHANGED <<order, memory, words, raced, ran>>

\* The next plan or apply has a process of its own; the one before may have
\* been killed.
NewProcess ==
    /\ memory' = Fresh
    /\ pc' = [r \in Resources |-> "idle"]
    /\ slot' = [r \in Resources |-> 1]
    /\ words' = [r \in Resources |-> Words]
    /\ args' = [r \in Resources |-> Fresh]
    /\ boot' = [r \in Resources |-> None]
    /\ result' = [r \in Resources |-> "none"]
    /\ raced' = [r \in Resources |-> {}]
    /\ ran' = {}
    /\ UNCHANGED order

Next ==
    \/ \E r \in Resources :
         Begin(r) \/ WriteWord(r) \/ Written(r) \/ ReadWord(r) \/ ReadDone(r) \/ Modify(r)
    \/ NewProcess

Spec == Init /\ [][Next]_vars

-----------------------------------------------------------------------------
(* Properties *)

Listed(r, k) == k <= Len(order[r])
SetNow(r) == r \in ran /\ pc[r] = "idle" /\ result[r] = "ok"

\* A VM gets the devices of its own boot_order, and the default in the slots
\* that it leaves open, but for what the handlers of other VMs wrote into the
\* shared slots: into a listed slot only one that ran at the same time, into an
\* open one any of the same process.
SlotsAsConfigured ==
    \A r \in Resources : SetNow(r) => \A k \in 1..Slots :
        \/ boot[r][k] = (IF Listed(r, k) THEN order[r][k] ELSE Default[k])
        \/ \E q \in (IF Listed(r, k) THEN raced[r] ELSE ran) \ {r} :
             Listed(q, k) /\ boot[r][k] = order[q][k]

\* Two handlers of this process ran at the same time, and one of them lists
\* devices.
Overlap == \E p \in ran : \E q \in raced[p] : \E k \in 1..Slots : Listed(q, k)

\* VirtualBox is asked for a device that does not exist only when handlers
\* overlap.  They need not be that of the VM concerned: two that write one slot
\* leave it torn for all that come later.
RefusedOnlyInARace == \A r \in ran : result[r] = "error" => Overlap
=============================================================================
