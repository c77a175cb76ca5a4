-------------------------- MODULE BootOrderProofs ---------------------------
(***************************************************************************)
(* Theorems about BootOrder, for any number of VMs, devices and slots.     *)
(***************************************************************************)
EXTENDS BootOrder, SequenceTheorems, TLAPS

USE BootAssumption

-----------------------------------------------------------------------------
(* Types *)

\* A list of n devices has length n, and no list is longer than the slots.
LEMMA ListLength ==
    ASSUME NEW list \in Lists
    PROVE  Len(list) \in 0..Slots /\ list \in [1..Len(list) -> Devices]
  <1>1. PICK n \in 0..Slots : list \in [1..n -> Devices]
    OBVIOUS
  <1>2. list \in Seq(Devices)
    BY <1>1, SeqDef
  <1>3. DOMAIN list = 1..Len(list) /\ Len(list) \in Nat
    BY <1>2, LenProperties
  <1>4. DOMAIN list = 1..n
    BY <1>1
  <1>5. Len(list) = n
    <2>1. 1..Len(list) = 1..n /\ Len(list) \in Nat /\ n \in Nat
      BY <1>1, <1>3, <1>4
    <2>2. n # 0 => n \in 1..Len(list)
      BY <2>1
    <2>3. Len(list) # 0 => Len(list) \in 1..n
      BY <2>1
    <2>4. QED
      BY <2>1, <2>2, <2>3
  <1>6. QED
    BY <1>1, <1>5

\* The step from one word to the next keeps the types.
LEMMA AdvanceType ==
    ASSUME TypeOK, NEW r \in Resources, NEW w \in words[r], Advance(r, w), slot[r] <= Slots
    PROVE  slot' \in [Resources -> 1..(Slots + 1)] /\ words' \in [Resources -> SUBSET Words]
  <1>1. slot \in [Resources -> 1..(Slots + 1)] /\ words \in [Resources -> SUBSET Words]
    BY DEF TypeOK
  <1>2. slot[r] + 1 \in 1..(Slots + 1)
    BY <1>1
  <1>3. CASE words[r] = {w}
    <2>1. slot' = [slot EXCEPT ![r] = @ + 1] /\ words' = [words EXCEPT ![r] = Words]
      BY <1>3 DEF Advance
    <2>2. QED
      BY <1>1, <1>2, <2>1
  <1>4. CASE words[r] # {w}
    <2>1. slot' = slot /\ words' = [words EXCEPT ![r] = @ \ {w}]
      BY <1>4 DEF Advance
    <2>2. QED
      BY <1>1, <2>1
  <1>5. QED
    BY <1>3, <1>4

\* Every variable keeps its type, above all: no handler writes or reads beyond
\* the last slot, whatever the lists are.
THEOREM TypeCorrect == Spec => []TypeOK
  <1>1. Init => TypeOK
    BY DEF Init, TypeOK, Fresh, Literal, Strings
  <1>2. TypeOK /\ [Next]_vars => TypeOK'
    <2> SUFFICES ASSUME TypeOK, [Next]_vars PROVE TypeOK'
      OBVIOUS
    <2> USE DEF TypeOK
    <2>1. ASSUME NEW r \in Resources, Begin(r) PROVE TypeOK'
      BY <2>1 DEF Begin, Busy
    <2>2. ASSUME NEW r \in Resources, WriteWord(r) PROVE TypeOK'
      <3>1. slot[r] \in 1..Slots /\ order[r][slot[r]] \in Devices
        BY <2>2, ListLength DEF WriteWord
      <3>2. PICK w \in words[r] :
               /\ memory' = [memory EXCEPT ![slot[r]][w] = order[r][slot[r]]]
               /\ Advance(r, w)
        BY <2>2 DEF WriteWord
      <3>3. memory' \in [1..Slots -> Strings]
        BY <3>1, <3>2 DEF Strings
      <3>4. QED
        BY <2>2, <3>1, <3>2, <3>3, AdvanceType, SMTT(30) DEF WriteWord
    <2>3. ASSUME NEW r \in Resources, Written(r) PROVE TypeOK'
      BY <2>3 DEF Written
    <2>4. ASSUME NEW r \in Resources, ReadWord(r) PROVE TypeOK'
      <3>1. PICK w \in words[r] :
               /\ args' = [args EXCEPT ![r][slot[r]][w] = memory[slot[r]][w]]
               /\ Advance(r, w)
        BY <2>4 DEF ReadWord
      <3>2. slot[r] \in 1..Slots /\ memory[slot[r]][w] \in Devices
        BY <2>4 DEF ReadWord, Strings
      <3>3. args' \in [Resources -> [1..Slots -> Strings]]
        BY <3>1, <3>2 DEF Strings
      <3>4. QED
        BY <2>4, <3>1, <3>2, <3>3, AdvanceType DEF ReadWord
    <2>5. ASSUME NEW r \in Resources, ReadDone(r) PROVE TypeOK'
      BY <2>5 DEF ReadDone
    <2>6. ASSUME NEW r \in Resources, Modify(r) PROVE TypeOK'
      <3>1. [k \in 1..Slots |-> args[r][k]["text"]] \in [1..Slots -> Devices]
        BY DEF Strings, Words
      <3>2. Fresh \in [1..Slots -> Strings]
        BY DEF Fresh, Literal, Strings
      <3>3. boot' \in [Resources -> [1..Slots -> Devices] \cup {None}]
        BY <2>6, <3>1 DEF Modify
      <3>4. QED
        <4>1. slot' \in [Resources -> 1..(Slots + 1)]
          BY <2>6 DEF Modify
        <4>2. args' \in [Resources -> [1..Slots -> Strings]]
          BY <2>6, <3>2 DEF Modify
        <4>3. pc' \in [Resources -> {"idle", "write", "read", "modify"}]
          BY <2>6 DEF Modify
        <4>4. result' \in [Resources -> {"none", "ok", "error"}]
          BY <2>6 DEF Modify
        <4>5. UNCHANGED <<order, memory, words, raced, ran>>
          BY <2>6 DEF Modify
        <4>6. QED
          BY <3>3, <4>1, <4>2, <4>3, <4>4, <4>5
    <2>7. CASE NewProcess
      BY <2>7 DEF NewProcess, Fresh, Literal, Strings
    <2>8. CASE UNCHANGED vars
      BY <2>8 DEF vars
    <2>9. QED
      BY <2>1, <2>2, <2>3, <2>4, <2>5, <2>6, <2>7, <2>8 DEF Next
  <1>3. QED
    BY <1>1, <1>2, PTL DEF Spec

-----------------------------------------------------------------------------
(* What a VM gets *)

\* Handler r has written, or read, the text of slot k.
Handled(r, k) == k < slot[r] \/ (k = slot[r] /\ "text" \notin words[r])

\* The devices SlotsAsConfigured allows in slot k of r.
Allowed(r, k, dev) ==
    \/ dev = (IF Listed(r, k) THEN order[r][k] ELSE Default[k])
    \/ \E q \in (IF Listed(r, k) THEN raced[r] ELSE ran) \ {r} :
         Listed(q, k) /\ dev = order[q][k]

\* Handlers that run at the same time know of each other.
BusyInv == \A r \in Busy : r \in ran /\ \A q \in Busy \ {r} : q \in raced[r]

\* What is in memory is the default, or was written by a handler of the process.
MemoryInv ==
    \A k \in 1..Slots :
        \/ memory[k]["text"] = Default[k]
        \/ \E q \in ran : Listed(q, k) /\ memory[k]["text"] = order[q][k]

\* At each place of a handler, what it may find where it has been.
Legal(r) == \A k \in 1..Slots :
    /\ pc[r] = "write" /\ slot[r] = Len(order[r]) + 1 => words[r] = Words
    /\ pc[r] = "write" /\ Handled(r, k) /\ Listed(r, k) => Allowed(r, k, memory[k]["text"])
    /\ pc[r] = "read" /\ Listed(r, k) => Allowed(r, k, memory[k]["text"])
    /\ pc[r] = "read" /\ Handled(r, k) => Allowed(r, k, args[r][k]["text"])
    /\ pc[r] = "modify" => Allowed(r, k, args[r][k]["text"])
    /\ SetNow(r) => Allowed(r, k, boot[r][k])

SlotInv == BusyInv /\ MemoryInv /\ \A r \in Resources : Legal(r)

\* What is allowed stays so while the process runs.
LEMMA AllowedStays ==
    ASSUME NEW r \in Resources, NEW k \in 1..Slots, NEW dev,
           UNCHANGED order, raced[r] \subseteq raced'[r], ran \subseteq ran',
           Allowed(r, k, dev)
    PROVE  Allowed(r, k, dev)'
  BY DEF Allowed, Listed

\* After a step from one word to the next, the slots that have been handled are
\* those from before, and the current one if the word was the text.
LEMMA AdvanceHandled ==
    ASSUME TypeOK, NEW r \in Resources, NEW w \in words[r], Advance(r, w),
           NEW k \in 1..Slots, Handled(r, k)'
    PROVE  Handled(r, k) \/ (k = slot[r] /\ w = "text")
  <1>1. slot \in [Resources -> 1..(Slots + 1)] /\ words \in [Resources -> SUBSET Words]
    BY DEF TypeOK
  <1>2. CASE words[r] = {w}
    <2>1. slot'[r] = slot[r] + 1 /\ words'[r] = Words
      BY <1>1, <1>2 DEF Advance
    <2>2. k < slot[r] + 1
      BY <2>1 DEF Handled, Words
    <2>3. k < slot[r] \/ k = slot[r]
      BY <1>1, <2>2
    <2>4. "text" \in words[r] => w = "text"
      BY <1>2
    <2>5. QED
      BY <2>3, <2>4 DEF Handled
  <1>3. CASE words[r] # {w}
    <2>1. slot'[r] = slot[r] /\ words'[r] = words[r] \ {w}
      BY <1>1, <1>3 DEF Advance
    <2>2. QED
      BY <2>1 DEF Handled
  <1>4. QED
    BY <1>2, <1>3

\* The slots and words of other handlers stay.
LEMMA AdvanceOthers ==
    ASSUME TypeOK, NEW r \in Resources, NEW w \in words[r], Advance(r, w),
           NEW q \in Resources \ {r}
    PROVE  slot'[q] = slot[q] /\ words'[q] = words[q]
  BY DEF TypeOK, Advance

Step(q) == Begin(q) \/ WriteWord(q) \/ Written(q) \/ ReadWord(q) \/ ReadDone(q) \/ Modify(q)

\* A handler moves nothing of another one, and the history only grows.
LEMMA OthersStay ==
    ASSUME TypeOK, NEW q \in Resources, Step(q), NEW r \in Resources
    PROVE  /\ UNCHANGED order
           /\ ran \subseteq ran'
           /\ r # q => /\ raced[r] \subseteq raced'[r]
                       /\ pc'[r] = pc[r] /\ slot'[r] = slot[r] /\ words'[r] = words[r]
                       /\ args'[r] = args[r] /\ boot'[r] = boot[r] /\ result'[r] = result[r]
                       /\ (r \in ran' => r \in ran)
  <1> USE DEF TypeOK
  <1>1. CASE Begin(q)
    BY <1>1 DEF Begin
  <1>2. CASE WriteWord(q)
    BY <1>2, AdvanceOthers DEF WriteWord
  <1>3. CASE ReadWord(q)
    BY <1>3, AdvanceOthers DEF ReadWord
  <1>4. CASE Written(q) \/ ReadDone(q)
    BY <1>4 DEF Written, ReadDone
  <1>5. CASE Modify(q)
    BY <1>5 DEF Modify
  <1>6. QED
    BY <1>1, <1>2, <1>3, <1>4, <1>5 DEF Step

\* Handlers that run at the same time go on knowing of each other.
LEMMA BusyStep ==
    ASSUME TypeOK, BusyInv, [Next]_vars
    PROVE  BusyInv'
  <1> USE DEF TypeOK
  <1>1. ASSUME NEW q \in Resources, Begin(q) PROVE BusyInv'
    <2>1. Busy' = Busy \cup {q} /\ q \notin Busy
      BY <1>1 DEF Begin, Busy
    <2>2. raced'[q] = Busy /\ \A r \in Busy : raced'[r] = raced[r] \cup {q}
      BY <1>1, <2>1 DEF Begin, Busy
    <2>3. ran' = ran \cup {q}
      BY <1>1 DEF Begin
    <2>4. QED
      BY <2>1, <2>2, <2>3 DEF BusyInv
  <1>2. ASSUME NEW q \in Resources, Step(q), ~Begin(q) PROVE BusyInv'
    <2>1. UNCHANGED <<raced, ran>>
      BY <1>2 DEF Step, WriteWord, Written, ReadWord, ReadDone, Modify
    <2>2. q \in Busy
      BY <1>2 DEF Step, WriteWord, Written, ReadWord, ReadDone, Modify, Busy
    <2>3. Busy' \subseteq Busy
      BY <1>2, <2>2, OthersStay DEF Busy
    <2>4. QED
      BY <2>1, <2>3 DEF BusyInv
  <1>3. CASE NewProcess
    BY <1>3 DEF NewProcess, BusyInv, Busy
  <1>4. CASE UNCHANGED vars
    BY <1>4 DEF vars, BusyInv, Busy
  <1>5. QED
    BY <1>1, <1>2, <1>3, <1>4 DEF Next, Step

\* A write is the only step of a process that changes the memory.
LEMMA WriteChanges ==
    ASSUME TypeOK, NEW q \in Resources, Step(q), NEW k \in 1..Slots,
           memory'[k]["text"] # memory[k]["text"]
    PROVE  /\ WriteWord(q)
           /\ q \in Busy
           /\ k = slot[q] /\ Listed(q, k)
           /\ memory'[k]["text"] = order[q][k]
  <1>1. WriteWord(q)
    BY DEF Step, Begin, Written, ReadWord, ReadDone, Modify
  <1>2. PICK w \in words[q] : memory' = [memory EXCEPT ![slot[q]][w] = order[q][slot[q]]]
    BY <1>1 DEF WriteWord
  <1>3. k = slot[q]
    BY <1>2 DEF TypeOK
  <1>4. memory'[k]["text"] = order[q][k]
    BY <1>2, <1>3 DEF TypeOK, Strings, Words
  <1>5. QED
    BY <1>1, <1>3, <1>4 DEF WriteWord, Busy, Listed

LEMMA MemoryStep ==
    ASSUME TypeOK, BusyInv, MemoryInv, [Next]_vars
    PROVE  MemoryInv'
  <1>1. ASSUME NEW q \in Resources, Step(q), NEW k \in 1..Slots
        PROVE  \/ memory'[k]["text"] = Default[k]
               \/ \E p \in ran' : Listed(p, k)' /\ memory'[k]["text"] = order'[p][k]
    <2>1. UNCHANGED order /\ ran \subseteq ran'
      BY <1>1, OthersStay
    <2>2. CASE memory'[k]["text"] = memory[k]["text"]
      BY <2>1, <2>2 DEF MemoryInv, Listed
    <2>3. CASE memory'[k]["text"] # memory[k]["text"]
      <3>1. q \in Busy /\ Listed(q, k) /\ memory'[k]["text"] = order[q][k]
        BY <1>1, <2>3, WriteChanges
      <3>2. q \in ran
        BY <3>1 DEF BusyInv
      <3>3. QED
        BY <2>1, <3>1, <3>2 DEF Listed
    <2>4. QED
      BY <2>2, <2>3
  <1>2. CASE NewProcess
    BY <1>2 DEF NewProcess, MemoryInv, Fresh, Literal, Words
  <1>3. CASE UNCHANGED vars
    BY <1>3 DEF vars, MemoryInv, Listed
  <1>4. QED
    BY <1>1, <1>2, <1>3 DEF Next, Step, MemoryInv

\* A handler is right about its own slots after a step of another one.
LEMMA LegalStepOther ==
    ASSUME TypeOK, BusyInv, NEW r \in Resources, Legal(r), NEW q \in Resources, Step(q), r # q
    PROVE  Legal(r)'
  <1>1. /\ UNCHANGED order /\ ran \subseteq ran' /\ raced[r] \subseteq raced'[r]
        /\ pc'[r] = pc[r] /\ slot'[r] = slot[r] /\ words'[r] = words[r]
        /\ args'[r] = args[r] /\ boot'[r] = boot[r] /\ result'[r] = result[r]
        /\ (r \in ran' => r \in ran)
    BY OthersStay
  <1>2. ASSUME NEW k \in 1..Slots, NEW dev, Allowed(r, k, dev) PROVE Allowed(r, k, dev)'
    BY <1>1, <1>2, AllowedStays
  <1>3. ASSUME NEW k \in 1..Slots, r \in Busy, Listed(r, k), Allowed(r, k, memory[k]["text"])
        PROVE  Allowed(r, k, memory[k]["text"])'
    <2>1. CASE memory'[k]["text"] = memory[k]["text"]
      BY <1>1, <1>3, <2>1 DEF Allowed, Listed
    <2>2. CASE memory'[k]["text"] # memory[k]["text"]
      <3>1. q \in Busy /\ Listed(q, k) /\ memory'[k]["text"] = order[q][k]
        BY <2>2, WriteChanges
      <3>2. q \in raced[r]
        BY <1>3, <3>1 DEF BusyInv
      <3>3. Listed(q, k)' /\ Listed(r, k)' /\ q \in raced'[r]
        BY <1>1, <1>3, <3>1, <3>2 DEF Listed
      <3>4. QED
        BY <1>1, <3>1, <3>3 DEF Allowed
    <2>3. QED
      BY <2>1, <2>2
  <1>4. SUFFICES ASSUME NEW k \in 1..Slots
                 PROVE  /\ (pc[r] = "write" /\ slot[r] = Len(order[r]) + 1 => words[r] = Words)'
                        /\ (pc[r] = "write" /\ Handled(r, k) /\ Listed(r, k) => Allowed(r, k, memory[k]["text"]))'
                        /\ (pc[r] = "read" /\ Listed(r, k) => Allowed(r, k, memory[k]["text"]))'
                        /\ (pc[r] = "read" /\ Handled(r, k) => Allowed(r, k, args[r][k]["text"]))'
                        /\ (pc[r] = "modify" => Allowed(r, k, args[r][k]["text"]))'
                        /\ (SetNow(r) => Allowed(r, k, boot[r][k]))'
    BY DEF Legal
  <1>5. /\ Handled(r, k)' = Handled(r, k) /\ Listed(r, k)' = Listed(r, k)
        /\ (SetNow(r)' => SetNow(r))
        /\ (pc[r] \in {"write", "read"} => r \in Busy)
    BY <1>1 DEF Handled, Listed, SetNow, Busy
  <1>6. /\ Allowed(r, k, args[r][k]["text"]) => Allowed(r, k, args[r][k]["text"])'
        /\ Allowed(r, k, boot[r][k]) => Allowed(r, k, boot[r][k])'
    BY <1>1, <1>2 DEF Allowed, Listed
  <1>7. QED
    BY <1>1, <1>3, <1>5, <1>6 DEF Legal

\* A handler that reads finds what is allowed in every slot.
LEMMA FoundAllowed ==
    ASSUME MemoryInv, NEW r \in Resources, Legal(r), pc[r] = "read", NEW k \in 1..Slots
    PROVE  Allowed(r, k, memory[k]["text"])
  <1>1. CASE Listed(r, k)
    BY <1>1 DEF Legal
  <1>2. CASE ~Listed(r, k)
    BY <1>2 DEF MemoryInv, Allowed
  <1>3. QED
    BY <1>1, <1>2

\* A handler is right about its own slots after a step of its own.
LEMMA LegalStepOwn ==
    ASSUME TypeOK, MemoryInv, NEW q \in Resources, Legal(q), Step(q)
    PROVE  Legal(q)'
  <1>0. order \in [Resources -> Lists]
    BY DEF TypeOK
  <1>1. CASE Begin(q)
    <2>1. /\ pc'[q] = "write" /\ slot'[q] = 1 /\ words'[q] = Words
      BY <1>1 DEF Begin, TypeOK
    <2>2. \A k \in 1..Slots : ~Handled(q, k)'
      BY <2>1 DEF Handled, Words
    <2>3. QED
      BY <2>1, <2>2 DEF Legal, SetNow
  <1>2. CASE WriteWord(q)
    <2>1. PICK w \in words[q] :
             /\ memory' = [memory EXCEPT ![slot[q]][w] = order[q][slot[q]]]
             /\ Advance(q, w)
      BY <1>2 DEF WriteWord
    <2>2. /\ pc[q] = "write" /\ slot[q] <= Len(order[q])
          /\ UNCHANGED <<order, pc, args, boot, result, raced, ran>>
      BY <1>2 DEF WriteWord
    <2>3. ASSUME NEW k \in 1..Slots, Handled(q, k)', Listed(q, k)
          PROVE  Allowed(q, k, memory[k]["text"])'
      <3>1. CASE memory'[k]["text"] # memory[k]["text"] \/ (k = slot[q] /\ w = "text")
        <4>1. memory'[k]["text"] = order[q][k]
          <5>1. CASE memory'[k]["text"] # memory[k]["text"]
            BY <5>1, WriteChanges
          <5>2. CASE k = slot[q] /\ w = "text"
            BY <2>1, <5>2 DEF TypeOK, Strings, Words
          <5>3. QED
            BY <3>1, <5>1, <5>2
        <4>2. QED
          BY <2>2, <2>3, <4>1 DEF Allowed, Listed
      <3>2. CASE memory'[k]["text"] = memory[k]["text"] /\ ~(k = slot[q] /\ w = "text")
        <4>1. Handled(q, k)
          BY <2>1, <2>3, <3>2, AdvanceHandled
        <4>2. Allowed(q, k, memory[k]["text"])
          BY <2>2, <2>3, <4>1 DEF Legal
        <4>3. QED
          BY <2>2, <3>2, <4>2 DEF Allowed, Listed
      <3>3. QED
        BY <3>1, <3>2
    <2>4. slot'[q] = Len(order[q]) + 1 => words'[q] = Words
      <3>1. CASE words[q] = {w}
        BY <2>1, <3>1 DEF Advance, TypeOK
      <3>2. CASE words[q] # {w}
        <4>1. slot'[q] = slot[q] /\ slot[q] \in Nat /\ Len(order[q]) \in Nat
          BY <1>0, <2>1, <3>2, ListLength DEF Advance, TypeOK
        <4>2. QED
          BY <2>2, <4>1
      <3>3. QED
        BY <3>1, <3>2
    <2>5. QED
      BY <2>2, <2>3, <2>4 DEF Legal, SetNow, Listed
  <1>3. CASE Written(q)
    <2>1. /\ pc[q] = "write" /\ slot[q] = Len(order[q]) + 1 /\ Len(order[q]) \in Nat
          /\ pc'[q] = "read" /\ slot'[q] = 1
          /\ UNCHANGED <<order, memory, words, args, boot, result, raced, ran>>
      BY <1>0, <1>3, ListLength DEF Written, TypeOK
    <2>2. words[q] = Words
      <3>1. 1 \in 1..Slots
        OBVIOUS
      <3>2. QED
        BY <2>1, <3>1 DEF Legal
    <2>3. \A k \in 1..Slots : ~Handled(q, k)'
      BY <2>1, <2>2 DEF Handled, Words
    <2>4. ASSUME NEW k \in 1..Slots, Listed(q, k) PROVE Allowed(q, k, memory[k]["text"])'
      <3>1. Handled(q, k)
        BY <2>1, <2>4 DEF Handled, Listed
      <3>2. Allowed(q, k, memory[k]["text"])
        BY <2>1, <2>4, <3>1 DEF Legal
      <3>3. QED
        BY <2>1, <3>2 DEF Allowed, Listed
    <2>5. QED
      BY <2>1, <2>3, <2>4 DEF Legal, SetNow, Listed
  <1>4. CASE ReadWord(q)
    <2>1. PICK w \in words[q] :
             /\ args' = [args EXCEPT ![q][slot[q]][w] = memory[slot[q]][w]]
             /\ Advance(q, w)
      BY <1>4 DEF ReadWord
    <2>2. /\ pc[q] = "read" /\ slot[q] \in 1..Slots
          /\ UNCHANGED <<order, memory, pc, boot, result, raced, ran>>
      BY <1>4 DEF ReadWord, TypeOK
    <2>3. ASSUME NEW k \in 1..Slots, NEW dev, Allowed(q, k, dev) PROVE Allowed(q, k, dev)'
      BY <2>2, <2>3 DEF Allowed, Listed
    <2>4. ASSUME NEW k \in 1..Slots, Handled(q, k)' PROVE Allowed(q, k, args[q][k]["text"])'
      <3>1. CASE k = slot[q] /\ w = "text"
        <4>1. args'[q][k]["text"] = memory[k]["text"]
          BY <2>1, <2>2, <3>1 DEF TypeOK, Strings, Words
        <4>2. Allowed(q, k, memory[k]["text"])
          BY <2>2, FoundAllowed
        <4>3. QED
          BY <2>2, <4>1, <4>2 DEF Allowed, Listed
      <3>2. CASE ~(k = slot[q] /\ w = "text")
        <4>1. args'[q][k]["text"] = args[q][k]["text"]
          BY <2>1, <2>2, <3>2 DEF TypeOK, Strings, Words
        <4>2. Handled(q, k)
          BY <2>1, <2>4, <3>2, AdvanceHandled
        <4>3. Allowed(q, k, args[q][k]["text"])
          BY <2>2, <4>2 DEF Legal
        <4>4. QED
          BY <2>2, <4>1, <4>3 DEF Allowed, Listed
      <3>3. QED
        BY <3>1, <3>2
    <2>5. ASSUME NEW k \in 1..Slots PROVE Allowed(q, k, memory[k]["text"])'
      <3>1. Allowed(q, k, memory[k]["text"])
        BY <2>2, FoundAllowed
      <3>2. QED
        BY <2>2, <3>1 DEF Allowed, Listed
    <2>6. QED
      BY <2>2, <2>4, <2>5 DEF Legal, SetNow
  <1>5. CASE ReadDone(q)
    <2>1. /\ pc[q] = "read" /\ slot[q] = Slots + 1 /\ pc'[q] = "modify"
          /\ UNCHANGED <<order, memory, args, boot, result, raced, ran>>
      BY <1>5 DEF ReadDone, TypeOK
    <2>2. ASSUME NEW k \in 1..Slots PROVE Allowed(q, k, args[q][k]["text"])'
      <3>1. Handled(q, k)
        BY <2>1 DEF Handled
      <3>2. Allowed(q, k, args[q][k]["text"])
        BY <2>1, <3>1 DEF Legal
      <3>3. QED
        BY <2>1, <3>2 DEF Allowed, Listed
    <2>3. QED
      BY <2>1, <2>2 DEF Legal, SetNow
  <1>6. CASE Modify(q)
    <2>1. pc[q] = "modify" /\ pc'[q] = "idle" /\ UNCHANGED <<order, raced, ran>>
      BY <1>6 DEF Modify, TypeOK
    <2>2. ASSUME NEW k \in 1..Slots, result'[q] = "ok" PROVE Allowed(q, k, boot[q][k])'
      <3>1. boot'[q][k] = args[q][k]["text"]
        BY <1>6, <2>2 DEF Modify, TypeOK
      <3>2. Allowed(q, k, args[q][k]["text"])
        BY <2>1 DEF Legal
      <3>3. QED
        BY <2>1, <3>1, <3>2 DEF Allowed, Listed
    <2>3. QED
      BY <2>1, <2>2 DEF Legal, SetNow
  <1>7. QED
    BY <1>1, <1>2, <1>3, <1>4, <1>5, <1>6 DEF Step

LEMMA SlotInvariant == Spec => []SlotInv
  <1>1. Init => SlotInv
    BY DEF Init, SlotInv, BusyInv, Busy, MemoryInv, Legal, SetNow, Fresh, Literal, Words
  <1>2. TypeOK /\ SlotInv /\ [Next]_vars => SlotInv'
    <2> SUFFICES ASSUME TypeOK, SlotInv, [Next]_vars PROVE SlotInv'
      OBVIOUS
    <2>1. BusyInv' /\ MemoryInv'
      BY BusyStep, MemoryStep DEF SlotInv
    <2>2. ASSUME NEW r \in Resources PROVE Legal(r)'
      <3>1. CASE Step(r)
        BY <3>1, LegalStepOwn DEF SlotInv
      <3>2. ASSUME NEW q \in Resources, Step(q), r # q PROVE Legal(r)'
        BY <3>2, LegalStepOther DEF SlotInv
      <3>3. CASE NewProcess
        BY <3>3 DEF NewProcess, Legal, SetNow
      <3>4. CASE UNCHANGED vars
        <4>1. Legal(r)
          BY DEF SlotInv
        <4>2. QED
          BY <3>4, <4>1 DEF vars, Legal, SetNow, Handled, Allowed, Listed
      <3>5. QED
        BY <3>1, <3>2, <3>3, <3>4 DEF Next, Step
    <2>3. QED
      BY <2>1, <2>2 DEF SlotInv
  <1>3. QED
    BY <1>1, <1>2, TypeCorrect, PTL DEF Spec

\* A VM gets the devices of its own boot_order, and the default in the slots it
\* leaves open, but for what the handlers of other VMs wrote: into a listed slot
\* only one that ran at the same time.  So an apply of one VM at a time
\* (-parallelism=1) sets every listed slot as configured.
THEOREM OnlyOthersInterfere == Spec => []SlotsAsConfigured
  <1>1. SlotInv => SlotsAsConfigured
    <2>1. ASSUME SlotInv, NEW r \in Resources, SetNow(r), NEW k \in 1..Slots
          PROVE  Allowed(r, k, boot[r][k])
      BY <2>1 DEF SlotInv, Legal
    <2>2. QED
      BY <2>1, Zenon DEF SlotsAsConfigured, Allowed
  <1>2. QED
    BY <1>1, SlotInvariant, PTL

-----------------------------------------------------------------------------
(* What VirtualBox refuses *)

Even(string) == string["text"] = string["length"]

\* Some handler is in the middle of slot k.
Torn(k) == \E r \in Resources :
    pc[r] = "write" /\ slot[r] = k /\ Listed(r, k) /\ words[r] # Words

\* What r has written is still there, and what it has read is whole.
Sound(r) == \A k \in 1..Slots :
    /\ pc[r] = "write" /\ k = slot[r] /\ Listed(r, k) =>
         \A v \in Words \ words[r] : memory[k][v] = order[r][k]
    /\ pc[r] = "read" /\ k < slot[r] => Even(args[r][k])
    /\ pc[r] = "read" /\ k = slot[r] => \A v \in Words \ words[r] : args[r][k][v] = memory[k][v]
    /\ pc[r] = "modify" => Even(args[r][k])
    /\ r \in ran => result[r] # "error"

\* Without overlaps every slot is whole, but for one that is being written.
TearInv == ~Overlap =>
    /\ \A k \in 1..Slots : Even(memory[k]) \/ Torn(k)
    /\ \A r \in Resources : Sound(r)

\* A handler that lists devices runs alone, when nothing overlaps.
LEMMA Alone ==
    ASSUME BusyInv, ~Overlap, NEW q \in Busy, NEW k \in 1..Slots, Listed(q, k), NEW r \in Busy
    PROVE  r = q
  BY DEF BusyInv, Overlap

\* In particular one that writes.
LEMMA WriterAlone ==
    ASSUME TypeOK, BusyInv, ~Overlap, NEW q \in Resources, WriteWord(q)
    PROVE  /\ q \in Busy /\ slot[q] \in 1..Slots /\ Listed(q, slot[q])
           /\ \A r \in Busy : r = q
  <1>1. q \in Busy /\ slot[q] \in 1..Slots /\ Listed(q, slot[q])
    BY ListLength DEF WriteWord, Busy, Listed, TypeOK
  <1>2. QED
    BY <1>1, Alone

\* An overlap is there for the rest of the process.
LEMMA OverlapStays ==
    ASSUME TypeOK, NEW q \in Resources, Step(q), Overlap
    PROVE  Overlap'
  <1>1. PICK p \in ran : \E r \in raced[p] : \E k \in 1..Slots : Listed(r, k)
    BY DEF Overlap
  <1>2. p \in Resources /\ UNCHANGED order /\ p \in ran'
    BY OthersStay DEF TypeOK
  <1>3. raced[p] \subseteq raced'[p]
    <2>1. CASE p = q
      BY <1>1, <2>1 DEF Step, Begin, WriteWord, Written, ReadWord, ReadDone, Modify
    <2>2. CASE p # q
      BY <1>2, <2>2, OthersStay
    <2>3. QED
      BY <2>1, <2>2
  <1>4. QED
    BY <1>1, <1>2, <1>3 DEF Overlap, Listed

\* While somebody reads and nothing overlaps, every slot is whole.
LEMMA ReadEven ==
    ASSUME BusyInv, TearInv, ~Overlap, NEW r \in Resources, pc[r] = "read", NEW k \in 1..Slots
    PROVE  Even(memory[k])
  <1>1. ASSUME Torn(k) PROVE FALSE
    <2>1. PICK q \in Resources : pc[q] = "write" /\ Listed(q, k)
      BY <1>1 DEF Torn
    <2>2. r \in Busy /\ q \in Busy
      BY <2>1 DEF Busy
    <2>3. r = q
      BY <2>1, <2>2, Alone
    <2>4. QED
      BY <2>1, <2>3
  <1>2. QED
    BY <1>1 DEF TearInv

\* A slot is whole after a step, unless its handler is in the middle of it.
LEMMA TornStep ==
    ASSUME TypeOK, BusyInv, TearInv, ~Overlap, NEW q \in Resources, Step(q), NEW k \in 1..Slots
    PROVE  (Even(memory[k]) \/ Torn(k))'
  <1>0. Even(memory[k]) \/ Torn(k)
    BY DEF TearInv
  <1>1. CASE WriteWord(q)
    <2>1. PICK w \in words[q] :
             /\ memory' = [memory EXCEPT ![slot[q]][w] = order[q][slot[q]]]
             /\ Advance(q, w)
      BY <1>1 DEF WriteWord
    <2>2. /\ pc[q] = "write" /\ UNCHANGED <<order, pc>>
          /\ slot[q] \in 1..Slots /\ Listed(q, slot[q]) /\ w \in Words
      BY <1>1, WriterAlone DEF WriteWord, TypeOK
    <2>3. CASE k # slot[q]
      <3>1. ~Torn(k)
        BY <1>1, <2>3, WriterAlone DEF Torn, Busy
      <3>2. memory'[k] = memory[k]
        BY <2>1, <2>3 DEF TypeOK
      <3>3. QED
        BY <1>0, <3>1, <3>2 DEF Even
    <2>4. CASE k = slot[q] /\ words[q] = {w}
      <3>1. \A v \in Words \ {w} : memory[k][v] = order[q][k]
        <4>1. Sound(q)
          BY DEF TearInv
        <4>2. QED
          BY <2>2, <2>4, <4>1 DEF Sound
      <3>2. memory'[k][w] = order[q][k] /\ \A v \in Words \ {w} : memory'[k][v] = memory[k][v]
        BY <2>1, <2>2, <2>4 DEF TypeOK, Strings
      <3>3. \A v \in Words : memory'[k][v] = order[q][k]
        BY <3>1, <3>2
      <3>4. QED
        BY <3>3 DEF Even, Words
    <2>5. CASE k = slot[q] /\ words[q] # {w}
      <3>1. slot'[q] = slot[q] /\ words'[q] = words[q] \ {w}
        BY <2>1, <2>5 DEF Advance, TypeOK
      <3>2. QED
        BY <2>2, <2>5, <3>1 DEF Torn, Listed
    <2>6. QED
      BY <2>3, <2>4, <2>5
  <1>2. CASE ~WriteWord(q)
    <2>1. memory' = memory
      BY <1>2 DEF Step, Begin, Written, ReadWord, ReadDone, Modify
    <2>2. ASSUME Torn(k) PROVE Torn(k)'
      <3>1. PICK r \in Resources : pc[r] = "write" /\ slot[r] = k /\ Listed(r, k) /\ words[r] # Words
        BY <2>2 DEF Torn
      <3>2. CASE r = q
        <4>1. Written(q)
          BY <1>2, <3>1, <3>2 DEF Step, Begin, ReadWord, ReadDone, Modify
        <4>2. slot[q] = Len(order[q]) + 1 /\ Len(order[q]) \in Nat
          BY <4>1, ListLength DEF Written, TypeOK
        <4>3. QED
          BY <3>1, <3>2, <4>2 DEF Listed
      <3>3. CASE r # q
        BY <3>1, <3>3, OthersStay DEF Torn, Listed
      <3>4. QED
        BY <3>2, <3>3
    <2>3. QED
      BY <1>0, <2>1, <2>2 DEF Even
  <1>3. QED
    BY <1>1, <1>2

\* A step of another handler takes nothing from one that is sound.
LEMMA SoundStepOther ==
    ASSUME TypeOK, BusyInv, ~Overlap, NEW r \in Resources, Sound(r), NEW q \in Resources, Step(q), r # q
    PROVE  Sound(r)'
  <1>1. /\ UNCHANGED order
        /\ pc'[r] = pc[r] /\ slot'[r] = slot[r] /\ words'[r] = words[r]
        /\ args'[r] = args[r] /\ result'[r] = result[r] /\ (r \in ran' => r \in ran)
    BY OthersStay
  <1>2. r \in Busy => memory' = memory
    <2>1. CASE WriteWord(q)
      BY <2>1, WriterAlone
    <2>2. CASE ~WriteWord(q)
      BY <2>2 DEF Step, Begin, Written, ReadWord, ReadDone, Modify
    <2>3. QED
      BY <2>1, <2>2
  <1>3. pc[r] \in {"write", "read"} => memory' = memory
    BY <1>2 DEF Busy
  <1>4. QED
    BY <1>1, <1>3 DEF Sound, Listed, Even

\* A handler stays sound in a step of its own.
LEMMA SoundStepOwn ==
    ASSUME TypeOK, BusyInv, TearInv, ~Overlap, NEW q \in Resources, Legal(q), Step(q)
    PROVE  Sound(q)'
  <1>0. Sound(q) /\ (q \in ran => result[q] # "error")
    <2>1. 1 \in 1..Slots
      OBVIOUS
    <2>2. QED
      BY <2>1 DEF TearInv, Sound
  <1>1. CASE Begin(q)
    <2>1. pc'[q] = "write" /\ slot'[q] = 1 /\ words'[q] = Words /\ result'[q] = "none"
      BY <1>1 DEF Begin, TypeOK
    <2>2. QED
      BY <2>1 DEF Sound
  <1>2. CASE WriteWord(q)
    <2>1. PICK w \in words[q] :
             /\ memory' = [memory EXCEPT ![slot[q]][w] = order[q][slot[q]]]
             /\ Advance(q, w)
      BY <1>2 DEF WriteWord
    <2>2. /\ pc[q] = "write" /\ UNCHANGED <<order, pc, args, result, ran>>
          /\ slot[q] \in 1..Slots /\ Listed(q, slot[q]) /\ w \in Words
      BY <1>2, WriterAlone DEF WriteWord, TypeOK
    <2>3. ASSUME NEW k \in 1..Slots, k = slot'[q], NEW v \in Words \ words'[q]
          PROVE  memory'[k][v] = order[q][k]
      <3>1. words[q] # {w}
        BY <2>1, <2>3 DEF Advance, TypeOK
      <3>2. k = slot[q] /\ words'[q] = words[q] \ {w}
        BY <2>1, <2>3, <3>1 DEF Advance, TypeOK
      <3>3. CASE v = w
        BY <2>1, <2>2, <3>2, <3>3 DEF TypeOK, Strings
      <3>4. CASE v # w
        <4>1. memory[k][v] = order[q][k]
          BY <1>0, <2>2, <2>3, <3>2, <3>4 DEF Sound
        <4>2. memory'[k][v] = memory[k][v]
          BY <2>1, <2>2, <3>2, <3>4 DEF TypeOK, Strings
        <4>3. QED
          BY <4>1, <4>2
      <3>5. QED
        BY <3>3, <3>4
    <2>4. QED
      BY <1>0, <2>2, <2>3 DEF Sound
  <1>3. CASE Written(q)
    <2>1. /\ pc[q] = "write" /\ slot[q] = Len(order[q]) + 1
          /\ pc'[q] = "read" /\ slot'[q] = 1
          /\ UNCHANGED <<order, memory, words, args, result, ran>>
      BY <1>3 DEF Written, TypeOK
    <2>2. words[q] = Words
      <3>1. 1 \in 1..Slots
        OBVIOUS
      <3>2. QED
        BY <2>1, <3>1 DEF Legal
    <2>3. QED
      BY <1>0, <2>1, <2>2 DEF Sound
  <1>4. CASE ReadWord(q)
    <2>1. PICK w \in words[q] :
             /\ args' = [args EXCEPT ![q][slot[q]][w] = memory[slot[q]][w]]
             /\ Advance(q, w)
      BY <1>4 DEF ReadWord
    <2>2. /\ pc[q] = "read" /\ slot[q] \in 1..Slots /\ w \in Words
          /\ UNCHANGED <<order, memory, pc, result, ran>>
      BY <1>4 DEF ReadWord, TypeOK
    <2>3. \A v \in Words \ words[q] : args[q][slot[q]][v] = memory[slot[q]][v]
      BY <1>0, <2>2 DEF Sound
    <2>4. \A k \in 1..Slots \ {slot[q]} : args'[q][k] = args[q][k]
      BY <2>1 DEF TypeOK
    <2>5. \A v \in (Words \ words[q]) \cup {w} : args'[q][slot[q]][v] = memory[slot[q]][v]
      <3>1. args'[q][slot[q]][w] = memory[slot[q]][w]
        BY <2>1, <2>2 DEF TypeOK, Strings
      <3>2. \A v \in Words \ {w} : args'[q][slot[q]][v] = args[q][slot[q]][v]
        BY <2>1, <2>2 DEF TypeOK, Strings
      <3>3. QED
        BY <2>3, <3>1, <3>2
    <2>6. CASE words[q] = {w}
      <3>1. slot'[q] = slot[q] + 1 /\ words'[q] = Words
        BY <2>1, <2>6 DEF Advance, TypeOK
      <3>2. Even(args'[q][slot[q]])
        <4>1. Even(memory[slot[q]])
          BY <2>2, ReadEven
        <4>2. QED
          BY <2>5, <2>6, <4>1 DEF Even, Words
      <3>3. \A k \in 1..Slots : k < slot[q] => Even(args'[q][k])
        BY <1>0, <2>2, <2>4 DEF Sound, Even
      <3>4. \A k \in 1..Slots : k < slot'[q] => Even(args'[q][k])
        BY <2>2, <3>1, <3>2, <3>3
      <3>5. QED
        BY <1>0, <2>2, <3>1, <3>4 DEF Sound, Even
    <2>7. CASE words[q] # {w}
      <3>1. slot'[q] = slot[q] /\ words'[q] = words[q] \ {w}
        BY <2>1, <2>7 DEF Advance, TypeOK
      <3>2. \A k \in 1..Slots : k < slot[q] => Even(args'[q][k])
        BY <1>0, <2>2, <2>4 DEF Sound, Even
      <3>3. \A v \in Words \ words'[q] : args'[q][slot[q]][v] = memory[slot[q]][v]
        BY <2>5, <3>1
      <3>4. QED
        BY <1>0, <2>2, <3>1, <3>2, <3>3 DEF Sound, Even
    <2>8. QED
      BY <2>6, <2>7
  <1>5. CASE ReadDone(q)
    <2>1. /\ pc[q] = "read" /\ slot[q] = Slots + 1 /\ pc'[q] = "modify"
          /\ UNCHANGED <<args, result, ran>>
      BY <1>5 DEF ReadDone, TypeOK
    <2>2. \A k \in 1..Slots : Even(args[q][k])
      BY <1>0, <2>1 DEF Sound
    <2>3. QED
      BY <1>0, <2>1, <2>2 DEF Sound, Even
  <1>6. CASE Modify(q)
    <2>1. pc[q] = "modify" /\ pc'[q] = "idle"
      BY <1>6 DEF Modify, TypeOK
    <2>2. \A k \in 1..Slots : Whole(args[q][k])
      BY <1>0, <2>1 DEF Sound, Even, Whole
    <2>3. result'[q] = "ok"
      BY <1>6, <2>2 DEF Modify, TypeOK
    <2>4. QED
      BY <2>1, <2>3 DEF Sound
  <1>7. QED
    BY <1>1, <1>2, <1>3, <1>4, <1>5, <1>6 DEF Step

\* VirtualBox is asked for a device that does not exist only when handlers
\* overlap and one of them lists devices: one VM at a time, no device is torn.
THEOREM TearsNeedOverlap == Spec => []RefusedOnlyInARace
  <1>1. Init => TearInv /\ SlotInv
    BY DEF Init, TearInv, Sound, Even, Fresh, Literal, Words,
           SlotInv, BusyInv, Busy, MemoryInv, Legal, SetNow
  <1>2. TypeOK /\ SlotInv /\ TearInv /\ [Next]_vars => TearInv'
    <2> SUFFICES ASSUME TypeOK, SlotInv, TearInv, [Next]_vars PROVE TearInv'
      OBVIOUS
    <2>1. BusyInv /\ \A r \in Resources : Legal(r)
      BY DEF SlotInv
    <2>2. ASSUME NEW q \in Resources, Step(q), ~Overlap' PROVE TearInv'
      <3>1. ~Overlap
        BY <2>2, OverlapStays
      <3>2. \A k \in 1..Slots : (Even(memory[k]) \/ Torn(k))'
        BY <2>1, <2>2, <3>1, TornStep
      <3>3. ASSUME NEW r \in Resources PROVE Sound(r)'
        <4>1. CASE r = q
          BY <2>1, <2>2, <3>1, <4>1, SoundStepOwn
        <4>2. CASE r # q
          BY <2>1, <2>2, <3>1, <4>2, SoundStepOther DEF TearInv
        <4>3. QED
          BY <4>1, <4>2
      <3>4. QED
        BY <3>2, <3>3 DEF TearInv
    <2>3. CASE NewProcess
      BY <2>3 DEF NewProcess, TearInv, Sound, Even, Fresh, Literal, Words
    <2>4. CASE UNCHANGED vars
      <3>1. (Overlap' <=> Overlap) /\ (\A k \in 1..Slots : Torn(k)' <=> Torn(k))
        BY <2>4 DEF vars, Overlap, Torn, Listed
      <3>2. \A r \in Resources : Sound(r)' <=> Sound(r)
        BY <2>4 DEF vars, Sound, Listed, Even
      <3>3. UNCHANGED memory
        BY <2>4 DEF vars
      <3>4. QED
        BY <3>1, <3>2, <3>3 DEF TearInv, Even
    <2>5. CASE Overlap'
      BY <2>5 DEF TearInv
    <2>6. QED
      BY <2>2, <2>3, <2>4, <2>5 DEF Next, Step
  <1>3. TypeOK /\ TearInv => RefusedOnlyInARace
    <2>1. ASSUME TypeOK, TearInv, ~Overlap, NEW r \in ran PROVE result[r] # "error"
      <3>1. r \in Resources /\ 1 \in 1..Slots
        BY <2>1 DEF TypeOK
      <3>2. QED
        BY <2>1, <3>1 DEF TearInv, Sound
    <2>2. QED
      BY <2>1 DEF RefusedOnlyInARace
  <1>4. QED
    BY <1>1, <1>2, <1>3, TypeCorrect, SlotInvariant, PTL DEF Spec
=============================================================================
