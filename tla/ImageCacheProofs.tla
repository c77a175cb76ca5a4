-------------------------- MODULE ImageCacheProofs --------------------------
(***************************************************************************)
(* What TLAPS proves about ImageCache, for any number of creates, images,  *)
(* files, members and tar invocations, and any set of faults.              *)
(***************************************************************************)
EXTENDS ImageCache, WellFoundedInduction, TLAPS

\* The stages at which a create has been told that the gold directory is ready.
Past == {"gather", "createvm", "sethduuid", "lockclone", "clone", "built"}

-----------------------------------------------------------------------------
(* Type correctness *)

\* The initial states have the declared types.
LEMMA InitType == Init => TypeOK
  <1> SUFFICES ASSUME Init PROVE TypeOK
    OBVIOUS
  <1> USE ImagesAssumption, SizesAssumption
  <1>1. files \in [Files -> [Members -> Images \cup {None, Junk}]]
    <2>1. ASSUME NEW f \in Files, \E i \in Images \ Remote : FileOf[i] = f
          PROVE  (CHOOSE i \in Images \ Remote : FileOf[i] = f) \in Images
      BY <2>1
    <2>2. QED
      BY <2>1 DEF Init
  <1>2. QED
    BY <1>1 DEF Init, TypeOK, Steps, Blank, Members

\* Downloading keeps the types.
LEMMA FetchType ==
    ASSUME TypeOK, NEW c \in Creates, Fetch(c)
    PROVE  TypeOK'
  <1> USE ImagesAssumption, SizesAssumption DEF TypeOK, Steps, Goto, Fail
  <1>1. CASE UseLocal(c)
    BY <1>1 DEF UseLocal
  <1>2. CASE OpenFile(c)
    <2>1. Blank \in [Members -> Images \cup {None, Junk}]
      BY DEF Blank
    <2>2. QED
      BY <1>2, <2>1 DEF OpenFile, Members
  <1>3. CASE CopyBlock(c)
    BY <1>3 DEF CopyBlock, Members
  <1>4. CASE CopyErrorPage(c)
    BY <1>4 DEF CopyErrorPage, Members
  <1>5. CASE CopyDone(c)
    BY <1>5 DEF CopyDone
  <1>6. CASE CopyFails(c)
    BY <1>6 DEF CopyFails
  <1>7. QED
    BY <1>1, <1>2, <1>3, <1>4, <1>5, <1>6 DEF Fetch

\* Unpacking keeps the types.
LEMMA UnpackType ==
    ASSUME TypeOK, NEW c \in Creates, Unpack(c)
    PROVE  TypeOK'
  <1> USE ImagesAssumption, SizesAssumption DEF TypeOK, Steps, Goto, Fail
  <1>1. CASE LockUnpack(c)
    BY <1>1 DEF LockUnpack
  <1>2. CASE SkipUnpack(c)
    BY <1>2 DEF SkipUnpack
  <1>3. CASE StartTar(c)
    BY <1>3 DEF StartTar
  <1>4. CASE ExtractMember(c)
    BY <1>4 DEF ExtractMember, Members, ArchiveOf
  <1>5. CASE UnpackOK(c)
    BY <1>5 DEF UnpackOK
  <1>6. CASE NextTar(c)
    BY <1>6 DEF NextTar
  <1>7. CASE UnpackFails(c)
    BY <1>7 DEF UnpackFails
  <1>8. QED
    BY <1>1, <1>2, <1>3, <1>4, <1>5, <1>6, <1>7 DEF Unpack

\* Building the VM keeps the types.
LEMMA BuildType ==
    ASSUME TypeOK, NEW c \in Creates, Build(c)
    PROVE  TypeOK'
  <1> USE ImagesAssumption, SizesAssumption DEF TypeOK, Steps, Goto, Fail
  <1>1. CASE GatherDisks(c)
    BY <1>1 DEF GatherDisks, Present
  <1>2. CASE CreateMachine(c)
    BY <1>2 DEF CreateMachine
  <1>3. CASE CreateMachineFails(c)
    BY <1>3 DEF CreateMachineFails
  <1>4. CASE SetHDUUID(c)
    BY <1>4 DEF SetHDUUID
  <1>5. CASE SetHDUUIDFails(c)
    BY <1>5 DEF SetHDUUIDFails
  <1>6. CASE LockClone(c)
    BY <1>6 DEF LockClone
  <1>7. CASE CloneHD(c)
    <2> DEFINE disk == Min(todo[c])
    <2> DEFINE folder == [vmdisk[c] EXCEPT ![disk] = GoldOf(c)[disk]]
    <2>a. vmdisk' = [vmdisk EXCEPT ![c] = folder]
      BY <1>7 DEF CloneHD
    <2>b. vmdisk[c] \in [Members -> Images \cup {None}]
      OBVIOUS
    <2>c. GoldOf(c) \in [Members -> Images \cup {None}]
      BY DEF GoldOf
    <2> HIDE DEF disk
    <2>d. folder \in [Members -> Images \cup {None}]
      <3>1. CASE disk \in Members
        BY <2>b, <2>c, <3>1
      <3>2. CASE disk \notin Members
        BY <2>b, <3>2
      <3>3. QED
        BY <3>1, <3>2
    <2> HIDE DEF folder
    <2>1. vmdisk' \in [Creates -> [Members -> Images \cup {None}]]
      BY <2>a, <2>d
    <2>2. QED
      BY <1>7, <2>1 DEF CloneHD
  <1>8. CASE CloneHDFails(c)
    BY <1>8 DEF CloneHDFails
  <1>9. QED
    BY <1>1, <1>2, <1>3, <1>4, <1>5, <1>6, <1>7, <1>8 DEF Build

\* A new provider process starts from well-typed state.
LEMMA RestartType ==
    ASSUME TypeOK, Restart
    PROVE  TypeOK'
  BY SizesAssumption DEF TypeOK, Restart, Steps, Unfinished

\* Every variable has its declared type in every reachable state.
THEOREM TypeCorrect == Spec => []TypeOK
  <1>1. TypeOK /\ [Next]_vars => TypeOK'
    <2> SUFFICES ASSUME TypeOK, [Next]_vars PROVE TypeOK'
      OBVIOUS
    <2>1. CASE \E c \in Creates : Create(c)
      BY <2>1, FetchType, UnpackType, BuildType DEF Create
    <2>2. CASE ApplyAgain \/ Crash
      BY <2>2, RestartType DEF ApplyAgain, Crash
    <2>3. CASE UNCHANGED vars
      BY <2>3 DEF TypeOK, vars
    <2>4. QED
      BY <2>1, <2>2, <2>3 DEF Next, Finished
  <1>2. QED
    BY <1>1, InitType, PTL DEF Spec

-----------------------------------------------------------------------------
(* imageOpMutex *)

\* The inductive invariant behind mutual exclusion: a create is in a critical
\* section exactly when it is the one the mutex names.
HolderInv == \A c \in Creates : pc[c] \in Critical <=> mutex = c

\* One step of one create keeps the correspondence of pc and mutex.
LEMMA HolderStep ==
    ASSUME TypeOK, HolderInv, NEW c \in Creates, Create(c)
    PROVE  HolderInv'
  <1> USE CreatesAssumption DEF TypeOK, HolderInv, Critical, Goto, Fail
  <1>1. CASE Fetch(c)
    BY <1>1 DEF Fetch, UseLocal, OpenFile, CopyBlock, CopyErrorPage, CopyDone, CopyFails
  <1>2. CASE Unpack(c)
    <2>1. CASE LockUnpack(c)
      BY <2>1 DEF LockUnpack
    <2>2. CASE SkipUnpack(c) \/ UnpackOK(c) \/ UnpackFails(c)
      BY <2>2 DEF SkipUnpack, UnpackOK, UnpackFails, TarFruitless, TarExitsZero, TarExitsNonZero
    <2>3. CASE StartTar(c) \/ ExtractMember(c) \/ NextTar(c)
      BY <2>3 DEF StartTar, ExtractMember, NextTar
    <2>4. QED
      BY <1>2, <2>1, <2>2, <2>3 DEF Unpack
  <1>3. CASE Build(c)
    <2>1. CASE GatherDisks(c)
      BY <2>1 DEF GatherDisks
    <2>2. CASE CreateMachine(c) \/ CreateMachineFails(c)
      BY <2>2 DEF CreateMachine, CreateMachineFails
    <2>3. CASE SetHDUUID(c) \/ SetHDUUIDFails(c)
      BY <2>3 DEF SetHDUUID, SetHDUUIDFails
    <2>4. CASE LockClone(c)
      BY <2>4 DEF LockClone
    <2>5. CASE CloneHD(c) \/ CloneHDFails(c)
      BY <2>5 DEF CloneHD, CloneHDFails
    <2>6. QED
      BY <1>3, <2>1, <2>2, <2>3, <2>4, <2>5 DEF Build
  <1>4. QED
    BY <1>1, <1>2, <1>3 DEF Create

\* A new process starts with a free mutex and nobody in a critical section.
LEMMA HolderRestart ==
    ASSUME TypeOK, HolderInv, Restart
    PROVE  HolderInv'
  BY CreatesAssumption DEF TypeOK, HolderInv, Critical, Restart, Unfinished

\* pc and imageOpMutex agree in every reachable state.
THEOREM HolderInvariant == Spec => []HolderInv
  <1>1. Init => HolderInv
    BY CreatesAssumption DEF Init, HolderInv, Critical
  <1>2. TypeOK /\ HolderInv /\ [Next]_vars => HolderInv'
    <2> SUFFICES ASSUME TypeOK, HolderInv, [Next]_vars PROVE HolderInv'
      OBVIOUS
    <2>1. CASE \E c \in Creates : Create(c)
      BY <2>1, HolderStep
    <2>2. CASE ApplyAgain \/ Crash
      BY <2>2, HolderRestart DEF ApplyAgain, Crash
    <2>3. CASE UNCHANGED vars
      BY <2>3 DEF HolderInv, vars
    <2>4. QED
      BY <2>1, <2>2, <2>3 DEF Next, Finished
  <1>3. QED
    BY <1>1, <1>2, TypeCorrect, PTL DEF Spec

\* At most one create is unpacking or cloning, whatever fails and whenever the
\* provider is killed.
THEOREM MutexHolds == Spec => []MutualExclusion
  <1>1. HolderInv => MutualExclusion
    BY DEF HolderInv, MutualExclusion
  <1>2. QED
    BY <1>1, HolderInvariant, PTL

-----------------------------------------------------------------------------
(* The gold directories *)

\* Downloads do not collide: no other image is stored under the file name of a
\* remote one, nor under the path of a local one.
OwnFileNames == \A i, j \in Images : FileOf[i] = FileOf[j] => i = j

\* Why a gold directory is stable once used: whoever was told that it is ready
\* saw it non-empty, and tar only runs on a directory that nobody was told of.
ReadyInv ==
    /\ \A c \in Creates : pc[c] \in Past => Present(GoldOf(c)) # {}
    /\ \A c, d \in Creates :
         pc[c] = "tar" /\ Source[d] = Source[c] => pc[d] \notin Past

\* One step of one create keeps directories that are ready non-empty, and out of
\* the reach of tar.
LEMMA ReadyStep ==
    ASSUME TypeOK, HolderInv, ReadyInv, NEW c \in Creates, Create(c)
    PROVE  ReadyInv'
  <1> USE CreatesAssumption, ImagesAssumption
      DEF TypeOK, HolderInv, ReadyInv, Past, Critical, Goto, Fail, Present, GoldOf
  <1>1. CASE Fetch(c)
    <2>1. UNCHANGED gold
      BY <1>1 DEF Fetch, UseLocal, OpenFile, CopyBlock, CopyErrorPage, CopyDone, CopyFails
    <2>2. \/ UNCHANGED pc
          \/ \E step \in {"copy", "lock", "failed"} : pc' = [pc EXCEPT ![c] = step]
      <3>1. CASE UseLocal(c) \/ CopyDone(c)
        BY <3>1 DEF UseLocal, CopyDone
      <3>2. CASE OpenFile(c)
        BY <3>2 DEF OpenFile
      <3>3. CASE CopyFails(c)
        BY <3>3 DEF CopyFails
      <3>4. CASE CopyBlock(c) \/ CopyErrorPage(c)
        BY <3>4 DEF CopyBlock, CopyErrorPage
      <3>5. QED
        BY <1>1, <3>1, <3>2, <3>3, <3>4 DEF Fetch
    <2>3. \A d \in Creates : pc'[d] = pc[d] \/ pc'[d] \in {"copy", "lock", "failed"}
      BY <2>2
    <2>4. QED
      <3>1. ASSUME NEW d \in Creates, pc'[d] \in Past
            PROVE  Present(GoldOf(d))' # {}
        <4>1. pc[d] \in Past
          BY <2>3, <3>1
        <4>2. Present(GoldOf(d)) # {}
          BY <4>1
        <4>3. Present(GoldOf(d))' = Present(GoldOf(d))
          BY <2>1
        <4>4. QED
          BY <4>2, <4>3
      <3>2. \A d, e \in Creates :
              pc'[d] = "tar" /\ Source[e] = Source[d] => pc'[e] \notin Past
        BY <2>3
      <3>3. QED
        BY <3>1, <3>2
  <1>2. CASE Unpack(c)
    <2>1. CASE LockUnpack(c)
      BY <2>1 DEF LockUnpack
    <2>2. CASE SkipUnpack(c)
      BY <2>2 DEF SkipUnpack
    <2>3. CASE StartTar(c)
      BY <2>3 DEF StartTar
    <2>4. CASE ExtractMember(c)
      BY <2>4 DEF ExtractMember, ArchiveOf
    <2>5. CASE UnpackOK(c)
      BY <2>5 DEF UnpackOK, TarExitsZero
    <2>6. CASE NextTar(c)
      BY <2>6 DEF NextTar
    <2>7. CASE UnpackFails(c)
      BY <2>7 DEF UnpackFails
    <2>8. QED
      BY <1>2, <2>1, <2>2, <2>3, <2>4, <2>5, <2>6, <2>7 DEF Unpack
  <1>3. CASE Build(c)
    <2>1. UNCHANGED gold
      BY <1>3 DEF Build, GatherDisks, CreateMachine, CreateMachineFails, SetHDUUID,
                  SetHDUUIDFails, LockClone, CloneHD, CloneHDFails
    <2>2. /\ pc[c] \in Past
          /\ \E step \in Past \cup {"failed"} : pc' = [pc EXCEPT ![c] = step]
      BY <1>3 DEF Build, GatherDisks, CreateMachine, CreateMachineFails, SetHDUUID,
                  SetHDUUIDFails, LockClone, CloneHD, CloneHDFails
    <2>3. QED
      BY <2>1, <2>2
  <1>4. QED
    BY <1>1, <1>2, <1>3 DEF Create

\* Ready directories stay ready through interleavings, failures and crashes.
LEMMA ReadyInvariant == Spec => []ReadyInv
  <1>1. Init => ReadyInv
    BY DEF Init, ReadyInv, Past
  <1>2. TypeOK /\ HolderInv /\ ReadyInv /\ [Next]_vars => ReadyInv'
    <2> SUFFICES ASSUME TypeOK, HolderInv, ReadyInv, [Next]_vars PROVE ReadyInv'
      OBVIOUS
    <2>1. CASE \E c \in Creates : Create(c)
      BY <2>1, ReadyStep
    <2>2. CASE ApplyAgain \/ Crash
      <3>1. /\ UNCHANGED gold
            /\ \A c \in Creates : pc'[c] = "idle" \/ (pc'[c] = "built" /\ pc[c] = "built")
        BY <2>2 DEF ApplyAgain, Crash, Restart, Unfinished
      <3>2. QED
        BY <3>1 DEF ReadyInv, Past, Present, GoldOf
    <2>3. CASE UNCHANGED vars
      BY <2>3 DEF vars, ReadyInv, Present, GoldOf
    <2>4. QED
      BY <2>1, <2>2, <2>3 DEF Next, Finished
  <1>3. QED
    BY <1>1, <1>2, TypeCorrect, HolderInvariant, PTL DEF Spec

\* Once a create relies on a gold directory, no step of any create, no failure
\* and no crash changes what is in it.
THEOREM GoldIsFrozen == Spec => GoldFrozenInUse
  <1>1. TypeOK /\ ReadyInv /\ [Next]_vars
          => [\A i \in Images : InUse(i) => gold'[i] = gold[i]]_vars
    <2> SUFFICES ASSUME TypeOK, ReadyInv, [Next]_vars,
                        NEW i \in Images, InUse(i)
                 PROVE  gold'[i] = gold[i]
      OBVIOUS
    <2>1. CASE UNCHANGED gold
      BY <2>1
    <2>2. CASE \E c \in Creates : ExtractMember(c)
      <3>1. PICK c \in Creates : ExtractMember(c)
        BY <2>2
      <3>2. Source[c] # i
        BY <3>1 DEF ExtractMember, ReadyInv, InUse, Past
      <3>3. QED
        BY <3>1, <3>2, ImagesAssumption DEF ExtractMember, TypeOK
    <2>3. [Next]_vars => (\E c \in Creates : ExtractMember(c)) \/ UNCHANGED gold
      BY DEF Next, Create, Fetch, Unpack, Build, UseLocal, OpenFile, CopyBlock,
             CopyErrorPage, CopyDone, CopyFails, LockUnpack, SkipUnpack, StartTar,
             UnpackOK, NextTar, UnpackFails, GatherDisks, CreateMachine,
             CreateMachineFails, SetHDUUID, SetHDUUIDFails, LockClone, CloneHD,
             CloneHDFails, ApplyAgain, Crash, Restart, Finished, vars
    <2>4. QED
      BY <2>1, <2>2, <2>3
  <1>2. QED
    BY <1>1, TypeCorrect, ReadyInvariant, PTL DEF Spec, GoldFrozenInUse

-----------------------------------------------------------------------------
(* Whole images *)

\* Nobody else has the same archive in hand: images have file names of their
\* own, and no two creates download one of them.  tar does not fail by itself
\* and nobody kills the provider; downloads may fail, and so may VBoxManage.
Undisturbed ==
    /\ OwnFileNames
    /\ \A c, d \in Creates : Source[c] = Source[d] /\ Source[c] \in Remote => c = d
    /\ {"tar", "crash"} \cap Faults = {}

\* What a create has copied or extracted so far.
SoFar(c) == [m \in Members |-> IF m < pos[c] THEN Source[c] ELSE None]
ErrorPage == [m \in Members |-> IF m = 1 THEN Junk ELSE None]

\* The archive of a create that unpacks is whole, or an error page, of which
\* tar extracts nothing.
FileInv ==
    /\ \A i \in Images \ Remote : files[FileOf[i]] = Whole(i)
    /\ \A c \in Creates : pc[c] = "copy" =>
         /\ Source[c] \in Remote
         /\ ArchiveOf(c) = SoFar(c) \/ (ArchiveOf(c) = ErrorPage /\ pos[c] = N + 1)
    /\ \A c \in Creates : pc[c] \in {"lock", "check", "tar"} =>
         ArchiveOf(c) \in {Whole(Source[c]), ErrorPage}

\* A gold directory holds nothing, the whole image, or what the one create that
\* is inside tar has extracted so far.
GoldInv ==
    /\ \A i \in Images :
         \/ gold[i] \in {Blank, Whole(i)}
         \/ \E c \in Creates : pc[c] = "tar" /\ Source[c] = i
    /\ \A c \in Creates : pc[c] = "tar" =>
         /\ GoldOf(c) = SoFar(c)
         /\ ArchiveOf(c) = Whole(Source[c]) \/ pos[c] = 1
    /\ \A c \in Creates : pc[c] \in Past => GoldOf(c) = Whole(Source[c])

WholeInv == FileInv /\ GoldInv

\* A whole image is neither a blank one nor an error page.
LEMMA WholeIsPresent ==
    ASSUME NEW i \in Images
    PROVE  /\ 1 \in Members /\ Present(Whole(i)) = Members /\ Present(Blank) = {}
           /\ Whole(i) # ErrorPage /\ ErrorPage[1] = Junk /\ ErrorPage # Blank
<1>1. 1 \in Members
  BY SizesAssumption DEF Members
<1>2. Whole(i)[1] = i /\ ErrorPage[1] = Junk /\ Blank[1] = None
  BY <1>1 DEF Whole, ErrorPage, Blank
<1> QED
  BY <1>1, <1>2, ImagesAssumption DEF Present, Whole, Blank

\* Where copying and extracting begin, and where they end.
LEMMA SoFarEnds ==
    ASSUME NEW c \in Creates, pos \in [Creates -> 1..(N + 1)]
    PROVE  /\ pos[c] = 1 => SoFar(c) = Blank
           /\ pos[c] = N + 1 => SoFar(c) = Whole(Source[c])
BY SizesAssumption DEF SoFar, Blank, Whole, Members

\* One more block, or one more member.
LEMMA SoFarGrows ==
    ASSUME TypeOK, NEW c \in Creates, pos[c] \in Members, pos' = [pos EXCEPT ![c] = @ + 1]
    PROVE  SoFar(c)' = [SoFar(c) EXCEPT ![pos[c]] = Source[c]]
<1>1. pos'[c] = pos[c] + 1 /\ pos[c] \in Nat
  BY DEF TypeOK, Members
<1>2. \A m \in Members :
        (IF m < pos'[c] THEN Source[c] ELSE None)
          = IF m = pos[c] THEN Source[c] ELSE IF m < pos[c] THEN Source[c] ELSE None
  BY <1>1 DEF Members
<1> QED
  BY <1>2 DEF SoFar

\* A download writes the archive of no other create.
LEMMA DownloadsApart ==
    ASSUME Undisturbed, NEW c \in Creates, Source[c] \in Remote,
           files \in [Files -> [Members -> Images \cup {None, Junk}]],
           NEW content, files' = [files EXCEPT ![FileOf[Source[c]]] = content]
    PROVE  /\ ArchiveOf(c)' = content
           /\ \A d \in Creates : d # c => ArchiveOf(d)' = ArchiveOf(d)
           /\ \A i \in Images \ Remote : files'[FileOf[i]] = files[FileOf[i]]
BY ImagesAssumption DEF Undisturbed, OwnFileNames, ArchiveOf

\* One step of one create keeps the archives.
LEMMA FileStep ==
    ASSUME Undisturbed, TypeOK, FileInv, NEW c \in Creates, Create(c)
    PROVE  FileInv'
<1>t. /\ pc \in [Creates -> Steps] /\ pos \in [Creates -> 1..(N + 1)]
      /\ files \in [Files -> [Members -> Images \cup {None, Junk}]]
      /\ Source[c] \in Images
  BY ImagesAssumption DEF TypeOK
<1>1. ASSUME NEW content, Source[c] \in Remote,
             files' = [files EXCEPT ![FileOf[Source[c]]] = content],
             pc' = [pc EXCEPT ![c] = "copy"],
             \A d \in Creates : d # c => pos'[d] = pos[d],
             content = SoFar(c)' \/ (content = ErrorPage /\ pos'[c] = N + 1)
      PROVE  FileInv'
  <2>1. /\ ArchiveOf(c)' = content
        /\ \A d \in Creates : d # c => ArchiveOf(d)' = ArchiveOf(d)
        /\ \A i \in Images \ Remote : files'[FileOf[i]] = files[FileOf[i]]
    BY <1>1, <1>t, DownloadsApart
  <2>2. /\ pc'[c] = "copy"
        /\ \A d \in Creates : d # c => pc'[d] = pc[d] /\ SoFar(d)' = SoFar(d)
    BY <1>1, <1>t DEF SoFar
  <2> QED
    BY <1>1, <2>1, <2>2 DEF FileInv
<1>2. ASSUME UNCHANGED files,
             \A d \in Creates : pc'[d] = "copy" => pc[d] = "copy" /\ pos'[d] = pos[d],
             \A d \in Creates : pc'[d] \in {"lock", "check", "tar"} =>
               pc[d] \in {"lock", "check", "tar"} \/ ArchiveOf(d) \in {Whole(Source[d]), ErrorPage}
      PROVE  FileInv'
  BY <1>2 DEF FileInv, ArchiveOf, SoFar
<1>3. CASE OpenFile(c)
  <2>1. /\ Source[c] \in Remote
        /\ files' = [files EXCEPT ![FileOf[Source[c]]] = Blank]
        /\ pc' = [pc EXCEPT ![c] = "copy"]
        /\ pos' = [pos EXCEPT ![c] = 1]
    BY <1>3 DEF OpenFile, Goto
  <2>2. SoFar(c)' = Blank
    BY <2>1, <1>t, SizesAssumption DEF SoFar, Blank, Members
  <2> QED
    BY <1>1, <1>t, <2>1, <2>2
<1>4. CASE CopyBlock(c)
  <2>1. /\ pc[c] = "copy" /\ pos[c] \in Members /\ UNCHANGED pc
        /\ files' = [files EXCEPT ![FileOf[Source[c]]] = [ArchiveOf(c) EXCEPT ![pos[c]] = Source[c]]]
        /\ pos' = [pos EXCEPT ![c] = @ + 1]
    BY <1>4, <1>t DEF CopyBlock, ArchiveOf
  <2>2. Source[c] \in Remote /\ ArchiveOf(c) = SoFar(c)
    BY <2>1, SizesAssumption DEF FileInv, Members
  <2>3. SoFar(c)' = [ArchiveOf(c) EXCEPT ![pos[c]] = Source[c]]
    BY <2>1, <2>2, SoFarGrows
  <2>4. pc' = [pc EXCEPT ![c] = "copy"] /\ \A d \in Creates : d # c => pos'[d] = pos[d]
    BY <2>1, <1>t
  <2> QED
    BY <1>1, <2>1, <2>2, <2>3, <2>4
<1>5. CASE CopyErrorPage(c)
  <2>1. /\ pc[c] = "copy" /\ pos[c] = 1 /\ UNCHANGED pc
        /\ files' = [files EXCEPT ![FileOf[Source[c]]] = [ArchiveOf(c) EXCEPT ![1] = Junk]]
        /\ pos' = [pos EXCEPT ![c] = N + 1]
    BY <1>5, <1>t DEF CopyErrorPage, ArchiveOf
  <2>2. Source[c] \in Remote /\ ArchiveOf(c) = Blank
    BY <2>1, <1>t, SoFarEnds, SizesAssumption DEF FileInv
  <2>3. [ArchiveOf(c) EXCEPT ![1] = Junk] = ErrorPage
    BY <2>2 DEF Blank, ErrorPage
  <2>4. /\ pc' = [pc EXCEPT ![c] = "copy"] /\ pos'[c] = N + 1
        /\ \A d \in Creates : d # c => pos'[d] = pos[d]
    BY <2>1, <1>t
  <2> QED
    BY <1>1, <2>1, <2>2, <2>3, <2>4
<1>6. CASE UseLocal(c)
  <2>1. ArchiveOf(c) = Whole(Source[c])
    BY <1>6, <1>t DEF UseLocal, FileInv, ArchiveOf
  <2> QED
    BY <1>2, <1>6, <1>t, <2>1 DEF UseLocal, Goto
<1>7. CASE CopyDone(c)
  <2>1. ArchiveOf(c) \in {Whole(Source[c]), ErrorPage}
    BY <1>7, <1>t, SoFarEnds DEF CopyDone, FileInv
  <2> QED
    BY <1>2, <1>7, <1>t, <2>1 DEF CopyDone, Goto
<1>8. CASE CopyFails(c) \/ Unpack(c)
  <2>1. /\ UNCHANGED files
        /\ \E s \in Steps \ {"copy"} :
             /\ pc' = [pc EXCEPT ![c] = s]
             /\ s \in {"lock", "check", "tar"} => pc[c] \in {"lock", "check", "tar"}
        /\ \A d \in Creates : d # c => pos'[d] = pos[d]
    BY <1>8, <1>t
       DEF CopyFails, Unpack, LockUnpack, SkipUnpack, StartTar, ExtractMember, UnpackOK, NextTar,
           UnpackFails, TarFruitless, TarExitsZero, TarExitsNonZero, Goto, Fail, Steps
  <2> QED
    BY <1>2, <1>t, <2>1
<1>9. CASE Build(c)
  <2>1. /\ UNCHANGED <<files, pos>>
        /\ \E s \in Past \cup {"failed"} : pc' = [pc EXCEPT ![c] = s]
    BY <1>9 DEF Build, GatherDisks, CreateMachine, CreateMachineFails, SetHDUUID, SetHDUUIDFails,
                LockClone, CloneHD, CloneHDFails, Goto, Fail, Past
  <2> QED
    BY <1>2, <1>t, <2>1 DEF Past
<1> QED
  BY <1>3, <1>4, <1>5, <1>6, <1>7, <1>8, <1>9 DEF Create, Fetch

\* The steps that leave the directories alone, and what they do to pc.
LEMMA GoldElsewhere ==
    ASSUME GoldInv, UNCHANGED gold,
           \A d \in Creates : pc[d] = "tar" => pc'[d] = "tar",
           \A d \in Creates : pc'[d] = "tar" =>
             pc[d] = "tar" /\ pos'[d] = pos[d] /\ ArchiveOf(d)' = ArchiveOf(d),
           \A d \in Creates : pc'[d] \in Past => pc[d] \in Past \/ GoldOf(d) = Whole(Source[d])
    PROVE  GoldInv'
BY DEF GoldInv, GoldOf, SoFar

\* The archive does not change while tar reads it.
LEMMA ArchiveStays ==
    ASSUME Undisturbed, TypeOK, FileInv, NEW c \in Creates, Create(c),
           NEW d \in Creates, pc[d] = "tar"
    PROVE  ArchiveOf(d)' = ArchiveOf(d)
<1>1. ASSUME NEW content, Source[c] \in Remote, d # c,
             files' = [files EXCEPT ![FileOf[Source[c]]] = content]
      PROVE  ArchiveOf(d)' = ArchiveOf(d)
  BY <1>1, DownloadsApart DEF TypeOK
<1>2. CASE OpenFile(c)
  BY <1>1, <1>2 DEF OpenFile
<1>3. CASE CopyBlock(c)
  <2>1. pc[c] = "copy" /\ Source[c] \in Remote
    BY <1>3 DEF CopyBlock, FileInv
  <2> QED
    BY <1>1, <1>3, <2>1 DEF CopyBlock
<1>4. CASE CopyErrorPage(c)
  <2>1. pc[c] = "copy" /\ Source[c] \in Remote
    BY <1>4 DEF CopyErrorPage, FileInv
  <2> QED
    BY <1>1, <1>4, <2>1 DEF CopyErrorPage
<1>5. CASE UNCHANGED files
  BY <1>5 DEF ArchiveOf
<1>6. Create(c) => OpenFile(c) \/ CopyBlock(c) \/ CopyErrorPage(c) \/ UNCHANGED files
  BY DEF Create, Fetch, Unpack, Build, UseLocal, CopyDone, CopyFails, LockUnpack,
         SkipUnpack, StartTar, ExtractMember, UnpackOK, NextTar, UnpackFails, GatherDisks,
         CreateMachine, CreateMachineFails, SetHDUUID, SetHDUUIDFails, LockClone,
         CloneHD, CloneHDFails
<1> QED
  BY <1>2, <1>3, <1>4, <1>5, <1>6

\* One step of one create keeps directories whole.
LEMMA GoldStep ==
    ASSUME Undisturbed, TypeOK, HolderInv, FileInv, GoldInv, NEW c \in Creates, Create(c)
    PROVE  GoldInv'
<1>s. Source[c] \in Images
  BY ImagesAssumption
<1>t. /\ pc \in [Creates -> Steps] /\ pos \in [Creates -> 1..(N + 1)]
      /\ gold \in [Images -> [Members -> Images \cup {None}]]
  BY DEF TypeOK
<1>f. \A d \in Creates : pc[d] = "tar" => ArchiveOf(d)' = ArchiveOf(d)
  BY ArchiveStays
<1>1. CASE Fetch(c)
  <2>1. /\ UNCHANGED gold
        /\ pc[c] \in {"idle", "copy"}
        /\ \E s \in {"copy", "lock", "failed"} : pc' = [pc EXCEPT ![c] = s]
        /\ \A d \in Creates : d # c => pos'[d] = pos[d]
    BY <1>1, <1>t DEF Fetch, UseLocal, OpenFile, CopyBlock, CopyErrorPage, CopyDone, CopyFails,
                      Goto, Fail
  <2> QED
    BY <2>1, <1>t, <1>f, GoldElsewhere DEF Past
<1>2. CASE LockUnpack(c)
  BY <1>2, <1>t, <1>f, GoldElsewhere DEF LockUnpack, Goto, Past
<1>3. CASE SkipUnpack(c)
  <2>1. pc[c] = "check" /\ \A d \in Creates : pc[d] # "tar"
    BY <1>3 DEF SkipUnpack, HolderInv, Critical
  <2>2. GoldOf(c) = Whole(Source[c])
    BY <1>3, <1>s, <2>1, WholeIsPresent DEF SkipUnpack, GoldInv, GoldOf
  <2> QED
    BY <1>3, <1>t, <2>1, <2>2, GoldElsewhere DEF SkipUnpack, Goto, Past
<1>4. CASE StartTar(c)
  <2>1. pc[c] = "check" /\ \A d \in Creates : pc[d] # "tar"
    BY <1>4 DEF StartTar, HolderInv, Critical
  <2>2. GoldOf(c) = Blank
    BY <1>4, <1>s, <2>1, WholeIsPresent DEF StartTar, GoldInv, GoldOf
  <2>3. pc' = [pc EXCEPT ![c] = "tar"] /\ pos' = [pos EXCEPT ![c] = 1] /\ UNCHANGED <<files, gold>>
    BY <1>4 DEF StartTar, Goto
  <2>4. SoFar(c)' = Blank
    BY <2>3, <1>t DEF SoFar, Blank, Members
  <2> QED
    BY <2>1, <2>2, <2>3, <2>4, <1>t DEF GoldInv, GoldOf, Past
<1>5. CASE ExtractMember(c)
  <2>1. \A d \in Creates : pc[d] = "tar" => d = c
    BY <1>5, CreatesAssumption DEF ExtractMember, HolderInv, Critical
  <2>2. /\ pc[c] = "tar" /\ pos[c] \in Members /\ UNCHANGED <<pc, files>>
        /\ ArchiveOf(c)[pos[c]] \in Images
        /\ pos' = [pos EXCEPT ![c] = @ + 1]
        /\ gold' = [gold EXCEPT ![Source[c]] = [GoldOf(c) EXCEPT ![pos[c]] = ArchiveOf(c)[pos[c]]]]
    BY <1>5 DEF ExtractMember, GoldOf
  \* tar gets nothing out of an error page.
  <2>3. ArchiveOf(c) = Whole(Source[c])
    BY <2>2, <1>s, WholeIsPresent, ImagesAssumption DEF FileInv, GoldInv
  <2>4. GoldOf(c) = SoFar(c) /\ ArchiveOf(c)[pos[c]] = Source[c]
    BY <2>2, <2>3 DEF GoldInv, Whole
  <2>5. GoldOf(c)' = [GoldOf(c) EXCEPT ![pos[c]] = Source[c]]
    BY <1>s, <1>t, <2>2, <2>4 DEF GoldOf
  <2>6. GoldOf(c)' = SoFar(c)'
    BY <2>2, <2>4, <2>5, SoFarGrows
  <2>7. ASSUME NEW i \in Images, i # Source[c] PROVE gold'[i] = gold[i]
    BY <1>s, <1>t, <2>2, <2>7
  <2>8. \A d \in Creates : pc[d] \in Past => Source[d] # Source[c]
    <3>1. ASSUME NEW d \in Creates, pc[d] \in Past, Source[d] = Source[c] PROVE FALSE
      <4>1. SoFar(c) = Whole(Source[c])
        BY <2>4, <3>1 DEF GoldInv, GoldOf
      <4>2. SoFar(c)[pos[c]] = None /\ Whole(Source[c])[pos[c]] = Source[c]
        BY <2>2 DEF SoFar, Whole, Members
      <4> QED
        BY <4>1, <4>2, <1>s, ImagesAssumption
    <3> QED
      BY <3>1
  <2>9. ArchiveOf(c)' = Whole(Source[c])
    BY <2>2, <2>3 DEF ArchiveOf
  <2> QED
    BY <2>1, <2>2, <2>6, <2>7, <2>8, <2>9, ImagesAssumption DEF GoldInv, GoldOf, Past
<1>6. CASE UnpackOK(c) \/ NextTar(c) \/ UnpackFails(c)
  <2>1. pc[c] = "tar" /\ UNCHANGED <<files, gold>>
    BY <1>6 DEF UnpackOK, NextTar, UnpackFails, TarFruitless, TarExitsZero, TarExitsNonZero
  <2>2. GoldOf(c) = SoFar(c)
    BY <2>1 DEF GoldInv
  <2>3. CASE ArchiveOf(c) = Whole(Source[c])
    <3>1. \A m \in Members : ArchiveOf(c)[m] = Source[c]
      BY <2>3 DEF Whole
    <3>2. TarExitsZero(c) /\ ~TarExitsNonZero(c)
      BY <1>6, <1>s, <3>1 DEF UnpackOK, NextTar, UnpackFails, TarFruitless, TarExitsNonZero, Undisturbed
    <3>3. ArchiveOf(c) # Blank
      BY <3>1, <1>s, WholeIsPresent, ImagesAssumption DEF Blank
    <3>4. pos[c] = N + 1
      BY <3>2, <3>3 DEF TarExitsZero
    <3>5. GoldOf(c) = Whole(Source[c])
      BY <2>2, <3>4, <1>t, SoFarEnds
    <3>6. UnpackOK(c)
      BY <1>6, <1>s, <3>2, <3>5, WholeIsPresent DEF NextTar, UnpackFails, TarFruitless
    <3>7. pc' = [pc EXCEPT ![c] = "gather"] /\ UNCHANGED <<files, gold, pos>>
      BY <3>6 DEF UnpackOK, Goto
    <3>8. \A d \in Creates : pc'[d] = IF d = c THEN "gather" ELSE pc[d]
      BY <3>7, <1>t
    <3> QED
      BY <3>5, <3>7, <3>8 DEF GoldInv, GoldOf, ArchiveOf, SoFar, Past
  <2>4. CASE ArchiveOf(c) # Whole(Source[c])
    <3>1. pos[c] = 1 /\ GoldOf(c) = Blank
      BY <2>1, <2>2, <2>4, <1>t, SoFarEnds DEF GoldInv
    <3>2. NextTar(c) \/ UnpackFails(c)
      BY <1>6, <1>s, <3>1, WholeIsPresent DEF UnpackOK
    <3>3. CASE NextTar(c)
      <4>1. UNCHANGED <<pc, pos, files, gold>>
        BY <3>1, <3>3, <1>t DEF NextTar
      <4> QED
        BY <4>1 DEF GoldInv, GoldOf, ArchiveOf, SoFar
    <3>4. CASE UnpackFails(c)
      <4>1. pc' = [pc EXCEPT ![c] = "failed"] /\ UNCHANGED <<pos, files, gold>>
        BY <3>4 DEF UnpackFails, Fail, Goto
      <4>2. \A d \in Creates : pc'[d] = IF d = c THEN "failed" ELSE pc[d]
        BY <4>1, <1>t
      <4>3. \A i \in Images : \/ gold[i] \in {Blank, Whole(i)}
                              \/ \E d \in Creates : d # c /\ pc[d] = "tar" /\ Source[d] = i
        BY <3>1 DEF GoldInv, GoldOf
      <4> QED
        BY <4>1, <4>2, <4>3 DEF GoldInv, GoldOf, ArchiveOf, SoFar, Past
    <3> QED
      BY <3>2, <3>3, <3>4
  <2> QED
    BY <2>3, <2>4
<1>7. CASE Build(c)
  <2>1. UNCHANGED <<files, gold, pos>>
    BY <1>7 DEF Build, GatherDisks, CreateMachine, CreateMachineFails, SetHDUUID,
                SetHDUUIDFails, LockClone, CloneHD, CloneHDFails
  <2>2. /\ pc[c] \in Past
        /\ \E step \in Past \cup {"failed"} : pc' = [pc EXCEPT ![c] = step]
    BY <1>7 DEF Build, GatherDisks, CreateMachine, CreateMachineFails, SetHDUUID, Past,
                SetHDUUIDFails, LockClone, CloneHD, CloneHDFails, Goto, Fail
  <2> QED
    BY <2>1, <2>2, <1>t, <1>f, GoldElsewhere DEF Past
<1> QED
  BY <1>1, <1>2, <1>3, <1>4, <1>5, <1>6, <1>7 DEF Create, Unpack

\* Apply run again finds archives and directories as they were left.
LEMMA WholeRestart ==
    ASSUME TypeOK, WholeInv, Restart, \A c \in Creates : pc[c] # "tar"
    PROVE  WholeInv'
<1>1. \A d \in Creates : pc'[d] = "idle" \/ (pc'[d] = "built" /\ pc[d] = "built")
  BY DEF Restart, Unfinished
<1>2. UNCHANGED <<files, gold>>
  BY DEF Restart
<1>3. FileInv'
  BY <1>1, <1>2 DEF WholeInv, FileInv
<1>4. GoldInv'
  BY <1>1, <1>2, GoldElsewhere DEF WholeInv, Past
<1> QED
  BY <1>3, <1>4 DEF WholeInv

\* Directories are whole through interleavings, failures of downloads and of
\* VBoxManage, and repeated applies.
LEMMA WholeInvariant == ASSUME Undisturbed PROVE Spec => []WholeInv
<1>1. Init => WholeInv
  <2> SUFFICES ASSUME Init PROVE WholeInv
    OBVIOUS
  <2>1. ASSUME NEW i \in Images \ Remote PROVE files[FileOf[i]] = Whole(i)
    <3> DEFINE found == CHOOSE j \in Images \ Remote : FileOf[j] = FileOf[i]
    <3>1. found \in Images /\ FileOf[found] = FileOf[i]
      OBVIOUS
    <3>2. found = i
      BY <3>1 DEF Undisturbed, OwnFileNames
    <3>3. FileOf[i] \in Files
      BY ImagesAssumption
    <3> QED
      BY <3>2, <3>3 DEF Init, Whole
  <2>2. FileInv /\ GoldInv
    BY <2>1 DEF Init, FileInv, GoldInv, Past
  <2> QED
    BY <2>2 DEF WholeInv
<1>2. TypeOK /\ HolderInv /\ WholeInv /\ [Next]_vars => WholeInv'
  <2> SUFFICES ASSUME TypeOK, HolderInv, WholeInv, [Next]_vars PROVE WholeInv'
    OBVIOUS
  <2>1. CASE \E c \in Creates : Create(c)
    BY <2>1, FileStep, GoldStep DEF WholeInv
  <2>2. CASE ApplyAgain
    BY <2>2, WholeRestart DEF ApplyAgain, Ended
  <2>3. ~Crash
    BY DEF Crash, Undisturbed
  <2>4. CASE UNCHANGED vars
    BY <2>4 DEF vars, WholeInv, FileInv, GoldInv, GoldOf, ArchiveOf, SoFar
  <2> QED
    BY <2>1, <2>2, <2>3, <2>4 DEF Next, Finished
<1> QED
  BY <1>1, <1>2, TypeCorrect, HolderInvariant, PTL DEF Spec

\* A create that leaves unpackImage without an error finds the whole image, if
\* nobody else downloads the image, tar does not fail and the provider is not
\* killed; what a download that failed, or an error page, has left is replaced.
THEOREM UnpackedWhole == ASSUME Undisturbed PROVE Spec => []UnpackedIsWhole
<1>1. WholeInv => UnpackedIsWhole
  BY DEF WholeInv, GoldInv, UnpackedIsWhole, Past
<1> QED
  BY <1>1, WholeInvariant, PTL

\* The least of some members is one of them.
LEMMA MinIsMember ==
    ASSUME NEW S \in SUBSET Members, S # {}
    PROVE  Min(S) \in S
  <1> DEFINE less == {p \in Nat \X Nat : p[1] < p[2]}
  <1>1. IsWellFoundedOn(less, Nat)
    <2>1. less = OpToRel(<, Nat)
      BY DEF OpToRel
    <2>2. QED
      BY <2>1, NatLessThanWellFounded
  <1>2. S \subseteq Nat
    BY DEF Members
  <1>3. \E x \in S : \A y \in S : <<y, x>> \notin less
    <2> HIDE DEF less
    <2>1. QED
      BY <1>1, <1>2, WFMin
  <1>4. PICK x \in S : \A y \in S : <<y, x>> \notin less
    BY <1>3
  <1>5. ASSUME NEW y \in S PROVE x <= y
    <2>1. <<y, x>> \notin less /\ y \in Nat /\ x \in Nat
      BY <1>2, <1>4
    <2>2. ~ (y < x)
      BY <2>1
    <2>3. QED
      BY <2>1, <2>2
  <1>6. \E z \in S : \A y \in S : z <= y
    BY <1>5
  <1>7. QED
    BY <1>6 DEF Min

\* A disk is to be cloned or has been, and nothing else is in a VM's folder.
DiskInv ==
    \A c \in Creates :
        /\ \A m \in Members : vmdisk[c][m] = None \/ (m \in DiskMembers /\ vmdisk[c][m] = Source[c])
        /\ pc[c] \in Past \ {"gather"} =>
             \A m \in DiskMembers : m \in todo[c] \/ vmdisk[c][m] = Source[c]
        /\ pc[c] \in {"createvm", "sethduuid", "lockclone", "clone"} => todo[c] # {}
        /\ pc[c] = "built" => todo[c] = {}

\* One step of one create loses no disk and adds none of another image.
LEMMA DiskStep ==
    ASSUME TypeOK, WholeInv, DiskInv, NEW c \in Creates, Create(c)
    PROVE  DiskInv'
  <1>s. Source[c] \in Images /\ DiskMembers \subseteq Members
    BY ImagesAssumption, SizesAssumption
  <1>1. CASE Fetch(c) \/ Unpack(c)
    <2>1. UNCHANGED <<todo, vmdisk>>
      BY <1>1 DEF Fetch, UseLocal, OpenFile, CopyBlock, CopyErrorPage, CopyDone, CopyFails,
                  Unpack, LockUnpack, SkipUnpack, StartTar, ExtractMember, UnpackOK, NextTar,
                  UnpackFails
    <2>2. \A d \in Creates : \/ pc'[d] = pc[d]
                             \/ pc'[d] \in {"copy", "lock", "check", "tar", "gather", "failed"}
      BY <1>1 DEF Fetch, UseLocal, OpenFile, CopyBlock, CopyErrorPage, CopyDone, CopyFails,
                  Unpack, LockUnpack, SkipUnpack, StartTar, ExtractMember, UnpackOK, NextTar,
                  UnpackFails, Goto, Fail, TypeOK
    <2>3. QED
      BY <2>1, <2>2 DEF DiskInv, Past
  <1>2. CASE GatherDisks(c)
    <2>1. GoldOf(c) = Whole(Source[c])
      BY <1>2 DEF GatherDisks, WholeInv, GoldInv, Past
    <2>2. Present(GoldOf(c)) \cap DiskMembers = DiskMembers
      BY <2>1, <1>s, WholeIsPresent
    <2>3. /\ todo' = [todo EXCEPT ![c] = DiskMembers] /\ UNCHANGED vmdisk
          /\ pc' = [pc EXCEPT ![c] = IF DiskMembers = {} THEN "failed" ELSE "createvm"]
      BY <1>2, <2>2 DEF GatherDisks, Goto, Fail
    <2>4. QED
      BY <2>3 DEF DiskInv, Past, TypeOK
  <1>3. CASE CreateMachine(c) \/ CreateMachineFails(c) \/ SetHDUUID(c) \/ SetHDUUIDFails(c)
             \/ LockClone(c) \/ CloneHDFails(c)
    <2>1. UNCHANGED <<todo, vmdisk>>
      BY <1>3 DEF CreateMachine, CreateMachineFails, SetHDUUID, SetHDUUIDFails, LockClone,
                  CloneHDFails
    <2>2. /\ pc[c] \in {"createvm", "sethduuid", "lockclone", "clone"}
          /\ \E step \in {"sethduuid", "lockclone", "clone", "failed"} :
               pc' = [pc EXCEPT ![c] = step]
      BY <1>3 DEF CreateMachine, CreateMachineFails, SetHDUUID, SetHDUUIDFails, LockClone,
                  CloneHDFails, Goto, Fail
    <2>3. QED
      BY <2>1, <2>2 DEF DiskInv, Past, TypeOK
  <1>4. CASE CloneHD(c)
    <2> DEFINE disk == Min(todo[c])
    <2>1. disk \in todo[c] /\ todo[c] \subseteq DiskMembers
      BY <1>4, <1>s, MinIsMember DEF CloneHD, DiskInv, TypeOK
    <2>2. GoldOf(c)[disk] = Source[c]
      BY <1>4, <1>s, <2>1 DEF CloneHD, WholeInv, GoldInv, Past, Whole
    <2>3. /\ vmdisk' = [vmdisk EXCEPT ![c] = [vmdisk[c] EXCEPT ![disk] = Source[c]]]
          /\ todo' = [todo EXCEPT ![c] = todo[c] \ {disk}]
          /\ pc' = [pc EXCEPT ![c] = IF todo[c] = {disk} THEN "built" ELSE "sethduuid"]
          /\ pc[c] = "clone"
      BY <1>4, <2>2 DEF CloneHD, Goto
    <2> HIDE DEF disk
    <2>4. disk \in Members /\ disk \in DiskMembers
      BY <1>s, <2>1
    <2>5. \A m \in Members : vmdisk'[c][m] = IF m = disk THEN Source[c] ELSE vmdisk[c][m]
      BY <2>3, <2>4 DEF TypeOK
    <2>6. todo'[c] = todo[c] \ {disk}
      BY <2>3 DEF TypeOK
    <2>7. pc'[c] = IF todo[c] = {disk} THEN "built" ELSE "sethduuid"
      BY <2>3 DEF TypeOK
    <2>8. \A d \in Creates : d # c => pc'[d] = pc[d] /\ todo'[d] = todo[d] /\ vmdisk'[d] = vmdisk[d]
      BY <2>3 DEF TypeOK
    <2>9. \A m \in Members : vmdisk'[c][m] = None \/ (m \in DiskMembers /\ vmdisk'[c][m] = Source[c])
      BY <2>4, <2>5 DEF DiskInv
    <2>10. \A m \in DiskMembers : m \in todo'[c] \/ vmdisk'[c][m] = Source[c]
      BY <1>s, <2>3, <2>5, <2>6 DEF DiskInv, Past
    <2>11. (pc'[c] = "built" <=> todo'[c] = {}) /\ pc'[c] \in {"sethduuid", "built"}
      BY <2>1, <2>6, <2>7
    <2>12. QED
      BY <2>8, <2>9, <2>10, <2>11 DEF DiskInv
  <1>5. QED
    BY <1>1, <1>2, <1>3, <1>4 DEF Create, Build

\* A VM that was built has every disk of its image and no other, if nobody else
\* downloads the image, tar does not fail and the provider is not killed;
\* downloads and VBoxManage may fail, and apply be run again.
THEOREM BuiltWhole == ASSUME Undisturbed PROVE Spec => []BuiltFromItsImage
  <1>1. Init => DiskInv
    BY DEF Init, DiskInv, Blank, Past
  <1>2. TypeOK /\ WholeInv /\ DiskInv /\ [Next]_vars => DiskInv'
    <2> SUFFICES ASSUME TypeOK, WholeInv, DiskInv, [Next]_vars PROVE DiskInv'
      OBVIOUS
    <2>1. CASE \E c \in Creates : Create(c)
      BY <2>1, DiskStep
    <2>2. CASE ApplyAgain \/ Crash
      <3>1. /\ UNCHANGED vmdisk
            /\ \A c \in Creates :
                 todo'[c] = {} /\ (pc'[c] = "idle" \/ (pc'[c] = "built" /\ pc[c] = "built"))
        BY <2>2 DEF ApplyAgain, Crash, Restart, Unfinished
      <3>2. QED
        BY <3>1 DEF DiskInv, Past
    <2>3. CASE UNCHANGED vars
      BY <2>3 DEF vars, DiskInv
    <2>4. QED
      BY <2>1, <2>2, <2>3 DEF Next, Finished
  <1>3. DiskInv => BuiltFromItsImage
    BY SizesAssumption DEF DiskInv, BuiltFromItsImage, Past
  <1>4. QED
    BY <1>1, <1>2, <1>3, TypeCorrect, WholeInvariant, PTL DEF Spec
=============================================================================
