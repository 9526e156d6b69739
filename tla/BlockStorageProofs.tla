------------------------- MODULE BlockStorageProofs -------------------------
(***************************************************************************)
(* Proofs about the block storage for every number of sessions and images  *)
(* and every size: one Linux boots at most, it runs on the images of its   *)
(* own session, base images never change, the answers to Linux are true,   *)
(* the images it gets are whole, and its state images implement durable    *)
(* disks (DurableDisk).                                                    *)
(***************************************************************************)
EXTENDS BlockStorageProperties, NumberLemmas, FiniteSetTheorems, SequenceTheorems,
        TLAPS

USE DEF vars, processVars, diskVars, BaseDevice, StateDevice, Device

(* The image of one identifier is not the state image of another.          *)
LEMMA PathsDiffer ==
  ASSUME NEW i \in RootImage, NEW j \in RootImage
  PROVE  /\ BasePath(i) \in Path /\ StatePath(j) \in Path
         /\ BasePath(i) # StatePath(j)
  BY DEF Path, BasePath, StatePath

LEMMA InitStorageInv == Init => StorageInv
<1> SUFFICES ASSUME Init PROVE RegistryInv /\ LatchInv
  BY DEF StorageInv
<1>1. Booting = {}
  BY DEF Init, Booting
<1>2. HasPaths(file) /\ HasPaths(synced)
  BY DEF Init, HasPaths
<1>3. DOMAIN req = DOMAIN NoRequest /\ req.dev = 0 /\ \A d \in Device : ~sel[d].writable
  BY DEF Init, NoRequest, NoImage
<1>4. RegistryInv
  BY <1>1 DEF Init, RegistryInv
<1>5. LatchInv
  BY <1>1, <1>2, <1>3 DEF Init, LatchInv, Step
<1> QED
  BY <1>4, <1>5

(* Root images in the registry, and the one of a boot.                     *)
LEMMA RootIsImage ==
  ASSUME StorageInv
  PROVE  /\ Registered \subseteq RootImage
         /\ \A s \in Session : pc[s] \in {"copy", "extend", "initrd", "linux"} => root \in RootImage
         /\ \A s \in Session : Lookup(s) \subseteq RootImage
<1>1. Registered \subseteq RootImage
  BY ImageAssumption DEF Registered, RegisteredBy
<1>2. \A s \in Session : pc[s] \in {"copy", "extend", "initrd", "linux"} => root \in Registered
  BY DEF StorageInv, RegistryInv, Booting
<1>3. \A s \in Session : Lookup(s) \subseteq Registered
  BY DEF StorageInv, RegistryInv, Lookup
<1> QED
  BY <1>1, <1>2, <1>3

(* The session that has the latch gives it back.                            *)
LEMMA LeavesBooting ==
  ASSUME NEW s \in Session, pc \in [Session -> Step],
         pc' = [pc EXCEPT ![s] = "idle"], \A t, u \in Booting : t = u,
         s \in Booting
  PROVE  Booting' = {}
  BY DEF Booting

LEMMA SelectionIsOwn ==
  ASSUME NEW i \in RootImage, sel' = Selection(i)
  PROVE  /\ DOMAIN sel' = Device
         /\ sel'[0].path = BasePath(i) /\ sel'[1].path = StatePath(i)
         /\ ~sel'[0].writable
  BY DEF Selection

(* The session selects, or makes, the images of the root image it has      *)
(* copied, in this step or before.                                         *)
LEMMA SelectsRoot ==
  ASSUME StorageInv, NEW s \in Session, SelectFiles(s) \/ SelectImages(s)
  PROVE  /\ root' \in RootImage /\ sel' = Selection(root')
         /\ file' = [file EXCEPT ![StatePath(root')] = Extended(@)]
         /\ \/ pc[s] = "select" /\ root' \in FileImages
            \/ pc[s] = "extend" /\ root' = root
  BY RootIsImage DEF SelectFiles, SelectImages

LEMMA MakesRoot ==
  ASSUME StorageInv, NEW s \in Session, SelectBundled(s)
  PROVE  /\ root' \in RootImage
         /\ \/ /\ HasExt4Magic(file[StatePath(root')]) /\ file' = file /\ torn' = torn
               /\ pc' = [pc EXCEPT ![s] = "extend"]
            \/ /\ ~HasExt4Magic(file[StatePath(root')])
               /\ file' = [file EXCEPT ![StatePath(root')] = Image(0)]
               /\ torn' = torn \ {StatePath(root')}
               /\ pc' = [pc EXCEPT ![s] = "copy"]
  BY RootIsImage DEF SelectBundled

-----------------------------------------------------------------------------
(* A step of a session before it has the latch, and the refusals.          *)
LEMMA StepOutside ==
  ASSUME StorageInv, NEW s \in Session,
         \/ ClearImages(s) \/ RegisterImage(s) \/ RegistrationFails(s)
         \/ AlreadyStarted(s)
  PROVE  LatchInv'
<1> USE DEF StorageInv, LatchInv, Step
<1>1. pc[s] \in {"idle", "register"} /\ s \notin Booting
  BY DEF ClearImages, RegisterImage, RegistrationFails, AlreadyStarted, Booting
<1>2. UNCHANGED <<started, root, sel, req, file, synced>>
  BY DEF ClearImages, RegisterImage, RegistrationFails, AlreadyStarted
<1>3. \/ pc' = [pc EXCEPT ![s] = "idle"] \/ pc' = [pc EXCEPT ![s] = "register"]
      \/ pc' = pc
  BY DEF ClearImages, RegisterImage, RegistrationFails, AlreadyStarted
<1>4. Booting' = Booting
  <2>1. CASE pc' = pc
    BY <2>1 DEF Booting
  <2> QED
    BY <1>1, <1>3, <2>1 DEF Booting
<1>5. HasPaths(file)' /\ HasPaths(synced)'
  BY <1>2 DEF HasPaths
<1>6. \A t \in Session : pc'[t] \in {"initrd", "linux"} => pc[t] \in {"initrd", "linux"}
  BY <1>3
<1> QED
  BY <1>1, <1>2, <1>3, <1>4, <1>5, <1>6 DEF Disks

(* The latch is taken, by a session when no other has it.                  *)
LEMMA StepTakeLatch ==
  ASSUME StorageInv, NEW s \in Session, TakeLatch(s)
  PROVE  LatchInv'
<1> USE DEF StorageInv, LatchInv, Step
<1>1. Booting' = {s}
  BY DEF TakeLatch, Booting
<1>2. HasPaths(file)' /\ HasPaths(synced)'
  BY DEF TakeLatch, HasPaths
<1> QED
  BY <1>1, <1>2 DEF TakeLatch, Disks

(* Every end of a boot that fails gives the latch back.                    *)
LEMMA StepFails ==
  ASSUME StorageInv, NEW s \in Session,
         \/ SelectNothing(s) \/ HostIsFull(s) \/ LoadFails(s)
         \/ LoadInitrd(s) /\ Lookup(s) = {}
  PROVE  LatchInv'
<1> USE DEF StorageInv, LatchInv, Step
<1>1. s \in Booting /\ InvalidConfig(s) /\ file' = file
  BY DEF SelectNothing, HostIsFull, LoadFails, LoadInitrd, Booting
<1>2. Booting' = {}
  BY <1>1, LeavesBooting DEF InvalidConfig
<1>3. sel' = sel \/ sel' = [d \in Device |-> NoImage]
  BY DEF SelectNothing, HostIsFull, LoadFails, LoadInitrd
<1>4. HasPaths(file)' /\ HasPaths(synced)'
  BY <1>1 DEF InvalidConfig, HasPaths
<1>5. \A t \in Session : pc'[t] \notin {"initrd", "linux"}
  BY <1>2 DEF Booting
<1>6. \A d \in Device : sel'[d].writable => \E i \in RootImage : sel'[d].path = StatePath(i)
  BY <1>3 DEF NoImage
<1> QED
  BY <1>1, <1>2, <1>3, <1>4, <1>5, <1>6 DEF InvalidConfig

(* The state image is copied from its template: nothing is selected yet.   *)
LEMMA StepMakes ==
  ASSUME StorageInv, NEW s \in Session,
         SelectBundled(s) \/ CopyTemplate(s) \/ TemplateCopied(s)
  PROVE  LatchInv'
<1> USE DEF StorageInv, LatchInv, Step
<1>1. s \in Booting /\ pc[s] \notin {"initrd", "linux"}
  BY DEF SelectBundled, CopyTemplate, TemplateCopied, Booting
<1>2. \A t \in Session : pc[t] \notin {"initrd", "linux"}
  BY <1>1 DEF Booting
<1>3. \/ pc' = pc \/ pc' = [pc EXCEPT ![s] = "extend"]
      \/ pc' = [pc EXCEPT ![s] = "copy"]
  BY DEF SelectBundled, CopyTemplate, TemplateCopied
<1>4. Booting' = Booting
  BY <1>1, <1>3 DEF Booting
<1>5. \A t \in Session : pc'[t] \notin {"initrd", "linux"}
  BY <1>2, <1>3
<1>6. \/ file' = file
      \/ \E image : file' = [file EXCEPT ![StatePath(root')] = image] /\ root' \in RootImage
  BY RootIsImage DEF SelectBundled, CopyTemplate, TemplateCopied
<1>7. HasPaths(file)' /\ \A j \in RootImage : file'[BasePath(j)] = file[BasePath(j)]
  <2>1. CASE file' = file
    BY <2>1 DEF HasPaths
  <2>2. ASSUME NEW image, file' = [file EXCEPT ![StatePath(root')] = image], root' \in RootImage
        PROVE  HasPaths(file') /\ \A j \in RootImage : file'[BasePath(j)] = file[BasePath(j)]
    BY <2>2, PathsDiffer, ImageAssumption DEF HasPaths
  <2> QED
    BY <1>6, <2>1, <2>2 DEF HasPaths
<1>8. HasPaths(synced)' /\ UNCHANGED <<synced, started, req>>
  BY DEF SelectBundled, CopyTemplate, TemplateCopied, HasPaths
<1>9. sel' = sel \/ sel' = [d \in Device |-> NoImage]
  BY DEF SelectBundled, CopyTemplate, TemplateCopied
<1>10. \A d \in Device : sel'[d].writable => \E i \in RootImage : sel'[d].path = StatePath(i)
  BY <1>9 DEF NoImage
<1> QED
  BY <1>3, <1>4, <1>5, <1>7, <1>8, <1>9, <1>10

(* A session selects its images: those of the identifier it wants.         *)
LEMMA StepSelects ==
  ASSUME StorageInv, NEW s \in Session, SelectFiles(s) \/ SelectImages(s)
  PROVE  LatchInv'
<1> USE DEF StorageInv, LatchInv, Step
<1>1. s \in Booting /\ pc' = [pc EXCEPT ![s] = "initrd"]
  BY DEF SelectFiles, SelectImages, Booting
<1>2. Booting' = Booting
  BY <1>1 DEF Booting
<1>3. \A t \in Session : pc'[t] \in {"initrd", "linux"} => t = s
  BY <1>1, <1>2 DEF Booting
<1>4. /\ root' \in RootImage
      /\ sel' = Selection(root') /\ UNCHANGED <<started, req, synced>>
      /\ file' = [file EXCEPT ![StatePath(root')] = Extended(@)]
  BY SelectsRoot DEF SelectFiles, SelectImages
<1>5. /\ HasPaths(file') /\ HasPaths(synced')
      /\ \A j \in RootImage : file'[BasePath(j)] = file[BasePath(j)]
  BY <1>4, PathsDiffer, ImageAssumption DEF HasPaths
<1>6. /\ DOMAIN sel' = Device
      /\ sel'[0].path = BasePath(root') /\ sel'[1].path = StatePath(root')
      /\ ~sel'[0].writable
  BY <1>4, SelectionIsOwn
<1>7. Disks(root)'
  BY <1>6 DEF Disks
<1> QED
  BY <1>1, <1>2, <1>3, <1>4, <1>5, <1>6, <1>7

LEMMA StepEnters ==
  ASSUME StorageInv, NEW s \in Session, LoadInitrd(s), Lookup(s) # {}
  PROVE  LatchInv'
<1> USE DEF StorageInv, LatchInv, Step
<1>1. pc[s] = "initrd" /\ pc' = [pc EXCEPT ![s] = "linux"]
  BY DEF LoadInitrd, EnterLinux
<1>2. Booting' = Booting
  BY <1>1 DEF Booting
<1>3. UNCHANGED <<started, root, req, sel, file, synced>>
  BY DEF LoadInitrd, EnterLinux
<1>4. HasPaths(file)' /\ HasPaths(synced)'
  BY <1>3 DEF HasPaths
<1> QED
  BY <1>1, <1>2, <1>3, <1>4 DEF Disks

-----------------------------------------------------------------------------
(* The requests of Linux.  What is written is a state image.               *)
LEMMA StepSubmits ==
  ASSUME StorageInv, NEW type, NEW d \in Device, NEW sector, NEW n, NEW v,
         SubmitRequest(type, d, sector, n, v)
  PROVE  LatchInv'
<1> USE DEF StorageInv, LatchInv
<1>1. DOMAIN req' = DOMAIN NoRequest /\ req'.dev \in Device
  BY DEF SubmitRequest, NoRequest
<1>2. UNCHANGED <<pc, started, root, sel, file, synced>>
  BY DEF SubmitRequest
<1>3. Booting' = Booting /\ HasPaths(file)' /\ HasPaths(synced)'
  BY <1>2 DEF Booting, HasPaths
<1> QED
  BY <1>1, <1>2, <1>3 DEF Disks

LEMMA WritesStateImage ==
  ASSUME StorageInv, WriteBuffer
  PROVE  \E i \in RootImage : \E image : file' = [file EXCEPT ![StatePath(i)] = image]
  BY DEF StorageInv, LatchInv, WriteBuffer, MayWrite, BlockWrite

LEMMA BaseIsKept ==
  ASSUME StorageInv, NEW i \in RootImage, NEW image,
         file' = [file EXCEPT ![StatePath(i)] = image]
  PROVE  HasPaths(file') /\ \A j \in RootImage : file'[BasePath(j)] = file[BasePath(j)]
  BY PathsDiffer DEF StorageInv, LatchInv, HasPaths

LEMMA StepServes ==
  ASSUME StorageInv, ReadBuffer \/ WriteBuffer
  PROVE  LatchInv'
<1> USE DEF StorageInv, LatchInv
<1>1. DOMAIN req' = DOMAIN NoRequest /\ req'.dev \in Device
  BY DEF ReadBuffer, WriteBuffer, NoRequest
<1>2. UNCHANGED <<pc, started, root, sel, synced>>
  BY DEF ReadBuffer, WriteBuffer
<1>3. Booting' = Booting /\ HasPaths(synced)'
  BY <1>2 DEF Booting, HasPaths
<1>4. HasPaths(file') /\ \A j \in RootImage : file'[BasePath(j)] = file[BasePath(j)]
  <2>1. CASE ReadBuffer
    BY <2>1 DEF ReadBuffer
  <2>2. CASE WriteBuffer
    BY <2>2, WritesStateImage, BaseIsKept
  <2> QED
    BY <2>1, <2>2
<1> QED
  BY <1>1, <1>2, <1>3, <1>4 DEF Disks

LEMMA StepAnswers ==
  ASSUME StorageInv, BufferFails \/ Succeeds \/ Flush
  PROVE  LatchInv'
<1> USE DEF StorageInv, LatchInv
<1>1. req' = NoRequest /\ UNCHANGED <<pc, started, sel, file>>
  BY DEF BufferFails, Succeeds, Flush, Answered
<1>2. DOMAIN req' = DOMAIN NoRequest /\ req'.dev \in Device
  BY <1>1 DEF NoRequest
<1>3. synced' = synced /\ UNCHANGED root
  BY DEF BufferFails, Succeeds, Flush, Answered
<1>4. Booting' = Booting /\ HasPaths(file)' /\ HasPaths(synced)' /\ (Disks(root) <=> Disks(root)')
  BY <1>1, <1>3 DEF Booting, HasPaths, Disks
<1> QED
  BY <1>1, <1>2, <1>3, <1>4 DEF Disks

(* What is written back of a base image is what is there already.          *)
LEMMA StepWriteBack ==
  ASSUME StorageInv, NEW p \in Path, NEW sector, WriteBack(p, sector)
  PROVE  LatchInv'
<1> USE DEF StorageInv, LatchInv
<1>1. UNCHANGED <<pc, started, root, sel, req, file>>
  BY DEF WriteBack
<1>2. HasPaths(synced')
  BY DEF WriteBack, HasPaths
<1>3. \A i \in RootImage : p # BasePath(i)
  BY DEF WriteBack
<1>4. \A j \in RootImage : file[BasePath(j)] = synced'[BasePath(j)]
  BY <1>3, PathsDiffer DEF WriteBack, HasPaths
<1>5. Booting' = Booting /\ HasPaths(file)'
  BY <1>1 DEF Booting, HasPaths
<1> QED
  BY <1>1, <1>2, <1>4, <1>5 DEF Disks

(* After a kill or a loss of power no session is booting.                  *)
LEMMA StepEnds ==
  ASSUME StorageInv, Kill \/ LosePower
  PROVE  LatchInv' /\ \A j \in RootImage : file'[BasePath(j)] = file[BasePath(j)]
<1> USE DEF StorageInv, LatchInv
<1>1. ProcessEnds /\ synced' = synced /\ (file' = file \/ file' = synced)
  BY DEF Kill, LosePower
<1>2. Booting' = {} /\ pc' \in [Session -> Step]
  BY <1>1 DEF ProcessEnds, Booting, Step
<1>3. HasPaths(file') /\ HasPaths(synced')
  BY <1>1 DEF HasPaths
<1>4. \A j \in RootImage : /\ file'[BasePath(j)] = file[BasePath(j)]
                    /\ file'[BasePath(j)] = synced'[BasePath(j)]
  BY <1>1
<1>5. DOMAIN req' = DOMAIN NoRequest /\ req'.dev \in Device
  BY <1>1 DEF ProcessEnds, NoRequest
<1>6. DOMAIN sel' = Device /\ \A d \in Device : ~sel'[d].writable
  BY <1>1 DEF ProcessEnds, NoImage
<1> QED
  BY <1>1, <1>2, <1>3, <1>4, <1>5, <1>6 DEF ProcessEnds, Booting

-----------------------------------------------------------------------------
LEMMA StepStutters == StorageInv /\ UNCHANGED vars => LatchInv'
<1> SUFFICES ASSUME StorageInv, UNCHANGED vars PROVE LatchInv'
  OBVIOUS
<1>1. Booting' = Booting /\ HasPaths(file)' /\ HasPaths(synced)'
  BY DEF Booting, HasPaths, StorageInv, LatchInv
<1> QED
  BY <1>1 DEF StorageInv, LatchInv, Disks

-----------------------------------------------------------------------------
(* The registry holds what sessions registered.                            *)
LEMMA RegistrySame ==
  ASSUME StorageInv, UNCHANGED <<images, todo, root>>, pc' \in [Session -> Step],
         \A s \in Session :
           \/ pc'[s] = pc[s] \/ pc'[s] \in {"idle", "register", "select"}
           \/ pc[s] \in {"copy", "extend", "initrd", "linux"}
  PROVE  RegistryInv'
<1>1. \A s \in Booting' : pc'[s] # "select" => s \in Booting /\ pc[s] # "select"
  BY DEF Booting, StorageInv, LatchInv, Step
<1> QED
  BY <1>1 DEF StorageInv, RegistryInv

(* The boot ends, or has not begun.                                        *)
LEMMA RegistryIdle ==
  ASSUME StorageInv, NEW s \in Session, UNCHANGED <<images, todo>>,
         s \in Booting, pc' = [pc EXCEPT ![s] = "idle"]
  PROVE  RegistryInv'
<1>1. Booting' = {}
  BY LeavesBooting DEF StorageInv, LatchInv
<1> QED
  BY <1>1 DEF StorageInv, RegistryInv

LEMMA RegistryOutside ==
  ASSUME StorageInv, NEW s \in Session,
         ClearImages(s) \/ RegisterImage(s) \/ RegistrationFails(s)
  PROVE  RegistryInv'
<1>1. /\ pc[s] \in {"idle", "register"} /\ UNCHANGED root
      /\ \A t \in Session : pc'[t] = pc[t] \/ (t = s /\ pc'[t] \in {"idle", "register"})
  BY DEF ClearImages, RegisterImage, RegistrationFails, StorageInv, LatchInv
<1>2. \A t \in Booting' : pc'[t] # "select" => root' \in Registered /\ Name[root'] = Wants[t]
  BY <1>1 DEF Booting, StorageInv, RegistryInv
<1>3. Registers[s] \in Seq(RootImage) /\ <<>> \in Seq(RootImage) /\ todo[s] \in Seq(RootImage)
  BY ImageAssumption DEF StorageInv, RegistryInv
<1>4. /\ todo' \in [Session -> Seq(RootImage)]
      /\ \A t \in Session : \A k \in DOMAIN todo'[t] : todo'[t][k] \in RegisteredBy(t)
  <2>1. CASE ClearImages(s)
    <3>1. todo' = [todo EXCEPT ![s] = Registers[s]]
      BY <2>1 DEF ClearImages
    <3> QED
      BY <1>3, <3>1 DEF StorageInv, RegistryInv, RegisteredBy
  <2>2. CASE RegisterImage(s)
    <3>1. todo[s] # <<>> /\ todo' = [todo EXCEPT ![s] = Tail(todo[s])]
      BY <2>2 DEF RegisterImage
    <3>2. /\ Tail(todo[s]) \in Seq(RootImage)
          /\ \A k \in DOMAIN Tail(todo[s]) : /\ k + 1 \in DOMAIN todo[s]
                                             /\ Tail(todo[s])[k] = todo[s][k + 1]
      BY <1>3, <3>1
    <3> QED
      BY <3>1, <3>2 DEF StorageInv, RegistryInv
  <2>3. CASE RegistrationFails(s)
    <3>1. todo' = [todo EXCEPT ![s] = <<>>]
      BY <2>3 DEF RegistrationFails
    <3> QED
      BY <1>3, <3>1 DEF StorageInv, RegistryInv
  <2> QED
    BY <2>1, <2>2, <2>3
<1>5. images' \subseteq Registered
  <2>1. CASE RegisterImage(s)
    <3>1. 1 \in DOMAIN todo[s] /\ Head(todo[s]) = todo[s][1]
      BY <1>3, <2>1 DEF RegisterImage
    <3>2. Head(todo[s]) \in Registered
      BY <3>1 DEF StorageInv, RegistryInv, Registered
    <3> QED
      BY <2>1, <3>2 DEF RegisterImage, StorageInv, RegistryInv
  <2> QED
    BY <2>1 DEF ClearImages, RegistrationFails
<1> QED
  BY <1>2, <1>4, <1>5 DEF RegistryInv

LEMMA StepRegistry ==
  ASSUME StorageInv, [Next]_vars
  PROVE  RegistryInv'
<1> USE DEF Step
<1>1. pc \in [Session -> Step]
  BY DEF StorageInv, LatchInv
<1>2. ASSUME NEW s \in Session, Boot(s) PROVE RegistryInv'
  <2>1. CASE ClearImages(s) \/ RegisterImage(s) \/ RegistrationFails(s)
    BY <2>1, RegistryOutside
  <2>2. CASE TakeLatch(s) \/ AlreadyStarted(s)
    BY <1>1, <2>2, RegistrySame DEF TakeLatch, AlreadyStarted
  <2>3. CASE \/ SelectNothing(s) \/ HostIsFull(s) \/ LoadFails(s)
             \/ LoadInitrd(s) /\ Lookup(s) = {}
    <3>1. s \in Booting /\ InvalidConfig(s)
      BY <2>3 DEF SelectNothing, HostIsFull, LoadFails, LoadInitrd, Booting
    <3> QED
      BY <3>1, RegistryIdle DEF InvalidConfig
  <2>4. CASE SelectFiles(s) \/ SelectBundled(s)
    <3>1. /\ pc[s] = "select" /\ UNCHANGED <<images, todo>>
          /\ \E step \in {"initrd", "extend", "copy"} : pc' = [pc EXCEPT ![s] = step]
      BY <2>4 DEF SelectFiles, SelectBundled
    <3>2. PICK r \in Lookup(s) : root' = r
      BY <2>4 DEF SelectFiles, SelectBundled
    <3>3. root' \in Registered /\ Name[root'] = Wants[s]
      BY <3>2 DEF Lookup, StorageInv, RegistryInv
    <3>4. \A t \in Booting' : t = s
      BY <1>1, <3>1 DEF Booting, StorageInv, LatchInv
    <3> QED
      BY <3>1, <3>3, <3>4 DEF StorageInv, RegistryInv
  <2>5. CASE CopyTemplate(s)
    BY <1>1, <2>5, RegistrySame DEF CopyTemplate
  <2>6. CASE TemplateCopied(s)
    BY <1>1, <2>6, RegistrySame DEF TemplateCopied
  <2>7. CASE SelectImages(s)
    BY <1>1, <2>7, RegistrySame DEF SelectImages
  <2>8. CASE LoadInitrd(s) /\ Lookup(s) # {}
    BY <1>1, <2>8, RegistrySame DEF LoadInitrd, EnterLinux
  <2> QED
    BY <1>2, <2>1, <2>2, <2>3, <2>4, <2>5, <2>6, <2>7, <2>8 DEF Boot
<1>3. CASE Kill \/ LosePower
  <2>1. ProcessEnds
    BY <1>3 DEF Kill, LosePower
  <2>2. Booting' = {} /\ images' = {} /\ todo' = [s \in Session |-> <<>>]
    BY <2>1 DEF ProcessEnds, Booting
  <2> QED
    BY <2>2 DEF RegistryInv
<1>4. CASE UNCHANGED <<images, todo, root, pc>>
  BY <1>1, <1>4, RegistrySame
<1>5. CASE ReadBuffer \/ WriteBuffer \/ BufferFails \/ Succeeds \/ Flush
  BY <1>4, <1>5 DEF ReadBuffer, WriteBuffer, BufferFails, Succeeds, Flush, Answered
<1>6. ASSUME NEW p \in Path, NEW sector, WriteBack(p, sector) PROVE RegistryInv'
  BY <1>4, <1>6 DEF WriteBack
<1>7. ASSUME NEW type, NEW d \in Device, NEW sector, NEW n, NEW v,
             SubmitRequest(type, d, sector, n, v)
      PROVE RegistryInv'
  BY <1>4, <1>7 DEF SubmitRequest
<1>8. CASE UNCHANGED vars
  BY <1>4, <1>8
<1> QED
  BY <1>2, <1>3, <1>5, <1>6, <1>7, <1>8 DEF Next

LEMMA StepStorageInv == StorageInv /\ [Next]_vars => StorageInv'
<1> SUFFICES ASSUME StorageInv, [Next]_vars PROVE LatchInv'
  BY StepRegistry DEF StorageInv
<1>1. ASSUME NEW s \in Session, Boot(s) PROVE LatchInv'
  <2>1. CASE ClearImages(s) \/ RegisterImage(s) \/ RegistrationFails(s) \/ AlreadyStarted(s)
    BY <2>1, StepOutside
  <2>2. CASE TakeLatch(s)
    BY <2>2, StepTakeLatch
  <2>3. CASE \/ SelectNothing(s) \/ HostIsFull(s) \/ LoadFails(s)
             \/ LoadInitrd(s) /\ Lookup(s) = {}
    BY <2>3, StepFails
  <2>4. CASE SelectBundled(s) \/ CopyTemplate(s) \/ TemplateCopied(s)
    BY <2>4, StepMakes
  <2>5. CASE SelectFiles(s) \/ SelectImages(s)
    BY <2>5, StepSelects
  <2>6. CASE LoadInitrd(s) /\ Lookup(s) # {}
    BY <2>6, StepEnters
  <2> QED
    BY <1>1, <2>1, <2>2, <2>3, <2>4, <2>5, <2>6 DEF Boot
<1>2. CASE Kill \/ LosePower
  BY <1>2, StepEnds
<1>3. CASE ReadBuffer \/ WriteBuffer
  BY <1>3, StepServes
<1>4. CASE BufferFails \/ Succeeds \/ Flush
  BY <1>4, StepAnswers
<1>5. ASSUME NEW p \in Path, NEW sector, WriteBack(p, sector) PROVE LatchInv'
  BY <1>5, StepWriteBack
<1>6. ASSUME NEW type, NEW d \in Device, NEW sector, NEW n, NEW v,
             SubmitRequest(type, d, sector, n, v)
      PROVE LatchInv'
  BY <1>6, StepSubmits
<1>7. CASE UNCHANGED vars
  BY <1>7, StepStutters
<1> QED
  BY <1>1, <1>2, <1>3, <1>4, <1>5, <1>6, <1>7 DEF Next

(* The invariant of every boot and every request, kill and loss of power.  *)
THEOREM StorageInvariant == Spec => []StorageInv
<1> QED
  BY InitStorageInv, StepStorageInv, PTL DEF Spec

-----------------------------------------------------------------------------
(* OrlixBoot starts one Linux at most, and the latch is free after every   *)
(* attempt that fails.                                                     *)
LEMMA LatchCounts == StorageInv => OneBoot
<1> SUFFICES ASSUME StorageInv PROVE OneBoot
  OBVIOUS
<1>1. CASE Booting = {}
  BY <1>1, FS_EmptySet DEF StorageInv, LatchInv, OneBoot
<1>2. ASSUME NEW s \in Booting PROVE OneBoot
  <2>1. Booting = {s}
    BY DEF StorageInv, LatchInv
  <2>2. Cardinality({s}) = 1
    BY FS_Singleton
  <2> QED
    BY <2>1, <2>2 DEF StorageInv, LatchInv, OneBoot
<1> QED
  BY <1>1, <1>2

THEOREM OneLinux == Spec => []OneBoot
<1> QED
  BY StorageInvariant, LatchCounts, PTL

(* Linux runs on the images that its own session named, whatever other     *)
(* sessions do to the registry.                                            *)
THEOREM LinuxRunsOnItsImages == Spec => []RunsOnItsImages
<1>1. StorageInv => RunsOnItsImages
  <2> SUFFICES ASSUME StorageInv, NEW s \in Session, pc[s] = "linux"
               PROVE  \E t \in Session : \E r \in RegisteredBy(t) :
                        /\ Name[r] = Wants[s] /\ Disks(r)
                        /\ NameIsOwn(s) => t = s
    BY DEF RunsOnItsImages
  <2>1. root \in Registered /\ Name[root] = Wants[s] /\ Disks(root)
    BY DEF StorageInv, RegistryInv, LatchInv, Booting
  <2>2. PICK t \in Session : root \in RegisteredBy(t)
    BY <2>1 DEF Registered
  <2>3. NameIsOwn(s) => t = s
    BY <2>1, <2>2 DEF NameIsOwn
  <2> QED
    BY <2>1, <2>2, <2>3
<1> QED
  BY StorageInvariant, <1>1, PTL

(* Base images are never written.                                          *)
LEMMA BaseStep ==
  StorageInv /\ [Next]_vars => \A j \in RootImage : file'[BasePath(j)] = file[BasePath(j)]
<1> SUFFICES ASSUME StorageInv, [Next]_vars
             PROVE  \A j \in RootImage : file'[BasePath(j)] = file[BasePath(j)]
  OBVIOUS
<1> DEFINE Kept == \A j \in RootImage : file'[BasePath(j)] = file[BasePath(j)]
<1>1. ASSUME NEW i \in RootImage, NEW image, file' = [file EXCEPT ![StatePath(i)] = image]
      PROVE  Kept
  BY <1>1, BaseIsKept
<1>2. ASSUME NEW s \in Session, Boot(s) PROVE Kept
  <2>1. CASE SelectBundled(s)
    BY <1>1, <2>1, MakesRoot
  <2>2. CASE SelectFiles(s) \/ SelectImages(s)
    BY <1>1, <2>2, SelectsRoot
  <2>3. CASE CopyTemplate(s)
    <3>1. root \in RootImage
      BY <2>3, RootIsImage DEF CopyTemplate
    <3>2. \E image : file' = [file EXCEPT ![StatePath(root)] = image]
      BY <2>3 DEF CopyTemplate
    <3> QED
      BY <1>1, <3>1, <3>2
  <2> QED
    BY <1>2, <2>1, <2>2, <2>3
       DEF Boot, InvalidConfig, ClearImages, RegisterImage, RegistrationFails, TakeLatch, AlreadyStarted,
           SelectNothing, TemplateCopied, HostIsFull, LoadInitrd, EnterLinux, LoadFails
<1>3. CASE WriteBuffer
  BY <1>1, <1>3, WritesStateImage
<1>4. CASE Kill \/ LosePower
  BY <1>4, StepEnds
<1>5. CASE ReadBuffer \/ BufferFails \/ Succeeds \/ Flush
  BY <1>5 DEF ReadBuffer, BufferFails, Succeeds, Flush, Answered
<1>6. ASSUME NEW p \in Path, NEW sector, WriteBack(p, sector) PROVE Kept
  BY <1>6 DEF WriteBack
<1>7. ASSUME NEW type, NEW d \in Device, NEW sector, NEW n, NEW v,
             SubmitRequest(type, d, sector, n, v)
      PROVE Kept
  BY <1>7 DEF SubmitRequest
<1> QED
  BY <1>2, <1>3, <1>4, <1>5, <1>6, <1>7 DEF Next

THEOREM BaseImagesAreNeverWritten == Spec => BaseImagesUntouched
<1>1. StorageInv /\ [Next]_vars => [BaseImagesKept]_vars
  BY BaseStep DEF BaseImagesKept
<1> QED
  BY StorageInvariant, <1>1, PTL DEF Spec, BaseImagesUntouched

-----------------------------------------------------------------------------
(* Lengths of images.                                                      *)
LEMMA Sizes ==
  /\ Units \in Nat \ {0} /\ SectorUnits \in Nat \ {0} /\ Unit = 0..Units - 1
  /\ MinimumUnits \in 1..Units /\ MaxBuffers \in Nat
  /\ \A i \in RootImage : BaseUnits[i] \in 1..Units /\ TemplateUnits[i] \in 1..Units
BY SizeAssumption DEF Unit

LEMMA Multiple ==
  ASSUME NEW n \in Nat \ {0}, NEW q \in Int
  PROVE  (q * n) % n = 0 /\ q * n = n * q
<1>1. (n * q + 0) % n = 0
  BY RemainderIsUnique
<1>2. n * q + 0 = q * n /\ q * n = n * q
  OBVIOUS
<1> QED
  BY <1>1, <1>2

LEMMA MultipleBelow ==
  ASSUME NEW n \in Nat \ {0}, NEW q \in Int, NEW k \in Int, n * q < n * (k + 1)
  PROVE  n * q <= n * k
<1>1. q <= k
  OBVIOUS
<1> QED
  BY <1>1

LEMMA RoundUpIs ==
  ASSUME NEW n \in 0..Units
  PROVE  RoundUp(n) \in n..Units /\ RoundUp(n) % SectorUnits = 0
<1>1. PICK z \in Nat \ {0}, k \in Int : z = SectorUnits /\ Units = z * k
  <2>1. Units = SectorUnits * (Units \div SectorUnits) + (Units % SectorUnits)
        /\ Units \div SectorUnits \in Int
    BY Sizes, DivisionWithRemainder
  <2>2. SectorUnits \in Nat \ {0} /\ Units % SectorUnits = 0
    BY SizeAssumption
  <2>3. PICK k \in Int : k = Units \div SectorUnits
    BY <2>1
  <2>4. Units = SectorUnits * k
    BY <2>1, <2>2, <2>3
  <2> QED BY <2>2, <2>4, Zenon
<1>2. PICK a \in Int : a = n + z - 1
  OBVIOUS
<1>3. PICK q \in Int, r \in 0..z - 1 : q = a \div z /\ r = a % z /\ a = z * q + r
  BY Division
<1>4. PICK m \in Int : m = z * q
  OBVIOUS
<1>5. n <= m /\ m <= n + z - 1
  BY <1>2, <1>3, <1>4
<1>6. PICK l \in Int : l = z * k /\ z * (k + 1) = l + z
  OBVIOUS
<1>7. m < z * (k + 1)
  BY <1>1, <1>5, <1>6
<1>8. m <= Units
  BY <1>1, <1>4, <1>7, MultipleBelow
<1>9. RoundUp(n) = q * z
  BY <1>1, <1>2, <1>3 DEF RoundUp
<1>10. RoundUp(n) = m /\ (q * z) % z = 0
  BY <1>4, <1>9, Multiple
<1> QED
  BY <1>1, <1>5, <1>8, <1>9, <1>10, Sizes

-----------------------------------------------------------------------------
(* The contents of files.                                                  *)
LEMMA ContentsDiffer ==
  /\ "zero" \notin Value /\ "absent" \notin Value /\ "image" \notin Value
  /\ Value \subseteq Content /\ {"zero", "image", "absent"} \subseteq Content
BY ImageAssumption DEF Content

LEMMA FileUnitsIs ==
  ASSUME NEW f \in File
  PROVE  /\ FileUnits(f) \in 0..Units
         /\ \A u \in Unit : u >= FileUnits(f) => f[u] = "absent"
         /\ FileUnits(f) # 0 => f[FileUnits(f) - 1] # "absent"
<1>1. CASE \A u \in Unit : f[u] = "absent"
  BY <1>1, Sizes DEF FileUnits
<1>2. CASE \E u \in Unit : f[u] # "absent"
  <2> DEFINE Ends == {n \in 0..Units : \A u \in Unit : u >= n => f[u] = "absent"}
  <2>1. Units \in Ends
    BY Sizes
  <2>2. PICK n \in Ends : \A m \in Ends : n <= m
    <3>1. Ends \in SUBSET Nat /\ Ends # {}
      BY <2>1, Sizes
    <3> HIDE DEF Ends
    <3> QED BY <3>1, LeastNat
  <2>3. n # 0
    BY <1>2, <2>2, Sizes
  <2>4. n - 1 \in Unit /\ f[n - 1] # "absent"
    <3>1. n - 1 \in Unit /\ n - 1 \in 0..Units /\ n - 1 \notin Ends
      BY <2>2, <2>3, Sizes
    <3>2. PICK u \in Unit : u >= n - 1 /\ f[u] # "absent"
      BY <3>1
    <3>3. u = n - 1
      BY <2>2, <3>2, Sizes
    <3> QED BY <3>1, <3>2, <3>3
  <2>5. \A w \in Unit : w > n - 1 => f[w] = "absent"
    BY <2>2, Sizes
  <2> DEFINE IsLast(u) == f[u] # "absent" /\ \A w \in Unit : w > u => f[w] = "absent"
  <2>6. PICK l : l = CHOOSE u \in Unit : IsLast(u)
    OBVIOUS
  <2>7. l \in Unit /\ IsLast(l)
    <3>1. \E u \in Unit : IsLast(u)
      BY <2>4, <2>5
    <3> HIDE DEF IsLast
    <3> QED BY <2>6, <3>1
  <2>8. l = n - 1
    BY <2>4, <2>5, <2>7, Sizes
  <2>9. FileUnits(f) = 1 + l
    BY <1>2, <2>6 DEF FileUnits
  <2>10. FileUnits(f) = n
    BY <2>8, <2>9, Sizes
  <2> QED BY <2>2, <2>4, <2>10
<1> QED
  BY <1>1, <1>2

LEMMA ImageIs ==
  ASSUME NEW n \in 0..Units
  PROVE  /\ Image(n) \in File /\ FileUnits(Image(n)) = n
         /\ \A u \in Unit : View(Image(n), u) # "zero" <=> u < n
<1>1. Image(n) \in File
  BY ContentsDiffer DEF Image, File
<1>2. PICK f \in File : f = Image(n) /\ \A u \in Unit : f[u] = IF u < n THEN "image" ELSE "absent"
  BY <1>1 DEF Image
<1>3. FileUnits(f) = n
  <2>1. PICK m \in 0..Units : m = FileUnits(f)
    BY FileUnitsIs
  <2>2. /\ \A u \in Unit : u >= m => f[u] = "absent"
        /\ m # 0 => f[m - 1] # "absent"
    BY <2>1, FileUnitsIs
  <2>3. ~(m < n)
    <3>1. m < n => m \in Unit
      BY Sizes
    <3> QED BY <1>2, <2>2, <3>1
  <2>4. ~(n < m)
    <3>1. n < m => m - 1 \in Unit /\ ~(m - 1 < n)
      BY Sizes
    <3> QED BY <1>2, <2>2, <3>1
  <2> QED BY <2>1, <2>3, <2>4
<1> QED
  BY <1>2, <1>3 DEF View

LEMMA ImageUnitsIs ==
  ASSUME NEW f \in File
  PROVE  /\ ImageUnits(f) \in 0..Units /\ ImageUnits(f) >= FileUnits(f)
         /\ ImageUnits(f) % SectorUnits = 0
<1>1. PICK n \in 0..Units : n = FileUnits(f)
  BY FileUnitsIs
<1>2. PICK m \in 0..Units : m = IF n < MinimumUnits THEN MinimumUnits ELSE n
  BY Sizes
<1>3. RoundUp(m) \in m..Units /\ RoundUp(m) % SectorUnits = 0
  BY RoundUpIs
<1>4. ImageUnits(f) = RoundUp(m)
  BY <1>1, <1>2 DEF ImageUnits
<1> QED
  BY <1>1, <1>2, <1>3, <1>4, Sizes

LEMMA ExtendedIs ==
  ASSUME NEW f \in File
  PROVE  /\ Extended(f) \in File
         /\ \A u \in Unit : View(Extended(f), u) = View(f, u)
         /\ \A u \in Unit : u >= ImageUnits(f) => View(f, u) = "zero"
<1>1. \A u \in Unit : f[u] \in Content /\ View(f, u) \in Content
  BY ContentsDiffer DEF File, View
<1>2. PICK g : g = Extended(f)
  OBVIOUS
<1>3. g \in File /\ \A u \in Unit : g[u] = IF u < ImageUnits(f) THEN View(f, u) ELSE f[u]
  BY <1>1, <1>2 DEF Extended, File
<1>4. \A u \in Unit : View(g, u) = View(f, u)
  BY <1>3 DEF View
<1>5. \A u \in Unit : u >= ImageUnits(f) => View(f, u) = "zero"
  BY FileUnitsIs, ImageUnitsIs, Sizes DEF View
<1> QED
  BY <1>2, <1>3, <1>4, <1>5

-----------------------------------------------------------------------------
(* Type correctness.  The steps of each variable.                          *)
LEMMA InitTypeInv == Init => TypeInv
<1> SUFFICES ASSUME Init PROVE TypeInv
  OBVIOUS
<1>1. /\ images \in SUBSET RootImage /\ Cardinality(images) <= MaxRootImages /\ IsFiniteSet(images)
      /\ \A r, q \in images : Name[r] = Name[q] => r = q
      /\ root \in RootImage \cup {NoRoot}
  BY FS_EmptySet, ImageAssumption DEF Init
<1>2. pc \in [Session -> Step] /\ todo \in [Session -> Seq(RootImage)] /\ started \in BOOLEAN
  BY EmptySeq DEF Init, Step
<1>3. sel \in [Device -> [path : Path \cup {<<>>}, bytes : 0..Units, writable : BOOLEAN]]
  BY Sizes DEF Init, NoImage
<1>4. \A n \in 0..Units : Image(n) \in File
  BY ImageIs
<1>5. file \in [Path -> File] /\ synced \in [Path -> File] /\ torn \in SUBSET Path
  BY <1>4 DEF Init
<1>6. /\ req.type \in RequestType /\ req.dev \in Device
      /\ req.sector \in Nat /\ req.count \in 0..MaxBuffers /\ req.done \in 0..req.count
      /\ req.value = "zero" /\ req.type # "out"
  BY Sizes DEF Init, NoRequest, RequestType
<1> QED
  BY <1>1, <1>2, <1>3, <1>5, <1>6 DEF TypeInv, TypeOK

(* The registry, which has room for the image that is put into it.         *)
LEMMA RegistryTypes ==
  ASSUME TypeInv, [Next]_vars
  PROVE  /\ images' \in SUBSET RootImage /\ IsFiniteSet(images')
         /\ Cardinality(images') <= MaxRootImages
         /\ \A r, q \in images' : Name[r] = Name[q] => r = q
         /\ todo' \in [Session -> Seq(RootImage)]
<1> DEFINE Typed == /\ images' \in SUBSET RootImage /\ IsFiniteSet(images')
                    /\ Cardinality(images') <= MaxRootImages
                    /\ \A r, q \in images' : Name[r] = Name[q] => r = q
                    /\ todo' \in [Session -> Seq(RootImage)]
<1> SUFFICES Typed
  OBVIOUS
<1>2. UNCHANGED <<images, todo>> => Typed
  BY DEF TypeInv, TypeOK
<1>3. images' = {} /\ todo' \in [Session -> Seq(RootImage)] => Typed
  BY FS_EmptySet, ImageAssumption
<1>1. <<>> \in Seq(RootImage) /\ todo \in [Session -> Seq(RootImage)] /\ Registers \in [Session -> Seq(RootImage)]
  BY EmptySeq, ImageAssumption DEF TypeInv, TypeOK
<1>4. ASSUME NEW s \in Session, RegisterImage(s) PROVE Typed
  <2> DEFINE i == Head(todo[s])
  <2>1. i \in RootImage /\ Tail(todo[s]) \in Seq(RootImage)
    BY <1>4, HeadTailProperties DEF RegisterImage, TypeInv, TypeOK
  <2>2. /\ images \in SUBSET RootImage /\ IsFiniteSet(images) /\ Cardinality(images) <= MaxRootImages
        /\ todo \in [Session -> Seq(RootImage)]
    BY DEF TypeInv, TypeOK
  <2> DEFINE rest == images \ SameName(i)
  <2>3. /\ images' = rest \cup {i} /\ todo' = [todo EXCEPT ![s] = Tail(@)]
        /\ SameName(i) # {} \/ Cardinality(images) < MaxRootImages
        /\ IsFiniteSet(rest) /\ Cardinality(rest) <= Cardinality(images)
        /\ Cardinality(rest) \in Nat /\ Cardinality(images) \in Nat
        /\ rest = images \/ Cardinality(rest) < Cardinality(images)
    <3>1. rest \subseteq images
      OBVIOUS
    <3>2. IsFiniteSet(rest) /\ Cardinality(rest) <= Cardinality(images)
      BY <2>2, <3>1, FS_Subset
    <3>3. rest = images \/ Cardinality(rest) < Cardinality(images)
      BY <2>2, <3>1, <3>2, FS_Subset, FS_CardinalityType
    <3>4. Cardinality(images) < MaxRootImages \/ SameName(i) # {}
      BY <1>4, <2>2, FS_CardinalityType, ImageAssumption DEF RegisterImage, Refused
    <3> QED
      BY <1>4, <2>2, <3>2, <3>3, <3>4, FS_CardinalityType DEF RegisterImage
  <2>4. todo' \in [Session -> Seq(RootImage)]
    BY <2>1, <2>2, <2>3
  <2>5. /\ IsFiniteSet(images')
        /\ Cardinality(images') = IF i \in rest THEN Cardinality(rest)
                                                 ELSE Cardinality(rest) + 1
    BY <2>3, FS_AddElement
  <2>6. SameName(i) # {} => rest # images
    BY DEF SameName
  <2>7. Cardinality(images') <= MaxRootImages
    <3> HIDE DEF rest
    <3> QED BY <2>2, <2>3, <2>5, <2>6, ImageAssumption
  <2>8. \A r, q \in images' : Name[r] = Name[q] => r = q
    BY <2>3 DEF SameName, TypeInv, TypeOK
  <2> QED BY <2>1, <2>2, <2>3, <2>4, <2>5, <2>7, <2>8
<1> HIDE DEF Typed
<1>5. ASSUME NEW s \in Session, Boot(s) PROVE Typed
  <2>1. CASE ClearImages(s)
    <3>1. images' = {} /\ todo' = [todo EXCEPT ![s] = Registers[s]]
      BY <2>1 DEF ClearImages
    <3>2. todo' \in [Session -> Seq(RootImage)]
      BY <1>1, <3>1
    <3> QED BY <1>3, <3>1, <3>2
  <2>2. CASE RegistrationFails(s)
    <3>1. images' = {} /\ todo' = [todo EXCEPT ![s] = <<>>]
      BY <2>2 DEF RegistrationFails
    <3>2. todo' \in [Session -> Seq(RootImage)]
      BY <1>1, <3>1
    <3> QED BY <1>3, <3>1, <3>2
  <2>3. CASE LoadInitrd(s)
    BY <1>2, <2>3 DEF LoadInitrd, EnterLinux, InvalidConfig
  <2>4. CASE TakeLatch(s) \/ AlreadyStarted(s) \/ SelectFiles(s) \/ SelectBundled(s)
             \/ CopyTemplate(s) \/ TemplateCopied(s) \/ SelectImages(s)
    BY <1>2, <2>4 DEF TakeLatch, AlreadyStarted, SelectFiles, SelectBundled, CopyTemplate,
                      TemplateCopied, SelectImages
  <2>5. CASE SelectNothing(s) \/ HostIsFull(s) \/ LoadFails(s)
    BY <1>2, <2>5 DEF SelectNothing, HostIsFull, LoadFails, InvalidConfig
  <2> QED
    BY <1>4, <1>5, <2>1, <2>2, <2>3, <2>4, <2>5 DEF Boot
<1>6. CASE Kill \/ LosePower
  <2>1. images' = {} /\ todo' \in [Session -> Seq(RootImage)]
    BY <1>1, <1>6 DEF Kill, LosePower, ProcessEnds
  <2> QED BY <1>3, <2>1
<1>7. CASE ReadBuffer \/ WriteBuffer \/ BufferFails \/ Succeeds \/ Flush
  BY <1>2, <1>7 DEF ReadBuffer, WriteBuffer, BufferFails, Succeeds, Flush, Answered
<1>8. ASSUME NEW p, NEW sector, WriteBack(p, sector) PROVE Typed
  BY <1>2, <1>8 DEF WriteBack
<1>9. ASSUME NEW type, NEW d, NEW sector, NEW n, NEW v, SubmitRequest(type, d, sector, n, v)
      PROVE Typed
  BY <1>2, <1>9 DEF SubmitRequest
<1>10. CASE UNCHANGED vars
  BY <1>2, <1>10
<1> QED
  BY <1>5, <1>6, <1>7, <1>8, <1>9, <1>10 DEF Next

(* The root image of the boot.                                             *)
LEMMA RootTypes ==
  ASSUME StorageInv, TypeInv, [Next]_vars
  PROVE  root' \in RootImage \cup {NoRoot}
<1> DEFINE Typed == root' \in RootImage \cup {NoRoot}
<1>1. root' = root \/ root' = NoRoot => Typed
  BY DEF TypeInv, TypeOK
<1>2. ASSUME NEW s \in Session, Boot(s) PROVE Typed
  <2>1. CASE SelectFiles(s) \/ SelectBundled(s)
    BY <2>1, SelectsRoot, MakesRoot
  <2> QED
    BY <1>1, <1>2, <2>1
       DEF Boot, InvalidConfig, ClearImages, RegisterImage, RegistrationFails, TakeLatch,
           AlreadyStarted, SelectNothing, CopyTemplate, TemplateCopied, HostIsFull,
           SelectImages, LoadInitrd, EnterLinux, LoadFails
<1>3. CASE Kill \/ LosePower
  BY <1>1, <1>3 DEF Kill, LosePower, ProcessEnds
<1>4. CASE \/ ReadBuffer \/ WriteBuffer \/ BufferFails \/ Succeeds \/ Flush
           \/ \E p \in Path, sector \in Sector : WriteBack(p, sector)
           \/ UNCHANGED vars
  BY <1>1, <1>4 DEF ReadBuffer, WriteBuffer, BufferFails, Succeeds, Flush, Answered, WriteBack
<1>5. ASSUME NEW type, NEW d, NEW sector, NEW n, NEW v, SubmitRequest(type, d, sector, n, v)
      PROVE  Typed
  BY <1>1, <1>5 DEF SubmitRequest
<1> QED
  BY <1>2, <1>3, <1>4, <1>5 DEF Next

(* Every step changes the file of one state image at most, or loses what   *)
(* was not written back.                                                   *)
ChangesFile(old, new) ==
  \/ new = old
  \/ \E i \in RootImage, g \in File : new = [old EXCEPT ![StatePath(i)] = g]
LEMMA FileSteps ==
  ASSUME StorageInv, TypeInv, [Next]_vars
  PROVE  LosePower \/ ChangesFile(file, file')
<1>1. ASSUME NEW i \in RootImage, NEW g \in File, file' = [file EXCEPT ![StatePath(i)] = g]
      PROVE  ChangesFile(file, file')
  BY <1>1 DEF ChangesFile
<1>2. file' = file => ChangesFile(file, file')
  BY DEF ChangesFile
<1>3. \A i \in RootImage : StatePath(i) \in Path /\ file[StatePath(i)] \in File
  BY PathsDiffer DEF TypeInv, TypeOK
<1>4. ASSUME NEW s \in Session, Boot(s) PROVE ChangesFile(file, file')
  <2>1. Image(0) \in File /\ \A r \in RootImage : Extended(file[StatePath(r)]) \in File
    BY <1>3, ExtendedIs, ImageIs, Sizes
  <2>2. CASE SelectBundled(s)
    BY <1>1, <1>2, <2>1, <2>2, MakesRoot
  <2>3. CASE SelectFiles(s) \/ SelectImages(s)
    <3>1. root' \in RootImage /\ file' = [file EXCEPT ![StatePath(root')] = Extended(file[StatePath(root')])]
      BY <2>3, SelectsRoot
    <3> QED BY <1>1, <2>1, <3>1
  <2>4. CASE CopyTemplate(s)
    <3>1. PICK B : file' = [file EXCEPT ![StatePath(root)] = [u \in Unit |-> IF u \in B THEN "image" ELSE @[u]]]
      BY <2>4 DEF CopyTemplate
    <3>2. PICK g : g = [u \in Unit |-> IF u \in B THEN "image" ELSE file[StatePath(root)][u]]
      OBVIOUS
    <3>3. root \in RootImage
      BY <2>4, RootIsImage DEF CopyTemplate
    <3>4. g \in File
      BY <1>3, <3>2, <3>3, ContentsDiffer DEF File
    <3>5. file' = [file EXCEPT ![StatePath(root)] = g]
      BY <3>1, <3>2
    <3> QED BY <1>1, <3>3, <3>4, <3>5
  <2> QED
    BY <1>2, <1>4, <2>2, <2>3, <2>4
       DEF Boot, InvalidConfig, ClearImages, RegisterImage, RegistrationFails, TakeLatch, AlreadyStarted,
           SelectNothing, TemplateCopied, HostIsFull, LoadInitrd, EnterLinux, LoadFails
<1>5. CASE WriteBuffer
  <2>1. PICK i \in RootImage : sel[req.dev].path = StatePath(i)
    BY <1>5 DEF WriteBuffer, MayWrite, StorageInv, LatchInv
  <2>2. PICK g : g = [u \in Unit |-> IF u \in SectorPlaces(NextSector) THEN req.value
                                      ELSE file[StatePath(i)][u]]
    OBVIOUS
  <2>3. g \in File
    BY <1>3, <1>5, <2>2, ContentsDiffer DEF File, WriteBuffer, TypeInv
  <2>4. file' = [file EXCEPT ![StatePath(i)] = g]
    BY <1>5, <2>1, <2>2 DEF WriteBuffer, BlockWrite
  <2> QED BY <1>1, <2>3, <2>4
<1>6. CASE Kill \/ ReadBuffer \/ BufferFails \/ Succeeds \/ Flush
  BY <1>2, <1>6 DEF Kill, ReadBuffer, BufferFails, Succeeds, Flush, Answered
<1>7. ASSUME NEW p, NEW sector, WriteBack(p, sector) PROVE ChangesFile(file, file')
  BY <1>2, <1>7 DEF WriteBack
<1>8. ASSUME NEW type, NEW d, NEW sector, NEW n, NEW v, SubmitRequest(type, d, sector, n, v)
      PROVE ChangesFile(file, file')
  BY <1>2, <1>8 DEF SubmitRequest
<1>9. CASE UNCHANGED vars
  BY <1>2, <1>9
<1> QED
  BY <1>4, <1>5, <1>6, <1>7, <1>8, <1>9 DEF Next

(* A file is written back as a whole, or a sector of it.                   *)
LEMMA SyncedSteps ==
  ASSUME TypeInv, [Next]_vars
  PROVE  synced' \in [Path -> File]
<1>1. synced \in [Path -> File] /\ file \in [Path -> File]
  BY DEF TypeInv, TypeOK
<1>2. ASSUME UNCHANGED synced PROVE synced' \in [Path -> File]
  BY <1>1, <1>2
<1>3. ASSUME NEW p, NEW g, p \in Path => g \in File, synced' = [synced EXCEPT ![p] = g]
      PROVE  synced' \in [Path -> File]
  BY <1>1, <1>3
<1>4. CASE Flush
  BY <1>2, <1>4 DEF Flush
<1>5. ASSUME NEW p \in Path, NEW sector, WriteBack(p, sector)
      PROVE  synced' \in [Path -> File]
  <2>1. PICK g : g = [u \in Unit |-> IF u \in SectorPlaces(sector) THEN file[p][u] ELSE synced[p][u]]
    OBVIOUS
  <2>2. g \in File
    BY <1>1, <2>1 DEF File
  <2>3. synced' = [synced EXCEPT ![p] = g]
    BY <1>5, <2>1 DEF WriteBack
  <2> QED BY <1>3, <2>2, <2>3
<1>6. ASSUME NEW s \in Session, Boot(s) PROVE UNCHANGED synced
  BY <1>6 DEF Boot, InvalidConfig, ClearImages, RegisterImage, RegistrationFails, TakeLatch,
              AlreadyStarted, SelectNothing, SelectFiles, SelectBundled, CopyTemplate,
              TemplateCopied, HostIsFull, SelectImages, LoadInitrd, EnterLinux, LoadFails
<1>7. CASE Kill \/ LosePower \/ ReadBuffer \/ WriteBuffer \/ BufferFails \/ Succeeds
  BY <1>2, <1>7 DEF Kill, LosePower, ReadBuffer, WriteBuffer, BufferFails, Succeeds
<1>8. ASSUME NEW type, NEW d, NEW sector, NEW n, NEW v, SubmitRequest(type, d, sector, n, v)
      PROVE  UNCHANGED synced
  BY <1>8 DEF SubmitRequest
<1>9. CASE UNCHANGED vars
  BY <1>2, <1>9
<1> QED
  BY <1>2, <1>4, <1>5, <1>6, <1>7, <1>8, <1>9 DEF Next

LEMMA TornSteps ==
  ASSUME StorageInv, TypeInv, [Next]_vars
  PROVE  torn' \in SUBSET Path
<1>1. torn \in SUBSET Path /\ Copying \in SUBSET Path /\ NotWrittenBack \in SUBSET Path
  BY PathsDiffer, RootIsImage DEF TypeInv, TypeOK, Copying, NotWrittenBack
<1>2. ASSUME NEW s \in Session, Boot(s) PROVE torn' \in SUBSET Path
  <2>1. CASE HostIsFull(s)
    BY <1>1, <2>1, PathsDiffer, RootIsImage DEF HostIsFull
  <2>2. CASE SelectBundled(s)
    BY <1>1, <2>2 DEF SelectBundled
  <2>3. UNCHANGED torn \/ HostIsFull(s) \/ SelectBundled(s)
    BY <1>2 DEF Boot, InvalidConfig, ClearImages, RegisterImage, RegistrationFails, TakeLatch,
                AlreadyStarted, SelectNothing, SelectFiles, CopyTemplate,
                TemplateCopied, SelectImages, LoadInitrd, EnterLinux, LoadFails
  <2> QED
    BY <1>1, <2>1, <2>2, <2>3
<1>3. CASE Kill \/ LosePower
  BY <1>1, <1>3 DEF Kill, LosePower
<1>4. CASE \/ ReadBuffer \/ WriteBuffer \/ BufferFails \/ Succeeds \/ Flush
           \/ \E p \in Path, sector \in Sector : WriteBack(p, sector)
           \/ UNCHANGED vars
  BY <1>1, <1>4 DEF ReadBuffer, WriteBuffer, BufferFails, Succeeds, Flush,
                    Answered, WriteBack
<1>5. ASSUME NEW type, NEW d, NEW sector, NEW n, NEW v, SubmitRequest(type, d, sector, n, v)
      PROVE  torn' \in SUBSET Path
  BY <1>1, <1>5 DEF SubmitRequest
<1> QED
  BY <1>2, <1>3, <1>4, <1>5 DEF Next

(* What is selected: nothing, or an image as long as its file at least.    *)
LEMMA SelectionTyped ==
  ASSUME TypeInv, NEW i \in RootImage
  PROVE  Selection(i) \in [Device -> [path : Path \cup {<<>>}, bytes : 0..Units,
                                     writable : BOOLEAN]]
<1>1. BasePath(i) \in Path /\ StatePath(i) \in Path /\ BaseUnits[i] \in 0..Units
  BY PathsDiffer, Sizes
<1>2. ImageUnits(file[StatePath(i)]) \in 0..Units
  BY <1>1, ImageUnitsIs DEF TypeInv, TypeOK
<1> QED
  BY <1>1, <1>2 DEF Selection

LEMMA SelectionSteps ==
  ASSUME [Next]_vars
  PROVE  \/ UNCHANGED sel
         \/ sel' = [d \in Device |-> NoImage]
         \/ \E s \in Session : SelectFiles(s) \/ SelectImages(s)
<1>1. ASSUME NEW s \in Session, Boot(s)
      PROVE  \/ UNCHANGED sel \/ sel' = [d \in Device |-> NoImage]
             \/ SelectFiles(s) \/ SelectImages(s)
  BY <1>1 DEF Boot, InvalidConfig, ClearImages, RegisterImage, RegistrationFails, TakeLatch,
              AlreadyStarted, SelectNothing, SelectBundled, CopyTemplate,
              TemplateCopied, HostIsFull, LoadInitrd, EnterLinux, LoadFails
<1>2. CASE Kill \/ LosePower
  BY <1>2 DEF Kill, LosePower, ProcessEnds
<1>3. CASE \/ ReadBuffer \/ WriteBuffer \/ BufferFails \/ Succeeds \/ Flush
           \/ \E p \in Path, sector \in Sector : WriteBack(p, sector)
           \/ UNCHANGED vars
  BY <1>3 DEF ReadBuffer, WriteBuffer, BufferFails, Succeeds, Flush,
              Answered, WriteBack
<1>4. ASSUME NEW type, NEW d, NEW sector, NEW n, NEW v, SubmitRequest(type, d, sector, n, v)
      PROVE  UNCHANGED sel
  BY <1>4 DEF SubmitRequest
<1> QED
  BY <1>1, <1>2, <1>3, <1>4 DEF Next

LEMMA SelectionTypes ==
  ASSUME StorageInv, TypeInv, [Next]_vars
  PROVE  sel' \in [Device -> [path : Path \cup {<<>>}, bytes : 0..Units,
                              writable : BOOLEAN]]
<1>1. CASE UNCHANGED sel
  BY <1>1 DEF TypeInv, TypeOK
<1>2. CASE sel' = [d \in Device |-> NoImage]
  BY <1>2, Sizes DEF NoImage
<1>3. ASSUME NEW s \in Session, SelectFiles(s) \/ SelectImages(s)
      PROVE  \E i \in RootImage : sel' = Selection(i)
  BY <1>3, SelectsRoot
<1> QED
  BY <1>1, <1>2, <1>3, SelectionSteps, SelectionTyped

(* The request: a new one, a buffer more of it, its end, or as it was.     *)
LEMMA RequestSteps ==
  ASSUME [Next]_vars
  PROVE  \/ UNCHANGED req
         \/ req' = NoRequest
         \/ ReadBuffer \/ WriteBuffer
         \/ \E type \in RequestType \ {"none"}, d \in Device, sector \in Sector,
               n \in 0..MaxBuffers, v \in Value \cup {"zero"} :
              SubmitRequest(type, d, sector, n, v)
<1>1. ASSUME NEW s \in Session, Boot(s) PROVE UNCHANGED req
  BY <1>1 DEF Boot, InvalidConfig, ClearImages, RegisterImage, RegistrationFails, TakeLatch,
              AlreadyStarted, SelectNothing, SelectFiles, SelectBundled, CopyTemplate,
              TemplateCopied, HostIsFull, SelectImages, LoadInitrd, EnterLinux, LoadFails
<1>2. CASE Kill \/ LosePower
  BY <1>2 DEF Kill, LosePower, ProcessEnds
<1>3. CASE \/ BufferFails \/ Succeeds \/ Flush
           \/ \E p \in Path, sector \in Sector : WriteBack(p, sector)
           \/ UNCHANGED vars
  BY <1>3 DEF BufferFails, Succeeds, Flush, Answered, WriteBack
<1> QED
  BY <1>1, <1>2, <1>3 DEF Next

LEMMA SubmittedIs ==
  ASSUME NEW type, NEW d, NEW sector, NEW n, NEW v, SubmitRequest(type, d, sector, n, v)
  PROVE  /\ req'.type = type /\ req'.dev = d /\ req'.sector = sector /\ req'.count = n
         /\ req'.value = v /\ req'.done = 0 /\ req'.data = <<>>
  BY DEF SubmitRequest, NoRequest

LEMMA ServedIs ==
  ASSUME StorageInv, ReadBuffer \/ WriteBuffer
  PROVE  /\ req'.type = req.type /\ req'.dev = req.dev /\ req'.sector = req.sector
         /\ req'.count = req.count /\ req'.value = req.value
         /\ req'.done = req.done + 1 /\ req.done < req.count
         /\ ReadBuffer => req'.data = Append(req.data, BlockRead(req.dev, NextSector))
<1>1. DOMAIN req = {"type", "dev", "sector", "count", "value", "done", "data"}
  BY DEF StorageInv, LatchInv, NoRequest
<1>2. CASE ReadBuffer
  <2>1. PICK buffer : buffer = Append(req.data, BlockRead(req.dev, NextSector))
    OBVIOUS
  <2>2. req' = [req EXCEPT !.done = @ + 1, !.data = buffer] /\ req.done < req.count
    BY <1>2, <2>1 DEF ReadBuffer
  <2> QED BY <1>1, <2>1, <2>2
<1>3. CASE WriteBuffer
  <2>1. req' = [req EXCEPT !.done = @ + 1] /\ req.done < req.count /\ req.type = "out"
    BY <1>3 DEF WriteBuffer
  <2>2. ~ReadBuffer
    BY <2>1 DEF ReadBuffer
  <2> QED BY <1>1, <2>1, <2>2
<1> QED
  BY <1>2, <1>3

LEMMA RequestTypes ==
  ASSUME TypeInv, StorageInv, [Next]_vars
  PROVE  /\ req'.type \in RequestType /\ req'.dev \in Device
         /\ req'.sector \in Nat /\ req'.count \in 0..MaxBuffers /\ req'.done \in 0..req'.count
         /\ req'.value \in Value \cup {"zero"} /\ (req'.type = "out" => req'.value \in Value)
<1> USE Sizes
<1>1. CASE UNCHANGED req
  BY <1>1 DEF TypeInv, TypeOK
<1>2. CASE req' = NoRequest
  BY <1>2 DEF NoRequest, RequestType
<1>3. CASE ReadBuffer \/ WriteBuffer
  <2>1. /\ req'.type = req.type /\ req'.dev = req.dev /\ req'.sector = req.sector
        /\ req'.count = req.count /\ req'.value = req.value
        /\ req'.done = req.done + 1 /\ req.done < req.count
    BY <1>3, ServedIs
  <2> QED BY <2>1 DEF TypeInv, TypeOK
<1>4. ASSUME NEW type \in RequestType \ {"none"}, NEW d \in Device, NEW sector \in Sector,
             NEW n \in 0..MaxBuffers, NEW v \in Value \cup {"zero"},
             SubmitRequest(type, d, sector, n, v)
      PROVE  /\ req'.type \in RequestType /\ req'.dev \in Device
             /\ req'.sector \in Nat /\ req'.count \in 0..MaxBuffers /\ req'.done \in 0..req'.count
             /\ req'.value \in Value \cup {"zero"} /\ (req'.type = "out" => req'.value \in Value)
  <2>1. sector \in Nat
    BY DEF Sector
  <2>2. type = "out" => v \in Value
    BY <1>4 DEF SubmitRequest
  <2> QED BY <1>4, <2>1, <2>2, SubmittedIs
<1> QED
  BY <1>1, <1>2, <1>3, <1>4, RequestSteps

LEMMA StepTypeInv ==
  ASSUME StorageInv, TypeInv, [Next]_vars
  PROVE  TypeInv'
<1>1. pc' \in [Session -> Step] /\ started' \in BOOLEAN
  BY StepStorageInv DEF StorageInv, LatchInv
<1>2. file' \in [Path -> File]
  <2>1. file \in [Path -> File] /\ synced \in [Path -> File]
    BY DEF TypeInv, TypeOK
  <2>2. CASE LosePower
    BY <2>1, <2>2 DEF LosePower
  <2>3. CASE ChangesFile(file, file')
    BY <2>1, <2>3 DEF ChangesFile
  <2> QED BY <2>2, <2>3, FileSteps
<1> QED
  BY <1>1, <1>2, RegistryTypes, RootTypes, SyncedSteps, TornSteps, SelectionTypes, RequestTypes
     DEF TypeInv, TypeOK

(* Every variable keeps to its type, the registry to its places, a device  *)
(* to the largest image and a request to its buffers.                      *)
THEOREM StorageTypeCorrect == Spec => []TypeOK
<1>1. TypeInv => TypeOK
  BY DEF TypeInv
<1> QED
  BY InitStorageInv, StepStorageInv, InitTypeInv, StepTypeInv, <1>1, PTL DEF Spec

-----------------------------------------------------------------------------
(* State images are whole.  The disk, apart from who makes an image: more  *)
(* may be written to an image that has a superblock, and fewer images may  *)
(* be counted as made.                                                     *)
LEMMA MoreIsWritten ==
  ASSUME NEW seen, NEW new, NEW stable, NEW made, NEW fewer,
         DiskInv(seen, stable, made), fewer \subseteq made,
         \A i \in RootImage : \A u \in Unit :
           View(seen[StatePath(i)], u) # "zero" => View(new[StatePath(i)], u) # "zero",
         \A i \in RootImage :
           StatePath(i) \in fewer /\ HasExt4Magic(new[StatePath(i)]) =>
             HasExt4Magic(seen[StatePath(i)])
  PROVE  DiskInv(new, stable, fewer)
<1> SUFFICES ASSUME NEW i \in RootImage
             PROVE  LET p == StatePath(i)
                    IN /\ p \in fewer /\ HasExt4Magic(new[p]) => Whole(new[p], TemplateUnits[i])
                       /\ HasExt4Magic(stable[p]) => HasExt4Magic(new[p])
                       /\ i \in FileImages => HasExt4Magic(stable[p])
  BY DEF DiskInv
<1>1. 0 \in Unit
  BY Sizes
<1> QED
  BY <1>1 DEF DiskInv, Whole, HasExt4Magic

LEMMA InitImagesInv == Init => ImagesInv
<1> SUFFICES ASSUME Init PROVE ImagesInv
  OBVIOUS
<1>1. \A s \in Session : MakingInv(pc[s], file[StatePath(root)], TemplateUnits[root])
  BY DEF Init, MakingInv
<1>2. ASSUME NEW i \in RootImage
      PROVE  LET f == file[StatePath(i)]
             IN /\ HasExt4Magic(f) => Whole(f, TemplateUnits[i])
                /\ i \in FileImages => HasExt4Magic(f)
  <2>1. PICK n \in 0..Units : /\ n = IF i \in FileImages THEN TemplateUnits[i] ELSE 0
                              /\ file[StatePath(i)] = Image(n)
    BY Sizes DEF Init
  <2>2. 0 \in Unit /\ TemplateUnits[i] \in 1..Units
    BY Sizes
  <2>3. \A u \in Unit : View(Image(n), u) # "zero" <=> u < n
    BY ImageIs
  <2> QED BY <2>1, <2>2, <2>3 DEF HasExt4Magic, Whole
<1>3. DiskInv(file, synced, Path \ (torn \cup Copying))
  BY <1>2 DEF DiskInv, Init
<1> QED
  BY <1>1, <1>3 DEF ImagesInv

(* While a session boots, no other one makes an image.                     *)
LEMMA CopyingIs ==
  ASSUME StorageInv, NEW s \in Booting
  PROVE  /\ pc[s] = "copy" => Copying = {StatePath(root)}
         /\ pc[s] # "copy" => Copying = {}
         /\ \A t \in Session : t # s => pc[t] \in {"idle", "register"}
<1>1. s \in Session /\ \A t \in Booting : t = s
  BY DEF StorageInv, LatchInv, Booting
<1>2. \A t \in Session : t # s => pc[t] \in {"idle", "register"}
  BY <1>1 DEF StorageInv, LatchInv, Step, Booting
<1>3. \A t \in Session : pc[t] = "copy" => t = s
  BY <1>2
<1> QED
  BY <1>1, <1>2, <1>3 DEF Copying

(* A step of a session that leaves the disk alone.                         *)
LEMMA ImagesLeftAlone ==
  ASSUME ImagesInv, UNCHANGED <<file, synced, torn>>, Copying' = Copying,
         \A s \in Session : \/ pc'[s] = pc[s] \/ pc'[s] \in {"idle", "register", "select"}
                            \/ pc[s] = "initrd" /\ pc'[s] = "linux",
         root' = root \/ \A s \in Session : pc'[s] \in {"idle", "register", "select"}
  PROVE  ImagesInv'
<1>1. DiskInv(file, synced, Path \ (torn \cup Copying))'
  BY DEF ImagesInv, DiskInv
<1>2. \A s \in Session : MakingInv(pc'[s], file[StatePath(root')], TemplateUnits[root'])
  BY DEF ImagesInv, MakingInv
<1> QED
  BY <1>1, <1>2 DEF ImagesInv

LEMMA ImagesAround ==
  ASSUME StorageInv, ImagesInv, NEW s \in Session,
         \/ ClearImages(s) \/ RegisterImage(s) \/ RegistrationFails(s) \/ AlreadyStarted(s)
         \/ TakeLatch(s) \/ SelectNothing(s) \/ LoadInitrd(s) \/ LoadFails(s)
  PROVE  ImagesInv'
<1>1. /\ UNCHANGED <<file, synced, torn>>
      /\ pc[s] \in {"idle", "register", "select", "initrd"}
      /\ \/ pc' = pc
         \/ \E step \in {"idle", "register", "select"} : pc' = [pc EXCEPT ![s] = step]
         \/ pc[s] = "initrd" /\ pc' = [pc EXCEPT ![s] = "linux"]
      /\ \/ root' = root
         \/ s \in Booting /\ pc' = [pc EXCEPT ![s] = "idle"]
  BY DEF Booting, ClearImages, RegisterImage, RegistrationFails, AlreadyStarted, TakeLatch,
         SelectNothing, LoadInitrd, EnterLinux, LoadFails, InvalidConfig
<1>2. pc \in [Session -> Step]
  BY DEF StorageInv, LatchInv
<1>3. \A t \in Session : pc'[t] = "copy" <=> pc[t] = "copy"
  BY <1>1, <1>2
<1>4. \A t \in Session : \/ pc'[t] = pc[t] \/ pc'[t] \in {"idle", "register", "select"}
                         \/ pc[t] = "initrd" /\ pc'[t] = "linux"
  BY <1>1, <1>2
<1>5. Copying' = Copying
  <2>1. CASE \E t \in Session : pc[t] = "copy"
    <3>1. PICK t \in Session : pc[t] = "copy" /\ t \in Booting
      BY <2>1 DEF Booting
    <3>2. root' = root
      BY <1>1, <3>1 DEF StorageInv, LatchInv
    <3> QED BY <1>3, <3>2 DEF Copying
  <2> QED BY <1>3, <2>1 DEF Copying
<1>6. root' = root \/ \A t \in Session : pc'[t] \in {"idle", "register", "select"}
  BY <1>1, <1>2, CopyingIs
<1> QED
  BY <1>1, <1>4, <1>5, <1>6, ImagesLeftAlone

(* The session that boots is the only one whose step matters.              *)
LEMMA OwnStep ==
  ASSUME StorageInv, NEW s \in Booting, NEW step, pc' = [pc EXCEPT ![s] = step],
         MakingInv(step, file'[StatePath(root')], TemplateUnits[root'])
  PROVE  /\ \A t \in Session : MakingInv(pc'[t], file'[StatePath(root')], TemplateUnits[root'])
         /\ step = "copy" => Copying' = {StatePath(root')}
<1>1. s \in Session /\ pc \in [Session -> Step]
      /\ \A t \in Session : t # s => pc[t] \in {"idle", "register"}
  BY CopyingIs DEF StorageInv, LatchInv, Booting
<1>2. pc'[s] = step /\ \A t \in Session : t # s => pc'[t] \in {"idle", "register"}
  BY <1>1
<1>3. ASSUME NEW t \in Session
      PROVE  MakingInv(pc'[t], file'[StatePath(root')], TemplateUnits[root'])
  <2>1. CASE t = s
    BY <1>2, <2>1
  <2>2. CASE t # s
    BY <1>2, <2>2 DEF MakingInv
  <2> QED BY <2>1, <2>2
<1>4. \A t \in Session : pc'[t] = "copy" <=> t = s /\ step = "copy"
  BY <1>2
<1> QED
  BY <1>1, <1>3, <1>4 DEF Copying

LEMMA OwnStepOn ==
  ASSUME StorageInv, NEW s \in Booting, NEW step, pc' = [pc EXCEPT ![s] = step],
         step # "copy", step \in {"extend", "initrd", "linux"} => HasExt4Magic(file'[StatePath(root')])
  PROVE  /\ \A t \in Session : MakingInv(pc'[t], file'[StatePath(root')], TemplateUnits[root'])
         /\ Copying' = {}
<1>1. MakingInv(step, file'[StatePath(root')], TemplateUnits[root'])
  BY DEF MakingInv
<1>3. Copying' = {}
  <2>1. pc \in [Session -> Step] /\ \A t \in Session : t # s => pc[t] # "copy"
    BY CopyingIs DEF StorageInv, LatchInv
  <2>2. \A t \in Session : pc'[t] # "copy"
    BY <2>1
  <2> QED BY <2>2 DEF Copying
<1>4. \A t \in Session : MakingInv(pc'[t], file'[StatePath(root')], TemplateUnits[root'])
  BY <1>1, OwnStep
<1> QED
  BY <1>3, <1>4

(* The image is taken as it is, with zeros after its end.                  *)
LEMMA ImagesSelected ==
  ASSUME StorageInv, TypeInv, ImagesInv, NEW s \in Session, SelectFiles(s) \/ SelectImages(s)
  PROVE  ImagesInv'
<1> DEFINE p == StatePath(root')
<1>1. /\ s \in Booting /\ pc[s] # "copy" /\ pc' = [pc EXCEPT ![s] = "initrd"]
      /\ file' = [file EXCEPT ![p] = Extended(@)] /\ UNCHANGED <<synced, torn>>
      /\ \/ root' \in FileImages
         \/ pc[s] = "extend" /\ root' = root
  BY SelectsRoot, Zenon DEF SelectFiles, SelectImages, Booting
<1>2. root' \in RootImage /\ p \in Path /\ file[p] \in File /\ file \in [Path -> File]
  BY SelectsRoot, PathsDiffer DEF TypeInv, TypeOK
<1>3. \A u \in Unit : View(Extended(file[p]), u) = View(file[p], u)
  BY <1>2, ExtendedIs
<1>4. 0 \in Unit
  BY Sizes
<1>5. HasExt4Magic(file[p])
  <2>1. CASE root' \in FileImages
    BY <1>2, <2>1 DEF ImagesInv, DiskInv
  <2>2. CASE pc[s] = "extend" /\ root' = root
    BY <1>1, <2>2 DEF ImagesInv, MakingInv, Booting
  <2> QED BY <1>1, <2>1, <2>2
<1>6. \A q \in Path : \A u \in Unit : View(file'[q], u) = View(file[q], u)
  <2>1. ASSUME NEW q \in Path, NEW u \in Unit PROVE View(file'[q], u) = View(file[q], u)
    <3>1. CASE q = p
      BY <1>1, <1>2, <1>3, <3>1
    <3>2. CASE q # p
      BY <1>1, <1>2, <3>2
    <3> QED BY <3>1, <3>2
  <2> QED BY <2>1
<1>7. HasExt4Magic(file'[p])
  BY <1>2, <1>4, <1>5, <1>6 DEF HasExt4Magic
<1>8. /\ \A t \in Session : MakingInv(pc'[t], file'[StatePath(root')], TemplateUnits[root'])
      /\ Copying' = {}
  BY <1>1, <1>7, OwnStepOn
<1>9. Copying = {}
  BY <1>1, CopyingIs
<1>10. DiskInv(file', synced, Path \ (torn \cup Copying))
  BY <1>4, <1>6, PathsDiffer, MoreIsWritten DEF ImagesInv, HasExt4Magic
<1> QED
  BY <1>1, <1>8, <1>9, <1>10 DEF ImagesInv

(* An image without a superblock is made anew; none was ever on disk.      *)
LEMMA ImagesMade ==
  ASSUME StorageInv, TypeInv, ImagesInv, NEW s \in Session, SelectBundled(s)
  PROVE  ImagesInv'
<1> DEFINE p == StatePath(root')
<1>1. s \in Booting /\ pc[s] = "select" /\ UNCHANGED synced
  BY DEF SelectBundled, Booting
<1>2. root' \in RootImage /\ p \in Path /\ file \in [Path -> File]
  BY MakesRoot, PathsDiffer DEF TypeInv, TypeOK
<1>3. Copying = {}
  BY <1>1, CopyingIs
<1>4. DiskInv(file, synced, Path \ torn)
  BY <1>3 DEF ImagesInv
<1>5. CASE HasExt4Magic(file[p])
  <2>1. pc' = [pc EXCEPT ![s] = "extend"] /\ UNCHANGED <<file, torn>>
    BY <1>5, MakesRoot
  <2>2. /\ \A t \in Session : MakingInv(pc'[t], file'[StatePath(root')], TemplateUnits[root'])
        /\ Copying' = {}
    BY <1>1, <1>5, <2>1, OwnStepOn
  <2> QED BY <1>1, <1>4, <2>1, <2>2 DEF ImagesInv
<1>6. CASE ~HasExt4Magic(file[p])
  <2>1. /\ file' = [file EXCEPT ![p] = Image(0)] /\ torn' = torn \ {p}
        /\ pc' = [pc EXCEPT ![s] = "copy"]
    BY <1>6, MakesRoot
  <2>2. 0 \in 0..TemplateUnits[root'] /\ 0 % SectorUnits = 0
    <3>1. (SectorUnits * 0 + 0) % SectorUnits = 0
      BY Sizes, RemainderIsUnique
    <3> QED BY <1>2, <3>1, Sizes
  <2>3. /\ \A t \in Session : MakingInv(pc'[t], file'[StatePath(root')], TemplateUnits[root'])
        /\ Copying' = {p}
    BY <1>1, <1>2, <2>1, <2>2, OwnStep DEF MakingInv
  <2>4. Path \ (torn' \cup Copying') = (Path \ torn) \ {p}
    BY <2>1, <2>3
  <2>5. \A i \in RootImage : StatePath(i) # p => file'[StatePath(i)] = file[StatePath(i)]
    BY <1>2, <2>1, PathsDiffer
  <2>6. \A i \in RootImage : StatePath(i) = p => ~HasExt4Magic(synced[StatePath(i)])
    BY <1>4, <1>6 DEF DiskInv
  <2>7. DiskInv(file', synced, (Path \ torn) \ {p})
    BY <1>4, <2>5, <2>6 DEF DiskInv
  <2> QED BY <1>1, <2>3, <2>4, <2>7 DEF ImagesInv
<1> QED
  BY <1>5, <1>6

(* A buffer more of the template.                                          *)
LEMMA LongerImage ==
  ASSUME NEW n \in 0..Units, NEW m \in 0..Units, NEW B, n <= m,
         \A u \in Unit : u \in B <=> n <= u /\ u < m
  PROVE  [u \in Unit |-> IF u \in B THEN "image" ELSE Image(n)[u]] = Image(m)
<1>1. PICK g : g = [u \in Unit |-> IF u \in B THEN "image" ELSE Image(n)[u]]
  OBVIOUS
<1>2. PICK h : h = Image(m)
  OBVIOUS
<1>3. \A u \in Unit : g[u] = h[u]
  BY <1>1, <1>2, Sizes DEF Image
<1>4. g = h
  BY <1>1, <1>2, <1>3 DEF Image
<1> QED
  BY <1>1, <1>2, <1>4

LEMMA ImagesCopied ==
  ASSUME StorageInv, TypeInv, ImagesInv, NEW s \in Session, CopyTemplate(s)
  PROVE  ImagesInv'
<1> DEFINE p == StatePath(root)
           T == TemplateUnits[root]
<1>1. s \in Booting /\ pc[s] = "copy" /\ UNCHANGED <<pc, root, synced, torn>>
  BY DEF CopyTemplate, Booting, processVars
<1>2. root \in RootImage /\ p \in Path /\ file \in [Path -> File] /\ T \in 1..Units
  BY <1>1, RootIsImage, PathsDiffer, Sizes DEF Booting, TypeInv, TypeOK
<1>3. PICK n \in 0..T : file[p] = Image(n) /\ (n % SectorUnits = 0 \/ n = T)
  BY <1>1 DEF Booting, ImagesInv, MakingInv
<1>4. n \in 0..Units /\ FileUnits(file[p]) = n
  BY <1>2, <1>3, ImageIs, Sizes
<1>5. PICK B : /\ B = {u \in Unit : n <= u /\ u < n + SectorUnits /\ u < T} /\ B # {}
               /\ file' = [file EXCEPT ![p] = [u \in Unit |-> IF u \in B THEN "image" ELSE @[u]]]
  BY <1>4 DEF CopyTemplate
<1>6. n < T /\ n % SectorUnits = 0
  BY <1>2, <1>3, <1>5, Sizes
<1>7. PICK m \in 0..T : /\ n <= m /\ (m = n + SectorUnits \/ m = T)
                        /\ \A u \in Unit : u \in B <=> n <= u /\ u < m
  <2>1. CASE n + SectorUnits <= T
    <3>1. n + SectorUnits \in 0..T /\ n <= n + SectorUnits
      BY <1>2, <2>1, Sizes
    <3>2. \A u \in Unit : u \in B <=> n <= u /\ u < n + SectorUnits
      BY <1>2, <1>5, <2>1, Sizes
    <3> QED BY <3>1, <3>2
  <2>2. CASE n + SectorUnits > T
    <3>1. T \in 0..T /\ n <= T
      BY <1>2, <1>6
    <3>2. \A u \in Unit : u \in B <=> n <= u /\ u < T
      BY <1>2, <1>5, <2>2, Sizes
    <3> QED BY <3>1, <3>2
  <2> QED BY <1>2, <2>1, <2>2, Sizes
<1>8. m \in 0..Units
  BY <1>2, Sizes
<1>9. file'[p] = Image(m)
  <2>1. file'[p] = [u \in Unit |-> IF u \in B THEN "image" ELSE Image(n)[u]]
    BY <1>2, <1>3, <1>5
  <2> QED BY <1>4, <1>7, <1>8, <2>1, LongerImage
<1>10. m % SectorUnits = 0 \/ m = T
  <2>1. CASE m = T
    BY <2>1
  <2>2. CASE m = n + SectorUnits
    <3>1. n \in Int /\ SectorUnits \in Nat \ {0}
      BY Sizes
    <3>2. m % SectorUnits = n % SectorUnits
      BY <2>2, <3>1, PeriodicRemainder, Zenon
    <3> QED BY <1>6, <3>2
  <2> QED BY <1>7, <2>1, <2>2
<1>11. \A t \in Session : MakingInv(pc'[t], file'[StatePath(root')], TemplateUnits[root'])
  <2>1. MakingInv("copy", file'[p], T)
    BY <1>7, <1>9, <1>10 DEF MakingInv
  <2>2. pc' = [pc EXCEPT ![s] = "copy"]
    BY <1>1 DEF StorageInv, LatchInv
  <2> QED BY <1>1, <2>1, <2>2, OwnStep
<1>12. Copying = {p} /\ Copying' = Copying
  <2>1. Copying' = Copying
    BY <1>1 DEF Copying
  <2> QED BY <1>1, <2>1, CopyingIs
<1>13. \A i \in RootImage : StatePath(i) # p => file'[StatePath(i)] = file[StatePath(i)]
  BY <1>2, <1>5, PathsDiffer
<1>14. \A u \in Unit : View(file[p], u) # "zero" => View(file'[p], u) # "zero"
  BY <1>3, <1>4, <1>7, <1>8, <1>9, ImageIs, Sizes
<1>15. DiskInv(file', synced, Path \ (torn \cup Copying))
  <2>1. \A i \in RootImage : \A u \in Unit :
          View(file[StatePath(i)], u) # "zero" => View(file'[StatePath(i)], u) # "zero"
    BY <1>13, <1>14
  <2>2. \A i \in RootImage : StatePath(i) \in Path \ (torn \cup Copying) => StatePath(i) # p
    BY <1>12
  <2> QED BY <1>13, <2>1, <2>2, MoreIsWritten DEF ImagesInv
<1> QED
  BY <1>1, <1>11, <1>12, <1>15 DEF ImagesInv

(* The copy is complete: the image has all of the template of every        *)
(* identifier that has this image.                                         *)
LEMMA ImagesComplete ==
  ASSUME OneTemplate, StorageInv, TypeInv, ImagesInv, NEW s \in Session, TemplateCopied(s)
  PROVE  ImagesInv'
<1> DEFINE p == StatePath(root)
           T == TemplateUnits[root]
<1>1. /\ s \in Booting /\ pc[s] = "copy" /\ UNCHANGED <<root, file, synced, torn>>
      /\ FileUnits(file[p]) >= T /\ pc' = [pc EXCEPT ![s] = "extend"]
  BY DEF TemplateCopied, Booting
<1>2. root \in RootImage /\ p \in Path /\ T \in 1..Units
  BY <1>1, RootIsImage, PathsDiffer, Sizes DEF Booting
<1>3. PICK n \in 0..T : file[p] = Image(n)
  BY <1>1 DEF Booting, ImagesInv, MakingInv
<1>4. n = T
  BY <1>1, <1>2, <1>3, ImageIs, Sizes
<1>5. \A u \in Unit : u < T => View(file[p], u) # "zero"
  BY <1>2, <1>3, <1>4, ImageIs, Sizes
<1>6. HasExt4Magic(file[p])
  BY <1>2, <1>5, Sizes DEF HasExt4Magic
<1>7. /\ \A t \in Session : MakingInv(pc'[t], file'[StatePath(root')], TemplateUnits[root'])
      /\ Copying' = {}
  BY <1>1, <1>6, OwnStepOn
<1>8. Copying = {p}
  BY <1>1, CopyingIs
<1>9. ASSUME NEW i \in RootImage, StatePath(i) = p PROVE Whole(file[p], TemplateUnits[i])
  BY <1>2, <1>5, <1>9 DEF OneTemplate, Whole
<1>10. DiskInv(file, synced, Path \ torn)
  BY <1>8, <1>9 DEF ImagesInv, DiskInv
<1> QED
  BY <1>1, <1>7, <1>10 DEF ImagesInv

LEMMA ImagesGivenUp ==
  ASSUME StorageInv, ImagesInv, NEW s \in Session, HostIsFull(s)
  PROVE  ImagesInv'
<1>1. /\ s \in Booting /\ pc' = [pc EXCEPT ![s] = "idle"] /\ UNCHANGED <<file, synced>>
      /\ torn' = IF pc[s] = "copy" THEN torn \cup {StatePath(root)} ELSE torn
  BY DEF HostIsFull, InvalidConfig, Booting
<1>2. /\ \A t \in Session : MakingInv(pc'[t], file'[StatePath(root')], TemplateUnits[root'])
      /\ Copying' = {}
  BY <1>1, OwnStepOn
<1>3. torn' \cup Copying' = torn \cup Copying
  BY <1>1, <1>2, CopyingIs
<1>4. DiskInv(file, synced, Path \ (torn' \cup Copying'))
  BY <1>3 DEF ImagesInv
<1> QED
  BY <1>1, <1>2, <1>4 DEF ImagesInv

(* What Linux writes goes to the image of its session, and is data.        *)
LEMMA WriteIs ==
  ASSUME StorageInv, TypeInv, NEW s \in Session, pc[s] = "linux", WriteBuffer
  PROVE  /\ req.dev = StateDevice /\ sel[req.dev].path = StatePath(root)
         /\ StatePath(root) \in Path /\ req.value \in Value
         /\ LET p == StatePath(root)
            IN /\ \A q \in Path \ {p} : file'[q] = file[q]
               /\ \A u \in Unit : file'[p][u] = IF u \in SectorPlaces(NextSector) THEN req.value
                                                                             ELSE file[p][u]
<1>1. PICK i \in RootImage : sel[req.dev].path = StatePath(i)
  BY DEF WriteBuffer, MayWrite, StorageInv, LatchInv
<1>2. sel[0].path = BasePath(root) /\ sel[1].path = StatePath(root) /\ req.dev \in {0, 1}
  BY DEF StorageInv, LatchInv, Disks
<1>3. req.dev = 1
  BY <1>1, <1>2, RootIsImage, PathsDiffer
<1>4. StatePath(root) \in Path /\ file \in [Path -> File]
  BY RootIsImage, PathsDiffer DEF TypeInv, TypeOK
<1>5. PICK p : p = StatePath(root)
  OBVIOUS
<1>6. file' = [file EXCEPT ![p] = [u \in Unit |-> IF u \in SectorPlaces(NextSector) THEN req.value ELSE @[u]]]
  BY <1>2, <1>3, <1>5 DEF WriteBuffer, BlockWrite
<1>7. /\ \A q \in Path \ {p} : file'[q] = file[q]
      /\ \A u \in Unit : file'[p][u] = IF u \in SectorPlaces(NextSector) THEN req.value ELSE file[p][u]
  BY <1>4, <1>5, <1>6
<1>8. req.value \in Value
  BY DEF TypeInv, WriteBuffer
<1> QED
  BY <1>2, <1>3, <1>4, <1>5, <1>7, <1>8

LEMMA ImagesWritten ==
  ASSUME StorageInv, TypeInv, ImagesInv, NEW s \in Session, pc[s] = "linux", WriteBuffer
  PROVE  ImagesInv'
<1> DEFINE p == StatePath(root)
<1>1. s \in Booting /\ Copying = {} /\ UNCHANGED <<pc, root, synced, torn>>
  BY CopyingIs DEF WriteBuffer, Booting
<1>2. \A q \in Path : \A u \in Unit : View(file[q], u) # "zero" => View(file'[q], u) # "zero"
  BY WriteIs, ContentsDiffer DEF View
<1>3. HasExt4Magic(file[p])
  BY DEF ImagesInv, MakingInv
<1>4. 0 \in Unit /\ \A i \in RootImage : StatePath(i) \in Path
  BY Sizes, PathsDiffer
<1>5. \A i \in RootImage : HasExt4Magic(file'[StatePath(i)]) => HasExt4Magic(file[StatePath(i)])
  BY <1>3, <1>4, WriteIs DEF HasExt4Magic
<1>6. DiskInv(file', synced, Path \ torn)
  BY <1>1, <1>2, <1>4, <1>5, MoreIsWritten DEF ImagesInv
<1>7. HasExt4Magic(file'[p])
  BY <1>2, <1>3, <1>4, WriteIs DEF HasExt4Magic
<1>8. /\ \A t \in Session : MakingInv(pc'[t], file'[StatePath(root')], TemplateUnits[root'])
      /\ Copying' = {}
  <2>1. pc' = [pc EXCEPT ![s] = "linux"]
    BY <1>1 DEF StorageInv, LatchInv
  <2> QED BY <1>1, <1>7, <2>1, OwnStepOn
<1> QED
  BY <1>1, <1>6, <1>8 DEF ImagesInv

(* What reaches the disk is what the processes of the host see.            *)
LEMMA ImagesWrittenBack ==
  ASSUME StorageInv, TypeInv, ImagesInv, UNCHANGED <<pc, root, file, torn>>,
         \A q \in Path : View(synced'[q], 0) \in {View(synced[q], 0), View(file[q], 0)}
  PROVE  ImagesInv'
<1>1. \A i \in RootImage : StatePath(i) \in Path
  BY PathsDiffer
<1>2. DiskInv(file, synced', Path \ (torn \cup Copying))
  BY <1>1 DEF ImagesInv, DiskInv, HasExt4Magic
<1>3. Copying' = Copying
  BY DEF Copying
<1> QED
  BY <1>2, <1>3 DEF ImagesInv

LEMMA WrittenBackIs ==
  ASSUME TypeInv, \E p \in Path, sector \in Sector : WriteBack(p, sector)
  PROVE  /\ UNCHANGED <<pc, root, file, torn>>
         /\ \A q \in Path : \A u \in Unit : synced'[q][u] \in {synced[q][u], file[q][u]}
<1>1. synced \in [Path -> File] /\ file \in [Path -> File]
  BY DEF TypeInv, TypeOK
<1>2. ASSUME NEW p \in Path, NEW sector \in Sector, WriteBack(p, sector)
      PROVE  /\ UNCHANGED <<pc, root, file, torn>>
             /\ \A q \in Path : \A u \in Unit : synced'[q][u] \in {synced[q][u], file[q][u]}
  <2>1. /\ synced' = [synced EXCEPT ![p] =
                        [u \in Unit |-> IF u \in SectorPlaces(sector) THEN file[p][u] ELSE @[u]]]
        /\ UNCHANGED <<pc, root, file, torn>>
    BY <1>2 DEF WriteBack
  <2> QED BY <1>1, <2>1
<1> QED
  BY <1>2

(* A kill leaves the image that was being made torn; a loss of power also  *)
(* those that were not written back.                                       *)
LEMMA ImagesAfterEnd ==
  ASSUME TypeInv, ImagesInv, Kill \/ LosePower
  PROVE  ImagesInv'
<1>1. \A s \in Session : pc'[s] = "idle"
  BY DEF Kill, LosePower, ProcessEnds
<1>2. Copying' = {}
  BY <1>1 DEF Copying
<1>3. \A s \in Session : MakingInv(pc'[s], file'[StatePath(root')], TemplateUnits[root'])
  BY <1>1 DEF MakingInv
<1>4. CASE Kill
  BY <1>2, <1>3, <1>4 DEF Kill, ImagesInv
<1>5. CASE LosePower
  <2> DEFINE made == Path \ (torn \cup Copying)
  <2>1. DiskInv(file, synced, made) /\ \A i \in RootImage : StatePath(i) \in Path
    BY PathsDiffer DEF ImagesInv
  <2>2. /\ file' = synced /\ UNCHANGED synced
        /\ Path \ (torn' \cup Copying') = made \ NotWrittenBack
    BY <1>2, <1>5 DEF LosePower
  <2>3. \A q \in Path \ NotWrittenBack : \A u \in Unit :
          View(file[q], u) # "zero" => View(synced[q], u) # "zero"
    BY DEF NotWrittenBack
  <2>4. DiskInv(synced, synced, made \ NotWrittenBack)
    <3> SUFFICES ASSUME NEW i \in RootImage
                 PROVE  LET p == StatePath(i)
                        IN /\ p \in made \ NotWrittenBack /\ HasExt4Magic(synced[p]) =>
                                Whole(synced[p], TemplateUnits[i])
                           /\ i \in FileImages => HasExt4Magic(synced[p])
      BY DEF DiskInv
    <3>1. i \in FileImages => HasExt4Magic(synced[StatePath(i)])
      BY <2>1 DEF DiskInv
    <3>2. ASSUME StatePath(i) \in made \ NotWrittenBack, HasExt4Magic(synced[StatePath(i)])
          PROVE  Whole(synced[StatePath(i)], TemplateUnits[i])
      <4>1. Whole(file[StatePath(i)], TemplateUnits[i])
        BY <2>1, <3>2 DEF DiskInv
      <4> QED BY <2>1, <2>3, <3>2, <4>1 DEF Whole
    <3> QED BY <3>1, <3>2
  <2> QED BY <1>3, <2>2, <2>4 DEF ImagesInv
<1> QED
  BY <1>4, <1>5

-----------------------------------------------------------------------------
(* Answers are true.  The sectors of a device and the places of its file.  *)
LEMMA Times ==
  ASSUME NEW z \in Nat, NEW q \in Int, NEW k \in Int, q < k
  PROVE  z * q + z <= z * k
<1>1. PICK d \in Nat : k = q + 1 + d
  <2>1. k - q - 1 \in Nat /\ k = q + 1 + (k - q - 1)
    OBVIOUS
  <2> QED BY <2>1
<1>2. z * (q + 1 + d) = z * q + z + z * d /\ z * d >= 0
  OBVIOUS
<1> QED
  BY <1>1, <1>2

LEMMA CapacityIs ==
  ASSUME NEW d, sel[d].bytes \in 0..Units, sel[d].bytes % SectorUnits = 0,
         NEW u \in Unit, u \div SectorUnits < Capacity(d)
  PROVE  u < sel[d].bytes
<1>1. PICK z \in Nat \ {0}, n \in Nat : z = SectorUnits /\ n = sel[d].bytes
  BY Sizes
<1>2. PICK k \in Int, r \in 0..z - 1 : k = n \div z /\ r = n % z /\ n = z * k + r
  BY Division
<1>3. n = z * k
  BY <1>1, <1>2
<1>4. Capacity(d) = k
  <2>1. (z * k + (z - 1)) \div z = k /\ z - 1 \in 0..z - 1
    BY RemainderIsUnique
  <2>2. PICK a \in Int : a = n + z - 1
    OBVIOUS
  <2>3. a = z * k + (z - 1)
    BY <1>3, <2>2
  <2>4. a \div z = k
    BY <2>1, <2>3, Zenon
  <2>5. RoundUp(n) = k * z
    BY <1>1, <2>2, <2>4 DEF RoundUp
  <2>6. (z * k + 0) \div z = k
    BY RemainderIsUnique
  <2>7. PICK b \in Int : b = k * z
    OBVIOUS
  <2>8. b = z * k + 0
    BY <2>7
  <2>9. b \div z = k
    BY <2>6, <2>8, Zenon
  <2> QED BY <1>1, <2>5, <2>7, <2>9 DEF Capacity
<1>5. PICK q \in Int, e \in 0..z - 1 : q = u \div z /\ u = z * q + e
  <2>1. PICK v \in Int : v = u
    BY Sizes
  <2>2. PICK q \in Int, e \in 0..z - 1 : q = v \div z /\ e = v % z /\ v = z * q + e
    BY Division
  <2> QED BY <2>1, <2>2, Zenon
<1>6. q < k
  BY <1>1, <1>4, <1>5
<1>7. PICK x \in Int, y \in Int : x = z * q /\ y = z * k
  OBVIOUS
<1>8. x + z <= y
  BY <1>6, <1>7, Times
<1> QED
  BY <1>1, <1>3, <1>5, <1>7, <1>8

LEMMA Listing ==
  ASSUME NEW n \in Nat, NEW g
  PROVE  Append([k \in 1..n |-> g[k]], g[n + 1]) = [k \in 1..n + 1 |-> g[k]]
<1> DEFINE S == {g[k] : k \in 1..n + 1}
<1>1. PICK s : s = [k \in 1..n |-> g[k]]
  OBVIOUS
<1>2. PICK t : t = [k \in 1..n + 1 |-> g[k]]
  OBVIOUS
<1>3. s \in [1..n -> S] /\ t \in [1..n + 1 -> S] /\ g[n + 1] \in S
  BY <1>1, <1>2
<1> HIDE DEF S
<1>4. s \in Seq(S) /\ t \in Seq(S) /\ Len(s) = n /\ Len(t) = n + 1
  BY <1>3
<1>5. PICK a \in Seq(S) : /\ a = Append(s, g[n + 1]) /\ Len(a) = n + 1
                          /\ \A k \in 1..n : a[k] = s[k] /\ a[n + 1] = g[n + 1]
  <2>1. /\ Append(s, g[n + 1]) \in Seq(S) /\ Len(Append(s, g[n + 1])) = Len(s) + 1
        /\ \A k \in 1..Len(s) : Append(s, g[n + 1])[k] = s[k]
        /\ Append(s, g[n + 1])[Len(s) + 1] = g[n + 1]
    BY <1>3, <1>4, AppendProperties
  <2> QED BY <1>4, <2>1
<1>6. \A k \in 1..n + 1 : a[k] = t[k]
  <2>1. ASSUME NEW k \in 1..n + 1 PROVE a[k] = t[k]
    <3>1. CASE k = n + 1
      <4>1. a[n + 1] = g[n + 1] /\ t[n + 1] = g[n + 1]
        BY <1>2, <1>5
      <4> QED BY <3>1, <4>1
    <3>2. CASE k \in 1..n
      BY <1>1, <1>2, <1>5, <3>2
    <3> QED BY <3>1, <3>2
  <2> QED BY <2>1
<1>7. a = t
  BY <1>4, <1>5, <1>6, SeqEqual
<1> QED
  BY <1>1, <1>2, <1>5, <1>7

(* With no request, and no session that has its images, there is nothing   *)
(* to say but that base images are as they were.                           *)
LEMMA NothingServed ==
  ASSUME RequestInv, \A i \in RootImage : file'[BasePath(i)] = file[BasePath(i)],
         req'.type = "none", \A s \in Session : pc'[s] \notin {"initrd", "linux"}
  PROVE  RequestInv'
BY DEF RequestInv, Served

LEMMA InitRequestInv == Init => RequestInv
<1> SUFFICES ASSUME Init PROVE RequestInv
  OBVIOUS
<1>1. req.type = "none" /\ \A s \in Session : pc[s] \notin {"initrd", "linux"}
  BY DEF Init, NoRequest
<1>2. \A i \in RootImage : file[BasePath(i)] = Image(BaseUnits[i])
  BY DEF Init
<1> QED
  BY <1>1, <1>2 DEF RequestInv, Served

(* A step that leaves alone all that a request is about.                   *)
LEMMA ServedAsBefore ==
  ASSUME RequestInv, UNCHANGED <<file, sel, req>>,
         \A s \in Session : pc'[s] = "linux" <=> pc[s] = "linux",
         \A s \in Session : pc'[s] = "initrd" <=> pc[s] = "initrd"
  PROVE  RequestInv'
<1>1. \A s \in Session : pc'[s] \in {"initrd", "linux"} <=> pc[s] \in {"initrd", "linux"}
  OBVIOUS
<1>2. Running' = Running
  BY DEF Running
<1>3. Capacity(req.dev)' = Capacity(req.dev)
  BY DEF Capacity
<1> QED
  BY <1>1, <1>2, <1>3 DEF RequestInv

(* The steps of the sessions: those that have not the latch touch nothing, *)
(* and while one boots there is no request.                                *)
LEMMA NoRequestYet ==
  ASSUME StorageInv, TypeInv, RequestInv, NEW s \in Booting, pc[s] # "linux"
  PROVE  /\ req.type = "none"
         /\ \A t \in Session : t # s => pc[t] \in {"idle", "register"}
  BY CopyingIs DEF RequestInv, Running

LEMMA SessionsAround ==
  ASSUME StorageInv, TypeInv, RequestInv, NEW s \in Session,
         \/ ClearImages(s) \/ RegisterImage(s) \/ RegistrationFails(s) \/ AlreadyStarted(s)
         \/ TakeLatch(s)
  PROVE  RequestInv'
<1>1. /\ UNCHANGED <<file, sel, req>> /\ pc[s] \in {"idle", "register"}
      /\ \/ pc' = pc
         \/ \E step \in {"idle", "register", "select"} : pc' = [pc EXCEPT ![s] = step]
  BY DEF ClearImages, RegisterImage, RegistrationFails, AlreadyStarted, TakeLatch
<1>2. pc \in [Session -> Step]
  BY DEF StorageInv, LatchInv
<1>3. \A t \in Session : /\ pc'[t] = "linux" <=> pc[t] = "linux"
                         /\ pc'[t] = "initrd" <=> pc[t] = "initrd"
  BY <1>1, <1>2
<1> QED
  BY <1>1, <1>3, ServedAsBefore

LEMMA SessionsPrepare ==
  ASSUME StorageInv, TypeInv, RequestInv, NEW s \in Session,
         \/ SelectNothing(s) \/ SelectBundled(s) \/ CopyTemplate(s) \/ TemplateCopied(s)
         \/ HostIsFull(s) \/ LoadFails(s) \/ (LoadInitrd(s) /\ Lookup(s) = {}),
         \A i \in RootImage : file'[BasePath(i)] = file[BasePath(i)]
  PROVE  RequestInv'
<1>1. /\ s \in Booting /\ pc[s] # "linux" /\ UNCHANGED req
      /\ \/ pc[s] = "copy" /\ pc' = pc
         \/ \E step \in {"idle", "copy", "extend"} : pc' = [pc EXCEPT ![s] = step]
  BY DEF SelectNothing, SelectBundled, CopyTemplate, TemplateCopied, HostIsFull, LoadFails,
         LoadInitrd, InvalidConfig, Booting, processVars
<1>2. pc \in [Session -> Step]
  BY DEF StorageInv, LatchInv
<1>3. req'.type = "none"
  BY <1>1, NoRequestYet
<1>4. \A t \in Session : pc'[t] \notin {"initrd", "linux"}
  <2>1. \A t \in Session : t # s => pc[t] \in {"idle", "register"}
    BY <1>1, NoRequestYet
  <2> QED BY <1>1, <1>2, <2>1
<1> QED
  BY <1>3, <1>4, NothingServed

LEMMA SessionEnters ==
  ASSUME StorageInv, TypeInv, RequestInv, NEW s \in Session, LoadInitrd(s), Lookup(s) # {}
  PROVE  RequestInv'
<1>1. pc[s] = "initrd" /\ s \in Booting /\ UNCHANGED <<file, sel, req>>
  BY DEF LoadInitrd, EnterLinux, Booting
<1>2. req'.type = "none"
  BY <1>1, NoRequestYet
<1>3. DevicesEnd(file, sel)
  BY <1>1 DEF RequestInv
<1> QED
  BY <1>1, <1>2, <1>3 DEF RequestInv, Served

(* What is selected ends where the file ends.                              *)
LEMMA SessionSelects ==
  ASSUME StorageInv, TypeInv, RequestInv, NEW s \in Session, SelectFiles(s) \/ SelectImages(s),
         \A i \in RootImage : file'[BasePath(i)] = file[BasePath(i)]
  PROVE  RequestInv'
<1> DEFINE p == StatePath(root')
           b == BasePath(root')
<1>1. /\ s \in Booting /\ pc[s] # "linux" /\ UNCHANGED req
      /\ file' = [file EXCEPT ![p] = Extended(@)] /\ sel' = Selection(root')
  BY SelectsRoot DEF SelectFiles, SelectImages, Booting
<1>2. req'.type = "none"
  BY <1>1, NoRequestYet
<1>3. root' \in RootImage /\ p \in Path /\ file \in [Path -> File] /\ file[p] \in File
  BY SelectsRoot, PathsDiffer DEF TypeInv, TypeOK
<1>4. /\ sel'[0].path = b /\ sel'[0].bytes = BaseUnits[root']
      /\ sel'[1].path = p /\ sel'[1].bytes = ImageUnits(file[p])
  BY <1>1 DEF Selection
<1>5. \A u \in Unit : u >= sel'[0].bytes => View(file'[sel'[0].path], u) = "zero"
  <2>1. file'[b] = Image(BaseUnits[root'])
    BY <1>3 DEF RequestInv
  <2>2. BaseUnits[root'] \in 0..Units
    BY <1>3, Sizes
  <2>3. \A u \in Unit : ~(u >= BaseUnits[root']) <=> u < BaseUnits[root']
    BY <2>2, Sizes
  <2> QED BY <1>4, <2>1, <2>2, <2>3, ImageIs
<1>6. /\ \A u \in Unit : u >= sel'[1].bytes => View(file'[sel'[1].path], u) = "zero"
      /\ sel'[1].bytes % SectorUnits = 0
  <2>1. file'[p] = Extended(file[p])
    BY <1>1, <1>3
  <2> QED BY <1>3, <1>4, <2>1, ExtendedIs, ImageUnitsIs
<1>7. DevicesEnd(file', sel')
  BY <1>5, <1>6 DEF DevicesEnd
<1>8. \A i \in RootImage : file'[BasePath(i)] = Image(BaseUnits[i])
  BY DEF RequestInv
<1> QED
  BY <1>2, <1>7, <1>8 DEF RequestInv, Served

(* While a request is served, Linux runs, on the images of its session.    *)
LEMMA ServedIsOf ==
  ASSUME StorageInv, TypeInv, RequestInv, req.type # "none"
  PROVE  /\ \E s \in Session : pc[s] = "linux" /\ sel[StateDevice].path = StatePath(root)
                               /\ sel[BaseDevice].path = BasePath(root)
         /\ \A d \in Device : sel[d].path \in Path /\ sel[d].bytes \in 0..Units
         /\ DevicesEnd(file, sel) /\ req.sector + req.count <= Capacity(req.dev)
         /\ req.dev \in Device /\ req.sector \in Nat /\ req.count \in Nat /\ req.done \in 0..req.count
<1>1. PICK s \in Session : pc[s] = "linux"
  BY DEF RequestInv, Running
<1>2. sel[1].path = StatePath(root) /\ sel[0].path = BasePath(root)
  BY <1>1 DEF StorageInv, LatchInv, Disks
<1>3. \A d \in Device : sel[d].path \in Path /\ sel[d].bytes \in 0..Units
  BY <1>1, <1>2, RootIsImage, PathsDiffer DEF TypeInv, TypeOK
<1>4. /\ DevicesEnd(file, sel) /\ req.sector + req.count <= Capacity(req.dev)
      /\ req.dev \in Device /\ req.sector \in Nat /\ req.count \in Nat /\ req.done \in 0..req.count
  BY <1>1, Sizes DEF RequestInv, TypeInv, TypeOK
<1> QED
  BY <1>1, <1>2, <1>3, <1>4

LEMMA RequestSubmitted ==
  ASSUME RequestInv, NEW type \in RequestType \ {"none"}, NEW d \in Device, NEW sector \in Sector,
         NEW n \in 0..MaxBuffers, NEW v, SubmitRequest(type, d, sector, n, v)
  PROVE  RequestInv'
<1>1. UNCHANGED <<pc, sel, file>> /\ Running /\ sector + n <= Capacity(d)
  BY DEF SubmitRequest
<1>2. Running' = Running /\ Capacity(d)' = Capacity(d)
  BY <1>1 DEF Running, Capacity
<1>3. /\ req'.type = type /\ req'.dev = d /\ req'.sector = sector /\ req'.count = n
      /\ req'.value = v /\ req'.done = 0 /\ req'.data = <<>>
  BY SubmittedIs
<1>4. Served(req', file'[sel'[req'.dev].path])
  <2>1. \A g : [k \in 1..0 |-> g[k]] = <<>>
    OBVIOUS
  <2> QED BY <1>3, <2>1 DEF Served
<1>5. \A i \in RootImage : file'[BasePath(i)] = Image(BaseUnits[i])
  BY <1>1 DEF RequestInv
<1>6. (\E s \in Session : pc'[s] \in {"initrd", "linux"}) => DevicesEnd(file', sel')
  BY <1>1 DEF RequestInv
<1>7. Capacity(req.dev)' = Capacity(d)'
  BY <1>3
<1> QED
  BY <1>1, <1>2, <1>3, <1>4, <1>5, <1>6, <1>7 DEF RequestInv

(* A buffer is read: it holds the places of its sector.                    *)
LEMMA BufferRead ==
  ASSUME StorageInv, TypeInv, RequestInv, ReadBuffer
  PROVE  RequestInv'
<1> DEFINE f == file[sel[req.dev].path]
           places(k) == SectorPlaces(req.sector + k - 1)
<1>1. /\ UNCHANGED <<pc, sel, file>> /\ req.type = "in" /\ req.done < req.count
      /\ req'.type = req.type /\ req'.dev = req.dev /\ req'.sector = req.sector
      /\ req'.count = req.count /\ req'.value = req.value /\ req'.done = req.done + 1
      /\ req'.data = Append(req.data, BlockRead(req.dev, NextSector))
  BY ServedIs DEF ReadBuffer
<1>2. /\ DevicesEnd(file, sel) /\ req.dev \in Device /\ req.done \in Nat /\ req.sector \in Nat
      /\ sel[req.dev].bytes \in 0..Units
  BY <1>1, ServedIsOf
<1>3. BlockRead(req.dev, NextSector) = [u \in places(req.done + 1) |-> View(f, u)]
  <2>1. NextSector = req.sector + (req.done + 1) - 1
    BY <1>2 DEF NextSector
  <2>2. SectorPlaces(NextSector) = places(req.done + 1)
    BY <2>1
  <2>3. \A u \in SectorPlaces(NextSector) :
          (IF u < sel[req.dev].bytes THEN View(f, u) ELSE "zero") = View(f, u)
    <3>1. \A u \in SectorPlaces(NextSector) : u \in Unit /\ u \in Int
      BY Sizes DEF SectorPlaces
    <3>2. \A u \in Unit : u >= sel[req.dev].bytes => View(f, u) = "zero"
      BY <1>2 DEF DevicesEnd
    <3> QED BY <1>2, <3>1, <3>2, Sizes
  <2> QED BY <2>2, <2>3 DEF BlockRead
<1>4. PICK g : g = [k \in 1..req.done + 1 |-> [u \in places(k) |-> View(f, u)]]
  OBVIOUS
<1>5. req.data = [k \in 1..req.done |-> g[k]]
  <2>1. req.data = [k \in 1..req.done |-> [u \in places(k) |-> View(f, u)]]
    BY <1>1 DEF RequestInv, Served
  <2>2. \A k \in 1..req.done : g[k] = [u \in places(k) |-> View(f, u)]
    BY <1>2, <1>4
  <2> QED BY <2>1, <2>2
<1>6. g[req.done + 1] = [u \in places(req.done + 1) |-> View(f, u)]
  BY <1>2, <1>4
<1>7. req'.data = [k \in 1..req.done + 1 |-> g[k]]
  BY <1>1, <1>2, <1>3, <1>5, <1>6, Listing
<1>8. req'.data = [k \in 1..req'.done |-> [u \in SectorPlaces(req'.sector + k - 1) |-> View(f, u)]]
  <2>1. \A k \in 1..req.done + 1 : g[k] = [u \in places(k) |-> View(f, u)]
    BY <1>4
  <2>2. [k \in 1..req.done + 1 |-> g[k]] = [k \in 1..req.done + 1 |-> [u \in places(k) |-> View(f, u)]]
    BY <2>1
  <2> QED BY <1>1, <1>7, <2>2
<1>9. Served(req', f)
  BY <1>1, <1>8 DEF Served
<1>10. Running' = Running /\ Capacity(req.dev)' = Capacity(req.dev)
  BY <1>1 DEF Running, Capacity
<1> QED
  BY <1>1, <1>9, <1>10 DEF RequestInv

(* A buffer is written: within the device, so that it still ends where its *)
(* file ends, and over no buffer of the request but with its own data.     *)
LEMMA BufferWritten ==
  ASSUME StorageInv, TypeInv, RequestInv, WriteBuffer,
         \A i \in RootImage : file'[BasePath(i)] = file[BasePath(i)]
  PROVE  RequestInv'
<1>1. /\ UNCHANGED <<pc, sel>> /\ req.type = "out" /\ req.done < req.count
      /\ req'.type = req.type /\ req'.dev = req.dev /\ req'.sector = req.sector
      /\ req'.count = req.count /\ req'.value = req.value /\ req'.done = req.done + 1
  BY ServedIs DEF WriteBuffer
<1>2. PICK s \in Session : /\ pc[s] = "linux" /\ sel[1].path = StatePath(root)
                          /\ sel[0].path = BasePath(root)
  BY <1>1, ServedIsOf
<1>3. PICK p : p = StatePath(root)
  OBVIOUS
<1>4. /\ req.dev = 1 /\ p \in Path /\ req.value \in Value
      /\ \A q \in Path \ {p} : file'[q] = file[q]
      /\ \A u \in Unit : file'[p][u] = IF u \in SectorPlaces(NextSector) THEN req.value
                                                                    ELSE file[p][u]
  BY <1>2, <1>3, WriteIs
<1>5. /\ DevicesEnd(file, sel) /\ req.done \in Nat /\ req.sector \in Nat /\ req.count \in Nat
      /\ sel[1].bytes \in 0..Units /\ req.sector + req.count <= Capacity(1)
  BY <1>1, <1>4, ServedIsOf
<1>6. \A u \in SectorPlaces(NextSector) : u \in Unit /\ u < sel[1].bytes
  <2>1. ASSUME NEW u \in SectorPlaces(NextSector) PROVE u \in Unit /\ u < sel[1].bytes
    <3>1. u \in Unit /\ u \div SectorUnits = req.sector + req.done
      BY DEF SectorPlaces, NextSector
    <3>2. PICK c : c = Capacity(1)
      OBVIOUS
    <3>3. c \in Int
      <4>1. PICK n \in 0..Units : n = sel[1].bytes
        BY <1>5
      <4>2. PICK m \in n..Units : m = RoundUp(n)
        BY RoundUpIs
      <4>3. PICK r \in Int : r = RoundUp(sel[1].bytes)
        BY <4>1, <4>2
      <4>4. r \div SectorUnits \in Int
        BY Sizes, DivisionWithRemainder
      <4> QED BY <3>2, <4>3, <4>4 DEF Capacity
    <3>4. u \div SectorUnits < Capacity(1)
      <4>1. req.sector + req.done < c
        BY <1>1, <1>5, <3>2, <3>3
      <4> QED BY <3>1, <3>2, <4>1
    <3>5. sel[1].bytes % SectorUnits = 0
      BY <1>5 DEF DevicesEnd
    <3> QED BY <1>5, <3>1, <3>4, <3>5, CapacityIs
  <2> QED BY <2>1
<1>7. DevicesEnd(file', sel)
  <2>1. \A u \in Unit : u >= sel[0].bytes => View(file'[sel[0].path], u) = "zero"
    <3>1. file'[sel[0].path] = file[sel[0].path]
      BY <1>2, RootIsImage
    <3> QED BY <1>5, <3>1 DEF DevicesEnd
  <2>2. \A u \in Unit : u >= sel[1].bytes => View(file'[sel[1].path], u) = "zero"
    <3>1. \A u \in Unit : u >= sel[1].bytes => u \notin SectorPlaces(NextSector)
      BY <1>5, <1>6, Sizes
    <3>2. \A u \in Unit : u >= sel[1].bytes => View(file[p], u) = "zero"
      BY <1>2, <1>3, <1>5 DEF DevicesEnd
    <3> QED BY <1>2, <1>3, <1>4, <3>1, <3>2 DEF View
  <2> QED BY <1>5, <2>1, <2>2 DEF DevicesEnd
<1>8. Served(req', file'[p])
  <2>1. \A k \in 1..req.done : \A u \in SectorPlaces(req.sector + k - 1) : file[p][u] = req.value
    BY <1>1, <1>2, <1>3, <1>4 DEF RequestInv, Served
  <2>2. ASSUME NEW k \in 1..req.done + 1, NEW u \in SectorPlaces(req.sector + k - 1)
        PROVE  file'[p][u] = req.value
    <3>1. u \in Unit
      BY DEF SectorPlaces
    <3>2. CASE k \in 1..req.done
      BY <1>4, <2>1, <3>1, <3>2
    <3>3. CASE k = req.done + 1
      <4>1. req.sector + k - 1 = NextSector
        BY <1>5, <3>3 DEF NextSector
      <4> QED BY <1>4, <3>1, <4>1
    <3> QED BY <1>5, <3>2, <3>3
  <2> QED BY <1>1, <2>2 DEF Served
<1>9. Running' = Running /\ Capacity(req.dev)' = Capacity(req.dev)
  BY <1>1 DEF Running, Capacity
<1> QED
  BY <1>1, <1>2, <1>3, <1>4, <1>7, <1>8, <1>9 DEF RequestInv

LEMMA StepRequestInv ==
  ASSUME StorageInv, TypeInv, RequestInv, [Next]_vars
  PROVE  RequestInv'
<1> USE BaseStep
<1>1. ASSUME NEW s \in Session, Boot(s) PROVE RequestInv'
  <2>1. CASE \/ ClearImages(s) \/ RegisterImage(s) \/ RegistrationFails(s) \/ AlreadyStarted(s)
             \/ TakeLatch(s)
    BY <2>1, SessionsAround
  <2>2. CASE \/ SelectNothing(s) \/ SelectBundled(s) \/ CopyTemplate(s) \/ TemplateCopied(s)
             \/ HostIsFull(s) \/ LoadFails(s) \/ (LoadInitrd(s) /\ Lookup(s) = {})
    BY <2>2, SessionsPrepare
  <2>3. CASE SelectFiles(s) \/ SelectImages(s)
    BY <2>3, SessionSelects
  <2>4. CASE LoadInitrd(s) /\ Lookup(s) # {}
    BY <2>4, SessionEnters
  <2> QED
    BY <1>1, <2>1, <2>2, <2>3, <2>4 DEF Boot
<1>2. CASE Kill \/ LosePower
  <2>1. req'.type = "none" /\ \A s \in Session : pc'[s] \notin {"initrd", "linux"}
    BY <1>2 DEF Kill, LosePower, ProcessEnds, NoRequest
  <2> QED BY <2>1, NothingServed
<1>3. CASE ReadBuffer
  BY <1>3, BufferRead
<1>4. CASE WriteBuffer
  BY <1>4, BufferWritten
<1>5. CASE BufferFails \/ Succeeds \/ Flush
  <2>1. req'.type = "none" /\ UNCHANGED <<pc, sel, file>>
    BY <1>5 DEF BufferFails, Succeeds, Flush, Answered, NoRequest
  <2> QED BY <2>1 DEF RequestInv, Served
<1>6. CASE (\E p \in Path, sector \in Sector : WriteBack(p, sector)) \/ UNCHANGED vars
  <2>1. UNCHANGED <<pc, file, sel, req>>
    BY <1>6 DEF WriteBack
  <2> QED BY <2>1, ServedAsBefore
<1>7. ASSUME NEW type \in RequestType \ {"none"}, NEW d \in Device, NEW sector \in Sector,
             NEW n \in 0..MaxBuffers, NEW v, SubmitRequest(type, d, sector, n, v)
      PROVE RequestInv'
  BY <1>7, RequestSubmitted
<1> QED
  BY <1>1, <1>2, <1>3, <1>4, <1>5, <1>6, <1>7 DEF Next

LEMMA StepImagesInv ==
  ASSUME OneTemplate, StorageInv, TypeInv, RequestInv, ImagesInv, [Next]_vars
  PROVE  ImagesInv'
<1>1. ASSUME NEW s \in Session, Boot(s) PROVE ImagesInv'
  <2>1. CASE \/ ClearImages(s) \/ RegisterImage(s) \/ RegistrationFails(s) \/ AlreadyStarted(s)
             \/ TakeLatch(s) \/ SelectNothing(s) \/ LoadInitrd(s) \/ LoadFails(s)
    BY <2>1, ImagesAround
  <2>2. CASE SelectFiles(s) \/ SelectImages(s)
    BY <2>2, ImagesSelected
  <2>3. CASE SelectBundled(s)
    BY <2>3, ImagesMade
  <2>4. CASE CopyTemplate(s)
    BY <2>4, ImagesCopied
  <2>5. CASE TemplateCopied(s)
    BY <2>5, ImagesComplete
  <2>6. CASE HostIsFull(s)
    BY <2>6, ImagesGivenUp
  <2> QED
    BY <1>1, <2>1, <2>2, <2>3, <2>4, <2>5, <2>6 DEF Boot
<1>2. CASE Kill \/ LosePower
  BY <1>2, ImagesAfterEnd
<1>3. CASE WriteBuffer
  <2>1. PICK s \in Session : pc[s] = "linux"
    BY <1>3 DEF WriteBuffer, RequestInv, Running
  <2> QED BY <1>3, <2>1, ImagesWritten
<1>4. CASE \E p \in Path, sector \in Sector : WriteBack(p, sector)
  <2>1. \A q \in Path : View(synced'[q], 0) \in {View(synced[q], 0), View(file[q], 0)}
    <3>1. 0 \in Unit
      BY Sizes
    <3> QED BY <1>4, <3>1, WrittenBackIs DEF View
  <2> QED BY <1>4, <2>1, WrittenBackIs, ImagesWrittenBack
<1>5. ASSUME UNCHANGED <<pc, root, file, synced, torn>> PROVE ImagesInv'
  BY <1>5, ImagesLeftAlone DEF Copying
<1>6. CASE ReadBuffer \/ BufferFails \/ Succeeds \/ Flush \/ UNCHANGED vars
  BY <1>5, <1>6 DEF ReadBuffer, BufferFails, Succeeds, Flush, Answered
<1>7. ASSUME NEW type, NEW d, NEW sector, NEW n, NEW v, SubmitRequest(type, d, sector, n, v)
      PROVE  ImagesInv'
  BY <1>5, <1>7 DEF SubmitRequest
<1> QED
  BY <1>1, <1>2, <1>3, <1>4, <1>6, <1>7 DEF Next

-----------------------------------------------------------------------------
LEMMA AnswersHold ==
  ASSUME StorageInv, TypeInv, RequestInv, Succeeds
  PROVE  AnswerIsTrue
<1>1. req.type # "none" /\ Served(req, file[sel[req.dev].path])
  BY DEF Succeeds, RequestInv
<1> QED
  BY <1>1 DEF Succeeds, Served, AnswerIsTrue

(* The invariants of requests, for every boot, kill and loss of power.     *)
THEOREM StorageAnswers == Spec => AnswersAreTrue
<1>1. StorageInv /\ TypeInv /\ RequestInv => [Succeeds => AnswerIsTrue]_vars
  BY AnswersHold
<1>2. Init => StorageInv /\ TypeInv /\ RequestInv
  BY InitStorageInv, InitTypeInv, InitRequestInv
<1>3. StorageInv /\ TypeInv /\ RequestInv /\ [Next]_vars => (StorageInv /\ TypeInv /\ RequestInv)'
  BY StepStorageInv, StepTypeInv, StepRequestInv
<1> QED
  BY <1>1, <1>2, <1>3, PTL DEF Spec, AnswersAreTrue

(* A state image that Linux gets is whole, unless its making was           *)
(* interrupted, when no two templates have the same file name.             *)
LEMMA WholeHolds == StorageInv /\ ImagesInv => WholeUnlessInterrupted
<1> SUFFICES ASSUME StorageInv, ImagesInv, NEW s \in Session, pc[s] = "linux",
                    StatePath(root) \notin torn
             PROVE  Whole(file[StatePath(root)], TemplateUnits[root])
  BY DEF WholeUnlessInterrupted, Whole, Running
<1>1. Copying = {}
  BY CopyingIs DEF Booting
<1>2. HasExt4Magic(file[StatePath(root)])
  BY DEF ImagesInv, MakingInv
<1> QED
  BY <1>1, <1>2, RootIsImage, PathsDiffer DEF ImagesInv, DiskInv

THEOREM ImagesAreWhole == OneTemplate => (Spec => []WholeUnlessInterrupted)
<1> SUFFICES ASSUME OneTemplate PROVE Spec => []WholeUnlessInterrupted
  OBVIOUS
<1> DEFINE Inv == StorageInv /\ TypeInv /\ RequestInv /\ ImagesInv
<1>1. Init => Inv
  BY InitStorageInv, InitTypeInv, InitRequestInv, InitImagesInv
<1>2. Inv /\ [Next]_vars => Inv'
  BY StepStorageInv, StepTypeInv, StepRequestInv, StepImagesInv
<1>3. Inv => WholeUnlessInterrupted
  BY WholeHolds
<1> QED
  BY <1>1, <1>2, <1>3, PTL DEF Spec

-----------------------------------------------------------------------------
(* The state images implement a durable disk.  What Linux sees of them.    *)
LEMMA SeenIs ==
  ASSUME NEW f, NEW p \in StatePaths
  PROVE  /\ Seen(f)[p] = [u \in Unit |-> View(f[p], u)]
         /\ \A u \in Unit : Seen(f)[p][u] = View(f[p], u)
BY DEF Seen, View

LEMMA ViewIs ==
  ASSUME NEW f \in File, NEW u \in Unit
  PROVE  View(f, u) \in Content
BY ContentsDiffer DEF View, File

LEMMA SeenSame ==
  ASSUME NEW f, NEW h, \A p \in StatePaths : \A u \in Unit : View(h[p], u) = View(f[p], u)
  PROVE  Seen(h) = Seen(f)
<1>1. PICK a : a = Seen(f) /\ a = [p \in StatePaths |-> a[p]]
  BY DEF Seen
<1>2. PICK b : b = Seen(h) /\ b = [p \in StatePaths |-> b[p]]
  BY DEF Seen
<1>3. ASSUME NEW p \in StatePaths PROVE a[p] = b[p]
  <2>1. a[p] = [u \in Unit |-> View(f[p], u)] /\ b[p] = [u \in Unit |-> View(h[p], u)]
    BY <1>1, <1>2 DEF Seen, View
  <2> QED BY <2>1
<1> QED
  BY <1>1, <1>2, <1>3

Put(contents, p, g) == [contents EXCEPT ![p] = g]
Becomes(f, h, p, g) ==
  /\ p \in StatePaths /\ g \in [Unit -> Content]
  /\ \A q \in StatePaths \ {p} : \A u \in Unit : View(h[q], u) = View(f[q], u)
  /\ \A u \in Unit : View(h[p], u) = g[u]
LEMMA SeenChanged ==
  ASSUME NEW f, NEW h, NEW p, NEW g, Becomes(f, h, p, g)
  PROVE  Seen(h) = Put(Seen(f), p, g)
<1> USE DEF Becomes
<1>1. PICK a : a = Seen(f) /\ a = [q \in StatePaths |-> a[q]]
  BY DEF Seen
<1>2. PICK b : b = Seen(h) /\ b = [q \in StatePaths |-> b[q]]
  BY DEF Seen
<1>3. ASSUME NEW q \in StatePaths \ {p} PROVE a[q] = b[q]
  <2>1. q \in StatePaths
    OBVIOUS
  <2>2. a[q] = [u \in Unit |-> View(f[q], u)] /\ b[q] = [u \in Unit |-> View(h[q], u)]
    BY <1>1, <1>2, <2>1 DEF Seen, View
  <2> QED BY <2>2
<1>4. b[p] = g
  <2>1. PICK c : c = b[p] /\ c = [u \in Unit |-> View(h[p], u)]
    BY <1>2, SeenIs
  <2>2. \A u \in Unit : c[u] = g[u]
    BY <2>1
  <2> QED BY <2>1, <2>2
<1>5. b = [a EXCEPT ![p] = g]
  BY <1>1, <1>2, <1>3, <1>4
<1> QED
  BY <1>1, <1>2, <1>5 DEF Put

(* The template of an image is as long as that of any identifier that has  *)
(* it.                                                                     *)
LEMMA TemplateIs ==
  ASSUME OneTemplate, NEW i \in RootImage
  PROVE  /\ StatePath(i) \in StatePaths
         /\ Template[StatePath(i)] = [u \in Unit |-> IF u < TemplateUnits[i] THEN "image" ELSE "zero"]
         /\ \A u \in Unit : Template[StatePath(i)][u] = IF u < TemplateUnits[i] THEN "image" ELSE "zero"
<1>1. PICK p : p = StatePath(i)
  OBVIOUS
<1>2. p \in StatePaths
  BY <1>1 DEF StatePaths
<1>3. \A u \in Unit : (\E j \in RootImage : p = StatePath(j) /\ u < TemplateUnits[j]) <=> u < TemplateUnits[i]
  BY <1>1 DEF OneTemplate
<1>4. Template[p] = [u \in Unit |-> IF \E j \in RootImage : p = StatePath(j) /\ u < TemplateUnits[j]
                                    THEN "image" ELSE "zero"]
  BY <1>2 DEF Template
<1>5. Template[p] = [u \in Unit |-> IF u < TemplateUnits[i] THEN "image" ELSE "zero"]
  BY <1>3, <1>4
<1>6. \A u \in Unit : Template[p][u] = IF u < TemplateUnits[i] THEN "image" ELSE "zero"
  BY <1>5
<1> QED
  BY <1>1, <1>2, <1>5, <1>6

LEMMA DurableInit == OneTemplate /\ Init => Durable!DInit
<1> SUFFICES ASSUME OneTemplate, Init PROVE Durable!DInit
  OBVIOUS
<1> DEFINE Zeros == [u \in Unit |-> "zero"]
           Fresh == {Template[p] : p \in StatePaths}
<1>1. Copying = {}
  BY DEF Init, Copying
<1>2. Seen(synced) = Seen(file)
  BY DEF Init
<1>3. ASSUME NEW p \in StatePaths PROVE Seen(file)[p] \in Fresh \cup {Zeros}
  <2>1. PICK i \in RootImage : p = StatePath(i)
    BY DEF StatePaths
  <2>2. PICK f : f = file[p]
    OBVIOUS
  <2>3. \A n \in 0..Units : \A u \in Unit : View(Image(n), u) = IF u < n THEN "image" ELSE "zero"
    BY DEF View, Image
  <2>4. CASE i \in FileImages
    <3>1. f = Image(TemplateUnits[i]) /\ TemplateUnits[i] \in 0..Units
      BY <2>1, <2>2, <2>4, Sizes DEF Init
    <3>2. \A u \in Unit : View(f, u) = IF u < TemplateUnits[i] THEN "image" ELSE "zero"
      BY <2>3, <3>1
    <3>3. [u \in Unit |-> View(f, u)] = Template[p]
      BY <2>1, <3>2, TemplateIs
    <3> QED BY <2>2, <3>3, SeenIs
  <2>5. CASE i \notin FileImages
    <3>1. f = Image(0) /\ 0 \in 0..Units
      BY <2>1, <2>2, <2>5, Sizes DEF Init
    <3>2. \A u \in Unit : View(f, u) = "zero"
      BY <2>3, <3>1, Sizes
    <3>3. [u \in Unit |-> View(f, u)] = Zeros
      BY <3>2
    <3>4. Seen(file)[p] = Zeros
      BY <2>2, <3>3 DEF Seen, View
    <3> QED BY <3>4, Zenon
  <2> QED BY <2>4, <2>5
<1>4. Seen(file) \in [StatePaths -> Fresh \cup {Zeros}]
  <2>1. Seen(file) = [p \in StatePaths |-> Seen(file)[p]]
    BY DEF Seen
  <2> QED BY <1>3, <2>1
<1> QED
  BY <1>1, <1>2, <1>4 DEF Durable!DInit

(* Steps that Linux does not see.                                          *)
LEMMA NotSeen ==
  ASSUME \A p \in StatePaths : \A u \in Unit : View(file'[p], u) = View(file[p], u),
         \A p \in StatePaths : \A u \in Unit : View(synced'[p], u) = View(synced[p], u),
         Copying' = Copying
  PROVE  [Durable!DNext]_(Durable!dVars)
<1>1. Seen(file') = Seen(file) /\ Seen(synced') = Seen(synced)
  BY SeenSame
<1>2. Seen(file)' = Seen(file) /\ Seen(synced)' = Seen(synced)
  BY <1>1 DEF Seen
<1> QED
  BY <1>2 DEF Durable!dVars

(* Sessions.  Only the making of an image changes what Linux sees.         *)
LEMMA StatePathsAre == \A i \in RootImage : StatePath(i) \in StatePaths /\ StatePaths \subseteq Path
BY PathsDiffer DEF StatePaths

LEMMA MakesAgain ==
  ASSUME StorageInv, TypeInv, NEW s \in Session, SelectBundled(s),
         ~HasExt4Magic(file[StatePath(root')])
  PROVE  [Durable!DNext]_(Durable!dVars)
<1>1. PICK p : p = StatePath(root')
  OBVIOUS
<1>2. /\ file' = [file EXCEPT ![p] = Image(0)] /\ pc' = [pc EXCEPT ![s] = "copy"]
      /\ UNCHANGED synced /\ s \in Booting /\ pc[s] # "copy"
  BY <1>1, MakesRoot DEF SelectBundled, Booting
<1>3. p \in StatePaths /\ p \in Path /\ file \in [Path -> File]
  BY <1>1, MakesRoot, StatePathsAre DEF TypeInv, TypeOK
<1>4. PICK g : g = [u \in Unit |-> "zero"]
  OBVIOUS
<1>5. Seen(file') = Put(Seen(file), p, g)
  <2>1. \A u \in Unit : View(file'[p], u) = g[u]
    BY <1>2, <1>3, <1>4, Sizes DEF View, Image
  <2>2. \A q \in StatePaths \ {p} : \A u \in Unit : View(file'[q], u) = View(file[q], u)
    BY <1>2, <1>3, StatePathsAre
  <2>3. g \in [Unit -> Content]
    BY <1>4, ContentsDiffer
  <2>4. Becomes(file, file', p, g)
    BY <1>3, <2>1, <2>2, <2>3 DEF Becomes
  <2> QED BY <2>4, SeenChanged
<1>6. Copying = {} /\ Copying' = {p}
  <2>1. /\ \A t \in Session : t # s => pc[t] \in {"idle", "register"}
        /\ Copying = {} /\ pc \in [Session -> Step] /\ s \in Session
    BY <1>2, CopyingIs DEF StorageInv, LatchInv
  <2>2. \A t \in Session : pc'[t] = "copy" <=> t = s
    BY <1>2, <2>1
  <2> QED BY <1>1, <2>1, <2>2 DEF Copying
<1>7. Seen(file)[p][0] = "zero"
  <2>1. 0 \in Unit
    BY Sizes
  <2> QED BY <1>1, <1>3, <2>1, SeenIs DEF HasExt4Magic
<1>8. Durable!StartMaking(p)
  <2>1. Seen(file)' = Seen(file') /\ Seen(synced)' = Seen(synced)
    BY <1>2 DEF Seen
  <2> QED BY <1>4, <1>5, <1>6, <1>7, <2>1 DEF Put, Durable!StartMaking, Durable!Formatted
<1> QED
  BY <1>3, <1>8 DEF Durable!DNext

(* A buffer of the template is the part of a sector that the template has. *)
LEMMA SectorOf ==
  ASSUME NEW n \in Nat, n % SectorUnits = 0
  PROVE  \A u \in Unit : u \in SectorPlaces(n \div SectorUnits) <=> n <= u /\ u < n + SectorUnits
<1>1. PICK z \in Nat \ {0} : z = SectorUnits
  BY Sizes
<1>2. PICK k \in Int, r \in 0..z - 1 : k = n \div z /\ r = n % z /\ n = z * k + r
  <2>1. n \in Int
    OBVIOUS
  <2> QED BY <2>1, Division, Zenon
<1>3. PICK m \in Int : m = z * k /\ n = m
  BY <1>1, <1>2
<1>4. ASSUME NEW u \in Int
      PROVE  u \div z = k <=> m <= u /\ u < m + z
  <2>1. PICK q \in Int, e \in 0..z - 1 : q = u \div z /\ e = u % z /\ u = z * q + e
    BY Division
  <2>2. PICK w \in Int : w = z * q
    OBVIOUS
  <2>3. CASE q = k
    <3>1. w = m
      BY <1>3, <2>2, <2>3
    <3> QED BY <2>1, <2>2, <2>3, <3>1
  <2>4. CASE q < k
    BY <1>3, <2>1, <2>2, <2>4, Times
  <2>5. CASE k < q
    BY <1>3, <2>1, <2>2, <2>5, Times
  <2> QED BY <2>3, <2>4, <2>5
<1>5. ASSUME NEW u \in Unit PROVE u \in SectorPlaces(k) <=> n <= u /\ u < n + z
  <2>1. u \in Int
    BY Sizes
  <2>2. u \div z = k <=> n <= u /\ u < n + z
    BY <1>3, <1>4, <2>1
  <2>3. u \in SectorPlaces(k) <=> u \div z = k
    BY <1>1 DEF SectorPlaces
  <2> QED BY <2>2, <2>3
<1> QED
  BY <1>1, <1>2, <1>5

LEMMA SectorsAre == \A u \in Unit : u \div SectorUnits \in Sector
<1> SUFFICES ASSUME NEW u \in Unit PROVE u \div SectorUnits \in Sector
  OBVIOUS
<1>1. PICK z \in Nat \ {0}, a \in Int, b \in Int : a >= 0 /\ z = SectorUnits /\ a = u /\ b = Units /\ a < b
  BY Sizes
<1>2. PICK k \in Int, r \in 0..z - 1 : k = a \div z /\ r = a % z /\ a = z * k + r
  BY Division
<1>3. PICK l \in Int, e \in 0..z - 1 : l = b \div z /\ e = b % z /\ b = z * l + e
  BY Division
<1>4. PICK x \in Int, y \in Int : x = z * k /\ y = z * l
  OBVIOUS
<1>5. b = y
  BY <1>1, <1>3, <1>4, SizeAssumption
<1>6. x <= a /\ a < x + z
  BY <1>2, <1>4
<1>7. ~(l < k) /\ l # k
  BY <1>1, <1>4, <1>5, <1>6, Times
<1>8. k >= 0
  <2>1. z * 0 = 0
    OBVIOUS
  <2>2. ASSUME k < 0 PROVE FALSE
    <3>1. z * k + z <= z * 0
      BY <2>2, Times
    <3>2. x + z <= 0
      BY <1>4, <2>1, <3>1
    <3> QED BY <1>1, <1>6, <3>2
  <2> QED BY <2>2
<1> QED
  BY <1>1, <1>2, <1>3, <1>7, <1>8 DEF Sector

LEMMA FillsSector ==
  ASSUME OneTemplate, StorageInv, TypeInv, ImagesInv, NEW s \in Session, CopyTemplate(s)
  PROVE  [Durable!DNext]_(Durable!dVars)
<1>1. PICK p, T : p = StatePath(root) /\ T = TemplateUnits[root]
  OBVIOUS
<1>2. s \in Booting /\ pc[s] = "copy" /\ UNCHANGED <<pc, root, synced>>
  BY DEF CopyTemplate, Booting, processVars
<1>3. /\ root \in RootImage /\ p \in StatePaths /\ p \in Path /\ T \in 1..Units
      /\ file \in [Path -> File]
  BY <1>1, <1>2, RootIsImage, StatePathsAre, Sizes DEF Booting, TypeInv, TypeOK
<1>4. PICK n \in 0..T : file[p] = Image(n) /\ (n % SectorUnits = 0 \/ n = T)
  BY <1>1, <1>2 DEF Booting, ImagesInv, MakingInv
<1>5. n \in 0..Units /\ FileUnits(file[p]) = n
  BY <1>3, <1>4, ImageIs, Sizes
<1>6. PICK B : /\ B = {u \in Unit : n <= u /\ u < n + SectorUnits /\ u < T} /\ B # {}
               /\ file' = [file EXCEPT ![p] = [u \in Unit |-> IF u \in B THEN "image" ELSE @[u]]]
  BY <1>1, <1>5 DEF CopyTemplate
<1>7. n \in Nat /\ n < T /\ n % SectorUnits = 0 /\ n < Units
  BY <1>3, <1>4, <1>6, Sizes
<1>8. PICK k \in Sector : k = n \div SectorUnits
  <2>1. n \in Unit
    BY <1>7, Sizes
  <2> QED BY <2>1, SectorsAre, Zenon
<1>9. \A u \in Unit : u \in SectorPlaces(k) <=> n <= u /\ u < n + SectorUnits
  BY <1>7, <1>8, SectorOf
<1>10. PICK range : range = SectorPlaces(k)
  OBVIOUS
<1>11. PICK g : g = [u \in Unit |-> IF u \in range THEN Template[p][u] ELSE Seen(file)[p][u]]
  OBVIOUS
<1>12. Seen(file') = Put(Seen(file), p, g)
  <2>1. \A q \in StatePaths \ {p} : \A u \in Unit : View(file'[q], u) = View(file[q], u)
    BY <1>3, <1>6, StatePathsAre
  <2>2. ASSUME NEW u \in Unit PROVE View(file'[p], u) = g[u]
    <3>1. file'[p][u] = IF u \in B THEN "image" ELSE file[p][u]
      BY <1>3, <1>6
    <3>2. file[p][u] = IF u < n THEN "image" ELSE "absent"
      BY <1>4 DEF Image
    <3>3. Template[p][u] = IF u < T THEN "image" ELSE "zero"
      BY <1>1, <1>3, TemplateIs
    <3>4. Seen(file)[p][u] = View(file[p], u)
      BY <1>3, SeenIs
    <3>5. CASE u \in range
      <4>1. n <= u /\ u < n + SectorUnits /\ g[u] = Template[p][u] /\ ~(u < n)
        BY <1>7, <1>9, <1>10, <1>11, <3>5, Sizes
      <4>2. u \in B <=> u < T
        BY <1>6, <4>1
      <4> QED BY <3>1, <3>2, <3>3, <4>1, <4>2 DEF View
    <3>6. CASE u \notin range
      <4>1. u \notin B /\ g[u] = Seen(file)[p][u]
        BY <1>6, <1>9, <1>10, <1>11, <3>6
      <4> QED BY <3>1, <3>4, <4>1 DEF View
    <3> QED BY <3>5, <3>6
  <2>3. g \in [Unit -> Content]
    <3>1. \A u \in Unit : Template[p][u] \in Content
      BY <1>1, <1>3, TemplateIs, ContentsDiffer
    <3>2. \A u \in Unit : Seen(file)[p][u] \in Content
      <4>1. file[p] \in File
        BY <1>3
      <4>2. \A u \in Unit : View(file[p], u) \in Content
        BY <4>1, ViewIs
      <4> QED BY <1>3, <4>2, SeenIs
    <3> QED BY <1>11, <3>1, <3>2
  <2>4. \A u \in Unit : View(file'[p], u) = g[u]
    BY <2>2
  <2>5. Becomes(file, file', p, g)
    BY <1>3, <2>1, <2>3, <2>4 DEF Becomes
  <2> QED BY <2>5, SeenChanged
<1>13. Copying = {p} /\ Copying' = Copying
  <2>1. Copying' = Copying
    BY <1>2 DEF Copying
  <2> QED BY <1>1, <1>2, <2>1, CopyingIs
<1>14. Durable!Fill(p, range)
  <2>1. Seen(file)' = Seen(file') /\ Seen(synced)' = Seen(synced)
    BY <1>2 DEF Seen
  <2> QED BY <1>11, <1>12, <1>13, <2>1 DEF Put, Durable!Fill
<1> QED
  BY <1>3, <1>10, <1>14 DEF Durable!DNext

(* The copy ends, complete or not: nobody makes an image any more.         *)
LEMMA MakingStops ==
  ASSUME UNCHANGED <<file, synced>>, Copying' = {}
  PROVE  [Durable!DNext]_(Durable!dVars)
<1>1. Seen(file)' = Seen(file) /\ Seen(synced)' = Seen(synced)
  BY DEF Seen
<1> QED
  BY <1>1 DEF Durable!DNext, Durable!StopMaking

LEMMA CopyingStays ==
  ASSUME StorageInv, NEW s \in Session, pc[s] # "copy", UNCHANGED root \/ s \in Booting,
         \A t \in Session : pc'[t] = "copy" <=> pc[t] = "copy"
  PROVE  Copying' = Copying
<1>1. CASE UNCHANGED root
  BY <1>1 DEF Copying
<1>2. CASE s \in Booting
  <2>1. \A t \in Session : pc[t] # "copy" /\ pc'[t] # "copy"
    BY <1>2, CopyingIs
  <2> QED BY <2>1 DEF Copying
<1> QED
  BY <1>1, <1>2

LEMMA SessionsSeen ==
  ASSUME OneTemplate, StorageInv, TypeInv, ImagesInv, NEW s \in Session, Boot(s)
  PROVE  [Durable!DNext]_(Durable!dVars)
<1>1. pc \in [Session -> Step] /\ StatePaths \subseteq Path
  BY StatePathsAre DEF StorageInv, LatchInv, StatePaths
<1>2. ASSUME UNCHANGED <<file, synced>>, pc[s] # "copy", UNCHANGED root \/ s \in Booting,
             pc' = pc \/ \E step \in Step \ {"copy"} : pc' = [pc EXCEPT ![s] = step]
      PROVE  [Durable!DNext]_(Durable!dVars)
  <2>1. \A t \in Session : pc'[t] = "copy" <=> pc[t] = "copy"
    BY <1>1, <1>2
  <2>2. Copying' = Copying
    BY <1>2, <2>1, CopyingStays
  <2> QED BY <1>2, <2>2, NotSeen
<1>3. CASE \/ ClearImages(s) \/ RegisterImage(s) \/ RegistrationFails(s) \/ AlreadyStarted(s)
           \/ TakeLatch(s) \/ SelectNothing(s) \/ LoadInitrd(s) \/ LoadFails(s)
  <2>1. /\ UNCHANGED <<file, synced>> /\ pc[s] # "copy" /\ (root' = root \/ s \in Booting)
        /\ \/ pc' = pc
           \/ \E step \in {"idle", "register", "select", "linux"} : pc' = [pc EXCEPT ![s] = step]
    BY <1>3 DEF Booting, ClearImages, RegisterImage, RegistrationFails, AlreadyStarted, TakeLatch,
         SelectNothing, LoadInitrd, EnterLinux, LoadFails, InvalidConfig
  <2>2. pc' = pc \/ \E step \in Step \ {"copy"} : pc' = [pc EXCEPT ![s] = step]
    BY <2>1 DEF Step
  <2> QED BY <1>2, <2>1, <2>2
<1>4. CASE SelectFiles(s) \/ SelectImages(s)
  <2>1. PICK p : p = StatePath(root')
    OBVIOUS
  <2>2. /\ file' = [file EXCEPT ![p] = Extended(@)] /\ UNCHANGED synced
        /\ s \in Booting
        /\ pc[s] # "copy" /\ pc' = [pc EXCEPT ![s] = "initrd"]
    BY <1>4, <2>1, SelectsRoot DEF SelectFiles, SelectImages, Booting
  <2>3. file \in [Path -> File] /\ p \in Path /\ file[p] \in File
    BY <1>4, <2>1, SelectsRoot, PathsDiffer DEF TypeInv, TypeOK
  <2>4. \A u \in Unit : View(Extended(file[p]), u) = View(file[p], u)
    BY <2>3, ExtendedIs
  <2>5. \A q \in Path : file'[q] = IF q = p THEN Extended(file[p]) ELSE file[q]
    BY <2>2, <2>3
  <2>6. \A q \in StatePaths : \A u \in Unit : View(file'[q], u) = View(file[q], u)
    BY <1>1, <2>4, <2>5
  <2>7. \A t \in Session : pc'[t] = "copy" <=> pc[t] = "copy"
    BY <1>1, <2>2
  <2>8. Copying' = Copying
    BY <2>2, <2>7, CopyingStays
  <2> QED BY <2>2, <2>6, <2>8, NotSeen
<1>5. CASE SelectBundled(s)
  <2>1. CASE HasExt4Magic(file[StatePath(root')])
    <3>1. /\ UNCHANGED <<file, synced>> /\ pc[s] # "copy" /\ s \in Booting
          /\ pc' = [pc EXCEPT ![s] = "extend"]
      BY <1>5, <2>1, MakesRoot DEF SelectBundled, Booting
    <3> QED BY <1>2, <3>1 DEF Step
  <2>2. CASE ~HasExt4Magic(file[StatePath(root')])
    BY <1>5, <2>2, MakesAgain
  <2> QED BY <2>1, <2>2
<1>6. CASE CopyTemplate(s)
  BY <1>6, FillsSector
<1>7. CASE TemplateCopied(s) \/ HostIsFull(s)
  <2>1. /\ s \in Booting /\ UNCHANGED <<file, synced>>
        /\ \E step \in {"idle", "extend"} : pc' = [pc EXCEPT ![s] = step]
    BY <1>7 DEF TemplateCopied, HostIsFull, InvalidConfig, Booting
  <2>2. \A t \in Session : t # s => pc[t] \in {"idle", "register"}
    BY <2>1, CopyingIs
  <2>3. \A t \in Session : pc'[t] # "copy"
    BY <1>1, <2>1, <2>2
  <2>4. Copying' = {}
    BY <2>3 DEF Copying
  <2> QED BY <2>1, <2>4, MakingStops
<1> QED
  BY <1>3, <1>4, <1>5, <1>6, <1>7 DEF Boot

(* What Linux writes is a write of the disk, to a sector that it has.      *)
LEMMA WritesSector ==
  ASSUME StorageInv, TypeInv, RequestInv, WriteBuffer
  PROVE  [Durable!DNext]_(Durable!dVars)
<1>1. req.type = "out" /\ req.done < req.count /\ UNCHANGED <<pc, root, synced>>
  BY DEF WriteBuffer
<1>2. PICK s \in Session : pc[s] = "linux"
  BY <1>1, ServedIsOf
<1>3. PICK p, v : p = StatePath(root) /\ v = req.value
  OBVIOUS
<1>4. /\ p \in Path /\ v \in Value /\ req.dev = 1
      /\ \A q \in Path \ {p} : file'[q] = file[q]
      /\ \A u \in Unit : file'[p][u] = IF u \in SectorPlaces(NextSector) THEN v ELSE file[p][u]
  BY <1>2, <1>3, WriteIs
<1>5. p \in StatePaths /\ StatePaths \subseteq Path /\ file[p] \in File
  BY <1>2, <1>3, <1>4, RootIsImage, StatePathsAre DEF TypeInv, TypeOK, StatePaths
<1>6. PICK range : range = SectorPlaces(NextSector)
  OBVIOUS
<1>7. PICK g : g = [u \in Unit |-> IF u \in range THEN v ELSE Seen(file)[p][u]]
  OBVIOUS
<1>8. Seen(file') = Put(Seen(file), p, g)
  <2>1. \A q \in StatePaths \ {p} : \A u \in Unit : View(file'[q], u) = View(file[q], u)
    BY <1>4, <1>5
  <2>2. \A u \in Unit : Seen(file)[p][u] = View(file[p], u) /\ View(file[p], u) \in Content
    BY <1>5, SeenIs, ViewIs
  <2>3. \A u \in Unit : View(file'[p], u) = g[u]
    BY <1>4, <1>6, <1>7, <2>2, ContentsDiffer DEF View
  <2>4. g \in [Unit -> Content]
    BY <1>4, <1>7, <2>2, ContentsDiffer
  <2>5. Becomes(file, file', p, g)
    BY <1>5, <2>1, <2>3, <2>4 DEF Becomes
  <2> QED BY <2>5, SeenChanged
<1>9. Copying = {} /\ Copying' = {}
  BY <1>1, <1>2, CopyingIs DEF Booting, Copying
<1>10. Durable!Write(p, range, v)
  <2>1. Seen(file)' = Seen(file') /\ Seen(synced)' = Seen(synced)
    BY <1>1 DEF Seen
  <2> QED BY <1>7, <1>8, <1>9, <2>1 DEF Put, Durable!Write
<1>11. CASE range = {}
  <2>1. \A u \in Unit : file'[p][u] = file[p][u]
    BY <1>4, <1>6, <1>11
  <2>2. \A q \in StatePaths : \A u \in Unit : View(file'[q], u) = View(file[q], u)
    BY <1>4, <1>5, <2>1 DEF View
  <2> QED BY <1>1, <1>9, <2>2, NotSeen
<1>12. CASE range # {}
  <2>1. PICK u \in Unit : u \div SectorUnits = NextSector
    BY <1>6, <1>12 DEF SectorPlaces
  <2>2. NextSector \in Sector
    BY <2>1, SectorsAre
  <2> QED BY <1>4, <1>5, <1>6, <1>10, <2>2 DEF Durable!DNext
<1> QED
  BY <1>11, <1>12

LEMMA PlacesSeen ==
  ASSUME NEW p \in StatePaths, NEW u \in Unit
  PROVE  Seen(file)[p][u] = View(file[p], u) /\ Seen(synced)[p][u] = View(synced[p], u)
BY SeenIs

(* The host writes back a sector of a disk.                                *)
LEMMA WritesBack ==
  ASSUME TypeInv, NEW p \in Path, NEW range \in {SectorPlaces(sector) : sector \in Sector},
         UNCHANGED <<pc, root, file>>, \A q \in Path \ {p} : synced'[q] = synced[q],
         \A u \in Unit : synced'[p][u] = IF u \in range THEN file[p][u] ELSE synced[p][u]
  PROVE  [Durable!DNext]_(Durable!dVars)
<1>1. Copying' = Copying
  BY DEF Copying
<1>2. StatePaths \subseteq Path /\ file[p] \in File /\ synced[p] \in File
  BY PathsDiffer DEF StatePaths, TypeInv, TypeOK
<1>3. CASE p \notin StatePaths
  <2>1. \A q \in StatePaths : \A u \in Unit : View(synced'[q], u) = View(synced[q], u)
    BY <1>2, <1>3
  <2> QED BY <1>1, <2>1, NotSeen
<1>4. CASE p \in StatePaths
  <2>1. PICK g : g = [u \in Unit |-> IF u \in range THEN Seen(file)[p][u] ELSE Seen(synced)[p][u]]
    OBVIOUS
  <2>2. \A u \in Unit : /\ Seen(file)[p][u] = View(file[p], u) /\ View(file[p], u) \in Content
                         /\ Seen(synced)[p][u] = View(synced[p], u) /\ View(synced[p], u) \in Content
    <3>1. \A u \in Unit : View(file[p], u) \in Content /\ View(synced[p], u) \in Content
      BY <1>2, ViewIs
    <3> QED BY <1>4, <3>1, PlacesSeen
  <2>3. \A u \in Unit : View(synced'[p], u) = g[u]
    BY <2>1, <2>2 DEF View
  <2>4. g \in [Unit -> Content]
    BY <2>1, <2>2
  <2>5. \A q \in StatePaths \ {p} : \A u \in Unit : View(synced'[q], u) = View(synced[q], u)
    BY <1>2
  <2>6. Becomes(synced, synced', p, g)
    BY <1>4, <2>3, <2>4, <2>5 DEF Becomes
  <2>7. Seen(synced') = Put(Seen(synced), p, g)
    BY <2>6, SeenChanged
  <2>8. Seen(file)' = Seen(file) /\ Seen(synced)' = Seen(synced')
    BY DEF Seen
  <2>9. Durable!WriteBack(p, range)
    BY <1>1, <2>1, <2>7, <2>8 DEF Put, Durable!WriteBack
  <2> QED BY <1>4, <2>9 DEF Durable!DNext
<1> QED
  BY <1>3, <1>4

(* A loss of power shows Linux what was written back, of every disk.       *)
LEMMA PowerIsLost ==
  ASSUME LosePower
  PROVE  [Durable!DNext]_(Durable!dVars)
<1>1. Seen(file)' = Seen(synced) /\ Seen(synced)' = Seen(synced)
  BY DEF Seen, LosePower
<1>2. Copying' = {}
  BY DEF Copying, LosePower, ProcessEnds
<1> QED
  BY <1>1, <1>2 DEF Durable!DNext, Durable!LosePower

LEMMA StepDurable ==
  ASSUME OneTemplate, StorageInv, TypeInv, RequestInv, ImagesInv, [Next]_vars
  PROVE  [Durable!DNext]_(Durable!dVars)
<1>1. ASSUME NEW s \in Session, Boot(s) PROVE [Durable!DNext]_(Durable!dVars)
  BY <1>1, SessionsSeen
<1>2. CASE Kill
  <2>1. Copying' = {} /\ UNCHANGED <<file, synced>>
    BY <1>2 DEF Kill, ProcessEnds, Copying
  <2> QED BY <2>1, MakingStops
<1>3. CASE LosePower
  BY <1>3, PowerIsLost
<1>4. CASE WriteBuffer
  BY <1>4, WritesSector
<1>5. ASSUME NEW p \in Path, NEW sector \in Sector, WriteBack(p, sector)
      PROVE  [Durable!DNext]_(Durable!dVars)
  <2>1. PICK range : range = SectorPlaces(sector)
    OBVIOUS
  <2>2. /\ synced \in [Path -> File] /\ UNCHANGED <<pc, root, file>>
        /\ synced' = [synced EXCEPT ![p] = [u \in Unit |-> IF u \in range THEN file[p][u] ELSE @[u]]]
    BY <1>5, <2>1 DEF WriteBack, TypeInv, TypeOK
  <2>3. /\ \A q \in Path \ {p} : synced'[q] = synced[q]
        /\ \A u \in Unit : synced'[p][u] = IF u \in range THEN file[p][u] ELSE synced[p][u]
    BY <2>2
  <2>4. range \in {SectorPlaces(k) : k \in Sector}
    BY <2>1
  <2> QED BY <2>2, <2>3, <2>4, WritesBack
<1>6. ASSUME UNCHANGED <<pc, root, file, synced>> PROVE [Durable!DNext]_(Durable!dVars)
  <2>1. Copying' = Copying
    BY <1>6 DEF Copying
  <2> QED BY <1>6, <2>1, NotSeen
<1>7. CASE ReadBuffer \/ BufferFails \/ Succeeds \/ Flush \/ UNCHANGED vars
  BY <1>6, <1>7 DEF ReadBuffer, BufferFails, Succeeds, Flush, Answered
<1>8. ASSUME NEW type, NEW d, NEW sector, NEW n, NEW v, SubmitRequest(type, d, sector, n, v)
      PROVE  [Durable!DNext]_(Durable!dVars)
  BY <1>6, <1>8 DEF SubmitRequest
<1> QED
  BY <1>1, <1>2, <1>3, <1>4, <1>5, <1>7, <1>8 DEF Next

(* The state images are durable disks: no boot, failed boot, kill or       *)
(* extension of a file changes what Linux wrote, and a loss of power takes *)
(* only what was not written back.  (OrlixHostEnsureStateBlockFile and     *)
(* orlix_host_block_write.)                                                *)
THEOREM ImplementsDisk == OneTemplate => (Spec => ImplementsDurableDisk)
<1> SUFFICES ASSUME OneTemplate PROVE Spec => ImplementsDurableDisk
  OBVIOUS
<1> DEFINE Inv == StorageInv /\ TypeInv /\ RequestInv /\ ImagesInv
<1>1. Init => Inv
  BY InitStorageInv, InitTypeInv, InitRequestInv, InitImagesInv
<1>2. Inv /\ [Next]_vars => Inv'
  BY StepStorageInv, StepTypeInv, StepRequestInv, StepImagesInv
<1>3. Init => Durable!DInit
  BY DurableInit
<1>4. Inv /\ [Next]_vars => [Durable!DNext]_(Durable!dVars)
  BY StepDurable
<1> QED
  BY <1>1, <1>2, <1>3, <1>4, PTL DEF Spec, ImplementsDurableDisk, Durable!DSpec
=============================================================================
