---------------------------- MODULE BlockStorage ----------------------------
(***************************************************************************)
(* From the session that boots to the sector on disk: the registry of root *)
(* images, the latch that lets Linux start once, the selection of the two  *)
(* block images, the making of a state image from its template             *)
(* (resources.c, loader.c, handoff.c) and the requests of the block driver *)
(* of Linux (mmio.c).                                                      *)
(*                                                                         *)
(* Sessions are threads of the app.  The registry has a lock, so that each *)
(* access to it is a step; a whole boot is not protected.  The app can be  *)
(* killed and the power lost between any two steps.                        *)
(*                                                                         *)
(* Operators whose names end in _Mutant are not part of the model: each is *)
(* a plausible bug in the definition that follows it.                      *)
(***************************************************************************)
EXTENDS Naturals, Sequences, FiniteSets

CONSTANTS
  Id,             \* identifiers of root images
  RootImage,      \* what sessions register: struct OrlixHostRootImage
  NoRoot,         \* none
  Name,           \* the identifier that a root image is registered under
  FileImages,     \* images that are files of an environment; the others are
                  \* in the bundle, and their state images are made from it
  StateFile,      \* the file of the state image
  Session,
  Wants,          \* the identifier that a session boots
  Registers,      \* the root images that a session registers, in order
  MaxRootImages,  \* ORLIX_HOST_MAX_ROOT_IMAGES
  Units,          \* places of the largest image
  SectorUnits,    \* places of a sector; a file may end within one
  BaseUnits,      \* length of the base image of a root image
  TemplateUnits,  \* length of the state image it starts with
  MinimumUnits,   \* state_block_minimum_bytes
  MaxBuffers,     \* data buffers of a request, each of one sector
  Value           \* what Linux writes

Unit == 0..(Units - 1)

ASSUME ImageAssumption ==
  /\ Wants \in [Session -> Id]
  /\ Registers \in [Session -> Seq(RootImage)]
  /\ NoRoot \notin RootImage
  /\ Name \in [RootImage -> Id]
  /\ FileImages \subseteq RootImage
  /\ MaxRootImages \in Nat
  /\ "zero" \notin Value /\ "absent" \notin Value /\ "image" \notin Value
ASSUME SizeAssumption ==
  /\ SectorUnits \in Nat \ {0} /\ Units \in Nat \ {0} /\ MaxBuffers \in Nat
  /\ Units % SectorUnits = 0
  /\ BaseUnits \in [RootImage -> 1..Units]
  /\ TemplateUnits \in [RootImage -> 1..Units]
  /\ MinimumUnits \in 1..Units

(* "image" is what the images of the product hold, "absent" what is beyond *)
(* the end of a file.                                                      *)
Content == Value \cup {"zero", "image", "absent"}

(* The paths that a root image names.  The file of a state image that is   *)
(* made from the bundle is named after the identifier, with characters     *)
(* replaced, so that root images may share it.                             *)
BasePath(r) == <<"base", r>>
StatePath(r) == <<"state", StateFile[r]>>
Path == {BasePath(r) : r \in RootImage} \cup {StatePath(r) : r \in RootImage}
File == [Unit -> Content]

BaseDevice == 0    \* /dev/vda, which the driver is told is read-only
StateDevice == 1   \* /dev/vdb
Device == {BaseDevice, StateDevice}

(* Where the thread of a session is.                                       *)
Step == {"idle", "register", "select", "copy", "extend", "initrd", "linux"}

VARIABLES
  images,   \* OrlixHostRootImages
  pc,       \* of each session
  todo,     \* images a session has still to register
  started,  \* OrlixBootStarted
  root,     \* the root image that the boot copied from the registry
  sel,      \* OrlixHostSelectedBlock{Paths,Bytes,Writable}
  file,     \* the files as the processes of the host see them
  synced,   \* the files as a loss of power leaves them
  torn,     \* of the proof: state images whose making was interrupted
  req       \* the request that the block device serves

processVars == <<images, pc, todo, started, root, sel, req>>
diskVars == <<file, synced, torn>>
vars == <<processVars, diskVars>>

NoImage == [path |-> <<>>, bytes |-> 0, writable |-> FALSE]
NoRequest == [type |-> "none", dev |-> 0, sector |-> 0, count |-> 0,
              value |-> "zero", done |-> 0, data |-> <<>>]

RequestType == {"none", "in", "out", "flush"}

TypeOK ==
  /\ images \in SUBSET RootImage
  /\ Cardinality(images) <= MaxRootImages
  /\ \A r, q \in images : Name[r] = Name[q] => r = q
  /\ pc \in [Session -> Step]
  /\ todo \in [Session -> Seq(RootImage)]
  /\ started \in BOOLEAN
  /\ root \in RootImage \cup {NoRoot}
  /\ sel \in [Device -> [path : Path \cup {<<>>}, bytes : 0..Units,
                         writable : BOOLEAN]]
  /\ file \in [Path -> File] /\ synced \in [Path -> File]
  /\ torn \in SUBSET Path
  /\ req.type \in RequestType /\ req.dev \in Device
  /\ req.sector \in Nat /\ req.count \in 0..MaxBuffers /\ req.done \in 0..req.count

(* The files of the bundle and those of the environments are there; the    *)
(* state images of the bundle may have to be made yet.                     *)
Image(length) == [u \in Unit |-> IF u < length THEN "image" ELSE "absent"]
Init ==
  /\ images = {} /\ started = FALSE
  /\ pc = [s \in Session |-> "idle"]
  /\ todo = [s \in Session |-> <<>>]
  /\ root = NoRoot
  /\ sel = [d \in Device |-> NoImage]
  /\ file \in [Path -> {Image(n) : n \in 0..Units}]
  /\ \A r \in RootImage :
       /\ file[BasePath(r)] = Image(BaseUnits[r])
       /\ file[StatePath(r)] = Image(IF r \in FileImages THEN TemplateUnits[r] ELSE 0)
  /\ synced = file
  /\ torn = {}
  /\ req = NoRequest

-----------------------------------------------------------------------------
(* OrlixLinuxSession.boot: the registry is emptied and filled with the     *)
(* images of this session.                                                 *)
ClearImages(s) ==
  /\ pc[s] = "idle"
  /\ images' = {}
  /\ pc' = [pc EXCEPT ![s] = "register"]
  /\ todo' = [todo EXCEPT ![s] = Registers[s]]
  /\ UNCHANGED <<started, root, sel, req, diskVars>>

(* An entry of the same identifier is overwritten, whoever registered it.  *)
SameName(r) == {q \in images : Name[q] = Name[r]}
Refused(r) == SameName(r) = {} /\ Cardinality(images) >= MaxRootImages

RegisterImage_Mutant(s) ==
  /\ pc[s] = "register"
  /\ todo[s] # <<>>
  /\ ~Refused(Head(todo[s]))
  /\ images' = images \cup {Head(todo[s])}
  /\ todo' = [todo EXCEPT ![s] = Tail(@)]
  /\ UNCHANGED <<pc, started, root, sel, req, diskVars>>
RegisterImage(s) ==
  /\ pc[s] = "register"
  /\ todo[s] # <<>>
  /\ ~Refused(Head(todo[s]))
  /\ images' = (images \ SameName(Head(todo[s]))) \cup {Head(todo[s])}
  /\ todo' = [todo EXCEPT ![s] = Tail(@)]
  /\ UNCHANGED <<pc, started, root, sel, req, diskVars>>

(* The registry is full, as when another session registers too, or a file  *)
(* of the environment is gone: the registry is emptied and nothing boots.  *)
RegistrationFails(s) ==
  /\ pc[s] = "register"
  /\ todo[s] # <<>>
  /\ Refused(Head(todo[s])) \/ Head(todo[s]) \in FileImages
  /\ images' = {}
  /\ todo' = [todo EXCEPT ![s] = <<>>]
  /\ pc' = [pc EXCEPT ![s] = "idle"]
  /\ UNCHANGED <<started, root, sel, req, diskVars>>

(* OrlixBoot takes the latch, or returns ALREADY_STARTED.                  *)
TakeLatch(s) ==
  /\ pc[s] = "register"
  /\ todo[s] = <<>>
  /\ ~started
  /\ started' = TRUE
  /\ pc' = [pc EXCEPT ![s] = "select"]
  /\ UNCHANGED <<images, todo, root, sel, req, diskVars>>

AlreadyStarted_Mutant(s) ==
  /\ pc[s] = "register"
  /\ todo[s] = <<>>
  /\ started
  /\ started' = FALSE
  /\ pc' = [pc EXCEPT ![s] = "idle"]
  /\ UNCHANGED <<images, todo, root, sel, req, diskVars>>
AlreadyStarted(s) ==
  /\ pc[s] = "register"
  /\ todo[s] = <<>>
  /\ started
  /\ pc' = [pc EXCEPT ![s] = "idle"]
  /\ UNCHANGED <<images, todo, started, root, sel, req, diskVars>>

(* INVALID_CONFIG: OrlixBoot lets another attempt start.                   *)
InvalidConfig(s) ==
  /\ started' = FALSE
  /\ root' = NoRoot
  /\ pc' = [pc EXCEPT ![s] = "idle"]
  /\ UNCHANGED <<images, todo, req, synced>>

-----------------------------------------------------------------------------
(* Files.  A hole, which only a loss of power leaves, reads as zeros.      *)
View(f, u) == IF f[u] = "absent" THEN "zero" ELSE f[u]
FileUnits(f) == IF \A u \in Unit : f[u] = "absent" THEN 0
                ELSE 1 + CHOOSE u \in Unit :
                           /\ f[u] # "absent"
                           /\ \A w \in Unit : w > u => f[w] = "absent"
RoundUp(n) == ((n + SectorUnits - 1) \div SectorUnits) * SectorUnits
ImageUnits(f) ==
  LET n == FileUnits(f) IN RoundUp(IF n < MinimumUnits THEN MinimumUnits ELSE n)
Extended(f) ==
  [u \in Unit |-> IF u < ImageUnits(f) THEN View(f, u) ELSE f[u]]

(* The superblock of ext4 is in the first place of the image.              *)
HasExt4Magic_Mutant(f) == FALSE
HasExt4Magic(f) == View(f, 0) # "zero"

(* The root image that is registered under the identifier the session      *)
(* boots: its own, or that of another session which came later.            *)
Lookup_Mutant(s) == images
Lookup(s) == {r \in images : Name[r] = Wants[s]}

Selection(r) ==
  [d \in Device |->
     IF d = BaseDevice
     THEN [path |-> BasePath(r), bytes |-> BaseUnits[r], writable |-> FALSE]
     ELSE [path |-> StatePath(r), bytes |-> ImageUnits(file[StatePath(r)]),
           writable |-> TRUE]]

(* OrlixHostSelectBootBlockImages clears what an earlier attempt selected. *)
(* Then there is no such image, or its files cannot be used.               *)
SelectNothing(s) ==
  /\ pc[s] = "select"
  /\ sel' = [d \in Device |-> NoImage]
  /\ InvalidConfig(s)
  /\ UNCHANGED <<file, torn>>

SelectFiles(s) ==
  /\ pc[s] = "select"
  /\ \E r \in Lookup(s) \cap FileImages :
       /\ root' = r
       /\ sel' = Selection(r)
       /\ file' = [file EXCEPT ![StatePath(r)] = Extended(@)]
  /\ pc' = [pc EXCEPT ![s] = "initrd"]
  /\ UNCHANGED <<images, todo, started, req, synced, torn>>

(* OrlixHostEnsureStateBlockFile keeps an image that begins as ext4.       *)
SelectBundled(s) ==
  /\ pc[s] = "select"
  /\ \E r \in Lookup(s) \ FileImages :
       LET p == StatePath(r)
       IN /\ root' = r
          /\ IF HasExt4Magic(file[p])
             THEN /\ pc' = [pc EXCEPT ![s] = "extend"]
                  /\ UNCHANGED <<file, torn>>
             ELSE /\ file' = [file EXCEPT ![p] = Image(0)]
                  /\ torn' = torn \ {p}
                  /\ pc' = [pc EXCEPT ![s] = "copy"]
  /\ sel' = [d \in Device |-> NoImage]
  /\ UNCHANGED <<images, todo, started, req, synced>>

(* OrlixHostCopyFile, a buffer at a time, and its end.                     *)
CopyTemplate(s) ==
  LET p == StatePath(root)
      n == FileUnits(file[p])
      Buffer == {u \in Unit : n <= u /\ u < n + SectorUnits /\ u < TemplateUnits[root]}
  IN /\ pc[s] = "copy"
     /\ Buffer # {}
     /\ file' = [file EXCEPT ![p] = [u \in Unit |-> IF u \in Buffer THEN "image" ELSE @[u]]]
     /\ UNCHANGED <<processVars, synced, torn>>

TemplateCopied_Mutant(s) ==
  /\ pc[s] = "copy"
  /\ FileUnits(file[StatePath(root)]) + 1 >= TemplateUnits[root]
  /\ pc' = [pc EXCEPT ![s] = "extend"]
  /\ UNCHANGED <<images, todo, started, root, sel, req, diskVars>>
TemplateCopied(s) ==
  /\ pc[s] = "copy"
  /\ FileUnits(file[StatePath(root)]) >= TemplateUnits[root]
  /\ pc' = [pc EXCEPT ![s] = "extend"]
  /\ UNCHANGED <<images, todo, started, root, sel, req, diskVars>>

(* The host has no room for the copy, or for the length of the image.      *)
HostIsFull(s) ==
  /\ pc[s] \in {"copy", "extend"}
  /\ torn' = IF pc[s] = "copy" THEN torn \cup {StatePath(root)} ELSE torn
  /\ InvalidConfig(s)
  /\ UNCHANGED <<sel, file>>

SelectImages(s) ==
  /\ pc[s] = "extend"
  /\ sel' = Selection(root)
  /\ file' = [file EXCEPT ![StatePath(root)] = Extended(@)]
  /\ pc' = [pc EXCEPT ![s] = "initrd"]
  /\ UNCHANGED <<images, todo, started, root, req, synced, torn>>

(* The registry is read a second time for the initial RAM disk.            *)
EnterLinux(s) ==
  /\ pc' = [pc EXCEPT ![s] = "linux"]
  /\ UNCHANGED <<images, todo, started, root, req, synced>>
LoadInitrd(s) ==
  /\ pc[s] = "initrd"
  /\ IF Lookup(s) = {} THEN InvalidConfig(s) ELSE EnterLinux(s)
  /\ UNCHANGED <<sel, file, torn>>

(* The device tree or the RAM disk cannot be read.                         *)
LoadFails(s) ==
  /\ pc[s] = "initrd"
  /\ InvalidConfig(s)
  /\ UNCHANGED <<sel, file, torn>>

Boot(s) == \/ ClearImages(s) \/ RegisterImage(s) \/ RegistrationFails(s)
           \/ TakeLatch(s) \/ AlreadyStarted(s)
           \/ SelectNothing(s) \/ SelectFiles(s) \/ SelectBundled(s)
           \/ CopyTemplate(s) \/ TemplateCopied(s) \/ HostIsFull(s)
           \/ SelectImages(s) \/ LoadInitrd(s) \/ LoadFails(s)

-----------------------------------------------------------------------------
(* The block device.  Linux knows its capacity in sectors, and asks for    *)
(* nothing beyond.                                                         *)
Running == \E s \in Session : pc[s] = "linux"
Capacity(d) == RoundUp(sel[d].bytes) \div SectorUnits

SubmitRequest(type, d, sector, n, v) ==
  /\ Running
  /\ req = NoRequest
  /\ sel[d].bytes # 0
  /\ type = "flush" <=> n = 0
  /\ type # "out" <=> v = "zero"
  /\ sector + n <= Capacity(d)
  /\ req' = [NoRequest EXCEPT !.type = type, !.dev = d, !.sector = sector,
                              !.count = n, !.value = v]
  /\ UNCHANGED <<images, pc, todo, started, root, sel, diskVars>>

SectorPlaces(sector) == {u \in Unit : u \div SectorUnits = sector}

(* orlix_host_block_read: what lies beyond the end of the file is zero.    *)
BlockRead(d, sector) ==
  LET f == file[sel[d].path]
  IN [u \in SectorPlaces(sector) |-> IF u < sel[d].bytes THEN View(f, u) ELSE "zero"]

(* orlix_host_block_write refuses a device that is not writable, though    *)
(* Linux only warns of a write to a read-only disk.                        *)
MayWrite_Mutant(d) == sel[d].bytes # 0
MayWrite(d) == sel[d].bytes # 0 /\ sel[d].writable

BlockWrite(d, sector, v) ==
  file' = [file EXCEPT ![sel[d].path] =
             [u \in Unit |-> IF u \in SectorPlaces(sector) THEN v ELSE @[u]]]

(* One data buffer of the request: the sector advances with each.          *)
NextSector_Mutant == req.sector
NextSector == req.sector + req.done

ReadBuffer ==
  /\ req.type = "in"
  /\ req.done < req.count
  /\ req' = [req EXCEPT !.done = @ + 1,
                        !.data = Append(@, BlockRead(req.dev, NextSector))]
  /\ UNCHANGED <<images, pc, todo, started, root, sel, file, synced, torn>>

WriteBuffer ==
  /\ req.type = "out"
  /\ req.done < req.count
  /\ MayWrite(req.dev)
  /\ req' = [req EXCEPT !.done = @ + 1]
  /\ BlockWrite(req.dev, NextSector, req.value)
  /\ UNCHANGED <<images, pc, todo, started, root, sel, synced, torn>>

Answered == /\ req' = NoRequest
            /\ UNCHANGED <<images, pc, todo, started, root, sel, file, torn>>

(* The device is not writable, or the host fails to open, read or write:   *)
(* an error, and the buffers that follow are passed over.                  *)
BufferFails == /\ req.done < req.count
               /\ Answered
               /\ UNCHANGED synced

Succeeds == /\ req.type \in {"in", "out"}
            /\ req.done = req.count
            /\ Answered
            /\ UNCHANGED synced

(* orlix_host_block_flush is an fsync of the file.  On Darwin that hands   *)
(* the data to the drive, which writes it back when it likes; whether it   *)
(* succeeds or fails, the disk holds what it held.                         *)
Flush ==
  /\ req.type = "flush"
  /\ Answered
  /\ UNCHANGED synced

-----------------------------------------------------------------------------
(* The host and its drive write a sector back when they like.              *)
WriteBack(p, sector) ==
  /\ \E u \in SectorPlaces(sector) : file[p][u] # synced[p][u]
  /\ synced' = [synced EXCEPT ![p] =
                  [u \in Unit |-> IF u \in SectorPlaces(sector) THEN file[p][u] ELSE @[u]]]
  /\ UNCHANGED <<processVars, file, torn>>

(* The app is killed, at any point.                                        *)
ProcessEnds ==
  /\ images' = {} /\ started' = FALSE
  /\ pc' = [s \in Session |-> "idle"]
  /\ todo' = [s \in Session |-> <<>>]
  /\ root' = NoRoot
  /\ sel' = [d \in Device |-> NoImage]
  /\ req' = NoRequest

Copying == IF \E s \in Session : pc[s] = "copy" THEN {StatePath(root)} ELSE {}

Kill == /\ ProcessEnds
        /\ torn' = torn \cup Copying
        /\ UNCHANGED <<file, synced>>

(* The power is lost.  A new image may not have been written back.         *)
NotWrittenBack == {p \in Path : \E u \in Unit : /\ View(file[p], u) # "zero"
                                               /\ View(synced[p], u) = "zero"}
LosePower == /\ ProcessEnds
             /\ file' = synced
             /\ torn' = torn \cup Copying \cup NotWrittenBack
             /\ UNCHANGED synced

Sector == 0..(Units \div SectorUnits - 1)

Next ==
  \/ Kill \/ LosePower
  \/ ReadBuffer \/ WriteBuffer \/ BufferFails \/ Succeeds \/ Flush
  \/ \E s \in Session : Boot(s)
  \/ \E p \in Path, sector \in Sector : WriteBack(p, sector)
  \/ \E type \in RequestType \ {"none"}, d \in Device, sector \in Sector,
        n \in 0..MaxBuffers, v \in Value \cup {"zero"} :
       SubmitRequest(type, d, sector, n, v)

Spec == Init /\ [][Next]_vars
=============================================================================
