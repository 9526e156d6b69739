------------------------ MODULE BlockStorageProperties ------------------------
(***************************************************************************)
(* What the block storage must guarantee to sessions and to Linux.         *)
(***************************************************************************)
EXTENDS BlockStorage

(* One Linux at most: the latch is taken exactly while one session boots   *)
(* or runs, whatever other sessions register, clear and try meanwhile, and *)
(* is free after every failure.  (OrlixBoot, loader.c.)                    *)
Booting == {s \in Session : pc[s] \in {"select", "copy", "extend", "initrd", "linux"}}
OneBoot == Cardinality(Booting) = IF started THEN 1 ELSE 0

(* The two disks of Linux are the two images of one root image, which a    *)
(* session registered under the identifier that was booted, although other *)
(* sessions clear and change the registry between the registration and the *)
(* two look-ups.  It is the session's own unless another session registers *)
(* an image under the same identifier: the registry knows no sessions.     *)
(* (OrlixHostRegisterRootImage, OrlixHostSelectBootBlockImages.)           *)
RegisteredBy(s) == {Registers[s][k] : k \in DOMAIN Registers[s]}
NameIsOwn(s) ==
  \A t \in Session \ {s} : \A r \in RegisteredBy(t) : Name[r] # Wants[s]
Disks(r) == /\ sel[BaseDevice].path = BasePath(r)
            /\ sel[StateDevice].path = StatePath(r)
RunsOnItsImages ==
  \A s \in Session : pc[s] = "linux" =>
    \E t \in Session : \E r \in RegisteredBy(t) :
      /\ Name[r] = Wants[s] /\ Disks(r)
      /\ NameIsOwn(s) => t = s

(* What makes the three properties inductive.  What is in the registry was *)
(* registered by a session, and the session past the selection has copied  *)
(* a root image of the identifier it wants.                                *)
Registered == UNION {RegisteredBy(s) : s \in Session}
RegistryInv ==
  /\ todo \in [Session -> Seq(RootImage)]
  /\ \A s \in Session : \A k \in DOMAIN todo[s] : todo[s][k] \in RegisteredBy(s)
  /\ images \subseteq Registered
  /\ \A s \in Booting : pc[s] # "select" => root \in Registered /\ Name[root] = Wants[s]

(* The functions have their domains, the session that holds the latch is   *)
(* the only one past it, Linux has the disks of the root image that was    *)
(* copied, and a device that it may write has the path of a state image.   *)
HasPaths(f) == DOMAIN f = Path /\ f = [p \in Path |-> f[p]]
LatchInv ==
  /\ pc \in [Session -> Step]
  /\ started \in BOOLEAN
  /\ \A s, t \in Booting : s = t
  /\ started <=> Booting # {}
  /\ DOMAIN sel = Device
  /\ DOMAIN req = DOMAIN NoRequest /\ req.dev \in Device
  /\ \A d \in Device : sel[d].writable => \E r \in RootImage : sel[d].path = StatePath(r)
  /\ \A s \in Session : pc[s] \in {"initrd", "linux"} => Disks(root)
  /\ HasPaths(file) /\ HasPaths(synced)
  /\ \A r \in RootImage : file[BasePath(r)] = synced[BasePath(r)]
StorageInv == RegistryInv /\ LatchInv

(* No base image is ever written, by no request of any boot.               *)
(* (orlix_host_block_write.)                                               *)
BaseImagesKept == \A r \in RootImage : file'[BasePath(r)] = file[BasePath(r)]
BaseImagesUntouched == [][BaseImagesKept]_vars

(* A read or a write that is answered with success has done what it said:  *)
(* the data of all its buffers is what the disk holds there, or what was   *)
(* written is there.  A flush that is answered with success says nothing:  *)
(* it is an fsync, after which a loss of power may still take the data.    *)
(* (orlix_virtio_mmio_process_block_request and orlix_host_block_*.)       *)
AnswerIsTrue ==
  LET p == sel[req.dev].path
      places(k) == SectorPlaces(req.sector + k - 1)
  IN /\ req.type = "in" =>
          req.data = [k \in 1..req.count |-> [u \in places(k) |-> View(file[p], u)]]
     /\ req.type = "out" =>
          \A k \in 1..req.count : \A u \in places(k) : file[p][u] = req.value
AnswersAreTrue == [][Succeeds => AnswerIsTrue]_vars

(* The state image that Linux gets is whole: it has all of its template,   *)
(* or what Linux wrote in its place.  The exception is an image whose      *)
(* copy was interrupted after its superblock, which later boots keep.      *)
(* (OrlixHostEnsureStateBlockFile, which looks at the superblock alone.)   *)
WholeUnlessInterrupted ==
  Running /\ StatePath(root) \notin torn =>
    \A u \in Unit : u < TemplateUnits[root] => View(file[StatePath(root)], u) # "zero"

(* What makes these two inductive.  Root images that share a state image   *)
(* have one template.                                                      *)
OneTemplate ==
  \A r, q \in RootImage : StatePath(r) = StatePath(q) => TemplateUnits[r] = TemplateUnits[q]

TypeInv ==
  /\ TypeOK /\ IsFiniteSet(images)
  /\ req.value \in Value \cup {"zero"} /\ (req.type = "out" => req.value \in Value)

(* An image with a superblock is whole, unless its making was interrupted; *)
(* only sessions make images, from the first place to the last; and no     *)
(* superblock is on disk that the processes of the host do not see.        *)
Whole(f, n) == \A u \in Unit : u < n => View(f, u) # "zero"
DiskInv(seen, stable, made) ==
  \A r \in RootImage :
    LET p == StatePath(r)
    IN /\ p \in made /\ HasExt4Magic(seen[p]) => Whole(seen[p], TemplateUnits[r])
       /\ HasExt4Magic(stable[p]) => HasExt4Magic(seen[p])
       /\ r \in FileImages => HasExt4Magic(stable[p])
MakingInv(step, f, length) ==
  /\ step = "copy" => \E n \in 0..length :
                       f = Image(n) /\ (n % SectorUnits = 0 \/ n = length)
  /\ step \in {"extend", "initrd", "linux"} => HasExt4Magic(f)
ImagesInv ==
  /\ DiskInv(file, synced, Path \ (torn \cup Copying))
  /\ \A s \in Session : MakingInv(pc[s], file[StatePath(root)], TemplateUnits[root])

(* A device ends where its file ends, and the request of the Linux that    *)
(* runs has done what it has counted.                                      *)
DevicesEnd(files, selected) ==
  /\ \A d \in Device : \A u \in Unit :
       u >= selected[d].bytes => View(files[selected[d].path], u) = "zero"
  /\ selected[StateDevice].bytes % SectorUnits = 0
Served(r, f) ==
  LET places(k) == SectorPlaces(r.sector + k - 1)
  IN /\ r.type = "in" => r.data = [k \in 1..r.done |-> [u \in places(k) |-> View(f, u)]]
     /\ r.type = "out" => \A k \in 1..r.done : \A u \in places(k) : f[u] = r.value
RequestInv ==
  /\ \A r \in RootImage : file[BasePath(r)] = Image(BaseUnits[r])
  /\ (\E s \in Session : pc[s] \in {"initrd", "linux"}) => DevicesEnd(file, sel)
  /\ req.type # "none" => Running
  /\ req.type # "none" => req.sector + req.count <= Capacity(req.dev)
  /\ Served(req, file[sel[req.dev].path])

(* A state image is a durable disk: a boot of any session, a failed one, a *)
(* kill or an extension of the file changes nothing that Linux wrote, and  *)
(* a loss of power takes only what was not written back.                   *)
StatePaths == {StatePath(r) : r \in RootImage}
Seen(files) == [p \in StatePaths |-> [u \in Unit |-> IF files[p][u] = "absent" THEN "zero" ELSE files[p][u]]]
Template == [p \in StatePaths |-> [u \in Unit |->
               IF \E r \in RootImage : p = StatePath(r) /\ u < TemplateUnits[r]
               THEN "image" ELSE "zero"]]
Durable == INSTANCE DurableDisk WITH
             Disk <- StatePaths, ReadOnly <- {},
             Extent <- {SectorPlaces(sector) : sector \in Sector},
             Zero <- "zero", Superblock <- 0, Fresh <- Template,
             disk <- Seen(file), stable <- Seen(synced), making <- Copying
ImplementsDurableDisk == Durable!DSpec
=============================================================================
