---------------------------- MODULE DurableDisk ----------------------------
(***************************************************************************)
(* What a virtual disk that is a file of the host promises to Linux, over  *)
(* boots, kills of the app and losses of power.                            *)
(*                                                                         *)
(* A disk with a file system changes only by the writes Linux makes to it. *)
(* A loss of power takes back what was not written back, in whole extents; *)
(* when that is done Linux cannot tell, for a flush does not wait for it.  *)
(* Only a disk without a file system is made anew, from its template.      *)
(*                                                                         *)
(* BlockStorage implements this specification.                             *)
(***************************************************************************)
CONSTANTS Disk,
          ReadOnly,    \* the disks that Linux cannot write
          Unit,        \* the places of a disk
          Extent,      \* the sets of places that are written at once
          Value,       \* what Linux can write there
          Zero,        \* what a place holds at first
          Superblock,  \* the place that tells whether there is a file system
          Fresh        \* the template of each disk

VARIABLES disk,    \* the contents that Linux sees
          stable,  \* the contents after a loss of power
          making   \* the disks that are being made from their templates

dVars == <<disk, stable, making>>

Formatted(d) == disk[d][Superblock] # Zero

(* An image is there with its file system, or is not there.                *)
DInit == /\ disk \in [Disk -> {Fresh[d] : d \in Disk} \cup {[u \in Unit |-> Zero]}]
         /\ stable = disk
         /\ making = {}

StartMaking(d) ==
  /\ ~Formatted(d)
  /\ disk' = [disk EXCEPT ![d] = [u \in Unit |-> Zero]]
  /\ making' = making \cup {d}
  /\ UNCHANGED stable

Fill(d, range) ==
  /\ d \in making
  /\ disk' = [disk EXCEPT ![d] = [u \in Unit |-> IF u \in range THEN Fresh[d][u]
                                                              ELSE @[u]]]
  /\ UNCHANGED <<stable, making>>

(* The template is copied, or the app ends in the middle of it.            *)
StopMaking == /\ making' = {}
              /\ UNCHANGED <<disk, stable>>

Write(d, range, v) ==
  /\ d \notin making \cup ReadOnly
  /\ UNCHANGED <<stable, making>>
  /\ disk' = [disk EXCEPT ![d] = [u \in Unit |-> IF u \in range THEN v ELSE @[u]]]

WriteBack(d, range) ==
  /\ UNCHANGED <<disk, making>>
  /\ stable' = [stable EXCEPT ![d] = [u \in Unit |-> IF u \in range THEN disk[d][u]
                                                                    ELSE @[u]]]

LosePower == /\ disk' = stable
             /\ making' = {}
             /\ UNCHANGED stable

DNext == \/ StopMaking \/ LosePower
         \/ \E d \in Disk :
              \/ StartMaking(d)
              \/ \E range \in Extent :
                   \/ WriteBack(d, range) \/ Fill(d, range)
                   \/ \E v \in Value : Write(d, range, v)

DSpec == DInit /\ [][DNext]_dVars
=============================================================================
