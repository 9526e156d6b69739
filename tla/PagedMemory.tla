---------------------------- MODULE PagedMemory ----------------------------
(***************************************************************************)
(* What a memory management unit gives Linux, and what the shadow memory   *)
(* must give it on a host that has none to offer: one page table per       *)
(* address space, and one content per frame.  A store of a user program,   *)
(* or of the kernel on its behalf, lands in the frame that the page table  *)
(* of the running address space names, if the entry is writable, and the   *)
(* content of a frame in use changes in no other way.                      *)
(*                                                                         *)
(* ShadowMemory implements this specification when a Linux page fills a    *)
(* host page, and for programs that store only where there is a copy of a  *)
(* page that they may write.                                               *)
(***************************************************************************)
CONSTANTS Mm,         \* address spaces
          Page,       \* pages of the user aperture
          Frame,      \* page frames
          FileFrames, \* the frames of the page cache
          Content,    \* what a frame can hold
          NoEntry     \* a page table entry that is not present

VARIABLES who,        \* the running address space
          table,      \* the page table of every address space
          memory,     \* the content of every frame
          stored      \* the page and the value of the last step, if it was a
                      \* store, or NoStore

pVars == <<who, table, memory, stored>>

NoStore == [page |-> 0, value |-> "none"]

FrameInUse ==
  FileFrames \cup
  {table[mp[1]][mp[2]].frame : mp \in {mp \in Mm \X Page :
                                         table[mp[1]][mp[2]] # NoEntry}}

PInit == /\ who \in Mm
         /\ table = [m \in Mm |-> [p \in Page |-> NoEntry]]
         /\ memory \in [Frame -> Content]
         /\ stored = NoStore

Store(p, v) ==
  /\ table[who][p] # NoEntry
  /\ table[who][p].write
  /\ memory' = [memory EXCEPT ![table[who][p].frame] = v]
  /\ stored' = [page |-> p, value |-> v]
  /\ UNCHANGED <<who, table>>

(* The kernel runs: it may fill free frames, change page tables and switch *)
(* to another address space, but no frame in use changes.                  *)
Manage == /\ stored' = NoStore
          /\ LET before == memory
                 after  == memory'
             IN \A f \in FrameInUse : after[f] = before[f]

PNext == Manage \/ \E p \in Page, v \in Content : Store(p, v)

PSpec == PInit /\ [][PNext]_pVars
=============================================================================
