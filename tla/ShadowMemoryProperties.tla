----------------------- MODULE ShadowMemoryProperties -----------------------
(***************************************************************************)
(* What the shadow memory must guarantee.                                  *)
(***************************************************************************)
EXTENDS ShadowMemory

(* Isolation.  Every copy in a window is of the frame that the running     *)
(* address space maps at that page now, whatever was unmapped, copied on   *)
(* write, forked or switched since the window was installed.               *)
(* (orlix_sync_user_host_window, orlix_flush_host_user_range, switch_mm.)  *)
SegmentsMatchPtes ==
  \A p \in Page :
    seg[p] # None => /\ pte[mm][p] # None
                     /\ pte[mm][p].frame = seg[p]

(* What makes it inductive, where no two tasks share an address space: a   *)
(* page that Linux has is one that was asked for, with no more rights; and *)
(* the entries that a mirroring pass has noted are still those of the page *)
(* table, although its task may have slept since.  An entry is noted as    *)
(* writable where its VMA is, also if it is not yet in the page table.     *)
(* (orlix_sync_user_host_window.)                                          *)
OwnSpaces == \A t, u \in Task : MmOf[t] = MmOf[u] => t = u
AskedAs(e, v) == e # None => /\ v # None
                             /\ e.exec = v.exec
                             /\ e.write => v.write
AskedFor == \A m \in Mm, p \in Page : /\ vma[m][p] \in VmaAt[p] \cup {None}
                                      /\ AskedAs(pte[m][p], vma[m][p])
PassUnderWay(s) == s # NoSync => s.queue # <<>> /\ Len(s.got) < WindowPages
Allowed(p, e) == /\ e.write => \E v \in VmaAt[p] : v.write
                 /\ e.exec => \E v \in VmaAt[p] : v.exec
NotedFor(p, noted, e) ==
  /\ e # None
  /\ e.frame = noted.frame
  /\ e.exec = noted.exec
  /\ e.write => noted.write
  /\ noted.write /\ ~noted.exec => e.write
  /\ Allowed(p, noted)
Noted(m, s) ==
  \A i \in 1..Len(s.got) :
    LET p == FirstPage(WindowOf(Head(s.queue))) + i - 1
    IN s.got[i] # None => NotedFor(p, s.got[i], pte[m][p])
IsolationInv ==
  /\ TypeOK
  /\ AskedFor
  /\ \A t \in Task : PassUnderWay(sync[t]) /\ Noted(MmOf[t], sync[t])
  /\ SegmentsMatchPtes

(* Copying windows back, which happens at every trap, flush and refresh,   *)
(* never writes a frame that belongs only to other address spaces.         *)
(* (OrlixHostUserCopyBackMapping.)                                         *)
OwnFramesWritten ==
  \A f \in Frame : frame'[f] # frame[f] => f \in FramesOf(mm) \/ f \in Free
WritesOwnFramesOnly == [][OwnFramesWritten]_vars

(* A kernel that reads user memory through the page tables reads what the  *)
(* program stored last: no store is still only in a window.                *)
(* (orlix_host_user_sync_writable_mappings, before copy_from_user.)        *)
KernelSeesUserStores ==
  mode # "user" =>
    \A p \in Page : p \in DirtyPages(Host, Window) => frame[seg[p]] = shadow[p]

(* A program reads in a window it may not write what the page table says   *)
(* it reads, with its system calls translated, also after the frame was    *)
(* written through another address space or replaced by a copy.            *)
(* (orlix_host_user_refresh_window, orlix_flush_host_user_range.)          *)
UserSeesFrames ==
  \A p \in Page :
    /\ pte[mm][p] # None
    /\ seg[p] # None
    /\ ~prot[WindowOf(p)].write
    => shadow[p] = View(pte[mm][p].exec, frame[pte[mm][p].frame])

(* Every copy lies in a window, and if the program may not write it there, *)
(* it reads what the page table says: UserSeesFrames, as it is kept.       *)
Backed(h, p) == h.seg[p] # None => h.prot[WindowOf(p)] # None
ReadsRight(h, table, p) ==
  h.seg[p] # None /\ ~h.prot[WindowOf(p)].write
    => h.shadow[p] = View(table[p].exec, h.frame[h.seg[p]])
(* A frame is mapped at one page only, in whatever address spaces: copying *)
(* a page back changes no other page.                                      *)
OneHome(tables) ==
  \A m, n \in Mm, p, q \in Page :
    /\ tables[m][p] # None
    /\ \/ tables[n][q] # None /\ tables[n][q].frame = tables[m][p].frame
       \/ q \in FilePage /\ FileFrame[q] = tables[m][p].frame
    => p = q
ViewInv ==
  /\ IsolationInv
  /\ OneHome(pte)
  /\ \A p \in Page : Backed(Host, p) /\ ReadsRight(Host, pte[mm], p)

(* Translated system calls stay in the copies that are executed.  They     *)
(* reach no frame, where other programs would read them in place of the    *)
(* text of the file.  (OrlixHostTranslateLinuxSyscalls.)                   *)
FramesStayUntranslated == \A f \in Frame : frame[f] # "brk"

(* What keeps stores in order and translated text out of the frames, where *)
(* no host page holds both memory a program may write and memory it may    *)
(* execute.  A writable copy and its frame agree whenever the kernel runs. *)
TextApart ==
  \A p, q \in Page :
    WindowOf(p) = WindowOf(q) =>
      \A v \in VmaAt[p], u \in VmaAt[q] : ~(v.write /\ u.exec)
InStep(h, p) ==
  h.seg[p] # None /\ h.prot[WindowOf(p)].write => h.frame[h.seg[p]] = h.shadow[p]
Untranslated(h) ==
  /\ \A f \in Frame : h.frame[f] # "brk"
  /\ \A w \in Window : h.prot[w] # None => ~(h.prot[w].write /\ h.prot[w].exec)
  /\ \A p \in Page : h.shadow[p] = "brk" =>
       h.prot[WindowOf(p)] # None /\ h.prot[WindowOf(p)].exec
CoherenceInv ==
  /\ ViewInv
  /\ Untranslated(Host)
  /\ mode # "user" => \A p \in Page : InStep(Host, p)

(* The last word on a frame in use: the window, if it can hold stores that *)
(* were not copied back.                                                   *)
Contents == CopyBack(Host, Window).frame

(* No store of a program or of the kernel is lost, reordered with another  *)
(* one, or made to a frame that the page table does not let it write: the  *)
(* shadow memory is as good as a memory management unit.                   *)
Mmu == INSTANCE PagedMemory WITH
         NoEntry <- None, who <- mm, table <- pte, memory <- Contents
ImplementsPagedMemory == Mmu!PSpec

(* The windows let a program store where a memory management unit would    *)
(* not: in a page that has no copy, which a window of several pages may    *)
(* leave out, and in a page that the page table does not let it write, as  *)
(* a window has all the rights of its pages.  Here programs store in no    *)
(* other page than those they may write, and only when it has a copy.      *)
(* (kernel_mapping.c:664, kernel_mapping.c:851.)                           *)
HasCopyToWrite(p) ==
  /\ pte[mm][p] # None
  /\ pte[mm][p].write
  /\ seg[p] # None
BackedNext ==
  /\ Next
  /\ \A p \in Page, v \in UserValue : UserStore(p, v) => HasCopyToWrite(p)
BackedSpec == Init /\ [][BackedNext]_vars

(* init.c:532-536 on pages that mirroring left out: "the later host fault  *)
(* path will re-enter Linux page-fault handling if the task actually       *)
(* touches the page".  A page that Linux has, but that has no copy, must   *)
(* therefore not be accessible to the program, which would read zeros and  *)
(* lose its stores.                                                        *)
MissedPagesFault ==
  mode = "user" =>
    \A p \in Page :
      pte[mm][p] # None /\ seg[p] = None => prot[WindowOf(p)] = None
=============================================================================
