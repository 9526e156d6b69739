---------------------------- MODULE ShadowMemory ----------------------------
(***************************************************************************)
(* User memory without page-table hardware.                                *)
(*                                                                         *)
(* Linux user code runs in the one Darwin address space, on private copies *)
(* of its pages: a "window" is one host page, holding copies ("segments")  *)
(* of the Linux pages that lie in it.  The kernel installs windows before  *)
(* it returns to user code and when it serves a fault, copies writable     *)
(* windows back to the page frames when user code traps, refreshes the     *)
(* copy of a page it writes with copy_to_user, and drops windows where     *)
(* Linux flushes the TLB or changes address space.                         *)
(*                                                                         *)
(* The kernel is not preemptible and has one CPU: other tasks run only     *)
(* while the current one sleeps, and it can sleep in every page fault it   *)
(* serves, also in those of a mirroring pass over a window.                *)
(*                                                                         *)
(* Operators whose names end in _Mutant are not part of the model: each is *)
(* a plausible bug in the definition that follows it.                      *)
(***************************************************************************)
EXTENDS Naturals, Sequences, FiniteSets

CONSTANTS
  Mm,               \* address spaces
  Task,             \* tasks
  MmOf,             \* the address space of a task: CLONE_VM shares one
  PageCount,        \* number of Linux pages of the aperture
  WindowPages,      \* Linux pages in a host page
  StackEntryPages,  \* ORLIX_HOSTED_STACK_ENTRY_WINDOW_PAGES
  Frame,            \* page frames
  FileFrame,        \* the page-cache frame of the file page at every page
  VmaAt,            \* the kinds of memory programs ask for at every page
  UserValue,        \* what programs, and the kernel for them, store
  Pc, Sp,           \* the pages where program counters and stack pointers lie
  None

ASSUME SpaceAssumption == MmOf \in [Task -> Mm]
ASSUME PageAssumption == /\ PageCount \in Nat \ {0}
                         /\ WindowPages \in Nat \ {0}
                         /\ PageCount % WindowPages = 0
                         /\ StackEntryPages \in Nat

Page == 1..PageCount
Vma == [kind : {"anon", "private", "shared"}, write : BOOLEAN, exec : BOOLEAN]

ASSUME VmaAssumption == VmaAt \in [Page -> SUBSET Vma]

(* The pages where programs map a file.  No two of them share a frame.     *)
FilePage == {p \in Page : \E v \in VmaAt[p] : v.kind # "anon"}
FileFrames == {FileFrame[p] : p \in FilePage}
ASSUME FrameAssumption ==
  /\ None \notin Frame
  /\ FileFrame \in [FilePage -> Frame]
  /\ \A p, q \in FilePage : FileFrame[p] = FileFrame[q] => p = q

WindowOf(p) == (p - 1) \div WindowPages
Window == {WindowOf(p) : p \in Page}
PagesOf(w) == {p \in Page : WindowOf(p) = w}
FirstPage(w) == w * WindowPages + 1

ASSUME StartAssumption == Pc \subseteq Page /\ Sp \subseteq Page

VARIABLES
  mode,      \* "user" code, "kernel" code, or "panic"
  cur,       \* current
  vma,       \* the memory an address space asked for, by page
  pte,       \* the page tables
  frame,     \* the content of the frames
  prot,      \* the protection of every window, None where there is none
  seg,       \* the frame that a page of a window copies, or None
  shadow,    \* the bytes user code sees at a page of a window
  sync,      \* of a task: the mirroring it is in the middle of
  stored     \* history: the page and value of the last step, if it stored

hostVars == <<frame, prot, seg, shadow>>
vars == <<mode, cur, vma, pte, frame, prot, seg, shadow, sync, stored>>

-----------------------------------------------------------------------------
(* Page contents: all zero, a text that holds a system call instruction,   *)
(* and the same text with BRK in its place.                                *)
Content == {"zero", "text", "brk"}
ASSUME ValueAssumption == UserValue \subseteq {"zero", "text"}
Entry == [frame : Frame, write : BOOLEAN, exec : BOOLEAN]
NoStore == [page |-> 0, value |-> "none"]
Prot == [write : BOOLEAN, exec : BOOLEAN]
ASSUME NoneAssumption == None \notin Vma \cup Entry \cup Prot
NoSync == [queue |-> <<>>, got |-> <<>>, stage |-> "read"]

(* What a mirroring pass is for, and so what a failure does: the pc page   *)
(* of a return (panic), stack pages of a return (ignored), the page of a   *)
(* fault (its neighbours are not mirrored), the buffer of a write or the   *)
(* last page around a fault (ignored).                                     *)
Stage == {"pc", "stack", "fault", "read"}

TypeOK ==
  /\ mode \in {"user", "kernel", "panic"}
  /\ cur \in Task
  /\ vma \in [Mm -> [Page -> Vma \cup {None}]]
  /\ pte \in [Mm -> [Page -> Entry \cup {None}]]
  /\ frame \in [Frame -> Content]
  /\ prot \in [Window -> Prot \cup {None}]
  /\ seg \in [Page -> Frame \cup {None}]
  /\ shadow \in [Page -> Content]
  /\ sync \in [Task -> [queue : Seq(Page), got : Seq(Entry \cup {None}),
                        stage : Stage]]
  /\ stored \in [page : Page, value : UserValue] \cup {NoStore}

Init ==
  /\ mode = "kernel"
  /\ cur \in Task
  /\ vma = [m \in Mm |-> [p \in Page |-> None]]
  /\ pte = [m \in Mm |-> [p \in Page |-> None]]
  /\ frame = [f \in Frame |-> IF f \in FileFrames THEN "text" ELSE "zero"]
  /\ prot = [w \in Window |-> None]
  /\ seg = [p \in Page |-> None]
  /\ shadow = [p \in Page |-> "zero"]
  /\ sync = [t \in Task |-> NoSync]
  /\ stored = NoStore

-----------------------------------------------------------------------------
(* The host side.  A state of the host's memory is a record; an operator   *)
(* takes one and gives the next.                                           *)

Host == [frame |-> frame, prot |-> prot, seg |-> seg, shadow |-> shadow]
HostBecomes(h) == /\ frame' = h.frame
                  /\ prot' = h.prot
                  /\ seg' = h.seg
                  /\ shadow' = h.shadow

(* Executable pages are copied with every SVC replaced by BRK.             *)
Translate(v) == IF v = "text" THEN "brk" ELSE v
View(exec, v) == IF exec THEN Translate(v) ELSE v

DirtyPages_Mutant(h, ws) == {p \in Page : WindowOf(p) \in ws /\ h.seg[p] # None}
(* The pages of writable windows, whose copies go back to their frames.    *)
DirtyPages(h, ws) == {p \in Page : /\ WindowOf(p) \in ws
                                   /\ h.seg[p] # None
                                   /\ h.prot[WindowOf(p)].write}

(* If two pages copy one frame, one of them wins.                          *)
CopyBack(h, ws) ==
  LET dirty == DirtyPages(h, ws)
      copied == {h.seg[p] : p \in dirty}
  IN [h EXCEPT !.frame =
        [f \in Frame |->
           IF f \in copied
           THEN h.shadow[CHOOSE p \in dirty : h.seg[p] = f]
           ELSE h.frame[f]]]

DropWindows(h, ws) ==
  LET b == CopyBack(h, ws)
      gone == {p \in Page : WindowOf(p) \in ws}
  IN [frame  |-> b.frame,
      prot   |-> [w \in Window |-> IF w \in ws THEN None ELSE b.prot[w]],
      seg    |-> [p \in Page |-> IF p \in gone THEN None ELSE b.seg[p]],
      shadow |-> [p \in Page |-> IF p \in gone THEN "zero" ELSE b.shadow[p]]]

(* The window of w with protection q: the mapping that is there, if it has *)
(* that protection, and a new one of zero bytes otherwise.                 *)
WithMapping(h, w, q) ==
  IF h.prot[w] = q THEN h
  ELSE [DropWindows(h, {w}) EXCEPT !.prot = [@ EXCEPT ![w] = q]]

(* got[i] is the entry found for the i-th page of w, or None.  The window  *)
(* gets the union of their protections.                                    *)
RefreshWindow(h, w, got) ==
  LET found == {i \in 1..Len(got) : got[i] # None}
      q == [write |-> \E i \in found : got[i].write,
            exec  |-> \E i \in found : got[i].exec]
      b == CopyBack(WithMapping(h, w, q), {w})
      entry(p) == got[p - FirstPage(w) + 1]
  IN [b EXCEPT
        !.seg = [p \in Page |->
                   IF p \notin PagesOf(w) THEN @[p]
                   ELSE IF entry(p) = None THEN None ELSE entry(p).frame],
        !.shadow = [p \in Page |->
                      IF p \notin PagesOf(w) \/ entry(p) = None THEN @[p]
                      ELSE View(entry(p).exec, b.frame[entry(p).frame])]]

RefreshPage_Mutant(h, p, e) == h
(* Unlike RefreshWindow, the copy that is replaced does not go back.       *)
RefreshPage(h, p, e) ==
  LET b == WithMapping(h, WindowOf(p), [write |-> e.write, exec |-> e.exec])
  IN [b EXCEPT !.seg = [@ EXCEPT ![p] = e.frame],
               !.shadow = [@ EXCEPT ![p] = View(e.exec, b.frame[e.frame])]]

-----------------------------------------------------------------------------
(* Linux memory management, as far as the shadow memory depends on it.     *)

mm == MmOf[cur]
Mapped(m) == {p \in Page : pte[m][p] # None}
FramesOf(m) == {pte[m][p].frame : p \in Mapped(m)}
Free == Frame \ (FileFrames \cup UNION {FramesOf(m) : m \in Mm})
MappingsOf(f) == {mp \in Mm \X Page : /\ pte[mp[1]][mp[2]] # None
                                      /\ pte[mp[1]][mp[2]].frame = f}

(* handle_mm_fault: the entries it may leave at page p, with the content   *)
(* of the frames and whether it flushed the page.                          *)
FaultOutcomes(m, p, write) ==
  LET v == vma[m][p]
      e == pte[m][p]
      entry(f, w) == [frame |-> f, write |-> w, exec |-> v.exec]
      fresh(content, flush) ==
        {[entry |-> entry(f, write), frame |-> [frame EXCEPT ![f] = content],
          flush |-> flush] : f \in Free}
      same(f, w, flush) ==
        {[entry |-> entry(f, w), frame |-> frame, flush |-> flush]}
  IN IF e = None
     THEN IF v.kind = "anon" THEN fresh("zero", FALSE)
          ELSE IF v.kind = "private" /\ write THEN fresh(frame[FileFrame[p]], FALSE)
          ELSE same(FileFrame[p], write, FALSE)
     ELSE IF e.write \/ ~write THEN same(e.frame, e.write, FALSE)
     ELSE IF \/ v.kind = "shared"
             \/ e.frame \notin FileFrames /\ MappingsOf(e.frame) = {<<m, p>>}
          THEN same(e.frame, TRUE, TRUE)
     ELSE fresh(frame[e.frame], TRUE)

HostAfterFault(p, r) ==
  LET h == [Host EXCEPT !.frame = r.frame]
  IN IF r.flush THEN DropWindows(h, {WindowOf(p)}) ELSE h

PteAfterFault(m, p, r) == [pte EXCEPT ![m] = [@ EXCEPT ![p] = r.entry]]

InKernel == mode = "kernel" /\ sync[cur] = NoSync

-----------------------------------------------------------------------------
(* User code stores to a page of a writable window.  All other stores, and *)
(* accesses outside the windows, trap.                                     *)
UserStore(p, v) ==
  /\ mode = "user"
  /\ prot[WindowOf(p)] # None
  /\ prot[WindowOf(p)].write
  /\ shadow' = [shadow EXCEPT ![p] = v]
  /\ stored' = [page |-> p, value |-> v]
  /\ UNCHANGED <<mode, cur, vma, pte, frame, prot, seg, sync>>

Trap_Mutant ==
  /\ mode = "user"
  /\ mode' = "kernel"
  /\ stored' = NoStore
  /\ UNCHANGED <<cur, vma, pte, hostVars, sync>>
(* Every entry into the kernel copies the writable windows back first.     *)
Trap ==
  /\ mode = "user"
  /\ mode' = "kernel"
  /\ HostBecomes(CopyBack(Host, Window))
  /\ stored' = NoStore
  /\ UNCHANGED <<cur, vma, pte, sync>>

(* The pages around a fault that the handler mirrors too: as many of its   *)
(* VMA as fill a window, from half a window before it, or from the start   *)
(* of the VMA.                                                             *)
Area(m, p) == {q \in Page : \A r \in Page : (r \in p..q \/ r \in q..p) =>
                                            vma[m][r] = vma[m][p]}
Neighbours(m, p) ==
  LET half  == WindowPages \div 2
      first == CHOOSE q \in Area(m, p) : \A r \in Area(m, p) : q <= r
      low   == IF p > first + half THEN p - half ELSE first
  IN {q \in Area(m, p) : /\ q \in low..(low + WindowPages - 1)
                         /\ WindowOf(q) # WindowOf(p)}

Ascending(ps) ==
  [i \in 1..Cardinality(ps) |->
     CHOOSE p \in ps : Cardinality({q \in ps : q < p}) = i - 1]

(* orlix_handle_host_user_fault, for an access the VMA allows; Linux       *)
(* answers the others with a signal.  After a bus error only the window of *)
(* the page is mirrored.                                                   *)
ServeFault(p, write, bus) ==
  /\ InKernel
  /\ vma[mm][p] # None
  /\ write => vma[mm][p].write
  /\ \E r \in FaultOutcomes(mm, p, write) :
       /\ pte' = PteAfterFault(mm, p, r)
       /\ HostBecomes(HostAfterFault(p, r))
  /\ LET near == IF bus THEN <<>> ELSE Ascending(Neighbours(mm, p))
     IN sync' = [sync EXCEPT ![cur] =
                   [queue |-> <<p>> \o near, got |-> <<>>,
                    stage |-> IF near = <<>> THEN "read" ELSE "fault"]]
  /\ stored' = NoStore
  /\ UNCHANGED <<mode, cur, vma>>

(* Before write(2) the kernel mirrors the buffer, page by page.            *)
SyncUserReadRange(p) ==
  /\ InKernel
  /\ sync' = [sync EXCEPT ![cur] = [queue |-> <<p>>, got |-> <<>>, stage |-> "read"]]
  /\ stored' = NoStore
  /\ UNCHANGED <<mode, cur, vma, pte, hostVars>>

StackWindow_Mutant(access, sp) == access..(sp + StackEntryPages)
(* The pages around the stack pointer, clipped at TASK_SIZE.  The page     *)
(* that the next push stores to ("access") is that of the byte before the  *)
(* stack pointer: the page of the stack pointer or the one before it.      *)
StackWindow(access, sp) ==
  LET low == IF access > StackEntryPages THEN access - StackEntryPages ELSE access
  IN {p \in Page : p \in low..(sp + StackEntryPages)}

(* A return to user code mirrors the page of the pc, unless it returns     *)
(* from a fault also the pages around the stack pointer, and last the page *)
(* of the next push and that of the stack pointer.                         *)
StackQueue(access, sp, full) ==
  LET around == IF full THEN Ascending(StackWindow(access, sp)) ELSE <<>>
  IN IF access \notin Page THEN <<sp>>
     ELSE around \o (IF access = sp THEN <<sp>> ELSE <<access, sp>>)
Resume(pc, sp, access, full) ==
  /\ InKernel
  /\ sync' = [sync EXCEPT ![cur] =
                [queue |-> <<pc>> \o StackQueue(access, sp, full),
                 got |-> <<>>, stage |-> "pc"]]
  /\ stored' = NoStore
  /\ UNCHANGED <<mode, cur, vma, pte, hostVars>>

(* One page of a mirroring pass over the window of Head(queue): fault it   *)
(* in as its VMA asks, and note its entry.  A VMA that may be written      *)
(* makes the copy writable.  A fault that has work to do can fail, and     *)
(* then the page is skipped.                                               *)
Collected(m, p) ==
  LET v == vma[m][p]
      write == v.write /\ ~v.exec
      ready == IF pte[m][p] = None THEN FALSE ELSE write => pte[m][p].write
      skipped == {[entry |-> None, pte |-> pte, host |-> Host]}
      found == {[entry |-> [r.entry EXCEPT !.write = @ \/ v.write],
                 pte   |-> PteAfterFault(m, p, r),
                 host  |-> HostAfterFault(p, r)] : r \in FaultOutcomes(m, p, write)}
  IN IF v = None THEN skipped
     ELSE IF ready THEN found
     ELSE skipped \cup found

NextStage(stage) == CASE stage = "pc"    -> "stack"
                      [] stage = "fault" -> "read"
                      [] OTHER           -> stage

(* The pass over one window is complete, or has failed.                    *)
WindowDone(s, ok) ==
  LET rest == Tail(s.queue)
      over == \/ ~ok /\ s.stage \in {"pc", "fault"}
              \/ rest = <<>>
  IN /\ mode' = IF ~ok /\ s.stage = "pc" THEN "panic"
                ELSE IF over /\ s.stage = "stack" THEN "user"
                ELSE mode
     /\ sync' = [sync EXCEPT ![cur] =
                   IF over THEN NoSync
                   ELSE [queue |-> rest, got |-> <<>>,
                         stage |-> NextStage(s.stage)]]

SyncPage ==
  /\ mode = "kernel"
  /\ sync[cur] # NoSync
  /\ LET s == sync[cur]
         w == WindowOf(Head(s.queue))
         wanted == Head(s.queue) - FirstPage(w) + 1
     IN \E c \in Collected(mm, FirstPage(w) + Len(s.got)) :
          LET got == Append(s.got, c.entry)
          IN /\ pte' = c.pte
             /\ \/ /\ Len(got) < WindowPages
                   /\ sync' = [sync EXCEPT ![cur].got = got]
                   /\ HostBecomes(c.host)
                   /\ UNCHANGED mode
                \/ /\ Len(got) = WindowPages
                   /\ got[wanted] = None
                   /\ HostBecomes(c.host)
                   /\ WindowDone(s, FALSE)
                \/ /\ Len(got) = WindowPages
                   /\ got[wanted] # None
                   /\ HostBecomes(RefreshWindow(c.host, w, got))
                   /\ WindowDone(s, TRUE)
                \/ \* Darwin refuses the memory
                   /\ Len(got) = WindowPages
                   /\ got[wanted] # None
                   /\ HostBecomes(DropWindows(c.host, {w}))
                   /\ WindowDone(s, FALSE)
  /\ stored' = NoStore
  /\ UNCHANGED <<cur, vma>>

-----------------------------------------------------------------------------
(* The kernel's own accesses to user memory.                               *)

Resolves(p, write) ==
  IF pte[mm][p] = None THEN FALSE ELSE write => pte[mm][p].write

(* fixup_user_fault, before a copy to or from a page that is not there.    *)
FaultInUser(p, write) ==
  /\ InKernel
  /\ vma[mm][p] # None
  /\ write => vma[mm][p].write
  /\ ~Resolves(p, write)
  /\ \E r \in FaultOutcomes(mm, p, write) :
       /\ pte' = PteAfterFault(mm, p, r)
       /\ HostBecomes(HostAfterFault(p, r))
  /\ stored' = NoStore
  /\ UNCHANGED <<mode, cur, vma, sync>>

(* The kernel writes the frame, then the copy of the page in its window.   *)
CopyToUser(p, v) ==
  /\ InKernel
  /\ Resolves(p, TRUE)
  /\ LET e == pte[mm][p]
     IN HostBecomes(RefreshPage([Host EXCEPT !.frame = [@ EXCEPT ![e.frame] = v]],
                                p, e))
  /\ stored' = [page |-> p, value |-> v]
  /\ UNCHANGED <<mode, cur, vma, pte, sync>>

-----------------------------------------------------------------------------
(* Changes of address spaces.  Linux changes the page table, then flushes, *)
(* and a flush drops host windows.                                         *)

Mmap(p, v) ==
  /\ InKernel
  /\ v \in VmaAt[p]
  /\ vma[mm][p] = None
  /\ vma' = [vma EXCEPT ![mm] = [@ EXCEPT ![p] = v]]
  /\ stored' = NoStore
  /\ UNCHANGED <<mode, cur, pte, hostVars, sync>>

FlushRange_Mutant(h, ps) == h
FlushRange(h, ps) == DropWindows(h, {WindowOf(p) : p \in ps})

Munmap(p) ==
  /\ InKernel
  /\ vma[mm][p] # None
  /\ vma' = [vma EXCEPT ![mm] = [@ EXCEPT ![p] = None]]
  /\ pte' = [pte EXCEPT ![mm] = [@ EXCEPT ![p] = None]]
  /\ HostBecomes(FlushRange(Host, {p}))
  /\ stored' = NoStore
  /\ UNCHANGED <<mode, cur, sync>>

(* A page that becomes writable is made so by its next write fault.        *)
Mprotect(p, v) ==
  /\ InKernel
  /\ v \in VmaAt[p]
  /\ vma[mm][p] \notin {None, v}
  /\ vma[mm][p].kind = v.kind
  /\ vma' = [vma EXCEPT ![mm] = [@ EXCEPT ![p] = v]]
  /\ LET e == pte[mm][p]
         protected == IF e = None THEN None
                      ELSE [e EXCEPT !.write = FALSE, !.exec = v.exec]
     IN pte' = [pte EXCEPT ![mm] = [@ EXCEPT ![p] = protected]]
  /\ HostBecomes(FlushRange(Host, {p}))
  /\ stored' = NoStore
  /\ UNCHANGED <<mode, cur, sync>>

(* dup_mmap into an address space that no task uses: private pages become  *)
(* copy-on-write in both, shared ones fault again in the child.            *)
Fork(n) ==
  /\ InKernel
  /\ \A p \in Page : vma[n][p] = None
  /\ \E p \in Page : vma[mm][p] # None
  /\ LET private(p) == /\ pte[mm][p] # None
                       /\ vma[mm][p].kind # "shared"
         protected == [p \in Page |->
                         IF private(p) THEN [pte[mm][p] EXCEPT !.write = FALSE]
                         ELSE pte[mm][p]]
     IN pte' = [pte EXCEPT
                  ![mm] = protected,
                  ![n] = [p \in Page |->
                            IF private(p) THEN protected[p] ELSE None]]
  /\ vma' = [vma EXCEPT ![n] = vma[mm]]
  /\ HostBecomes(FlushRange(Host, Page))
  /\ stored' = NoStore
  /\ UNCHANGED <<mode, cur, sync>>

(* exec and exit replace an address space that no other task uses.         *)
Exec ==
  /\ InKernel
  /\ \A t \in Task \ {cur} : MmOf[t] # mm
  /\ \E p \in Page : vma[mm][p] # None
  /\ vma' = [vma EXCEPT ![mm] = [p \in Page |-> None]]
  /\ pte' = [pte EXCEPT ![mm] = [p \in Page |-> None]]
  /\ HostBecomes(FlushRange(Host, Page))
  /\ stored' = NoStore
  /\ UNCHANGED <<mode, cur, sync>>

SwitchMm_Mutant(h, prev, next) == h
(* switch_mm.  The current task sleeps, perhaps in a mirroring pass.       *)
SwitchMm(h, prev, next) == IF prev = next THEN h ELSE FlushRange(h, Page)

Switch(t) ==
  /\ mode = "kernel"
  /\ t # cur
  /\ \E p \in Page : vma[MmOf[t]][p] # None
  /\ cur' = t
  /\ HostBecomes(SwitchMm(Host, mm, MmOf[t]))
  /\ stored' = NoStore
  /\ UNCHANGED <<mode, vma, pte, sync>>

Next ==
  \/ \E p \in Page, v \in UserValue : UserStore(p, v) \/ CopyToUser(p, v)
  \/ Trap
  \/ \E p \in Page, write, bus \in BOOLEAN : ServeFault(p, write, bus)
  \/ \E p \in Page, write \in BOOLEAN : FaultInUser(p, write)
  \/ \E p \in Page : SyncUserReadRange(p)
  \/ \E pc \in Pc, sp \in Sp, full \in BOOLEAN :
       \E access \in {sp, sp - 1} : Resume(pc, sp, access, full)
  \/ SyncPage
  \/ \E p \in Page, v \in Vma : Mmap(p, v) \/ Mprotect(p, v)
  \/ \E p \in Page : Munmap(p)
  \/ \E n \in Mm : Fork(n)
  \/ Exec
  \/ \E t \in Task : Switch(t)

Spec == Init /\ [][Next]_vars
=============================================================================
