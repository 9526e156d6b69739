------------------------- MODULE ShadowMemoryProofs -------------------------
(***************************************************************************)
(* Proofs about the shadow memory for every number of pages, frames, host  *)
(* page sizes and address spaces: where no two tasks share an address      *)
(* space, the windows hold copies of the pages of the running one alone,   *)
(* copying them back writes no frame of another, and a program reads in    *)
(* them what its page table says.  Where text is kept apart from what      *)
(* programs write, the kernel reads what they stored, and where a Linux    *)
(* page fills a host page, the shadow memory implements a memory           *)
(* management unit.                                                        *)
(***************************************************************************)
EXTENDS ShadowMemoryProperties, NumberLemmas

-----------------------------------------------------------------------------
(* Pages and windows.                                                      *)
LEMMA WindowOfPage ==
  ASSUME NEW p \in Page
  PROVE  /\ WindowOf(p) \in Window /\ WindowOf(p) \in Nat
         /\ p - FirstPage(WindowOf(p)) + 1 \in 1..WindowPages
  BY PageAssumption DEF Page, Window, WindowOf, FirstPage

LEMMA PageOfWindow ==
  ASSUME NEW w \in Window, NEW i \in 1..WindowPages
  PROVE  FirstPage(w) + i - 1 \in Page /\ WindowOf(FirstPage(w) + i - 1) = w
<1> DEFINE k == PageCount \div WindowPages
<1>1. PICK q \in Page : w = WindowOf(q)
  BY DEF Window
<1>2. w \in Nat /\ k \in Nat /\ PageCount = k * WindowPages
  BY <1>1, WindowOfPage, PageAssumption
<1>3. w * WindowPages < k * WindowPages
  BY <1>1, <1>2, WindowOfPage, PageAssumption DEF FirstPage, Page
<1>4. w < k
  BY <1>2, <1>3, PageAssumption
<1>5. (w + 1) * WindowPages <= PageCount
  BY <1>2, <1>4, PageAssumption
<1>6. WindowOf(FirstPage(w) + i - 1) = w
  BY <1>2, PageAssumption DEF WindowOf, FirstPage
<1> QED
  BY <1>2, <1>5, <1>6, PageAssumption DEF Page, FirstPage

LEMMA NoneIsNothing ==
  /\ None \notin Frame /\ None \notin Vma /\ None \notin Entry /\ None \notin Prot
  BY NoneAssumption, FrameAssumption

(* The pages of a set in ascending order.                                  *)
LEMMA AscendingIsSequence ==
  ASSUME NEW S \in SUBSET Page
  PROVE  Ascending(S) \in Seq(Page)
<1>1. S \in SUBSET (0..PageCount) /\ PageCount \in Nat
  BY PageAssumption DEF Page
<1>2. IsFiniteSet(S) /\ Cardinality(S) \in Nat
  <2>1. IsFiniteSet(0..PageCount)
    BY <1>1, FS_Interval
  <2> QED BY <1>1, <2>1, FS_Subset, FS_CardinalityType
<1>3. ASSUME NEW i \in 1..Cardinality(S)
      PROVE  \E p \in S : Cardinality({q \in S : q < p}) = i - 1
  BY <1>1, <1>2, ElementByRank
<1>4. Ascending(S) \in [1..Cardinality(S) -> Page]
  BY <1>3 DEF Ascending
<1> QED
  BY <1>2, <1>4

-----------------------------------------------------------------------------
(* What the operators on the host's memory keep, and what they write.      *)
HostState == [frame : [Frame -> Content], prot : [Window -> Prot \cup {None}],
              seg : [Page -> Frame \cup {None}], shadow : [Page -> Content]]

(* A frame that differs was written from the copy of a page.               *)
WritesCopiedFrames(h, g) ==
  \A f \in Frame : g.frame[f] # h.frame[f] => \E p \in Page : h.seg[p] = f

LEMMA HostIsState == TypeOK => Host \in HostState
  BY DEF TypeOK, Host, HostState

LEMMA ViewType ==
  ASSUME NEW v \in Content, NEW x \in BOOLEAN
  PROVE  View(x, v) \in Content
  BY DEF View, Translate, Content

LEMMA CopyBackFacts ==
  ASSUME NEW h \in HostState, NEW ws
  PROVE  /\ CopyBack(h, ws) \in HostState
         /\ CopyBack(h, ws).seg = h.seg /\ CopyBack(h, ws).prot = h.prot
         /\ CopyBack(h, ws).shadow = h.shadow
         /\ WritesCopiedFrames(h, CopyBack(h, ws))
<1> DEFINE dirty == DirtyPages(h, ws)
           copied == {h.seg[p] : p \in dirty}
           frames == [f \in Frame |->
                        IF f \in copied
                        THEN h.shadow[CHOOSE p \in dirty : h.seg[p] = f]
                        ELSE h.frame[f]]
<1>1. \A f \in copied : (CHOOSE p \in dirty : h.seg[p] = f) \in dirty
  OBVIOUS
<1>2. dirty \subseteq Page
  BY DEF DirtyPages
<1>3. frames \in [Frame -> Content]
  BY <1>1, <1>2 DEF HostState
<1>4. CopyBack(h, ws) = [h EXCEPT !.frame = frames]
  BY DEF CopyBack
<1>5. \A f \in Frame : frames[f] # h.frame[f] => \E p \in Page : h.seg[p] = f
  BY <1>2
<1> HIDE DEF frames
<1> QED
  BY <1>3, <1>4, <1>5 DEF HostState, WritesCopiedFrames

LEMMA DropWindowsFacts ==
  ASSUME NEW h \in HostState, NEW ws
  PROVE  /\ DropWindows(h, ws) \in HostState
         /\ \A p \in Page : DropWindows(h, ws).seg[p] =
                              IF WindowOf(p) \in ws THEN None ELSE h.seg[p]
         /\ \A w \in Window : DropWindows(h, ws).prot[w] =
                                IF w \in ws THEN None ELSE h.prot[w]
         /\ \A p \in Page : DropWindows(h, ws).shadow[p] =
                              IF WindowOf(p) \in ws THEN "zero" ELSE h.shadow[p]
         /\ DropWindows(h, ws).frame = CopyBack(h, ws).frame
         /\ WritesCopiedFrames(h, DropWindows(h, ws))
<1> DEFINE b == CopyBack(h, ws)
<1>1. /\ b \in HostState /\ b.seg = h.seg /\ b.prot = h.prot
      /\ b.shadow = h.shadow /\ WritesCopiedFrames(h, b)
  BY CopyBackFacts
<1>2. "zero" \in Content
  BY DEF Content
<1> HIDE DEF b
<1>3. DropWindows(h, ws) =
        [frame  |-> b.frame,
         prot   |-> [w \in Window |-> IF w \in ws THEN None ELSE b.prot[w]],
         seg    |-> [p \in Page |-> IF WindowOf(p) \in ws THEN None ELSE b.seg[p]],
         shadow |-> [p \in Page |-> IF WindowOf(p) \in ws THEN "zero" ELSE b.shadow[p]]]
  BY DEF DropWindows, b
<1> QED
  BY <1>1, <1>2, <1>3 DEF HostState, WritesCopiedFrames, b

(* g is h with a mapping of protection q at window w.                      *)
MapsWindow(h, g, w, q) ==
  /\ g \in HostState
  /\ \A p \in Page : g.seg[p] = h.seg[p] \/ g.seg[p] = None
  /\ \A x \in Window : g.prot[x] = IF x = w THEN q ELSE h.prot[x]
  /\ \/ g = h
     \/ /\ h.prot[w] # q
        /\ g.frame = CopyBack(h, {w}).frame
        /\ \A p \in Page :
             /\ g.seg[p] = IF WindowOf(p) = w THEN None ELSE h.seg[p]
             /\ g.shadow[p] = IF WindowOf(p) = w THEN "zero" ELSE h.shadow[p]
  /\ WritesCopiedFrames(h, g)

LEMMA WithMappingFacts ==
  ASSUME NEW h \in HostState, NEW w \in Window, NEW q \in Prot
  PROVE  MapsWindow(h, WithMapping(h, w, q), w, q)
<1> DEFINE d == DropWindows(h, {w})
           g == WithMapping(h, w, q)
           prots == [d.prot EXCEPT ![w] = q]
<1>1. /\ d \in HostState /\ WritesCopiedFrames(h, d)
      /\ d.frame = CopyBack(h, {w}).frame
      /\ \A p \in Page :
           /\ d.seg[p] = IF WindowOf(p) = w THEN None ELSE h.seg[p]
           /\ d.shadow[p] = IF WindowOf(p) = w THEN "zero" ELSE h.shadow[p]
      /\ \A x \in Window \ {w} : d.prot[x] = h.prot[x]
  BY DropWindowsFacts
<1>2. g = IF h.prot[w] = q THEN h ELSE [d EXCEPT !.prot = prots]
  BY DEF WithMapping
<1> HIDE DEF d, g
<1>3. CASE h.prot[w] = q
  BY <1>2, <1>3 DEF WritesCopiedFrames, MapsWindow, g
<1>4. CASE h.prot[w] # q
  <2>1. /\ prots \in [Window -> Prot \cup {None}] /\ prots[w] = q
        /\ \A x \in Window \ {w} : prots[x] = h.prot[x]
    BY <1>1 DEF HostState
  <2> HIDE DEF prots
  <2>2. /\ g \in HostState /\ g.prot = prots /\ g.frame = d.frame /\ g.seg = d.seg
        /\ g.shadow = d.shadow
    BY <1>1, <1>2, <1>4, <2>1 DEF HostState
  <2>3. WritesCopiedFrames(h, g)
    BY <1>1, <2>2 DEF WritesCopiedFrames
  <2>4. \A x \in Window : g.prot[x] = IF x = w THEN q ELSE h.prot[x]
    BY <2>1, <2>2
  <2> QED BY <1>1, <1>4, <2>2, <2>3, <2>4 DEF MapsWindow, g
<1> QED
  BY <1>3, <1>4

(* The entries that a pass over window w has found.                        *)
Entries == Seq(Entry \cup {None})
EntryOf(w, got, p) == got[p - FirstPage(w) + 1]
Rights(got) ==
  LET found == {i \in 1..Len(got) : got[i] # None}
  IN [write |-> \E i \in found : got[i].write,
      exec  |-> \E i \in found : got[i].exec]

LEMMA EntryOfPage ==
  ASSUME NEW w \in Window, NEW got \in Entries, Len(got) = WindowPages,
         NEW p \in PagesOf(w)
  PROVE  /\ p - FirstPage(w) + 1 \in 1..Len(got)
         /\ EntryOf(w, got, p) \in Entry \cup {None}
<1>1. p - FirstPage(w) + 1 \in 1..WindowPages
  BY WindowOfPage DEF PagesOf
<1> QED
  BY <1>1 DEF Entries, EntryOf

(* g is b with the copies of window w replaced by those of the entries.    *)
Refreshes(b, g, w, got) ==
  /\ g.frame = b.frame /\ g.prot = b.prot
  /\ \A p \in PagesOf(w) :
       IF EntryOf(w, got, p) = None
       THEN g.seg[p] = None /\ g.shadow[p] = b.shadow[p]
       ELSE LET e == EntryOf(w, got, p)
            IN g.seg[p] = e.frame /\ g.shadow[p] = View(e.exec, b.frame[e.frame])
  /\ \A p \in Page \ PagesOf(w) : g.seg[p] = b.seg[p] /\ g.shadow[p] = b.shadow[p]

LEMMA RefreshWindowFacts ==
  ASSUME NEW h \in HostState, NEW w \in Window, NEW got \in Entries,
         Len(got) = WindowPages
  PROVE  LET g == RefreshWindow(h, w, got)
             b == CopyBack(WithMapping(h, w, Rights(got)), {w})
         IN /\ g \in HostState /\ b \in HostState
            /\ Refreshes(b, g, w, got)
            /\ \A p \in Page \ PagesOf(w) : g.seg[p] = h.seg[p] \/ g.seg[p] = None
            /\ WritesCopiedFrames(h, g)
<1> DEFINE m == WithMapping(h, w, Rights(got))
           b == CopyBack(m, {w})
           g == RefreshWindow(h, w, got)
           refreshed(p) == IF EntryOf(w, got, p) = None THEN None
                           ELSE EntryOf(w, got, p).frame
           viewed(p) == View(EntryOf(w, got, p).exec, b.frame[EntryOf(w, got, p).frame])
           segs == [p \in Page |-> IF p \notin PagesOf(w) THEN b.seg[p] ELSE refreshed(p)]
           shadows == [p \in Page |-> IF p \notin PagesOf(w) \/ EntryOf(w, got, p) = None
                                     THEN b.shadow[p] ELSE viewed(p)]
<1>1. Rights(got) \in Prot
  BY DEF Rights, Prot
<1>2. /\ m \in HostState /\ WritesCopiedFrames(h, m)
      /\ \A p \in Page : m.seg[p] = h.seg[p] \/ m.seg[p] = None
  <2> HIDE DEF m
  <2>1. MapsWindow(h, m, w, Rights(got))
    BY <1>1, WithMappingFacts DEF m
  <2> QED BY <2>1 DEF MapsWindow
<1> HIDE DEF m
<1>3. b \in HostState /\ b.seg = m.seg /\ WritesCopiedFrames(m, b)
  BY <1>2, CopyBackFacts
<1>4. WritesCopiedFrames(h, b)
  BY <1>2, <1>3, NoneIsNothing DEF WritesCopiedFrames
<1>5. g = [b EXCEPT !.seg = segs, !.shadow = shadows]
  BY DEF RefreshWindow, EntryOf, Rights, b, m
<1> HIDE DEF b, g
<1>6. ASSUME NEW p \in PagesOf(w), EntryOf(w, got, p) # None
      PROVE  /\ EntryOf(w, got, p).frame \in Frame
             /\ viewed(p) \in Content
  <2>1. EntryOf(w, got, p) \in Entry
    BY <1>6, EntryOfPage
  <2>2. b.frame[EntryOf(w, got, p).frame] \in Content
    BY <2>1, <1>3 DEF Entry, HostState
  <2> QED BY <2>1, <2>2, ViewType DEF Entry
<1>7. PagesOf(w) \subseteq Page
  BY DEF PagesOf
<1>8. segs \in [Page -> Frame \cup {None}]
  BY <1>3, <1>6 DEF HostState
<1>9. shadows \in [Page -> Content]
  BY <1>3, <1>6 DEF HostState
<1>10. /\ \A p \in PagesOf(w) :
            /\ segs[p] = refreshed(p)
            /\ shadows[p] = IF EntryOf(w, got, p) = None THEN b.shadow[p] ELSE viewed(p)
       /\ \A p \in Page \ PagesOf(w) : segs[p] = b.seg[p] /\ shadows[p] = b.shadow[p]
  BY <1>7
<1> HIDE DEF segs, shadows
<1>11. /\ g \in HostState /\ g.seg = segs /\ g.shadow = shadows
       /\ g.frame = b.frame /\ g.prot = b.prot
  BY <1>3, <1>5, <1>8, <1>9 DEF HostState
<1>12. WritesCopiedFrames(h, g)
  BY <1>4, <1>11 DEF WritesCopiedFrames
<1>13. Refreshes(b, g, w, got)
  BY <1>10, <1>11 DEF Refreshes
<1> QED
  BY <1>2, <1>3, <1>10, <1>11, <1>12, <1>13 DEF g, b, m

LEMMA RefreshPageFacts ==
  ASSUME NEW h \in HostState, NEW p \in Page, NEW e \in Entry
  PROVE  LET g == RefreshPage(h, p, e)
             b == WithMapping(h, WindowOf(p), [write |-> e.write, exec |-> e.exec])
         IN /\ g \in HostState /\ b \in HostState
            /\ g.frame = b.frame /\ g.prot = b.prot
            /\ g.seg[p] = e.frame
            /\ g.shadow[p] = View(e.exec, b.frame[e.frame])
            /\ \A o \in Page \ {p} : /\ g.seg[o] = b.seg[o]
                                     /\ g.shadow[o] = b.shadow[o]
                                     /\ g.seg[o] = h.seg[o] \/ g.seg[o] = None
            /\ WritesCopiedFrames(h, g)
<1> DEFINE b == WithMapping(h, WindowOf(p), [write |-> e.write, exec |-> e.exec])
           v == View(e.exec, b.frame[e.frame])
<1>1. [write |-> e.write, exec |-> e.exec] \in Prot /\ WindowOf(p) \in Window
  BY WindowOfPage DEF Prot, Entry
<1>2. /\ b \in HostState /\ WritesCopiedFrames(h, b)
      /\ \A o \in Page : b.seg[o] = h.seg[o] \/ b.seg[o] = None
  <2> PICK q \in Prot : q = [write |-> e.write, exec |-> e.exec]
    BY <1>1
  <2>1. MapsWindow(h, WithMapping(h, WindowOf(p), q), WindowOf(p), q)
    BY <1>1, WithMappingFacts
  <2>2. MapsWindow(h, b, WindowOf(p), q)
    BY <2>1
  <2> HIDE DEF b
  <2> QED BY <2>2 DEF MapsWindow
<1> HIDE DEF b
<1>3. e.frame \in Frame /\ e.exec \in BOOLEAN
  BY DEF Entry
<1>4. b.frame[e.frame] \in Content
  BY <1>2, <1>3 DEF HostState
<1>5. v \in Content
  BY <1>3, <1>4, ViewType
<1> DEFINE segs == [b.seg EXCEPT ![p] = e.frame]
           shadows == [b.shadow EXCEPT ![p] = v]
           g == RefreshPage(h, p, e)
<1>6. g = [b EXCEPT !.seg = segs, !.shadow = shadows]
  BY DEF RefreshPage, b
<1>7. /\ segs \in [Page -> Frame \cup {None}] /\ segs[p] = e.frame
      /\ \A o \in Page \ {p} : segs[o] = b.seg[o]
      /\ shadows \in [Page -> Content] /\ shadows[p] = v
      /\ \A o \in Page \ {p} : shadows[o] = b.shadow[o]
  BY <1>2, <1>3, <1>5 DEF HostState
<1> HIDE DEF segs, shadows, g, v
<1>8. /\ g \in HostState /\ g.seg = segs /\ g.shadow = shadows
      /\ g.frame = b.frame /\ g.prot = b.prot
  BY <1>2, <1>6, <1>7 DEF HostState
<1>9. WritesCopiedFrames(h, g)
  BY <1>2, <1>8 DEF WritesCopiedFrames
<1> QED
  BY <1>2, <1>7, <1>8, <1>9 DEF g, b, v

-----------------------------------------------------------------------------
(* What a page fault leaves behind.                                        *)
LEMMA OutcomeFacts ==
  ASSUME TypeOK, AskedFor, NEW m \in Mm, NEW p \in Page, vma[m][p] # None,
         NEW write \in BOOLEAN, write => vma[m][p].write,
         NEW r \in FaultOutcomes(m, p, write)
  PROVE  /\ r.entry \in Entry /\ r.frame \in [Frame -> Content] /\ r.flush \in BOOLEAN
         /\ pte[m][p] = None \/ r.flush \/ r.entry = pte[m][p]
         /\ \A f \in Frame : r.frame[f] # frame[f] => f \in Free
         /\ AskedAs(r.entry, vma[m][p])
         /\ write => r.entry.write
         /\ \/ r.entry.frame \in Free
            \/ p \in FilePage /\ r.entry.frame = FileFrame[p]
            \/ pte[m][p] # None /\ r.entry.frame = pte[m][p].frame
         /\ FramesStayUntranslated => \A f \in Frame : r.frame[f] # "brk"
<1> DEFINE v == vma[m][p]
           e == pte[m][p]
<1>1. /\ v \in Vma /\ v \in VmaAt[p] /\ e \in Entry \cup {None}
      /\ e # None => e.exec = v.exec /\ (e.write => v.write)
  BY DEF TypeOK, AskedFor, AskedAs
<1>2. v.kind # "anon" => p \in FilePage /\ FileFrame[p] \in Frame
  BY <1>1, FrameAssumption, VmaAssumption DEF FilePage
<1>3. Free \subseteq Frame /\ "zero" \in Content
  BY DEF Free, Content
<1>4. v.exec \in BOOLEAN /\ v.kind \in {"anon", "private", "shared"}
  BY <1>1 DEF Vma
<1>5. e # None => e.frame \in Frame /\ e.write \in BOOLEAN
  BY <1>1 DEF Entry
<1>6. frame \in [Frame -> Content]
  BY DEF TypeOK
<1> DEFINE entry(f, w) == [frame |-> f, write |-> w, exec |-> v.exec]
           fresh(content, flush) ==
             {[entry |-> entry(f, write), frame |-> [frame EXCEPT ![f] = content],
               flush |-> flush] : f \in Free}
           same(f, w, flush) ==
             {[entry |-> entry(f, w), frame |-> frame, flush |-> flush]}
<1>7. \/ e = None /\ v.kind = "anon" /\ r \in fresh("zero", FALSE)
      \/ e = None /\ v.kind # "anon" /\ r \in fresh(frame[FileFrame[p]], FALSE)
      \/ e = None /\ v.kind # "anon" /\ r \in same(FileFrame[p], write, FALSE)
      \/ e # None /\ (write => e.write) /\ r \in same(e.frame, e.write, FALSE)
      \/ e # None /\ write /\ r \in same(e.frame, TRUE, TRUE)
      \/ e # None /\ r \in fresh(frame[e.frame], TRUE)
  BY <1>4 DEF FaultOutcomes
<1> DEFINE Unbroken == FramesStayUntranslated => \A f \in Frame : r.frame[f] # "brk"
           Home(f) == \/ f \in Free
                      \/ p \in FilePage /\ f = FileFrame[p]
                      \/ e # None /\ f = e.frame
           Result == /\ r.entry \in Entry /\ r.frame \in [Frame -> Content]
                     /\ r.flush \in BOOLEAN
                     /\ e = None \/ r.flush \/ r.entry = e
                     /\ \A f \in Frame : r.frame[f] # frame[f] => f \in Free
                     /\ r.entry.exec = v.exec
                     /\ write => r.entry.write
                     /\ r.entry.write => v.write
                     /\ Home(r.entry.frame)
                     /\ Unbroken
<1>8. ASSUME NEW content \in Content, NEW flush \in BOOLEAN, r \in fresh(content, flush),
             e = None \/ flush, FramesStayUntranslated => content # "brk"
      PROVE  Result
  <2> DEFINE filled(f) == [frame EXCEPT ![f] = content]
  <2> HIDE DEF filled, entry
  <2>0. PICK f \in Free : r = [entry |-> entry(f, write), frame |-> filled(f),
                              flush |-> flush]
    BY <1>8 DEF fresh, filled
  <2>1. /\ r.entry = entry(f, write) /\ r.flush = flush
        /\ r.frame = [frame EXCEPT ![f] = content]
    BY <2>0 DEF filled
  <2> USE DEF entry
  <2>2. Unbroken
    BY <1>3, <1>6, <1>8, <2>1 DEF FramesStayUntranslated
  <2>3. /\ r.entry \in Entry /\ r.entry.exec = v.exec /\ r.entry.write = write
        /\ r.entry.frame \in Free
    BY <1>3, <1>4, <2>1 DEF Entry
  <2>4. /\ r.frame \in [Frame -> Content]
        /\ \A o \in Frame : r.frame[o] # frame[o] => o \in Free
    BY <1>6, <1>8, <2>1
  <2> HIDE DEF Unbroken, v, e, entry
  <2> QED BY <1>8, <2>1, <2>2, <2>3, <2>4 DEF v
<1>9. ASSUME NEW f \in Frame, NEW w \in BOOLEAN, NEW flush \in BOOLEAN,
             r \in same(f, w, flush), Home(f), w => v.write, write => w,
             e = None \/ flush \/ e = entry(f, w)
      PROVE  Result
  <2>1. r.entry = entry(f, w) /\ r.frame = frame /\ r.flush = flush
    BY <1>9
  <2>2. Unbroken
    BY <2>1 DEF FramesStayUntranslated
  <2>3. /\ entry(f, w) \in Entry /\ entry(f, w).exec = v.exec
        /\ entry(f, w).write = w /\ entry(f, w).frame = f
    BY <1>4, <1>9 DEF Entry
  <2> HIDE DEF Unbroken, v, e, entry, Home
  <2> QED BY <1>6, <1>9, <2>1, <2>2, <2>3
<1>10. e # None => e = entry(e.frame, e.write)
  BY <1>1 DEF Entry
<1>11. /\ FramesStayUntranslated => "zero" # "brk"
       /\ v.kind # "anon" => frame[FileFrame[p]] \in Content
       /\ v.kind # "anon" /\ FramesStayUntranslated => frame[FileFrame[p]] # "brk"
       /\ e # None => frame[e.frame] \in Content
       /\ e # None /\ FramesStayUntranslated => frame[e.frame] # "brk"
  BY <1>2, <1>5, <1>6 DEF FramesStayUntranslated
<1>12. write => v.write
  OBVIOUS
<1> HIDE DEF entry, fresh, same, Unbroken, Home, Result, v, e
<1>13. ASSUME e = None PROVE Result
  <2>1. CASE v.kind = "anon" /\ r \in fresh("zero", FALSE)
    BY <1>3, <1>8, <1>11, <1>13, <2>1
  <2>2. CASE v.kind # "anon" /\ r \in fresh(frame[FileFrame[p]], FALSE)
    BY <1>8, <1>11, <1>13, <2>2
  <2>3. CASE v.kind # "anon" /\ r \in same(FileFrame[p], write, FALSE)
    <3>1. Home(FileFrame[p])
      BY <1>2, <2>3 DEF Home
    <3> QED BY <1>2, <1>9, <1>12, <1>13, <2>3, <3>1
  <2> QED BY <1>7, <1>13, <2>1, <2>2, <2>3
<1>14. ASSUME e # None PROVE Result
  <2>1. Home(e.frame)
    BY <1>14 DEF Home
  <2>2. CASE (write => e.write) /\ r \in same(e.frame, e.write, FALSE)
    BY <1>1, <1>5, <1>9, <1>10, <1>14, <2>1, <2>2
  <2>3. CASE write /\ r \in same(e.frame, TRUE, TRUE)
    BY <1>5, <1>9, <1>12, <1>14, <2>1, <2>3
  <2>4. CASE r \in fresh(frame[e.frame], TRUE)
    BY <1>8, <1>11, <1>14, <2>4
  <2> QED BY <1>7, <1>14, <2>2, <2>3, <2>4
<1>15. Result
  BY <1>13, <1>14
<1> QED
  BY <1>15 DEF Result, v, e, Home, Unbroken, AskedAs

-----------------------------------------------------------------------------
(* The steps.                                                              *)
MatchesPtes(segs, table) ==
  \A p \in Page : segs[p] # None => table[p] # None /\ table[p].frame = segs[p]

WritesOwn(h) ==
  \A f \in Frame : h.frame[f] # frame[f] => f \in FramesOf(mm) \/ f \in Free

LEMMA CurrentSpace == TypeOK => mm \in Mm /\ cur \in Task
  BY SpaceAssumption DEF TypeOK, mm

LEMMA HostChanges ==
  ASSUME NEW h \in HostState, HostBecomes(h)
  PROVE  /\ (frame \in [Frame -> Content])' /\ (prot \in [Window -> Prot \cup {None}])'
         /\ (seg \in [Page -> Frame \cup {None}])' /\ (shadow \in [Page -> Content])'
         /\ WritesOwn(h) => OwnFramesWritten
         /\ seg' = h.seg
  BY DEF HostState, HostBecomes, WritesOwn, OwnFramesWritten

(* Whatever is copied back without a fault goes to frames of the running   *)
(* address space.                                                          *)
LEMMA CopiesAreOwn ==
  ASSUME IsolationInv, NEW h \in HostState, WritesCopiedFrames(Host, h)
  PROVE  WritesOwn(h)
<1> SUFFICES ASSUME NEW f \in Frame, h.frame[f] # frame[f]
             PROVE  f \in FramesOf(mm)
  BY DEF WritesOwn
<1>1. PICK p \in Page : seg[p] = f
  BY DEF WritesCopiedFrames, Host
<1>2. pte[mm][p] # None /\ pte[mm][p].frame = f
  BY <1>1, NoneIsNothing DEF IsolationInv, SegmentsMatchPtes
<1> QED
  BY <1>2 DEF FramesOf, Mapped

(* A page fault of the running task: one entry changes, and a window whose *)
(* page gets another frame is dropped.                                     *)
LEMMA FaultKeeps ==
  ASSUME IsolationInv, NEW p \in Page, vma[mm][p] # None, NEW write \in BOOLEAN,
         write => vma[mm][p].write, NEW r \in FaultOutcomes(mm, p, write)
  PROVE  LET q == PteAfterFault(mm, p, r)
             h == HostAfterFault(p, r)
         IN /\ r.entry \in Entry /\ AskedAs(r.entry, vma[mm][p])
            /\ write => r.entry.write
            /\ q \in [Mm -> [Page -> Entry \cup {None}]]
            /\ q[mm][p] = r.entry
            /\ \A o \in Page \ {p} : q[mm][o] = pte[mm][o]
            /\ \A m \in Mm \ {mm} : q[m] = pte[m]
            /\ h \in HostState
            /\ MatchesPtes(h.seg, q[mm])
            /\ \A f \in Frame : h.frame[f] # frame[f] => f \in FramesOf(mm) \/ f \in Free
            /\ \A o \in Page : h.seg[o] = seg[o] \/ h.seg[o] = None
<1> DEFINE q == PteAfterFault(mm, p, r)
           h == HostAfterFault(p, r)
           g == [Host EXCEPT !.frame = r.frame]
<1>1. TypeOK /\ AskedFor /\ SegmentsMatchPtes /\ mm \in Mm
  BY CurrentSpace DEF IsolationInv
<1>2. /\ r.entry \in Entry /\ r.frame \in [Frame -> Content] /\ r.flush \in BOOLEAN
      /\ pte[mm][p] = None \/ r.flush \/ r.entry = pte[mm][p]
      /\ \A f \in Frame : r.frame[f] # frame[f] => f \in Free
      /\ AskedAs(r.entry, vma[mm][p])
      /\ write => r.entry.write
  BY <1>1, OutcomeFacts
<1>3. /\ q \in [Mm -> [Page -> Entry \cup {None}]]
      /\ q[mm][p] = r.entry
      /\ \A o \in Page \ {p} : q[mm][o] = pte[mm][o]
      /\ \A m \in Mm \ {mm} : q[m] = pte[m]
  BY <1>1, <1>2 DEF PteAfterFault, TypeOK
<1>4. g \in HostState /\ g.frame = r.frame /\ g.seg = seg
  BY <1>1, <1>2, HostIsState DEF HostState, Host
<1>5. h = IF r.flush THEN DropWindows(g, {WindowOf(p)}) ELSE g
  BY DEF HostAfterFault
<1>6. /\ r.flush \in BOOLEAN /\ h \in HostState /\ WritesCopiedFrames(g, h)
      /\ \A o \in Page : h.seg[o] = seg[o] \/ h.seg[o] = None
      /\ r.flush => h.seg[p] = None
  <2> HIDE DEF g, h
  <2>1. CASE r.flush
    BY <1>4, <1>5, <2>1, DropWindowsFacts
  <2>2. CASE ~r.flush
    BY <1>2, <1>4, <1>5, <2>2 DEF WritesCopiedFrames
  <2> QED BY <1>2, <2>1, <2>2
<1> HIDE DEF q, g, h
<1>7. MatchesPtes(h.seg, q[mm])
  <2> SUFFICES ASSUME NEW o \in Page, h.seg[o] # None
               PROVE  q[mm][o] # None /\ q[mm][o].frame = h.seg[o]
    BY DEF MatchesPtes
  <2>1. h.seg[o] = seg[o] /\ pte[mm][o] # None /\ pte[mm][o].frame = seg[o]
    BY <1>1, <1>6 DEF SegmentsMatchPtes
  <2>2. CASE o = p
    BY <1>2, <1>3, <1>6, <2>1, <2>2, NoneIsNothing
  <2>3. CASE o # p
    BY <1>3, <2>1, <2>3
  <2> QED BY <2>2, <2>3
<1>8. ASSUME NEW f \in Frame, h.frame[f] # frame[f]
      PROVE  f \in FramesOf(mm) \/ f \in Free
  <2>1. CASE h.frame[f] = r.frame[f]
    BY <1>2, <1>8, <2>1
  <2>2. CASE h.frame[f] # r.frame[f]
    <3>1. PICK o \in Page : seg[o] = f
      BY <1>4, <1>6, <2>2 DEF WritesCopiedFrames
    <3>2. pte[mm][o] # None /\ pte[mm][o].frame = f
      BY <1>1, <3>1, NoneIsNothing DEF SegmentsMatchPtes
    <3> QED BY <3>2 DEF FramesOf, Mapped
  <2> QED BY <2>1, <2>2
<1> QED
  BY <1>2, <1>3, <1>6, <1>7, <1>8 DEF q, h

LEMMA FaultAsked ==
  ASSUME AskedFor, mm \in Mm, NEW p \in Page, UNCHANGED vma,
         AskedAs(pte'[mm][p], vma[mm][p]),
         \A o \in Page \ {p} : pte'[mm][o] = pte[mm][o],
         \A m \in Mm \ {mm} : pte'[m] = pte[m]
  PROVE  AskedFor'
  BY DEF AskedFor

(* The tasks that sleep have their own page tables, which nobody changes.  *)
LEMMA OthersKeepNotes ==
  ASSUME IsolationInv, OwnSpaces, \A m \in Mm \ {mm} : pte'[m] = pte[m],
         NEW t \in Task, t # cur, sync'[t] = sync[t]
  PROVE  (PassUnderWay(sync[t]) /\ Noted(MmOf[t], sync[t]))'
<1>1. PassUnderWay(sync[t]) /\ Noted(MmOf[t], sync[t]) /\ TypeOK
  BY DEF IsolationInv
<1>2. MmOf[t] \in Mm /\ MmOf[t] # mm
  BY <1>1, SpaceAssumption, CurrentSpace DEF OwnSpaces, mm
<1>3. pte'[MmOf[t]] = pte[MmOf[t]]
  BY <1>2
<1> QED
  BY <1>1, <1>3 DEF PassUnderWay, Noted

LEMMA NoPassKeepsNotes ==
  ASSUME NEW m \in Mm, NEW s, s.got = <<>>
  PROVE  Noted(m, s) /\ Noted(m, s)'
  BY DEF Noted

Kept == IsolationInv' /\ OwnFramesWritten

LEMMA StepUserStore ==
  ASSUME IsolationInv, NEW p \in Page, NEW v \in UserValue, UserStore(p, v)
  PROVE  Kept
<1>1. v \in Content
  BY ValueAssumption DEF Content
<1>2. TypeOK'
  BY <1>1 DEF IsolationInv, TypeOK, UserStore
<1>3. OwnFramesWritten /\ UNCHANGED <<cur, vma, pte, seg, sync>>
  BY DEF UserStore, OwnFramesWritten
<1> QED
  BY <1>2, <1>3 DEF Kept, IsolationInv, AskedFor, PassUnderWay, Noted,
                    SegmentsMatchPtes, mm

LEMMA StepTrap == ASSUME IsolationInv, Trap PROVE Kept
<1> DEFINE h == CopyBack(Host, Window)
<1>1. TypeOK /\ Host \in HostState
  BY HostIsState DEF IsolationInv
<1>2. h \in HostState /\ h.seg = seg /\ WritesCopiedFrames(Host, h)
  BY <1>1, CopyBackFacts DEF Host
<1>3. HostBecomes(h) /\ mode' = "kernel" /\ stored' = NoStore
      /\ UNCHANGED <<cur, vma, pte, sync>>
  BY DEF Trap
<1> HIDE DEF h
<1>4. WritesOwn(h)
  BY <1>2, CopiesAreOwn
<1>5. TypeOK' /\ OwnFramesWritten /\ seg' = seg
  BY <1>1, <1>2, <1>3, <1>4, HostChanges DEF TypeOK
<1> QED
  BY <1>3, <1>5 DEF Kept, IsolationInv, AskedFor, PassUnderWay, Noted,
                    SegmentsMatchPtes, mm

(* A step of the running task that starts or continues no pass, and        *)
(* changes no page table but its own.                                      *)
LEMMA StepOfOne ==
  ASSUME IsolationInv, OwnSpaces, InKernel, UNCHANGED <<cur, sync>>, TypeOK', AskedFor',
         \A m \in Mm \ {mm} : pte'[m] = pte[m], MatchesPtes(seg', pte'[mm])
  PROVE  IsolationInv'
<1>1. TypeOK /\ cur \in Task /\ mm \in Mm /\ mm' = mm
  BY CurrentSpace DEF IsolationInv, mm
<1>2. sync'[cur] = NoSync
  BY DEF InKernel
<1>3. (PassUnderWay(sync[cur]) /\ Noted(MmOf[cur], sync[cur]))'
  BY <1>1, <1>2 DEF PassUnderWay, Noted, NoSync
<1>4. ASSUME NEW t \in Task PROVE (PassUnderWay(sync[t]) /\ Noted(MmOf[t], sync[t]))'
  BY <1>3, OthersKeepNotes
<1>5. SegmentsMatchPtes'
  BY <1>1 DEF SegmentsMatchPtes, MatchesPtes
<1> QED
  BY <1>4, <1>5 DEF IsolationInv

LEMMA StepFaultInUser ==
  ASSUME IsolationInv, OwnSpaces, NEW p \in Page, NEW write \in BOOLEAN,
         FaultInUser(p, write)
  PROVE  Kept
<1>1. PICK r \in FaultOutcomes(mm, p, write) :
        pte' = PteAfterFault(mm, p, r) /\ HostBecomes(HostAfterFault(p, r))
  BY DEF FaultInUser
<1>2. vma[mm][p] # None /\ (write => vma[mm][p].write) /\ TypeOK /\ AskedFor /\ mm \in Mm
  BY CurrentSpace DEF FaultInUser, IsolationInv
<1> DEFINE h == HostAfterFault(p, r)
<1>3. /\ r.entry \in Entry /\ AskedAs(pte'[mm][p], vma[mm][p])
      /\ pte' \in [Mm -> [Page -> Entry \cup {None}]]
      /\ \A o \in Page \ {p} : pte'[mm][o] = pte[mm][o]
      /\ \A m \in Mm \ {mm} : pte'[m] = pte[m]
      /\ h \in HostState /\ MatchesPtes(h.seg, pte'[mm]) /\ WritesOwn(h)
  BY <1>1, <1>2, FaultKeeps DEF WritesOwn
<1> HIDE DEF h
<1>4. HostBecomes(h) /\ InKernel /\ stored' = NoStore /\ UNCHANGED <<mode, cur, vma, sync>>
  BY <1>1 DEF FaultInUser, h
<1>5. TypeOK' /\ OwnFramesWritten /\ MatchesPtes(seg', pte'[mm])
  BY <1>2, <1>3, <1>4, HostChanges DEF TypeOK
<1>6. AskedFor'
  BY <1>2, <1>3, <1>4, FaultAsked
<1> QED
  BY <1>3, <1>4, <1>5, <1>6, StepOfOne DEF Kept

LEMMA StepCopyToUser ==
  ASSUME IsolationInv, OwnSpaces, NEW p \in Page, NEW v \in UserValue, CopyToUser(p, v)
  PROVE  Kept
<1> DEFINE e == pte[mm][p]
           g == [Host EXCEPT !.frame = [@ EXCEPT ![e.frame] = v]]
           h == RefreshPage(g, p, e)
<1>1. TypeOK /\ AskedFor /\ mm \in Mm /\ SegmentsMatchPtes
  BY CurrentSpace DEF IsolationInv
<1>2. e # None /\ e \in Entry /\ e.frame \in Frame
  BY <1>1 DEF CopyToUser, Resolves, TypeOK, Entry
<1>3. v \in Content /\ Host \in HostState
  BY <1>1, HostIsState, ValueAssumption DEF Content
<1>4. /\ g \in HostState /\ g.seg = seg
      /\ \A f \in Frame \ {e.frame} : g.frame[f] = frame[f]
  BY <1>2, <1>3 DEF HostState, Host
<1>5. /\ HostBecomes(h) /\ InKernel /\ stored' = [page |-> p, value |-> v]
      /\ UNCHANGED <<mode, cur, vma, pte, sync>>
  BY DEF CopyToUser
<1>6. e.frame \in FramesOf(mm)
  BY <1>2 DEF FramesOf, Mapped
<1> HIDE DEF g
<1>7. /\ h \in HostState /\ h.seg[p] = e.frame /\ WritesCopiedFrames(g, h)
      /\ \A o \in Page \ {p} : h.seg[o] = seg[o] \/ h.seg[o] = None
  BY <1>2, <1>4, RefreshPageFacts
<1> HIDE DEF h
<1>8. ASSUME NEW f \in Frame, h.frame[f] # frame[f] PROVE f \in FramesOf(mm)
  <2>1. CASE f = e.frame
    BY <1>6, <2>1
  <2>2. CASE f # e.frame
    <3>1. PICK o \in Page : seg[o] = f
      BY <1>4, <1>7, <1>8, <2>2 DEF WritesCopiedFrames
    <3>2. pte[mm][o] # None /\ pte[mm][o].frame = f
      BY <1>1, <3>1, NoneIsNothing DEF SegmentsMatchPtes
    <3> QED BY <3>2 DEF FramesOf, Mapped
  <2> QED BY <2>1, <2>2
<1>9. MatchesPtes(h.seg, pte'[mm])
  BY <1>1, <1>2, <1>5, <1>7 DEF MatchesPtes, SegmentsMatchPtes
<1>10. TypeOK' /\ OwnFramesWritten /\ MatchesPtes(seg', pte'[mm])
  BY <1>1, <1>5, <1>7, <1>8, <1>9, HostChanges DEF TypeOK, WritesOwn
<1>11. AskedFor'
  BY <1>1, <1>5 DEF AskedFor
<1> QED
  BY <1>5, <1>10, <1>11, StepOfOne DEF Kept

LEMMA FlushFacts ==
  ASSUME IsolationInv, NEW ps \in SUBSET Page
  PROVE  LET h == FlushRange(Host, ps)
         IN /\ h \in HostState /\ WritesOwn(h)
            /\ \A p \in ps : h.seg[p] = None
            /\ \A p \in Page : h.seg[p] = seg[p] \/ h.seg[p] = None
<1> DEFINE h == FlushRange(Host, ps)
           ws == {WindowOf(p) : p \in ps}
<1>1. Host \in HostState /\ Host.seg = seg
  BY HostIsState DEF IsolationInv, Host
<1>2. h = DropWindows(Host, ws)
  BY DEF FlushRange
<1>3. \A p \in ps : WindowOf(p) \in ws
  OBVIOUS
<1> HIDE DEF h, ws
<1>4. /\ h \in HostState /\ WritesCopiedFrames(Host, h)
      /\ \A p \in Page : h.seg[p] = IF WindowOf(p) \in ws THEN None ELSE seg[p]
  BY <1>1, <1>2, DropWindowsFacts
<1>5. WritesOwn(h)
  BY <1>4, CopiesAreOwn
<1> QED
  BY <1>3, <1>4, <1>5 DEF h

LEMMA StepMmap ==
  ASSUME IsolationInv, OwnSpaces, NEW p \in Page, NEW v \in Vma, Mmap(p, v)
  PROVE  Kept
<1>1. TypeOK /\ AskedFor /\ mm \in Mm /\ SegmentsMatchPtes
  BY CurrentSpace DEF IsolationInv
<1>2. /\ InKernel /\ v \in VmaAt[p] /\ v # None
      /\ vma' = [vma EXCEPT ![mm] = [@ EXCEPT ![p] = v]]
      /\ stored' = NoStore /\ UNCHANGED <<mode, cur, pte, frame, prot, seg, shadow, sync>>
  BY NoneIsNothing DEF Mmap, hostVars
<1>3. TypeOK'
  BY <1>1, <1>2 DEF TypeOK
<1>4. AskedFor'
  BY <1>1, <1>2 DEF AskedFor, AskedAs, TypeOK, Mmap
<1>5. MatchesPtes(seg', pte'[mm]) /\ OwnFramesWritten
  BY <1>1, <1>2 DEF MatchesPtes, SegmentsMatchPtes, OwnFramesWritten
<1> QED
  BY <1>2, <1>3, <1>4, <1>5, StepOfOne DEF Kept

LEMMA StepMunmap ==
  ASSUME IsolationInv, OwnSpaces, NEW p \in Page, Munmap(p)
  PROVE  Kept
<1> DEFINE h == FlushRange(Host, {p})
<1>1. TypeOK /\ AskedFor /\ mm \in Mm /\ SegmentsMatchPtes
  BY CurrentSpace DEF IsolationInv
<1>2. /\ h \in HostState /\ WritesOwn(h) /\ h.seg[p] = None
      /\ \A o \in Page : h.seg[o] = seg[o] \/ h.seg[o] = None
  BY FlushFacts
<1> HIDE DEF h
<1>3. /\ InKernel /\ HostBecomes(h)
      /\ vma' = [vma EXCEPT ![mm] = [@ EXCEPT ![p] = None]]
      /\ pte' = [pte EXCEPT ![mm] = [@ EXCEPT ![p] = None]]
      /\ stored' = NoStore /\ UNCHANGED <<mode, cur, sync>>
  BY DEF Munmap, h
<1>4. TypeOK' /\ OwnFramesWritten /\ seg' = h.seg
  BY <1>1, <1>2, <1>3, HostChanges DEF TypeOK
<1>5. AskedFor'
  BY <1>1, <1>3 DEF AskedFor, AskedAs, TypeOK
<1>6. MatchesPtes(seg', pte'[mm]) /\ \A m \in Mm \ {mm} : pte'[m] = pte[m]
  BY <1>1, <1>2, <1>3, <1>4 DEF MatchesPtes, SegmentsMatchPtes, TypeOK
<1> QED
  BY <1>3, <1>4, <1>5, <1>6, StepOfOne DEF Kept

LEMMA StepMprotect ==
  ASSUME IsolationInv, OwnSpaces, NEW p \in Page, NEW v \in Vma, Mprotect(p, v)
  PROVE  Kept
<1> DEFINE h == FlushRange(Host, {p})
           e == IF pte[mm][p] = None THEN None
                ELSE [pte[mm][p] EXCEPT !.write = FALSE, !.exec = v.exec]
<1>1. TypeOK /\ AskedFor /\ mm \in Mm /\ SegmentsMatchPtes
  BY CurrentSpace DEF IsolationInv
<1>2. /\ h \in HostState /\ WritesOwn(h) /\ h.seg[p] = None
      /\ \A o \in Page : h.seg[o] = seg[o] \/ h.seg[o] = None
  BY FlushFacts
<1> HIDE DEF h
<1>3. e \in Entry \cup {None} /\ (e # None => e.exec = v.exec /\ ~e.write)
  <2>1. pte[mm][p] \in Entry \cup {None} /\ v.exec \in BOOLEAN
    BY <1>1 DEF TypeOK, Vma
  <2> QED BY <2>1 DEF Entry
<1>4. /\ InKernel /\ HostBecomes(h)
      /\ v \in VmaAt[p] /\ v # None /\ (e # None => pte[mm][p] # None)
      /\ vma' = [vma EXCEPT ![mm] = [@ EXCEPT ![p] = v]]
      /\ pte' = [pte EXCEPT ![mm] = [@ EXCEPT ![p] = e]]
      /\ stored' = NoStore /\ UNCHANGED <<mode, cur, sync>>
  BY <1>1, NoneIsNothing DEF Mprotect, TypeOK, h
<1> HIDE DEF e
<1>5. TypeOK' /\ OwnFramesWritten /\ seg' = h.seg
  BY <1>1, <1>2, <1>3, <1>4, HostChanges DEF TypeOK
<1>6. AskedFor'
  BY <1>1, <1>3, <1>4 DEF AskedFor, AskedAs, TypeOK
<1>7. MatchesPtes(seg', pte'[mm]) /\ \A m \in Mm \ {mm} : pte'[m] = pte[m]
  BY <1>1, <1>2, <1>4, <1>5 DEF MatchesPtes, SegmentsMatchPtes, TypeOK
<1> QED
  BY <1>4, <1>5, <1>6, <1>7, StepOfOne DEF Kept

LEMMA StepExec ==
  ASSUME IsolationInv, OwnSpaces, Exec
  PROVE  Kept
<1> DEFINE h == FlushRange(Host, Page)
<1>1. TypeOK /\ AskedFor /\ mm \in Mm
  BY CurrentSpace DEF IsolationInv
<1>2. h \in HostState /\ WritesOwn(h) /\ \A o \in Page : h.seg[o] = None
  BY FlushFacts
<1> HIDE DEF h
<1>3. /\ InKernel /\ HostBecomes(h)
      /\ vma' = [vma EXCEPT ![mm] = [p \in Page |-> None]]
      /\ pte' = [pte EXCEPT ![mm] = [p \in Page |-> None]]
      /\ stored' = NoStore /\ UNCHANGED <<mode, cur, sync>>
  BY DEF Exec, h
<1>4. TypeOK' /\ OwnFramesWritten /\ seg' = h.seg
  BY <1>1, <1>2, <1>3, HostChanges DEF TypeOK
<1>5. AskedFor'
  BY <1>1, <1>3 DEF AskedFor, AskedAs, TypeOK
<1>6. MatchesPtes(seg', pte'[mm]) /\ \A m \in Mm \ {mm} : pte'[m] = pte[m]
  BY <1>1, <1>2, <1>3, <1>4 DEF MatchesPtes, TypeOK
<1> QED
  BY <1>3, <1>4, <1>5, <1>6, StepOfOne DEF Kept

(* A child's address space is one that no pass has noted anything of.      *)
LEMMA StepFork ==
  ASSUME IsolationInv, OwnSpaces, NEW n \in Mm, Fork(n)
  PROVE  Kept
<1> DEFINE h == FlushRange(Host, Page)
           private(p) == pte[mm][p] # None /\ vma[mm][p].kind # "shared"
           protected == [p \in Page |-> IF private(p) THEN [pte[mm][p] EXCEPT !.write = FALSE]
                                       ELSE pte[mm][p]]
           child == [p \in Page |-> IF private(p) THEN protected[p] ELSE None]
<1>1. TypeOK /\ AskedFor /\ mm \in Mm /\ cur \in Task
  BY CurrentSpace DEF IsolationInv
<1>2. h \in HostState /\ WritesOwn(h) /\ \A o \in Page : h.seg[o] = None
  BY FlushFacts
<1> HIDE DEF h
<1>3. /\ InKernel /\ HostBecomes(h) /\ n # mm
      /\ \A p \in Page : vma[n][p] = None
      /\ vma' = [vma EXCEPT ![n] = vma[mm]]
      /\ pte' = [pte EXCEPT ![mm] = protected, ![n] = child]
      /\ stored' = NoStore /\ UNCHANGED <<mode, cur, sync>>
  BY DEF Fork, h
<1>4. ASSUME NEW p \in Page
      PROVE  /\ protected[p] \in Entry \cup {None} /\ child[p] \in Entry \cup {None}
             /\ AskedAs(protected[p], vma[mm][p]) /\ AskedAs(child[p], vma[mm][p])
  <2>1. pte[mm][p] \in Entry \cup {None} /\ AskedAs(pte[mm][p], vma[mm][p])
    BY <1>1 DEF TypeOK, AskedFor
  <2> QED BY <2>1 DEF Entry, AskedAs
<1>5. protected \in [Page -> Entry \cup {None}] /\ child \in [Page -> Entry \cup {None}]
  BY <1>4
<1> HIDE DEF protected, child
<1>6. /\ pte' \in [Mm -> [Page -> Entry \cup {None}]]
      /\ pte'[mm] = protected /\ pte'[n] = child
      /\ \A m \in Mm \ {mm, n} : pte'[m] = pte[m]
  BY <1>1, <1>3, <1>5 DEF TypeOK
<1>7. /\ vma' \in [Mm -> [Page -> Vma \cup {None}]] /\ vma'[n] = vma[mm]
      /\ \A m \in Mm \ {n} : vma'[m] = vma[m]
  BY <1>1, <1>3 DEF TypeOK
<1>8. TypeOK' /\ OwnFramesWritten /\ seg' = h.seg
  BY <1>1, <1>2, <1>3, <1>6, <1>7, HostChanges DEF TypeOK
<1>9. AskedFor'
  BY <1>1, <1>3, <1>4, <1>6, <1>7 DEF AskedFor
<1>10. SegmentsMatchPtes'
  BY <1>2, <1>8 DEF SegmentsMatchPtes
<1>11. ASSUME NEW t \in Task PROVE (PassUnderWay(sync[t]) /\ Noted(MmOf[t], sync[t]))'
  <2>1. /\ PassUnderWay(sync[t]) /\ Noted(MmOf[t], sync[t]) /\ MmOf[t] \in Mm
        /\ (MmOf[t] = mm => t = cur)
    BY <1>1, SpaceAssumption DEF IsolationInv, OwnSpaces, mm
  <2>2. CASE t = cur
    BY <1>3, <2>2 DEF InKernel, PassUnderWay, Noted, NoSync
  <2>3. CASE t # cur /\ MmOf[t] # n
    BY <1>3, <1>6, <2>1, <2>3 DEF PassUnderWay, Noted
  <2>4. CASE t # cur /\ MmOf[t] = n
    <3>1. \A p \in Page : pte[n][p] = None
      BY <1>1, <1>3 DEF AskedFor, AskedAs
    <3>2. sync[t] # NoSync =>
            \A i \in 1..Len(sync[t].got) :
              FirstPage(WindowOf(Head(sync[t].queue))) + i - 1 \in Page
      <4> SUFFICES ASSUME sync[t] # NoSync, NEW i \in 1..Len(sync[t].got)
                   PROVE  FirstPage(WindowOf(Head(sync[t].queue))) + i - 1 \in Page
        OBVIOUS
      <4>1. Head(sync[t].queue) \in Page /\ i \in 1..WindowPages
        BY <1>1, <2>1, PageAssumption DEF TypeOK, PassUnderWay
      <4> QED BY <4>1, WindowOfPage, PageOfWindow
    <3>3. \A i \in 1..Len(sync[t].got) : sync[t].got[i] = None
      BY <2>1, <2>4, <3>1, <3>2 DEF Noted, NotedFor, NoSync
    <3> QED BY <1>3, <2>1, <3>3 DEF PassUnderWay, Noted
  <2> QED BY <2>2, <2>3, <2>4
<1> QED
  BY <1>8, <1>9, <1>10, <1>11 DEF Kept, IsolationInv

LEMMA StepSwitch ==
  ASSUME IsolationInv, OwnSpaces, NEW t \in Task, Switch(t)
  PROVE  Kept
<1> DEFINE h == SwitchMm(Host, mm, MmOf[t])
<1>1. TypeOK /\ AskedFor /\ mm \in Mm /\ Host \in HostState
  BY CurrentSpace, HostIsState DEF IsolationInv
<1>2. mm' = MmOf[t] /\ MmOf[t] \in Mm /\ t # cur /\ mm # MmOf[t]
  BY SpaceAssumption, <1>1, CurrentSpace DEF Switch, mm, OwnSpaces
<1>3. h \in HostState /\ WritesOwn(h) /\ \A o \in Page : h.seg[o] = None
  BY <1>2, FlushFacts DEF SwitchMm
<1> HIDE DEF h
<1>4. /\ mode = "kernel" /\ cur' = t /\ HostBecomes(h)
      /\ stored' = NoStore /\ UNCHANGED <<mode, vma, pte, sync>>
  BY DEF Switch, h
<1>5. TypeOK' /\ OwnFramesWritten /\ seg' = h.seg
  BY <1>1, <1>3, <1>4, HostChanges DEF TypeOK
<1>6. SegmentsMatchPtes'
  BY <1>3, <1>5 DEF SegmentsMatchPtes
<1> QED
  BY <1>4, <1>5, <1>6 DEF Kept, IsolationInv, AskedFor, PassUnderWay, Noted

(* A pass of the running task: it starts, goes on or ends.                  *)
LEMMA StepOfPass ==
  ASSUME IsolationInv, OwnSpaces, UNCHANGED cur, TypeOK', AskedFor',
         NEW s, sync' = [sync EXCEPT ![cur] = s],
         PassUnderWay(s), Noted(mm, s)',
         \A m \in Mm \ {mm} : pte'[m] = pte[m], MatchesPtes(seg', pte'[mm])
  PROVE  IsolationInv'
<1>1. TypeOK /\ cur \in Task /\ mm \in Mm /\ mm' = mm /\ mm = MmOf[cur]
  BY CurrentSpace DEF IsolationInv, mm
<1>2. sync'[cur] = s /\ \A t \in Task \ {cur} : sync'[t] = sync[t]
  BY <1>1 DEF TypeOK
<1>3. (PassUnderWay(sync[cur]) /\ Noted(MmOf[cur], sync[cur]))'
  BY <1>1, <1>2 DEF PassUnderWay, Noted
<1>4. ASSUME NEW t \in Task PROVE (PassUnderWay(sync[t]) /\ Noted(MmOf[t], sync[t]))'
  BY <1>2, <1>3, OthersKeepNotes
<1>5. SegmentsMatchPtes'
  BY <1>1 DEF SegmentsMatchPtes, MatchesPtes
<1> QED
  BY <1>4, <1>5 DEF IsolationInv

(* The type of a pass that starts.                                         *)
Starts(s) == /\ s \in [queue : Seq(Page), got : {<<>>}, stage : Stage]
             /\ s.queue # <<>>

LEMMA StartFacts ==
  ASSUME NEW s, Starts(s)
  PROVE  /\ PassUnderWay(s) /\ Noted(mm, s)'
         /\ s \in [queue : Seq(Page), got : Seq(Entry \cup {None}), stage : Stage]
<1>1. s.got = <<>> /\ Len(s.got) = 0 /\ 0 < WindowPages
  BY PageAssumption DEF Starts
<1>2. PassUnderWay(s) /\ Noted(mm, s)'
  BY <1>1 DEF Starts, PassUnderWay, Noted
<1>3. <<>> \in Seq(Entry \cup {None})
  OBVIOUS
<1>4. s \in [queue : Seq(Page), got : Seq(Entry \cup {None}), stage : Stage]
  BY <1>3 DEF Starts
<1> QED
  BY <1>2, <1>4

LEMMA StepStart ==
  ASSUME IsolationInv, OwnSpaces, NEW s, Starts(s),
         sync' = [sync EXCEPT ![cur] = s], stored' = NoStore,
         UNCHANGED <<mode, cur, vma, pte, hostVars>>
  PROVE  Kept
<1>1. TypeOK /\ AskedFor /\ SegmentsMatchPtes
  BY DEF IsolationInv
<1>2. /\ PassUnderWay(s) /\ Noted(mm, s)'
      /\ s \in [queue : Seq(Page), got : Seq(Entry \cup {None}), stage : Stage]
  BY StartFacts
<1>3. TypeOK' /\ OwnFramesWritten
  BY <1>1, <1>2 DEF TypeOK, hostVars, OwnFramesWritten
<1>4. AskedFor' /\ MatchesPtes(seg', pte'[mm])
  BY <1>1 DEF AskedFor, MatchesPtes, SegmentsMatchPtes, hostVars
<1> QED
  BY <1>2, <1>3, <1>4, StepOfPass DEF Kept

LEMMA StepSyncUserReadRange ==
  ASSUME IsolationInv, OwnSpaces, NEW p \in Page, SyncUserReadRange(p)
  PROVE  Kept
<1> DEFINE s == [queue |-> <<p>>, got |-> <<>>, stage |-> "read"]
<1>1. Starts(s)
  BY DEF Starts, Stage
<1> QED
  BY <1>1, StepStart DEF SyncUserReadRange

LEMMA StepResume ==
  ASSUME IsolationInv, OwnSpaces, NEW pc \in Pc, NEW sp \in Sp, NEW full \in BOOLEAN,
         NEW access, Resume(pc, sp, access, full)
  PROVE  Kept
<1> DEFINE stack == StackQueue(access, sp, full)
           s == [queue |-> <<pc>> \o stack, got |-> <<>>, stage |-> "pc"]
<1>1. pc \in Page /\ sp \in Page
  BY StartAssumption
<1>2. stack \in Seq(Page)
  <2> PICK near : near = IF full THEN Ascending(StackWindow(access, sp)) ELSE <<>>
    OBVIOUS
  <2>1. near \in Seq(Page)
    <3>1. StackWindow(access, sp) \in SUBSET Page
      BY DEF StackWindow
    <3> QED BY <3>1, AscendingIsSequence
  <2>2. CASE access \notin Page
    BY <1>1, <2>2 DEF StackQueue
  <2>3. CASE access \in Page
    <3>1. stack = near \o (IF access = sp THEN <<sp>> ELSE <<access, sp>>)
      BY <2>3 DEF StackQueue
    <3> HIDE DEF stack
    <3> QED BY <1>1, <2>1, <2>3, <3>1
  <2> QED BY <2>2, <2>3
<1> HIDE DEF stack
<1>4. <<pc>> \o stack \in Seq(Page) /\ <<pc>> \o stack # <<>>
  BY <1>1, <1>2
<1>5. Starts(s)
  BY <1>4 DEF Starts, Stage
<1>6. /\ sync' = [sync EXCEPT ![cur] = s] /\ stored' = NoStore
      /\ UNCHANGED <<mode, cur, vma, pte, hostVars>>
  BY DEF Resume, stack
<1> QED
  BY <1>5, <1>6, StepStart

LEMMA StepServeFault ==
  ASSUME IsolationInv, OwnSpaces, NEW p \in Page, NEW write \in BOOLEAN,
         NEW bus \in BOOLEAN, ServeFault(p, write, bus)
  PROVE  Kept
<1>1. PICK r \in FaultOutcomes(mm, p, write) :
        pte' = PteAfterFault(mm, p, r) /\ HostBecomes(HostAfterFault(p, r))
  BY DEF ServeFault
<1>2. vma[mm][p] # None /\ (write => vma[mm][p].write) /\ TypeOK /\ AskedFor /\ mm \in Mm
  BY CurrentSpace DEF ServeFault, IsolationInv
<1> DEFINE h == HostAfterFault(p, r)
           near == IF bus THEN <<>> ELSE Ascending(Neighbours(mm, p))
           started == [queue |-> <<p>> \o near, got |-> <<>>,
                       stage |-> IF near = <<>> THEN "read" ELSE "fault"]
<1> PICK s : s = started
  OBVIOUS
<1>3. /\ r.entry \in Entry /\ AskedAs(pte'[mm][p], vma[mm][p])
      /\ pte' \in [Mm -> [Page -> Entry \cup {None}]]
      /\ \A o \in Page \ {p} : pte'[mm][o] = pte[mm][o]
      /\ \A m \in Mm \ {mm} : pte'[m] = pte[m]
      /\ h \in HostState /\ MatchesPtes(h.seg, pte'[mm]) /\ WritesOwn(h)
  BY <1>1, <1>2, FaultKeeps DEF WritesOwn
<1>4. Neighbours(mm, p) \in SUBSET Page
  BY DEF Neighbours, Area
<1>5. near \in Seq(Page)
  BY <1>4, AscendingIsSequence
<1>6. /\ HostBecomes(h) /\ stored' = NoStore /\ UNCHANGED <<mode, cur, vma>>
      /\ sync' = [sync EXCEPT ![cur] = s]
  BY <1>1 DEF ServeFault
<1> HIDE DEF h, near
<1>7. Starts(s)
  <2>1. <<p>> \o near \in Seq(Page) /\ <<p>> \o near # <<>>
    BY <1>5
  <2> QED BY <2>1 DEF Starts, Stage
<1> HIDE DEF started
<1>8. /\ PassUnderWay(s) /\ Noted(mm, s)'
      /\ s \in [queue : Seq(Page), got : Seq(Entry \cup {None}), stage : Stage]
  BY <1>7, StartFacts
<1>9. TypeOK' /\ OwnFramesWritten /\ MatchesPtes(seg', pte'[mm])
  BY <1>2, <1>3, <1>6, <1>8, HostChanges DEF TypeOK
<1>10. AskedFor'
  BY <1>2, <1>3, <1>6, FaultAsked
<1> QED
  BY <1>3, <1>6, <1>8, <1>9, <1>10, StepOfPass DEF Kept

(* One page of a pass: the entry that is noted is the one in the table.    *)
LEMMA CollectedFacts ==
  ASSUME IsolationInv, NEW p \in Page, NEW c \in Collected(mm, p)
  PROVE  /\ c.entry \in Entry \cup {None}
         /\ c.entry # None => NotedFor(p, c.entry, c.pte[mm][p])
         /\ c.pte \in [Mm -> [Page -> Entry \cup {None}]]
         /\ AskedAs(c.pte[mm][p], vma[mm][p])
         /\ \A o \in Page \ {p} : c.pte[mm][o] = pte[mm][o]
         /\ \A m \in Mm \ {mm} : c.pte[m] = pte[m]
         /\ c.host \in HostState /\ MatchesPtes(c.host.seg, c.pte[mm]) /\ WritesOwn(c.host)
         /\ \A o \in Page : c.host.seg[o] = seg[o] \/ c.host.seg[o] = None
<1> DEFINE v == vma[mm][p]
           write == v.write /\ ~v.exec
           skipped == [entry |-> None, pte |-> pte, host |-> Host]
           found(r) == [entry |-> [r.entry EXCEPT !.write = @ \/ v.write],
                        pte   |-> PteAfterFault(mm, p, r),
                        host  |-> HostAfterFault(p, r)]
<1>1. TypeOK /\ AskedFor /\ SegmentsMatchPtes /\ mm \in Mm
      /\ v \in Vma \cup {None} /\ v \in VmaAt[p] \cup {None}
  BY CurrentSpace DEF IsolationInv, TypeOK, AskedFor
<1>2. \/ c = skipped
      \/ v # None /\ \E r \in FaultOutcomes(mm, p, write) : c = found(r)
  BY DEF Collected
<1>3. CASE c = skipped
  <2>1. Host \in HostState /\ Host.seg = seg /\ Host.frame = frame
    BY <1>1, HostIsState DEF Host
  <2>2. c.entry = None /\ c.pte = pte /\ c.host = Host
    BY <1>3
  <2>3. MatchesPtes(seg, pte[mm])
    BY <1>1 DEF MatchesPtes, SegmentsMatchPtes
  <2> QED BY <1>1, <2>1, <2>2, <2>3 DEF WritesOwn, TypeOK, AskedFor
<1>4. ASSUME v # None, NEW r \in FaultOutcomes(mm, p, write), c = found(r)
      PROVE  /\ c.entry \in Entry /\ NotedFor(p, c.entry, r.entry)
             /\ c.pte = PteAfterFault(mm, p, r) /\ c.host = HostAfterFault(p, r)
             /\ write \in BOOLEAN /\ (write => v.write) /\ r.entry \in Entry
  <2>1. v \in Vma /\ write \in BOOLEAN
    BY <1>1, <1>4 DEF Vma
  <2>2. r.entry \in Entry /\ AskedAs(r.entry, v) /\ (write => r.entry.write)
    BY <1>1, <1>4, <2>1, OutcomeFacts
  <2>3. [r.entry EXCEPT !.write = @ \/ v.write] \in Entry
    BY <2>1, <2>2 DEF Entry, Vma
  <2> PICK e : e = [r.entry EXCEPT !.write = @ \/ v.write]
    OBVIOUS
  <2>4. /\ e.frame = r.entry.frame /\ e.exec = r.entry.exec
        /\ e.write = (r.entry.write \/ v.write)
    BY <2>2 DEF Entry
  <2>5. r.entry # None /\ r.entry.exec = v.exec /\ (r.entry.write => v.write)
    BY <2>2, NoneIsNothing DEF AskedAs
  <2>6. NotedFor(p, e, r.entry)
    BY <1>1, <1>4, <2>2, <2>4, <2>5 DEF NotedFor, Allowed
  <2> QED BY <1>4, <2>1, <2>2, <2>3, <2>6
<1>5. ASSUME v # None, NEW r \in FaultOutcomes(mm, p, write), c = found(r)
      PROVE  /\ NotedFor(p, c.entry, c.pte[mm][p]) /\ AskedAs(c.pte[mm][p], v)
             /\ c.pte \in [Mm -> [Page -> Entry \cup {None}]]
             /\ \A o \in Page \ {p} : c.pte[mm][o] = pte[mm][o]
             /\ \A m \in Mm \ {mm} : c.pte[m] = pte[m]
             /\ c.host \in HostState /\ MatchesPtes(c.host.seg, c.pte[mm])
             /\ WritesOwn(c.host)
             /\ \A o \in Page : c.host.seg[o] = seg[o] \/ c.host.seg[o] = None
  <2> HIDE DEF found, write
  <2> QED BY <1>4, <1>5, FaultKeeps, NoneIsNothing DEF WritesOwn
<1> QED
  <2> HIDE DEF skipped, found, write
  <2> QED BY <1>2, <1>3, <1>4, <1>5

(* A window that is refreshed copies the pages that the pass has noted.    *)
LEMMA RefreshMatches ==
  ASSUME IsolationInv, NEW h \in HostState, NEW w \in Window, NEW got \in Entries,
         Len(got) = WindowPages, NEW table, MatchesPtes(h.seg, table),
         \A i \in 1..Len(got) :
           LET o == FirstPage(w) + i - 1
           IN got[i] # None => NotedFor(o, got[i], table[o])
  PROVE  MatchesPtes(RefreshWindow(h, w, got).seg, table)
<1> DEFINE g == RefreshWindow(h, w, got)
<1>1. /\ \A p \in PagesOf(w) :
           g.seg[p] = IF EntryOf(w, got, p) = None THEN None ELSE EntryOf(w, got, p).frame
      /\ \A p \in Page \ PagesOf(w) : g.seg[p] = h.seg[p] \/ g.seg[p] = None
  BY RefreshWindowFacts DEF Refreshes
<1> HIDE DEF g
<1> SUFFICES ASSUME NEW p \in Page, g.seg[p] # None
             PROVE  table[p] # None /\ table[p].frame = g.seg[p]
  BY DEF MatchesPtes, g
<1>2. CASE p \in PagesOf(w)
  <2>1. p - FirstPage(w) + 1 \in 1..Len(got)
    BY <1>2, EntryOfPage
  <2>2. FirstPage(w) + (p - FirstPage(w) + 1) - 1 = p
    <3>1. w \in Nat /\ p \in Nat
      BY <1>2, WindowOfPage DEF PagesOf, Page
    <3> QED BY <3>1, PageAssumption DEF FirstPage
  <2>3. got[p - FirstPage(w) + 1] # None
    BY <1>1, <1>2 DEF EntryOf
  <2> QED BY <1>1, <1>2, <2>1, <2>2, <2>3 DEF EntryOf, NotedFor
<1>3. CASE p \notin PagesOf(w)
  BY <1>1, <1>3 DEF MatchesPtes
<1> QED
  BY <1>2, <1>3

(* What the end of a pass leaves to its task.                              *)
LEMMA WindowDoneFacts ==
  ASSUME TypeOK, NEW s \in [queue : Seq(Page), got : Seq(Entry \cup {None}), stage : Stage],
         s.queue # <<>>, NEW ok \in BOOLEAN, WindowDone(s, ok)
  PROVE  /\ (mode \in {"user", "kernel", "panic"})'
         /\ \E t \in [queue : Seq(Page), got : {<<>>}, stage : Stage] :
              /\ sync' = [sync EXCEPT ![cur] = t]
              /\ PassUnderWay(t) /\ Noted(mm, t)'
<1> DEFINE rest == Tail(s.queue)
           next == [queue |-> rest, got |-> <<>>, stage |-> NextStage(s.stage)]
<1>1. rest \in Seq(Page)
  OBVIOUS
<1>2. NextStage(s.stage) \in Stage
  BY DEF NextStage, Stage
<1>3. mode' \in {"user", "kernel", "panic"}
  BY DEF WindowDone, TypeOK
<1>4. \/ sync' = [sync EXCEPT ![cur] = NoSync]
      \/ rest # <<>> /\ sync' = [sync EXCEPT ![cur] = next]
  BY DEF WindowDone
<1>5. CASE sync' = [sync EXCEPT ![cur] = NoSync]
  <2>1. NoSync \in [queue : Seq(Page), got : {<<>>}, stage : Stage]
    BY DEF NoSync, Stage
  <2>2. PassUnderWay(NoSync) /\ Noted(mm, NoSync)'
    BY DEF PassUnderWay, Noted, NoSync
  <2> QED BY <1>3, <1>5, <2>1, <2>2
<1>6. CASE rest # <<>> /\ sync' = [sync EXCEPT ![cur] = next]
  <2>1. Starts(next)
    BY <1>1, <1>2, <1>6 DEF Starts
  <2>2. next \in [queue : Seq(Page), got : {<<>>}, stage : Stage]
    BY <1>1, <1>2
  <2> HIDE DEF next
  <2>3. PassUnderWay(next) /\ Noted(mm, next)'
    BY <2>1, StartFacts
  <2> QED BY <1>3, <1>6, <2>2, <2>3
<1> QED
  BY <1>4, <1>5, <1>6

(* What a pass has noted of the pages of window w is in the page table.    *)
WindowNoted(w, got, table) ==
  \A i \in 1..Len(got) :
    LET o == FirstPage(w) + i - 1
    IN got[i] # None => NotedFor(o, got[i], table[o])

(* A step of pass s, which found c at page p of window w, and then has     *)
(* noted got.                                                              *)
Pass == [queue : Seq(Page), got : Seq(Entry \cup {None}), stage : Stage]
PassStep(s, w, p, c, got) ==
  /\ s = sync[cur] /\ s.queue # <<>> /\ Len(s.got) < WindowPages
  /\ w = WindowOf(Head(s.queue)) /\ Head(s.queue) \in Page
  /\ c \in Collected(mm, p) /\ pte' = c.pte
  /\ Len(got) = Len(s.got) + 1
  /\ WindowNoted(w, got, pte'[mm])
  /\ \/ /\ Len(got) < WindowPages
        /\ sync' = [sync EXCEPT ![cur].got = got]
        /\ HostBecomes(c.host)
        /\ UNCHANGED mode
     \/ /\ Len(got) = WindowPages
        /\ HostBecomes(c.host)
        /\ WindowDone(s, FALSE)
     \/ /\ Len(got) = WindowPages
        /\ got[Head(s.queue) - FirstPage(w) + 1] # None
        /\ HostBecomes(RefreshWindow(c.host, w, got))
        /\ WindowDone(s, TRUE)
     \/ /\ Len(got) = WindowPages
        /\ HostBecomes(DropWindows(c.host, {w}))
        /\ WindowDone(s, FALSE)

LEMMA PassFacts ==
  ASSUME IsolationInv, SyncPage
  PROVE  \E s \in Pass, w \in Window, p \in Page, got \in Entries :
           \E c : PassStep(s, w, p, c, got)
<1>1. /\ TypeOK /\ AskedFor /\ SegmentsMatchPtes /\ mm \in Mm /\ cur \in Task
      /\ mm = MmOf[cur]
  BY CurrentSpace DEF IsolationInv, mm
<1>2. PICK s \in Pass : s = sync[cur]
  BY <1>1 DEF TypeOK, Pass
<1> DEFINE w == WindowOf(Head(s.queue))
           n == Len(s.got)
           p == FirstPage(w) + n
           wanted == Head(s.queue) - FirstPage(w) + 1
<1>3. s.queue # <<>> /\ Len(s.got) < WindowPages /\ Noted(mm, s)
  BY <1>1, <1>2 DEF SyncPage, IsolationInv, PassUnderWay
<1>4. Head(s.queue) \in Page
  BY <1>3 DEF Pass
<1>5. w \in Window /\ w \in Nat /\ wanted \in 1..WindowPages /\ n \in Nat
  BY <1>4, WindowOfPage DEF Pass
<1>6. p \in Page
  <2>1. n + 1 \in 1..WindowPages /\ p = FirstPage(w) + (n + 1) - 1
    BY <1>3, <1>5, PageAssumption DEF FirstPage
  <2> HIDE DEF p, w
  <2> QED BY <1>5, <2>1, PageOfWindow
<1> HIDE DEF p
<1>7. PICK c \in Collected(mm, p) :
        LET got == Append(s.got, c.entry)
        IN /\ pte' = c.pte
           /\ \/ /\ Len(got) < WindowPages
                 /\ sync' = [sync EXCEPT ![cur].got = got]
                 /\ HostBecomes(c.host)
                 /\ UNCHANGED mode
              \/ /\ Len(got) = WindowPages
                 /\ got[wanted] = None
                 /\ HostBecomes(c.host)
                 /\ WindowDone(s, FALSE)
              \/ /\ Len(got) = WindowPages
                 /\ got[wanted] # None
                 /\ HostBecomes(RefreshWindow(c.host, w, got))
                 /\ WindowDone(s, TRUE)
              \/ /\ Len(got) = WindowPages
                 /\ got[wanted] # None
                 /\ HostBecomes(DropWindows(c.host, {w}))
                 /\ WindowDone(s, FALSE)
  BY <1>2, ZenonT(60) DEF SyncPage, p
<1> PICK got : got = Append(s.got, c.entry)
  OBVIOUS
<1>8. /\ c.entry \in Entry \cup {None}
      /\ c.entry # None => NotedFor(p, c.entry, pte'[mm][p])
      /\ \A o \in Page \ {p} : pte'[mm][o] = pte[mm][o]
  BY <1>6, <1>7, CollectedFacts
<1>9. /\ got \in Entries /\ Len(got) = n + 1 /\ got[n + 1] = c.entry
       /\ \A i \in 1..n : got[i] = s.got[i]
  BY <1>8 DEF Entries, Pass
<1>10. ASSUME NEW i \in 1..Len(got)
       PROVE  LET o == FirstPage(w) + i - 1
              IN got[i] # None => NotedFor(o, got[i], pte'[mm][o])
  <2> DEFINE o == FirstPage(w) + i - 1
  <2>1. o \in Page
    <3>1. i \in 1..WindowPages
      BY <1>3, <1>5, <1>9, PageAssumption
    <3> HIDE DEF w
    <3> QED BY <1>5, <3>1, PageOfWindow
  <2>2. CASE i = n + 1
    <3>1. o = p
      BY <1>5, <2>2, PageAssumption DEF p, FirstPage
    <3> QED BY <1>8, <1>9, <2>2, <3>1
  <2>3. CASE i # n + 1
    <3>1. i \in 1..n /\ o # p
      BY <1>5, <1>9, <2>3, PageAssumption DEF p, FirstPage
    <3>2. s.got[i] # None => NotedFor(o, s.got[i], pte[mm][o])
      BY <1>3, <3>1 DEF Noted
    <3>3. pte'[mm][o] = pte[mm][o]
      BY <1>8, <2>1, <3>1
    <3> QED BY <1>9, <3>1, <3>2, <3>3
  <2> QED BY <2>2, <2>3
<1>11. WindowNoted(w, got, pte'[mm])
  BY <1>10 DEF WindowNoted
<1>12. PassStep(s, w, p, c, got)
  BY <1>2, <1>3, <1>4, <1>7, <1>9, <1>11 DEF PassStep
<1> QED
  BY <1>2, <1>5, <1>6, <1>9, <1>12

LEMMA StepSyncPage == ASSUME IsolationInv, OwnSpaces, SyncPage PROVE Kept
<1>1. /\ TypeOK /\ AskedFor /\ SegmentsMatchPtes /\ mm \in Mm /\ cur \in Task
      /\ mm = MmOf[cur]
  BY CurrentSpace DEF IsolationInv, mm
<1>2. PICK s \in Pass, w \in Window, p \in Page, got \in Entries :
          \E c : PassStep(s, w, p, c, got)
  BY PassFacts
<1>3. PICK c : PassStep(s, w, p, c, got)
  BY <1>2
<1>4. s = sync[cur] /\ s.queue # <<>> /\ w = WindowOf(Head(s.queue))
  BY <1>3 DEF PassStep
<1>5. \/ /\ Len(got) < WindowPages
         /\ sync' = [sync EXCEPT ![cur].got = got]
         /\ HostBecomes(c.host)
         /\ UNCHANGED mode
      \/ /\ Len(got) = WindowPages
         /\ HostBecomes(c.host)
         /\ WindowDone(s, FALSE)
      \/ /\ Len(got) = WindowPages
         /\ HostBecomes(RefreshWindow(c.host, w, got))
         /\ WindowDone(s, TRUE)
      \/ /\ Len(got) = WindowPages
         /\ HostBecomes(DropWindows(c.host, {w}))
         /\ WindowDone(s, FALSE)
  BY <1>3 DEF PassStep
<1>6. UNCHANGED <<cur, vma>> /\ stored' = NoStore
  BY DEF SyncPage
<1>7. /\ pte' \in [Mm -> [Page -> Entry \cup {None}]]
      /\ AskedAs(pte'[mm][p], vma[mm][p])
      /\ \A o \in Page \ {p} : pte'[mm][o] = pte[mm][o]
      /\ \A m \in Mm \ {mm} : pte'[m] = pte[m]
      /\ c.host \in HostState /\ MatchesPtes(c.host.seg, pte'[mm]) /\ WritesOwn(c.host)
      /\ \A o \in Page : c.host.seg[o] = seg[o] \/ c.host.seg[o] = None
  <2>1. c \in Collected(mm, p) /\ pte' = c.pte
    BY <1>3 DEF PassStep
  <2> QED BY <2>1, CollectedFacts
<1>8. AskedFor'
  BY <1>1, <1>6, <1>7, FaultAsked
<1>9. ASSUME NEW i \in 1..Len(got)
       PROVE  LET o == FirstPage(w) + i - 1
              IN got[i] # None => NotedFor(o, got[i], pte'[mm][o])
  BY <1>3 DEF PassStep, WindowNoted
<1>10. PICK h \in HostState : /\ HostBecomes(h) /\ MatchesPtes(h.seg, pte'[mm])
                              /\ WritesOwn(h)
  <2>1. CASE HostBecomes(c.host)
    BY <1>7, <2>1
  <2>2. ASSUME NEW g \in HostState, HostBecomes(g), WritesCopiedFrames(c.host, g)
        PROVE  WritesOwn(g)
    <3> SUFFICES ASSUME NEW f \in Frame, g.frame[f] # frame[f]
                 PROVE  f \in FramesOf(mm) \/ f \in Free
      BY DEF WritesOwn
    <3>1. CASE c.host.frame[f] # frame[f]
      BY <1>7, <3>1 DEF WritesOwn
    <3>2. CASE c.host.frame[f] # g.frame[f]
      <4>1. PICK o \in Page : seg[o] = f
        BY <1>7, <2>2, <3>2, NoneIsNothing DEF WritesCopiedFrames
      <4>2. pte[mm][o] # None /\ pte[mm][o].frame = f
        BY <1>1, <4>1, NoneIsNothing DEF SegmentsMatchPtes
      <4> QED BY <4>2 DEF FramesOf, Mapped
    <3> QED BY <3>1, <3>2
  <2>3. CASE Len(got) = WindowPages /\ HostBecomes(RefreshWindow(c.host, w, got))
    <3>1. PICK table : table = pte'[mm]
      OBVIOUS
    <3>2. /\ RefreshWindow(c.host, w, got) \in HostState
          /\ WritesCopiedFrames(c.host, RefreshWindow(c.host, w, got))
      BY <1>7, <2>3, RefreshWindowFacts
    <3>3. MatchesPtes(RefreshWindow(c.host, w, got).seg, table)
      <4>1. \A i \in 1..Len(got) :
              LET o == FirstPage(w) + i - 1
              IN got[i] # None => NotedFor(o, got[i], table[o])
        BY <1>9, <3>1
      <4>2. MatchesPtes(c.host.seg, table)
        BY <1>7, <3>1
      <4>3. c.host \in HostState /\ w \in Window /\ got \in Entries /\ Len(got) = WindowPages
        BY <1>7, <2>3
      <4> QED BY <1>1, <4>1, <4>2, <4>3, RefreshMatches
    <3> QED BY <2>2, <2>3, <3>1, <3>2, <3>3
  <2>4. CASE HostBecomes(DropWindows(c.host, {w}))
    <3>1. /\ DropWindows(c.host, {w}) \in HostState
          /\ \A o \in Page : \/ DropWindows(c.host, {w}).seg[o] = None
                             \/ DropWindows(c.host, {w}).seg[o] = c.host.seg[o]
          /\ WritesCopiedFrames(c.host, DropWindows(c.host, {w}))
      BY <1>7, DropWindowsFacts
    <3>2. MatchesPtes(DropWindows(c.host, {w}).seg, pte'[mm])
      BY <1>7, <3>1 DEF MatchesPtes
    <3> QED BY <2>2, <2>4, <3>1, <3>2
  <2> QED BY <1>5, <2>1, <2>3, <2>4
<1>11. /\ (mode \in {"user", "kernel", "panic"})'
       /\ \E t \in Pass : /\ sync' = [sync EXCEPT ![cur] = t]
                         /\ PassUnderWay(t) /\ Noted(mm, t)'
  <2>1. CASE \E ok \in BOOLEAN : WindowDone(s, ok)
    <3> PICK t \in [queue : Seq(Page), got : {<<>>}, stage : Stage] :
          /\ (mode \in {"user", "kernel", "panic"})'
          /\ sync' = [sync EXCEPT ![cur] = t]
          /\ PassUnderWay(t) /\ Noted(mm, t)'
      BY <1>1, <1>4, <2>1, WindowDoneFacts DEF Pass
    <3>1. <<>> \in Seq(Entry \cup {None})
      OBVIOUS
    <3>2. t \in Pass
      BY <3>1 DEF Pass
    <3> QED BY <3>2
  <2>2. CASE Len(got) < WindowPages /\ sync' = [sync EXCEPT ![cur].got = got] /\ UNCHANGED mode
    <3> PICK t : t = [s EXCEPT !.got = got]
      OBVIOUS
    <3>1. t \in Pass /\ t.got = got /\ t.queue = s.queue
      BY DEF Entries, Pass
    <3>2. sync' = [sync EXCEPT ![cur] = t]
      BY <1>4, <2>2
    <3>3. PassUnderWay(t)
      BY <1>4, <2>2, <3>1 DEF PassUnderWay
    <3>4. mm' = mm
      BY <1>6 DEF mm
    <3>5. Noted(mm, t)'
      BY <1>4, <1>9, <3>1, <3>4 DEF Noted
    <3> QED BY <1>1, <2>2, <3>1, <3>2, <3>3, <3>5 DEF TypeOK
  <2> QED BY <1>5, <2>1, <2>2
<1>12. PICK t \in Pass : /\ sync' = [sync EXCEPT ![cur] = t]
                         /\ PassUnderWay(t) /\ Noted(mm, t)'
  BY <1>11
<1>13. TypeOK' /\ OwnFramesWritten /\ seg' = h.seg
  BY <1>1, <1>6, <1>7, <1>10, <1>11, <1>12, HostChanges DEF TypeOK, Pass
<1> QED
  BY <1>6, <1>7, <1>8, <1>10, <1>12, <1>13, StepOfPass DEF Kept

-----------------------------------------------------------------------------
LEMMA InitIsolationInv == Init => IsolationInv
<1> SUFFICES ASSUME Init PROVE IsolationInv
  OBVIOUS
<1>1. \A f \in Frame : (IF f \in FileFrames THEN "text" ELSE "zero") \in Content
  BY DEF Content
<1>2. NoSync \in [queue : Seq(Page), got : Seq(Entry \cup {None}), stage : Stage]
  <2>1. <<>> \in Seq(Page) /\ <<>> \in Seq(Entry \cup {None})
    OBVIOUS
  <2> QED BY <2>1 DEF NoSync, Stage
<1>3. TypeOK
  BY <1>1, <1>2 DEF Init, TypeOK, Content
<1>4. \A t \in Task : PassUnderWay(sync[t]) /\ Noted(MmOf[t], sync[t])
  BY DEF Init, PassUnderWay, Noted, NoSync
<1>5. AskedFor
  BY DEF Init, AskedFor, AskedAs
<1> QED
  BY <1>3, <1>4, <1>5 DEF Init, IsolationInv, SegmentsMatchPtes

LEMMA StepIsolationInv == IsolationInv /\ OwnSpaces /\ [Next]_vars => Kept
<1> SUFFICES ASSUME IsolationInv, OwnSpaces, [Next]_vars PROVE Kept
  OBVIOUS
<1>1. CASE UNCHANGED vars
  BY <1>1 DEF vars, hostVars, Kept, IsolationInv, TypeOK, AskedFor, PassUnderWay, Noted,
              SegmentsMatchPtes, mm, OwnFramesWritten
<1>2. CASE \E p \in Page, v \in UserValue : UserStore(p, v) \/ CopyToUser(p, v)
  BY <1>2, StepUserStore, StepCopyToUser
<1>3. CASE Trap
  BY <1>3, StepTrap
<1>4. CASE \/ \E p \in Page, write, bus \in BOOLEAN : ServeFault(p, write, bus)
           \/ \E p \in Page, write \in BOOLEAN : FaultInUser(p, write)
  BY <1>4, StepServeFault, StepFaultInUser
<1>5. CASE \E p \in Page : SyncUserReadRange(p)
  BY <1>5, StepSyncUserReadRange
<1>6. CASE \E pc \in Pc, sp \in Sp, full \in BOOLEAN :
             \E access \in {sp, sp - 1} : Resume(pc, sp, access, full)
  BY <1>6, StepResume
<1>7. CASE SyncPage
  BY <1>7, StepSyncPage
<1>8. CASE \E p \in Page, v \in Vma : Mmap(p, v) \/ Mprotect(p, v)
  BY <1>8, StepMmap, StepMprotect
<1>9. CASE \E p \in Page : Munmap(p)
  BY <1>9, StepMunmap
<1>10. CASE \E n \in Mm : Fork(n)
  BY <1>10, StepFork
<1>11. CASE Exec
  BY <1>11, StepExec
<1>12. CASE \E t \in Task : Switch(t)
  BY <1>12, StepSwitch
<1> QED
  BY <1>1, <1>2, <1>3, <1>4, <1>5, <1>6, <1>7, <1>8, <1>9, <1>10, <1>11, <1>12 DEF Next

(* Where no two tasks share an address space, the state keeps its types,   *)
(* only pages of an area have a pte, and what a pass has collected is what *)
(* the ptes of its window say (mm/init.c, kernel_mapping.c).               *)
THEOREM MemoryInvariant == ASSUME OwnSpaces PROVE Spec => []IsolationInv
<1>1. IsolationInv /\ [Next]_vars => IsolationInv'
  BY StepIsolationInv DEF Kept
<1> QED
  BY InitIsolationInv, <1>1, PTL DEF Spec

(* The types of the state, which that invariant contains.                  *)
THEOREM MemoryTypeCorrect == ASSUME OwnSpaces PROVE Spec => []TypeOK
<1>1. IsolationInv => TypeOK
  BY DEF IsolationInv
<1> QED
  BY MemoryInvariant, <1>1, PTL

(* What the host has mapped is never a frame that the ptes of the running  *)
(* address space do not give to that page: after a switch, an exec, a fork *)
(* or an unmap, no task reads or writes another's page through the host    *)
(* (switch_mm, mmu_context.h; orlix_sync_user_host_window, init.c).       *)
THEOREM MemoryIsolation == ASSUME OwnSpaces PROVE Spec => []SegmentsMatchPtes
<1>1. IsolationInv => SegmentsMatchPtes
  BY DEF IsolationInv
<1> QED
  BY MemoryInvariant, <1>1, PTL

(* A step changes the contents of no frame but those of the running        *)
(* address space and those nobody had: a store, a copy-out and the copy    *)
(* back of a replaced window stay in the frames of the mm that runs        *)
(* (OrlixHostUserCopyBackMapping, kernel_mapping.c).                       *)
THEOREM WritesStayOwn == ASSUME OwnSpaces PROVE Spec => WritesOwnFramesOnly
<1>1. IsolationInv /\ [Next]_vars => [OwnFramesWritten]_vars
  BY StepIsolationInv DEF Kept
<1> QED
  BY MemoryInvariant, <1>1, PTL DEF Spec, WritesOwnFramesOnly

-----------------------------------------------------------------------------
(* What copying back, dropping, mapping and refreshing do to the copy of   *)
(* a page, where no frame is copied twice.                                 *)
OneCopy(h) == \A p, q \in Page : h.seg[p] # None /\ h.seg[q] = h.seg[p] => p = q
AllBacked(h) == \A p \in Page : Backed(h, p)
AllInStep(h) == \A p \in Page : InStep(h, p)

LEMMA CopyBackExact ==
  ASSUME NEW h \in HostState, OneCopy(h), NEW ws
  PROVE  LET g == CopyBack(h, ws)
             dirty == DirtyPages(h, ws)
         IN /\ \A p \in dirty : g.frame[h.seg[p]] = h.shadow[p]
            /\ \A f \in Frame : (\A p \in dirty : h.seg[p] # f) => g.frame[f] = h.frame[f]
<1> DEFINE dirty == DirtyPages(h, ws)
           copied == {h.seg[p] : p \in dirty}
           frames == [f \in Frame |->
                        IF f \in copied
                        THEN h.shadow[CHOOSE p \in dirty : h.seg[p] = f]
                        ELSE h.frame[f]]
<1>1. dirty \subseteq Page /\ \A p \in dirty : h.seg[p] # None
  BY DEF DirtyPages
<1>2. \A p \in dirty : h.seg[p] \in Frame
  BY <1>1 DEF HostState
<1> HIDE DEF dirty
<1>3. \A p \in dirty : (CHOOSE q \in dirty : h.seg[q] = h.seg[p]) = p
  BY <1>1 DEF OneCopy
<1>4. \A p \in dirty : frames[h.seg[p]] = h.shadow[p]
  BY <1>2, <1>3
<1>5. \A f \in Frame : (\A p \in dirty : h.seg[p] # f) => frames[f] = h.frame[f]
  OBVIOUS
<1>6. CopyBack(h, ws) = [h EXCEPT !.frame = frames]
  BY DEF CopyBack, dirty
<1> HIDE DEF frames
<1>7. CopyBack(h, ws).frame = frames
  BY <1>6 DEF HostState
<1> QED
  BY <1>4, <1>5, <1>7 DEF dirty

(* A copy that agrees with its frame is copied back without effect.        *)
LEMMA CopyBackInStep ==
  ASSUME NEW h \in HostState, OneCopy(h), NEW ws, \A p \in DirtyPages(h, ws) : InStep(h, p)
  PROVE  CopyBack(h, ws).frame = h.frame
<1> PICK g \in HostState : g = CopyBack(h, ws)
  BY CopyBackFacts
<1>1. /\ \A p \in DirtyPages(h, ws) : g.frame[h.seg[p]] = h.shadow[p]
      /\ \A f \in Frame : (\A p \in DirtyPages(h, ws) : h.seg[p] # f) => g.frame[f] = h.frame[f]
  BY CopyBackExact
<1>2. \A p \in DirtyPages(h, ws) : h.frame[h.seg[p]] = h.shadow[p]
  BY DEF InStep, DirtyPages
<1>3. \A f \in Frame : g.frame[f] = h.frame[f]
  BY <1>1, <1>2
<1>4. g.frame \in [Frame -> Content] /\ h.frame \in [Frame -> Content]
  BY DEF HostState
<1> QED
  BY <1>3, <1>4

(* g keeps of the copy of page p what h guarantees.                        *)
KeepsCopy(h, g, table, p) ==
  /\ Backed(h, p) => Backed(g, p)
  /\ ReadsRight(h, table, p) => ReadsRight(g, table, p)
  /\ InStep(h, p) => InStep(g, p)
KeepsAll(h, g, table) ==
  /\ \A p \in Page : g.seg[p] = h.seg[p] \/ g.seg[p] = None
  /\ \A p \in Page : KeepsCopy(h, g, table, p)
  /\ AllInStep(h) => g.frame = h.frame
  /\ AllBacked(h) /\ Untranslated(h) => Untranslated(g)

LEMMA CopyBackKeeps ==
  ASSUME NEW h \in HostState, OneCopy(h), NEW ws, NEW table
  PROVE  LET g == CopyBack(h, ws)
         IN /\ KeepsAll(h, g, table)
            /\ \A p \in DirtyPages(h, ws) : InStep(g, p)
<1> PICK g \in HostState : g = CopyBack(h, ws)
  BY CopyBackFacts
<1> PICK dirty : dirty = DirtyPages(h, ws)
  OBVIOUS
<1>1. /\ g.seg = h.seg /\ g.prot = h.prot /\ g.shadow = h.shadow
      /\ \A p \in dirty : g.frame[h.seg[p]] = h.shadow[p]
      /\ \A f \in Frame : (\A p \in dirty : h.seg[p] # f) => g.frame[f] = h.frame[f]
  BY CopyBackFacts, CopyBackExact
<1>2. /\ dirty \subseteq Page
      /\ \A p \in dirty : h.seg[p] # None /\ h.prot[WindowOf(p)].write
  BY DEF DirtyPages
<1>3. \A p \in Page \ dirty : h.seg[p] # None => g.frame[h.seg[p]] = h.frame[h.seg[p]]
  BY <1>1, <1>2 DEF OneCopy, HostState
<1>4. ASSUME NEW p \in Page PROVE KeepsCopy(h, g, table, p)
  <2>1. Backed(h, p) => Backed(g, p)
    BY <1>1 DEF Backed
  <2>2. ReadsRight(h, table, p) => ReadsRight(g, table, p)
    BY <1>1, <1>2, <1>3 DEF ReadsRight
  <2>3. InStep(h, p) => InStep(g, p)
    BY <1>1, <1>2, <1>3 DEF InStep
  <2> QED BY <2>1, <2>2, <2>3 DEF KeepsCopy
<1>5. \A p \in dirty : InStep(g, p)
  BY <1>1, <1>2 DEF InStep
<1>6. AllInStep(h) => g.frame = h.frame
  BY <1>2, CopyBackInStep DEF AllInStep
<1>7. ASSUME AllBacked(h), Untranslated(h) PROVE Untranslated(g)
  <2>1. ASSUME NEW p \in dirty PROVE h.shadow[p] # "brk"
    BY <1>2, <1>7, WindowOfPage DEF Untranslated, AllBacked, Backed
  <2>2. \A f \in Frame : g.frame[f] # "brk"
    BY <1>1, <1>7, <2>1 DEF Untranslated
  <2> QED BY <1>1, <1>7, <2>2 DEF Untranslated
<1> QED
  BY <1>1, <1>4, <1>5, <1>6, <1>7 DEF KeepsAll

LEMMA DropWindowsKeeps ==
  ASSUME NEW h \in HostState, OneCopy(h), NEW ws, NEW table
  PROVE  KeepsAll(h, DropWindows(h, ws), table)
<1> PICK b \in HostState : b = CopyBack(h, ws)
  BY CopyBackFacts
<1> PICK g \in HostState : g = DropWindows(h, ws)
  BY DropWindowsFacts
<1>1. /\ \A p \in Page : g.seg[p] = IF WindowOf(p) \in ws THEN None ELSE b.seg[p]
      /\ \A w \in Window : g.prot[w] = IF w \in ws THEN None ELSE b.prot[w]
      /\ \A p \in Page : g.shadow[p] = IF WindowOf(p) \in ws THEN "zero" ELSE b.shadow[p]
      /\ g.frame = b.frame /\ b.seg = h.seg
  BY DropWindowsFacts, CopyBackFacts
<1>2. KeepsAll(h, b, table)
  BY CopyBackKeeps
<1>3. ASSUME NEW p \in Page PROVE KeepsCopy(h, g, table, p)
  <2>1. KeepsCopy(h, b, table, p) /\ WindowOf(p) \in Window
    BY <1>2, WindowOfPage DEF KeepsAll
  <2>2. CASE WindowOf(p) \in ws
    BY <1>1, <2>2 DEF KeepsCopy, Backed, ReadsRight, InStep
  <2>3. CASE WindowOf(p) \notin ws
    BY <1>1, <2>1, <2>3 DEF KeepsCopy, Backed, ReadsRight, InStep
  <2> QED BY <2>2, <2>3
<1>4. ASSUME AllBacked(h), Untranslated(h) PROVE Untranslated(g)
  <2>1. Untranslated(b)
    BY <1>2, <1>4 DEF KeepsAll
  <2> QED BY <1>1, <2>1, WindowOfPage DEF Untranslated
<1> QED
  BY <1>1, <1>2, <1>3, <1>4 DEF KeepsAll

(* A new mapping has no copies yet.                                        *)
MappingKeeps(h, g, w, q, table) ==
  /\ \A p \in Page : KeepsCopy(h, g, table, p)
  /\ (\A p \in DirtyPages(h, {w}) : InStep(h, p)) => g.frame = h.frame
  /\ AllBacked(h) /\ Untranslated(h) /\ ~(q.write /\ q.exec) => Untranslated(g)

LEMMA WithMappingKeeps ==
  ASSUME NEW h \in HostState, OneCopy(h), NEW w \in Window, NEW q \in Prot, NEW table,
         NEW g, MapsWindow(h, g, w, q)
  PROVE  MappingKeeps(h, g, w, q, table)
<1> USE DEF MappingKeeps
<1>1. CASE g = h
  BY <1>1 DEF KeepsCopy
<1>2. CASE g # h
  <2> PICK b \in HostState : b = CopyBack(h, {w})
    BY CopyBackFacts
  <2>1. /\ \A p \in Page :
             /\ g.seg[p] = IF WindowOf(p) = w THEN None ELSE b.seg[p]
             /\ g.shadow[p] = IF WindowOf(p) = w THEN "zero" ELSE b.shadow[p]
        /\ \A x \in Window : g.prot[x] = IF x = w THEN q ELSE b.prot[x]
        /\ g.frame = b.frame
    <3>1. b.seg = h.seg /\ b.prot = h.prot /\ b.shadow = h.shadow
      BY CopyBackFacts
    <3> QED BY <1>2, <3>1 DEF MapsWindow
  <2>2. KeepsAll(h, b, table)
    BY CopyBackKeeps
  <2>3. ASSUME NEW p \in Page PROVE KeepsCopy(h, g, table, p)
    <3>1. KeepsCopy(h, b, table, p) /\ WindowOf(p) \in Window
      BY <2>2, WindowOfPage DEF KeepsAll
    <3>2. CASE WindowOf(p) = w
      BY <2>1, <3>2 DEF KeepsCopy, Backed, ReadsRight, InStep
    <3>3. CASE WindowOf(p) # w
      BY <2>1, <3>1, <3>3 DEF KeepsCopy, Backed, ReadsRight, InStep
    <3> QED BY <3>2, <3>3
  <2>4. ASSUME AllBacked(h), Untranslated(h), ~(q.write /\ q.exec) PROVE Untranslated(g)
    <3>1. Untranslated(b)
      BY <2>2, <2>4 DEF KeepsAll
    <3>2. ~(q.write /\ q.exec)
      BY <2>4
    <3>3. \A x \in Window : g.prot[x] # None => ~(g.prot[x].write /\ g.prot[x].exec)
      BY <2>1, <3>1, <3>2 DEF Untranslated
    <3>4. \A p \in Page : g.shadow[p] = "brk" =>
            g.prot[WindowOf(p)] # None /\ g.prot[WindowOf(p)].exec
      BY <2>1, <3>1, WindowOfPage DEF Untranslated
    <3> QED BY <2>1, <3>1, <3>3, <3>4 DEF Untranslated
  <2>5. (\A p \in DirtyPages(h, {w}) : InStep(h, p)) => g.frame = h.frame
    BY <2>1, CopyBackInStep
  <2> QED BY <2>3, <2>4, <2>5
<1> QED
  BY <1>1, <1>2

LEMMA NotedOfPage ==
  ASSUME NEW w \in Window, NEW got \in Entries, Len(got) = WindowPages,
         NEW table, WindowNoted(w, got, table), NEW p \in PagesOf(w),
         EntryOf(w, got, p) # None
  PROVE  NotedFor(p, EntryOf(w, got, p), table[p])
<1>1. p - FirstPage(w) + 1 \in 1..Len(got)
  BY EntryOfPage
<1>2. FirstPage(w) + (p - FirstPage(w) + 1) - 1 = p
  <2>1. w \in Nat /\ p \in Nat
    BY WindowOfPage DEF PagesOf, Page
  <2> QED BY <2>1, PageAssumption DEF FirstPage
<1> QED
  BY <1>1, <1>2 DEF WindowNoted, EntryOf

(* The protection of a window allows what its pages do, and where text is  *)
(* kept apart it never allows both to write and to execute.                *)
LEMMA RightsFacts ==
  ASSUME NEW w \in Window, NEW got \in Entries, Len(got) = WindowPages,
         NEW table, WindowNoted(w, got, table)
  PROVE  LET q == Rights(got)
         IN /\ q \in Prot
            /\ \A p \in PagesOf(w) : EntryOf(w, got, p) # None =>
                 /\ EntryOf(w, got, p).exec => q.exec
                 /\ EntryOf(w, got, p).write => q.write
            /\ TextApart => ~(q.write /\ q.exec)
<1> PICK q : q = Rights(got)
  OBVIOUS
<1>1. /\ q.write = \E i \in 1..Len(got) : got[i] # None /\ got[i].write
      /\ q.exec = \E i \in 1..Len(got) : got[i] # None /\ got[i].exec
      /\ q \in Prot
  BY DEF Rights, Prot
<1>2. ASSUME NEW p \in PagesOf(w), EntryOf(w, got, p) # None
      PROVE  /\ EntryOf(w, got, p).exec => q.exec
             /\ EntryOf(w, got, p).write => q.write
  BY <1>1, <1>2, EntryOfPage DEF EntryOf
<1>3. ASSUME TextApart, q.write, q.exec PROVE FALSE
  <2>1. PICK i \in 1..Len(got), j \in 1..Len(got) :
          got[i] # None /\ got[i].write /\ got[j] # None /\ got[j].exec
    BY <1>1, <1>3
  <2> DEFINE page(k) == FirstPage(w) + k - 1
  <2>2. /\ page(i) \in Page /\ WindowOf(page(i)) = w
        /\ page(j) \in Page /\ WindowOf(page(j)) = w
    BY PageOfWindow
  <2>3. Allowed(page(i), got[i]) /\ Allowed(page(j), got[j])
    BY <2>1 DEF WindowNoted, NotedFor
  <2> HIDE DEF page
  <2>4. PICK v \in VmaAt[page(i)] : v.write
    BY <2>1, <2>3 DEF Allowed
  <2>5. PICK u \in VmaAt[page(j)] : u.exec
    BY <2>1, <2>3 DEF Allowed
  <2> QED BY <1>3, <2>2, <2>4, <2>5 DEF TextApart
<1> QED
  BY <1>1, <1>2, <1>3

LEMMA RefreshWindowKeeps ==
  ASSUME NEW h \in HostState, OneCopy(h), NEW w \in Window, NEW got \in Entries,
         Len(got) = WindowPages, NEW table, WindowNoted(w, got, table), AllBacked(h),
         \A p \in Page : ReadsRight(h, table, p)
  PROVE  LET g == RefreshWindow(h, w, got)
         IN /\ \A p \in Page : Backed(g, p) /\ ReadsRight(g, table, p)
            /\ TextApart /\ Untranslated(h) /\ AllInStep(h) =>
                 Untranslated(g) /\ AllInStep(g) /\ g.frame = h.frame
            /\ \A x \in Window : g.prot[x] = IF x = w THEN Rights(got) ELSE h.prot[x]
            /\ \A p \in Page \ PagesOf(w) : g.seg[p] = h.seg[p]
<1> PICK q \in Prot : q = Rights(got)
  BY RightsFacts
<1> PICK m : m = WithMapping(h, w, q)
  OBVIOUS
<1>1. MapsWindow(h, m, w, q)
  BY WithMappingFacts
<1>2. m \in HostState /\ OneCopy(m)
  BY <1>1 DEF MapsWindow, OneCopy
<1> PICK b \in HostState : b = CopyBack(m, {w})
  BY <1>2, CopyBackFacts
<1> PICK g : g = RefreshWindow(h, w, got)
  OBVIOUS
<1>3. Refreshes(b, g, w, got)
  BY RefreshWindowFacts
<1>4. b.prot = m.prot /\ b.seg = m.seg
  BY <1>2, CopyBackFacts
<1>5. \A x \in Window : g.prot[x] = IF x = w THEN q ELSE h.prot[x]
  BY <1>1, <1>3, <1>4 DEF MapsWindow, Refreshes
<1>6. /\ \A p \in Page : KeepsCopy(h, m, table, p)
      /\ AllInStep(h) => m.frame = h.frame
      /\ AllBacked(h) /\ Untranslated(h) /\ ~(q.write /\ q.exec) => Untranslated(m)
  <2>1. MappingKeeps(h, m, w, q, table)
    BY <1>1, WithMappingKeeps
  <2> QED BY <2>1 DEF MappingKeeps, AllInStep, DirtyPages
<1>7. KeepsAll(m, b, table)
  BY <1>2, CopyBackKeeps
<1>8. /\ AllBacked(m) /\ AllBacked(b)
      /\ \A p \in Page : ReadsRight(b, table, p)
      /\ AllInStep(h) => AllInStep(m) /\ AllInStep(b)
  BY <1>6, <1>7 DEF KeepsAll, KeepsCopy, AllBacked, AllInStep
<1>9. /\ g.frame = b.frame /\ g.prot = b.prot
      /\ \A p \in Page \ PagesOf(w) : g.seg[p] = b.seg[p] /\ g.shadow[p] = b.shadow[p]
      /\ \A p \in PagesOf(w) : EntryOf(w, got, p) = None =>
                              g.seg[p] = None /\ g.shadow[p] = b.shadow[p]
  BY <1>3 DEF Refreshes
<1> DEFINE Fresh(p) == /\ g.seg[p] \in Frame
                       /\ g.shadow[p] = View(table[p].exec, g.frame[g.seg[p]])
                       /\ g.prot[WindowOf(p)] = q
                       /\ table[p].exec => q.exec
                       /\ table[p].exec \in BOOLEAN
<1>10. ASSUME NEW p \in PagesOf(w), EntryOf(w, got, p) # None
       PROVE  Fresh(p)
  <2> PICK e \in Entry : e = EntryOf(w, got, p)
    BY <1>10, EntryOfPage
  <2>1. NotedFor(p, e, table[p])
    BY <1>10, NotedOfPage
  <2>2. g.seg[p] = e.frame /\ g.shadow[p] = View(e.exec, b.frame[e.frame])
    BY <1>3, <1>10 DEF Refreshes
  <2>3. e.frame \in Frame /\ e.exec \in BOOLEAN /\ e.exec = table[p].exec
    BY <2>1 DEF NotedFor, Entry
  <2>4. e.exec => q.exec
    BY <1>10, RightsFacts
  <2>5. WindowOf(p) = w
    BY DEF PagesOf
  <2> QED BY <1>5, <1>9, <2>2, <2>3, <2>4, <2>5
<1> HIDE DEF Fresh
<1>11. ASSUME NEW p \in Page PROVE Backed(g, p) /\ ReadsRight(g, table, p)
  <2>1. CASE p \in PagesOf(w) /\ EntryOf(w, got, p) = None
    BY <1>9, <2>1 DEF Backed, ReadsRight
  <2>2. CASE p \in PagesOf(w) /\ EntryOf(w, got, p) # None
    <3>1. Fresh(p)
      BY <1>10, <2>2
    <3> QED BY <3>1, NoneIsNothing DEF Fresh, Backed, ReadsRight
  <2>3. CASE p \notin PagesOf(w)
    <3>1. Backed(b, p) /\ ReadsRight(b, table, p)
      BY <1>8 DEF AllBacked
    <3> QED BY <1>9, <2>3, <3>1 DEF Backed, ReadsRight
  <2> QED BY <2>1, <2>2, <2>3
<1>12. ASSUME TextApart, Untranslated(h), AllInStep(h)
       PROVE  Untranslated(g) /\ AllInStep(g) /\ g.frame = h.frame
  <2>1. ~(q.write /\ q.exec)
    BY <1>12, RightsFacts
  <2>2. Untranslated(b) /\ b.frame = h.frame
    BY <1>6, <1>7, <1>8, <1>12, <2>1 DEF KeepsAll
  <2>3. g.frame = b.frame /\ g.prot = b.prot
    BY <1>9
  <2>4. \A f \in Frame : g.frame[f] # "brk"
    BY <2>2, <2>3 DEF Untranslated
  <2>5. \A x \in Window : g.prot[x] # None => ~(g.prot[x].write /\ g.prot[x].exec)
    BY <2>2, <2>3 DEF Untranslated
  <2>6. \A p \in Page : b.shadow[p] = "brk" =>
          g.prot[WindowOf(p)] # None /\ g.prot[WindowOf(p)].exec
    BY <2>2, <2>3 DEF Untranslated
  <2>7. ASSUME NEW p \in Page PROVE InStep(g, p)
    <3>1. CASE p \in PagesOf(w) /\ EntryOf(w, got, p) = None
      BY <1>9, <3>1 DEF InStep
    <3>2. CASE p \in PagesOf(w) /\ EntryOf(w, got, p) # None
      <4>1. Fresh(p)
        BY <1>10, <3>2
      <4> QED BY <2>1, <4>1 DEF Fresh, InStep, View
    <3>3. CASE p \notin PagesOf(w)
      <4>1. InStep(b, p)
        BY <1>8, <1>12 DEF AllInStep
      <4> QED BY <1>9, <3>3, <4>1 DEF InStep
    <3> QED BY <3>1, <3>2, <3>3
  <2>8. ASSUME NEW p \in Page, g.shadow[p] = "brk"
        PROVE  g.prot[WindowOf(p)] # None /\ g.prot[WindowOf(p)].exec
    <3>1. CASE g.shadow[p] = b.shadow[p]
      BY <2>8, <2>6, <3>1
    <3>2. CASE g.shadow[p] # b.shadow[p]
      <4>1. Fresh(p)
        BY <1>9, <1>10, <3>2
      <4>2. g.frame[g.seg[p]] # "brk"
        BY <2>4, <4>1 DEF Fresh
      <4>3. table[p].exec
        BY <2>8, <4>1, <4>2 DEF Fresh, View
      <4> QED BY <4>1, <4>3, NoneIsNothing DEF Fresh
    <3> QED BY <3>1, <3>2
  <2> QED BY <2>2, <2>7, <2>8, <2>3, <2>4, <2>5 DEF Untranslated, AllInStep
<1>13. ASSUME NEW p \in Page \ PagesOf(w) PROVE g.seg[p] = h.seg[p]
  <2>1. WindowOf(p) # w
    BY <1>13 DEF PagesOf
  <2>2. m.seg[p] = h.seg[p]
    BY <1>1, <2>1 DEF MapsWindow
  <2> QED BY <1>4, <1>9, <2>2
<1> QED
  BY <1>5, <1>11, <1>12, <1>13

(* Where text is kept apart, what copy_to_user writes to page p reaches    *)
(* the program, and all other copies are as good as they were.             *)
PageRefreshed(h, g, p, e, table) ==
  /\ \A o \in Page : Backed(g, o) /\ ReadsRight(g, table, o)
  /\ Untranslated(h) /\ ~(e.write /\ e.exec)
       /\ (\A o \in Page \ {p} : InStep(h, o)) =>
       Untranslated(g) /\ AllInStep(g)
  /\ g.seg[p] = e.frame
  /\ \A x \in Window : g.prot[x] = IF x = WindowOf(p)
                                    THEN [write |-> e.write, exec |-> e.exec]
                                    ELSE h.prot[x]
  /\ \/ DirtyPages(h, {WindowOf(p)}) = {}
     \/ h.prot[WindowOf(p)] = [write |-> e.write, exec |-> e.exec]
     => g.frame = h.frame
  /\ \A o \in Page : WindowOf(o) # WindowOf(p) => g.seg[o] = h.seg[o]

LEMMA RefreshPageKeeps ==
  ASSUME NEW h \in HostState, OneCopy(h), NEW p \in Page, NEW e \in Entry, NEW table,
         table[p] = e, AllBacked(h),
         \A o \in Page \ {p} : ReadsRight(h, table, o)
  PROVE  PageRefreshed(h, RefreshPage(h, p, e), p, e, table)
<1> PICK q \in Prot : q = [write |-> e.write, exec |-> e.exec]
  BY DEF Entry, Prot
<1> PICK w \in Window : w = WindowOf(p)
  BY WindowOfPage
<1> PICK b : b = WithMapping(h, w, q)
  OBVIOUS
<1> PICK g : g = RefreshPage(h, p, e)
  OBVIOUS
<1>1. MapsWindow(h, b, w, q)
  BY WithMappingFacts
<1>2. /\ b \in HostState /\ g \in HostState /\ g.frame = b.frame /\ g.prot = b.prot
      /\ g.seg[p] = e.frame /\ g.shadow[p] = View(e.exec, b.frame[e.frame])
      /\ \A o \in Page \ {p} : g.seg[o] = b.seg[o] /\ g.shadow[o] = b.shadow[o]
  BY RefreshPageFacts
<1>3. /\ \A o \in Page : KeepsCopy(h, b, table, o)
      /\ DirtyPages(h, {w}) = {} => b.frame = h.frame
      /\ AllBacked(h) /\ Untranslated(h) /\ ~(q.write /\ q.exec) => Untranslated(b)
  <2>1. MappingKeeps(h, b, w, q, table)
    BY <1>1, WithMappingKeeps
  <2> QED BY <2>1 DEF MappingKeeps
<1>4. /\ \A x \in Window : g.prot[x] = IF x = w THEN q ELSE h.prot[x]
      /\ h.prot[w] = q => b = h
  BY <1>1, <1>2 DEF MapsWindow
<1>5. ASSUME NEW o \in Page PROVE Backed(g, o) /\ ReadsRight(g, table, o)
  <2>1. CASE o = p
    BY <1>2, <1>4, <2>1, NoneIsNothing DEF Backed, ReadsRight
  <2>2. CASE o # p
    <3>1. Backed(b, o) /\ ReadsRight(b, table, o)
      BY <1>3, <2>2 DEF KeepsCopy, AllBacked
    <3> QED BY <1>2, <2>2, <3>1 DEF Backed, ReadsRight
  <2> QED BY <2>1, <2>2
<1>6. q.write = e.write /\ q.exec = e.exec /\ e.exec \in BOOLEAN /\ e.frame \in Frame
  BY DEF Entry
<1>7. ASSUME Untranslated(h), ~(e.write /\ e.exec), \A o \in Page \ {p} : InStep(h, o)
      PROVE  Untranslated(g) /\ AllInStep(g)
  <2>1. Untranslated(b)
    BY <1>3, <1>6, <1>7
  <2>2. ASSUME NEW o \in Page PROVE InStep(g, o)
    <3>1. CASE o = p
      BY <1>2, <1>4, <1>6, <1>7, <3>1 DEF InStep, View
    <3>2. CASE o # p
      BY <1>2, <1>3, <1>7, <3>2 DEF KeepsCopy, InStep
    <3> QED BY <3>1, <3>2
  <2>3. ASSUME NEW o \in Page, g.shadow[o] = "brk"
        PROVE  g.prot[WindowOf(o)] # None /\ g.prot[WindowOf(o)].exec
    <3>1. CASE o # p
      BY <1>2, <2>1, <2>3, <3>1 DEF Untranslated
    <3>2. CASE o = p
      <4>1. b.frame[e.frame] # "brk"
        BY <1>6, <2>1 DEF Untranslated
      <4>2. e.exec
        BY <1>2, <2>3, <3>2, <4>1 DEF View
      <4> QED BY <1>4, <1>6, <3>2, <4>2, NoneIsNothing
    <3> QED BY <3>1, <3>2
  <2> QED BY <1>2, <2>1, <2>2, <2>3 DEF Untranslated, AllInStep
<1>8. ASSUME NEW o \in Page, WindowOf(o) # w PROVE g.seg[o] = h.seg[o]
  BY <1>1, <1>2, <1>8 DEF MapsWindow
<1>9. PageRefreshed(h, g, p, e, table)
  BY <1>2, <1>3, <1>4, <1>5, <1>7, <1>8 DEF PageRefreshed
<1> QED
  BY <1>9

-----------------------------------------------------------------------------
(* What the steps of the kernel do to the copies of all pages.             *)
(* With the page table of the space that runs next, h is as good as the    *)
(* present state of the host.                                              *)
Continues(h, table) ==
  /\ h \in HostState /\ AllBacked(h)
  /\ \A p \in Page : ReadsRight(h, table, p)
  /\ TextApart /\ Untranslated(Host) /\ AllInStep(Host) => Untranslated(h) /\ AllInStep(h)
(* What a program would read from its page table stays as it is.           *)
KeepsFrames(h) ==
  TextApart /\ Untranslated(Host) /\ AllInStep(Host) =>
    \A f \in Frame \ Free : h.frame[f] = frame[f]

LEMMA MatchingIsOneCopy ==
  ASSUME NEW h \in HostState, NEW tables, NEW m \in Mm,
         MatchesPtes(h.seg, tables[m]), OneHome(tables)
  PROVE  OneCopy(h)
  BY DEF MatchesPtes, OneHome, OneCopy

LEMMA ViewFacts ==
  ASSUME ViewInv
  PROVE  /\ Host \in HostState /\ OneCopy(Host) /\ AllBacked(Host)
         /\ \A p \in Page : ReadsRight(Host, pte[mm], p)
         /\ MatchesPtes(Host.seg, pte[mm]) /\ mm \in Mm /\ OneHome(pte)
         /\ TypeOK /\ AskedFor
<1>1. TypeOK /\ AskedFor /\ SegmentsMatchPtes /\ OneHome(pte) /\ mm \in Mm
  BY CurrentSpace DEF ViewInv, IsolationInv
<1>2. Host \in HostState
  BY <1>1, HostIsState
<1>3. MatchesPtes(Host.seg, pte[mm])
  BY <1>1 DEF MatchesPtes, SegmentsMatchPtes, Host
<1>4. OneCopy(Host)
  BY <1>1, <1>2, <1>3, MatchingIsOneCopy
<1>5. AllBacked(Host) /\ \A p \in Page : ReadsRight(Host, pte[mm], p)
  BY DEF ViewInv, AllBacked
<1> QED
  BY <1>1, <1>2, <1>3, <1>4, <1>5

(* Page tables that give no page a frame it did not have in one of them.   *)
KeepsHomes(before, after) ==
  \A m \in Mm, p \in Page : after[m][p] # None =>
    \E n \in Mm : before[n][p] # None /\ before[n][p].frame = after[m][p].frame

LEMMA HomesKept ==
  ASSUME NEW before, NEW after, OneHome(before), KeepsHomes(before, after)
  PROVE  OneHome(after)
<1> SUFFICES ASSUME NEW m \in Mm, NEW n \in Mm, NEW p \in Page, NEW q \in Page,
                    after[m][p] # None,
                    \/ after[n][q] # None /\ after[n][q].frame = after[m][p].frame
                    \/ q \in FilePage /\ FileFrame[q] = after[m][p].frame
             PROVE  p = q
  BY DEF OneHome
<1>1. PICK k \in Mm : before[k][p] # None /\ before[k][p].frame = after[m][p].frame
  BY DEF KeepsHomes
<1>2. CASE q \in FilePage /\ FileFrame[q] = after[m][p].frame
  BY <1>1, <1>2 DEF OneHome
<1>3. CASE after[n][q] # None /\ after[n][q].frame = after[m][p].frame
  <2>1. PICK l \in Mm : before[l][q] # None /\ before[l][q].frame = after[n][q].frame
    BY <1>3 DEF KeepsHomes
  <2> QED BY <1>1, <1>3, <2>1 DEF OneHome
<1> QED
  BY <1>2, <1>3

(* The frame that a fault puts at a page is at home there.                 *)
LEMMA FaultHomes ==
  ASSUME ViewInv, NEW p \in Page, vma[mm][p] # None, NEW write \in BOOLEAN,
         write => vma[mm][p].write, NEW r \in FaultOutcomes(mm, p, write)
  PROVE  OneHome(PteAfterFault(mm, p, r))
<1>1. TypeOK /\ AskedFor /\ mm \in Mm /\ OneHome(pte) /\ IsolationInv
  BY ViewFacts DEF ViewInv
<1> PICK q : q = PteAfterFault(mm, p, r)
  OBVIOUS
<1>2. /\ \/ r.entry.frame \in Free
         \/ p \in FilePage /\ r.entry.frame = FileFrame[p]
         \/ pte[mm][p] # None /\ r.entry.frame = pte[mm][p].frame
      /\ r.entry \in Entry
  BY <1>1, OutcomeFacts
<1>3. /\ q[mm][p] = r.entry
      /\ \A o \in Page \ {p} : q[mm][o] = pte[mm][o]
      /\ \A m \in Mm \ {mm} : q[m] = pte[m]
  BY <1>1, FaultKeeps
<1> PICK f : f = r.entry.frame
  OBVIOUS
<1>4. ASSUME NEW n \in Mm, NEW o \in Page, pte[n][o] # None, pte[n][o].frame = f
      PROVE  o = p
  <2>1. CASE f \in Free
    BY <1>4, <2>1 DEF Free, FramesOf, Mapped
  <2>2. CASE p \in FilePage /\ f = FileFrame[p]
    BY <1>1, <1>4, <2>2 DEF OneHome
  <2>3. CASE pte[mm][p] # None /\ f = pte[mm][p].frame
    BY <1>1, <1>4, <2>3 DEF OneHome
  <2> QED BY <1>2, <2>1, <2>2, <2>3
<1>5. ASSUME NEW o \in Page, o \in FilePage, FileFrame[o] = f
      PROVE  o = p
  <2>1. CASE f \in Free
    BY <1>5, <2>1 DEF Free, FileFrames
  <2>2. CASE p \in FilePage /\ f = FileFrame[p]
    BY <1>5, <2>2, FrameAssumption
  <2>3. CASE pte[mm][p] # None /\ f = pte[mm][p].frame
    BY <1>1, <1>5, <2>3 DEF OneHome
  <2> QED BY <1>2, <2>1, <2>2, <2>3
<1>6. ASSUME NEW m \in Mm, NEW o \in Page, q[m][o] # None
      PROVE  \/ o = p /\ q[m][o].frame = f
             \/ pte[m][o] # None /\ q[m][o].frame = pte[m][o].frame
  BY <1>3, <1>6
<1> SUFFICES ASSUME NEW m \in Mm, NEW n \in Mm, NEW o \in Page, NEW u \in Page,
                    q[m][o] # None,
                    \/ q[n][u] # None /\ q[n][u].frame = q[m][o].frame
                    \/ u \in FilePage /\ FileFrame[u] = q[m][o].frame
             PROVE  o = u
  BY DEF OneHome
<1>7. CASE u \in FilePage /\ FileFrame[u] = q[m][o].frame
  <2>1. CASE o = p /\ q[m][o].frame = f
    BY <1>5, <1>7, <2>1
  <2>2. CASE pte[m][o] # None /\ q[m][o].frame = pte[m][o].frame
    BY <1>1, <1>7, <2>2 DEF OneHome
  <2> QED BY <1>6, <2>1, <2>2
<1>8. CASE q[n][u] # None /\ q[n][u].frame = q[m][o].frame
  <2>1. CASE o = p /\ q[m][o].frame = f
    BY <1>4, <1>6, <1>8, <2>1
  <2>2. CASE pte[m][o] # None /\ q[m][o].frame = pte[m][o].frame
    <3>1. CASE u = p /\ q[n][u].frame = f
      BY <1>4, <1>8, <2>2, <3>1
    <3>2. CASE pte[n][u] # None /\ q[n][u].frame = pte[n][u].frame
      BY <1>1, <1>8, <2>2, <3>2 DEF OneHome
    <3> QED BY <1>6, <1>8, <3>1, <3>2
  <2> QED BY <1>6, <2>1, <2>2
<1> QED
  BY <1>7, <1>8

(* g is h without the copies of window w.                                  *)
Drops(h, g, w) ==
  /\ g \in HostState
  /\ \A p \in Page :
       /\ g.seg[p] = IF WindowOf(p) = w THEN None ELSE h.seg[p]
       /\ g.prot[WindowOf(p)] = IF WindowOf(p) = w THEN None ELSE h.prot[WindowOf(p)]
LEMMA DropOneWindow ==
  ASSUME NEW h \in HostState, NEW w, NEW g, g = DropWindows(h, {w})
  PROVE  Drops(h, g, w)
<1> PICK ws : ws = {w}
  OBVIOUS
<1>1. g = DropWindows(h, ws)
  OBVIOUS
<1>2. /\ g \in HostState
      /\ \A p \in Page : g.seg[p] = IF WindowOf(p) \in ws THEN None ELSE h.seg[p]
      /\ \A x \in Window : g.prot[x] = IF x \in ws THEN None ELSE h.prot[x]
  BY <1>1, DropWindowsFacts
<1>3. \A p \in Page : WindowOf(p) \in Window /\ (WindowOf(p) \in ws <=> WindowOf(p) = w)
  BY WindowOfPage
<1> QED
  BY <1>2, <1>3 DEF Drops

(* The fault at page p with outcome r dropped the copy of page o.          *)
Flushed(r, o, p) == r.flush /\ WindowOf(o) = WindowOf(p)
(* What a fault leaves of the copies is right for the page table it leaves.*)
LEMMA FaultContinues ==
  ASSUME ViewInv, NEW p \in Page, vma[mm][p] # None, NEW write \in BOOLEAN,
         write => vma[mm][p].write, NEW r \in FaultOutcomes(mm, p, write)
  PROVE  /\ Continues(HostAfterFault(p, r), PteAfterFault(mm, p, r)[mm])
         /\ KeepsFrames(HostAfterFault(p, r))
<1> PICK table : table = pte[mm]
  OBVIOUS
<1> PICK u : u = PteAfterFault(mm, p, r)[mm]
  OBVIOUS
<1> PICK h : h = HostAfterFault(p, r)
  OBVIOUS
<1> PICK g : g = [Host EXCEPT !.frame = r.frame]
  OBVIOUS
<1>1. /\ Host \in HostState /\ OneCopy(Host) /\ AllBacked(Host)
      /\ \A o \in Page : ReadsRight(Host, table, o)
      /\ MatchesPtes(Host.seg, table) /\ mm \in Mm
      /\ TypeOK /\ AskedFor /\ IsolationInv
  BY ViewFacts DEF ViewInv
<1>2. /\ r.frame \in [Frame -> Content] /\ r.flush \in BOOLEAN
      /\ table[p] = None \/ r.flush \/ r.entry = table[p]
      /\ \A f \in Frame : r.frame[f] # frame[f] => f \in Free
      /\ FramesStayUntranslated => \A f \in Frame : r.frame[f] # "brk"
  BY <1>1, OutcomeFacts
<1>3. u[p] = r.entry /\ \A o \in Page \ {p} : u[o] = table[o]
  BY <1>1, FaultKeeps
<1>4. /\ g \in HostState /\ g.frame = r.frame /\ g.seg = Host.seg
      /\ g.prot = Host.prot /\ g.shadow = Host.shadow
  BY <1>1, <1>2 DEF HostState
<1>5. h = IF r.flush THEN DropWindows(g, {WindowOf(p)}) ELSE g
  BY DEF HostAfterFault
<1>6. OneCopy(g) /\ AllBacked(g)
  BY <1>1, <1>4 DEF OneCopy, AllBacked, Backed
<1>7. ASSUME NEW o \in Page, g.seg[o] # None PROVE g.frame[g.seg[o]] = Host.frame[g.seg[o]]
  <2>1. table[o] # None /\ table[o].frame = g.seg[o]
    BY <1>1, <1>4, <1>7 DEF MatchesPtes
  <2>2. g.seg[o] \in Frame /\ g.seg[o] \notin Free
    BY <1>1, <1>4, <1>7, <2>1 DEF HostState, Free, FramesOf, Mapped
  <2> QED BY <1>2, <1>4, <2>2 DEF Host
<1>8. /\ \A o \in Page : ReadsRight(g, table, o)
      /\ AllInStep(Host) => AllInStep(g)
  BY <1>1, <1>4, <1>7 DEF ReadsRight, AllInStep, InStep
<1>9. Untranslated(Host) => Untranslated(g)
  <2> SUFFICES ASSUME Untranslated(Host) PROVE Untranslated(g)
    OBVIOUS
  <2>1. \A f \in Frame : g.frame[f] # "brk"
    BY <1>2, <1>4 DEF Untranslated, FramesStayUntranslated, Host
  <2> QED BY <1>4, <2>1 DEF Untranslated
<1>10. /\ h \in HostState /\ KeepsAll(g, h, table)
       /\ \A o \in Page :
            /\ h.seg[o] = IF Flushed(r, o, p) THEN None ELSE g.seg[o]
            /\ h.prot[WindowOf(o)] = IF Flushed(r, o, p) THEN None ELSE g.prot[WindowOf(o)]
  <2>1. CASE r.flush
    <3>1. h = DropWindows(g, {WindowOf(p)}) /\ g \in HostState
      BY <1>4, <1>5, <2>1
    <3>2. KeepsAll(g, h, table)
      BY <1>6, <3>1, DropWindowsKeeps
    <3> PICK w : w = WindowOf(p)
      OBVIOUS
    <3>3. h = DropWindows(g, {w})
      BY <3>1
    <3>4. Drops(g, h, w)
      BY <3>1, <3>3, DropOneWindow
    <3> QED BY <2>1, <3>2, <3>4 DEF Drops, Flushed
  <2>2. CASE ~r.flush
    <3>1. h = g
      BY <1>5, <2>2
    <3> QED BY <1>4, <2>2, <3>1 DEF KeepsAll, KeepsCopy, Flushed
  <2> QED BY <1>2, <2>1, <2>2
<1>11. /\ AllBacked(h) /\ \A o \in Page : ReadsRight(h, table, o)
       /\ AllInStep(Host) => AllInStep(h) /\ h.frame = g.frame
       /\ Untranslated(Host) => Untranslated(h)
  BY <1>6, <1>8, <1>9, <1>10 DEF KeepsAll, KeepsCopy, AllBacked, AllInStep
<1>12. ASSUME NEW o \in Page, h.seg[o] # None PROVE u[o] = table[o]
  <2>1. CASE o = p
    <3>1. table[p] # None
      BY <1>1, <1>4, <1>10, <1>12, <2>1 DEF MatchesPtes
    <3> QED BY <1>2, <1>3, <1>10, <1>12, <2>1, <3>1 DEF Flushed
  <2>2. CASE o # p
    BY <1>3, <2>2
  <2> QED BY <2>1, <2>2
<1>13. \A o \in Page : ReadsRight(h, u, o)
  BY <1>11, <1>12 DEF ReadsRight
<1>14. Continues(h, u)
  BY <1>10, <1>11, <1>13 DEF Continues
<1>15. KeepsFrames(h)
  BY <1>2, <1>4, <1>11 DEF KeepsFrames
<1> QED
  BY <1>14, <1>15

(* A flush of pages whose entries alone change.                            *)
LEMMA FlushContinues ==
  ASSUME ViewInv, NEW ps \in SUBSET Page, NEW u,
         \A o \in Page : (\A p \in ps : WindowOf(o) # WindowOf(p)) => u[o] = pte[mm][o]
  PROVE  /\ Continues(FlushRange(Host, ps), u)
         /\ KeepsFrames(FlushRange(Host, ps))
<1> PICK table : table = pte[mm]
  OBVIOUS
<1> PICK h : h = FlushRange(Host, ps)
  OBVIOUS
<1> PICK ws : ws = {WindowOf(p) : p \in ps}
  OBVIOUS
<1>1. /\ Host \in HostState /\ OneCopy(Host) /\ AllBacked(Host)
      /\ \A o \in Page : ReadsRight(Host, table, o)
  BY ViewFacts
<1>2. h = DropWindows(Host, ws)
  BY DEF FlushRange
<1>3. KeepsAll(Host, h, table)
  BY <1>1, <1>2, DropWindowsKeeps
<1>4. /\ h \in HostState
      /\ \A o \in Page : h.seg[o] = IF WindowOf(o) \in ws THEN None ELSE Host.seg[o]
      /\ \A w \in Window : h.prot[w] = IF w \in ws THEN None ELSE Host.prot[w]
  BY <1>1, <1>2, DropWindowsFacts
<1>5. \A o \in Page : WindowOf(o) \notin ws => u[o] = table[o]
  OBVIOUS
<1>6. /\ AllBacked(h) /\ \A o \in Page : ReadsRight(h, table, o)
      /\ AllInStep(Host) => AllInStep(h) /\ h.frame = Host.frame
      /\ Untranslated(Host) => Untranslated(h)
  BY <1>1, <1>3 DEF KeepsAll, KeepsCopy, AllBacked, AllInStep
<1>7. \A o \in Page : ReadsRight(h, u, o)
  BY <1>4, <1>5, <1>6 DEF ReadsRight
<1>8. Continues(h, u)
  BY <1>4, <1>6, <1>7 DEF Continues
<1>9. KeepsFrames(h)
  BY <1>6 DEF KeepsFrames, Host
<1> QED
  BY <1>8, <1>9

(* A step that leaves the host alone, and the page table where it has      *)
(* copies.                                                                 *)
LEMMA SameContinues ==
  ASSUME ViewInv
  PROVE  Continues(Host, pte[mm]) /\ KeepsFrames(Host)
  BY ViewFacts DEF Continues, KeepsFrames, Host

-----------------------------------------------------------------------------
(* The steps again: what they do to the copies.                            *)
Good(h) == /\ HostBecomes(h)
           /\ OneHome(pte')
           /\ Continues(h, pte'[mm'])
           /\ KeepsFrames(h)

LEMMA ViewStepFaultInUser ==
  ASSUME ViewInv, NEW p \in Page, NEW write \in BOOLEAN, FaultInUser(p, write)
  PROVE  \E h : Good(h)
<1>1. PICK r \in FaultOutcomes(mm, p, write) :
        pte' = PteAfterFault(mm, p, r) /\ HostBecomes(HostAfterFault(p, r))
  BY DEF FaultInUser
<1>2. vma[mm][p] # None /\ (write => vma[mm][p].write) /\ mm' = mm
  BY DEF FaultInUser, mm
<1>3. OneHome(pte')
  BY <1>1, <1>2, FaultHomes
<1> PICK h : h = HostAfterFault(p, r)
  OBVIOUS
<1>4. Continues(h, pte'[mm]) /\ KeepsFrames(h)
  BY <1>1, <1>2, FaultContinues
<1> QED
  BY <1>1, <1>2, <1>3, <1>4 DEF Good

LEMMA ViewStepServeFault ==
  ASSUME ViewInv, NEW p \in Page, NEW write \in BOOLEAN, NEW bus \in BOOLEAN,
         ServeFault(p, write, bus)
  PROVE  \E h : Good(h)
<1>1. PICK r \in FaultOutcomes(mm, p, write) :
        pte' = PteAfterFault(mm, p, r) /\ HostBecomes(HostAfterFault(p, r))
  BY DEF ServeFault
<1>2. vma[mm][p] # None /\ (write => vma[mm][p].write) /\ mm' = mm
  BY DEF ServeFault, mm
<1>3. OneHome(pte')
  BY <1>1, <1>2, FaultHomes
<1> PICK h : h = HostAfterFault(p, r)
  OBVIOUS
<1>4. Continues(h, pte'[mm]) /\ KeepsFrames(h)
  BY <1>1, <1>2, FaultContinues
<1> QED
  BY <1>1, <1>2, <1>3, <1>4 DEF Good

LEMMA ViewStepSame ==
  ASSUME ViewInv, UNCHANGED <<frame, prot, seg, shadow, pte, cur>>
  PROVE  \E h : Good(h)
<1>1. HostBecomes(Host)
  BY DEF HostBecomes, Host
<1>2. pte' = pte /\ mm' = mm /\ OneHome(pte)
  BY DEF mm, ViewInv
<1>3. Continues(Host, pte[mm]) /\ KeepsFrames(Host)
  BY SameContinues
<1> PICK h : h = Host
  OBVIOUS
<1> QED
  BY <1>1, <1>2, <1>3 DEF Good

LEMMA ViewStepMunmap ==
  ASSUME ViewInv, NEW p \in Page, Munmap(p)
  PROVE  \E h : Good(h)
<1>1. /\ HostBecomes(FlushRange(Host, {p})) /\ mm' = mm
      /\ pte' = [pte EXCEPT ![mm] = [@ EXCEPT ![p] = None]]
  BY DEF Munmap, mm
<1>2. OneHome(pte) /\ mm \in Mm /\ pte \in [Mm -> [Page -> Entry \cup {None}]]
  BY ViewFacts DEF TypeOK
<1> PICK h : h = FlushRange(Host, {p})
  OBVIOUS
<1> PICK q : q = [pte EXCEPT ![mm] = [@ EXCEPT ![p] = None]]
  OBVIOUS
<1>3. \A m \in Mm, o \in Page : q[m][o] = IF m = mm /\ o = p THEN None ELSE pte[m][o]
  BY <1>2
<1>4. OneHome(q)
  <2>1. KeepsHomes(pte, q)
    BY <1>2, <1>3 DEF KeepsHomes
  <2> QED BY <1>2, <2>1, HomesKept
<1>5. {p} \in SUBSET Page
      /\ \A o \in Page : (\A x \in {p} : WindowOf(o) # WindowOf(x)) => q[mm][o] = pte[mm][o]
  BY <1>2, <1>3
<1> PICK u : u = q[mm]
  OBVIOUS
<1>6. Continues(h, u) /\ KeepsFrames(h)
  BY <1>5, FlushContinues
<1> QED
  BY <1>1, <1>4, <1>6 DEF Good

LEMMA ViewStepMprotect ==
  ASSUME ViewInv, NEW p \in Page, NEW v \in Vma, Mprotect(p, v)
  PROVE  \E h : Good(h)
<1> PICK e : e = IF pte[mm][p] = None THEN None
                 ELSE [pte[mm][p] EXCEPT !.write = FALSE, !.exec = v.exec]
  OBVIOUS
<1>1. /\ HostBecomes(FlushRange(Host, {p})) /\ mm' = mm
      /\ pte' = [pte EXCEPT ![mm] = [@ EXCEPT ![p] = e]]
  BY DEF Mprotect, mm
<1>2. OneHome(pte) /\ mm \in Mm /\ pte \in [Mm -> [Page -> Entry \cup {None}]]
  BY ViewFacts DEF TypeOK
<1>3. e # None => pte[mm][p] # None /\ pte[mm][p].frame = e.frame
  BY <1>2 DEF Entry
<1> PICK h : h = FlushRange(Host, {p})
  OBVIOUS
<1> PICK q : q = [pte EXCEPT ![mm] = [@ EXCEPT ![p] = e]]
  OBVIOUS
<1>4. \A m \in Mm, o \in Page : q[m][o] = IF m = mm /\ o = p THEN e ELSE pte[m][o]
  BY <1>2
<1>5. OneHome(q)
  <2>1. KeepsHomes(pte, q)
    BY <1>2, <1>3, <1>4 DEF KeepsHomes
  <2> QED BY <1>2, <2>1, HomesKept
<1>6. {p} \in SUBSET Page
      /\ \A o \in Page : (\A x \in {p} : WindowOf(o) # WindowOf(x)) => q[mm][o] = pte[mm][o]
  BY <1>2, <1>4
<1> PICK u : u = q[mm]
  OBVIOUS
<1>7. Continues(h, u) /\ KeepsFrames(h)
  BY <1>6, FlushContinues
<1> QED
  BY <1>1, <1>5, <1>7 DEF Good

(* A step that flushes everything may change page tables as it likes.      *)
LEMMA FlushAllContinues ==
  ASSUME ViewInv, NEW u
  PROVE  Continues(FlushRange(Host, Page), u) /\ KeepsFrames(FlushRange(Host, Page))
<1>1. Page \in SUBSET Page
      /\ \A o \in Page : (\A x \in Page : WindowOf(o) # WindowOf(x)) => u[o] = pte[mm][o]
  OBVIOUS
<1> QED
  BY <1>1, FlushContinues

LEMMA ViewStepFork ==
  ASSUME ViewInv, NEW n \in Mm, Fork(n)
  PROVE  \E h : Good(h)
<1> DEFINE private(p) == pte[mm][p] # None /\ vma[mm][p].kind # "shared"
<1> PICK protected : protected =
           [p \in Page |-> IF private(p) THEN [pte[mm][p] EXCEPT !.write = FALSE]
                           ELSE pte[mm][p]]
  OBVIOUS
<1> PICK child : child = [p \in Page |-> IF private(p) THEN protected[p] ELSE None]
  OBVIOUS
<1>1. /\ HostBecomes(FlushRange(Host, Page)) /\ mm' = mm
      /\ pte' = [pte EXCEPT ![mm] = protected, ![n] = child]
  BY DEF Fork, mm
<1>2. OneHome(pte) /\ mm \in Mm /\ pte \in [Mm -> [Page -> Entry \cup {None}]]
  BY ViewFacts DEF TypeOK
<1>3. ASSUME NEW p \in Page
      PROVE  /\ protected[p] # None =>
                  pte[mm][p] # None /\ pte[mm][p].frame = protected[p].frame
             /\ child[p] # None =>
                  pte[mm][p] # None /\ pte[mm][p].frame = child[p].frame
  BY <1>2 DEF Entry
<1> PICK h : h = FlushRange(Host, Page)
  OBVIOUS
<1> PICK q : q = [pte EXCEPT ![mm] = protected, ![n] = child]
  OBVIOUS
<1>4. \A m \in Mm : q[m] = IF m = n THEN child ELSE IF m = mm THEN protected ELSE pte[m]
  BY <1>2
<1>5. ASSUME NEW m \in Mm, NEW p \in Page, q[m][p] # None
      PROVE  \E k \in Mm : pte[k][p] # None /\ pte[k][p].frame = q[m][p].frame
  BY <1>2, <1>3, <1>4, <1>5
<1>6. OneHome(q)
  <2>1. KeepsHomes(pte, q)
    BY <1>2, <1>5 DEF KeepsHomes
  <2> QED BY <1>2, <2>1, HomesKept
<1> PICK u : u = q[mm]
  OBVIOUS
<1>7. Continues(h, u) /\ KeepsFrames(h)
  BY FlushAllContinues
<1> QED
  BY <1>1, <1>6, <1>7 DEF Good

LEMMA ViewStepExec ==
  ASSUME ViewInv, Exec
  PROVE  \E h : Good(h)
<1>1. /\ HostBecomes(FlushRange(Host, Page)) /\ mm' = mm
      /\ pte' = [pte EXCEPT ![mm] = [p \in Page |-> None]]
  BY DEF Exec, mm
<1>2. OneHome(pte) /\ mm \in Mm /\ pte \in [Mm -> [Page -> Entry \cup {None}]]
  BY ViewFacts DEF TypeOK
<1> PICK h : h = FlushRange(Host, Page)
  OBVIOUS
<1> PICK q : q = [pte EXCEPT ![mm] = [p \in Page |-> None]]
  OBVIOUS
<1>3. \A m \in Mm, o \in Page : q[m][o] = IF m = mm THEN None ELSE pte[m][o]
  BY <1>2
<1>4. OneHome(q)
  <2>1. KeepsHomes(pte, q)
    BY <1>2, <1>3 DEF KeepsHomes
  <2> QED BY <1>2, <2>1, HomesKept
<1> PICK u : u = q[mm]
  OBVIOUS
<1>5. Continues(h, u) /\ KeepsFrames(h)
  BY FlushAllContinues
<1> QED
  BY <1>1, <1>4, <1>5 DEF Good

LEMMA ViewStepSwitch ==
  ASSUME ViewInv, OwnSpaces, NEW t \in Task, Switch(t)
  PROVE  \E h : Good(h)
<1>1. cur \in Task /\ OneHome(pte)
  BY ViewFacts DEF TypeOK
<1>2. mm' = MmOf[t] /\ mm # MmOf[t] /\ pte' = pte
  BY <1>1 DEF Switch, mm, OwnSpaces
<1>3. HostBecomes(FlushRange(Host, Page))
  BY <1>2 DEF Switch, SwitchMm
<1> PICK h : h = FlushRange(Host, Page)
  OBVIOUS
<1> PICK u : u = pte'[mm']
  OBVIOUS
<1>4. Continues(h, u) /\ KeepsFrames(h)
  BY FlushAllContinues
<1> QED
  BY <1>1, <1>2, <1>3, <1>4 DEF Good

(* A mirroring pass: a page is faulted in or skipped, and then the window  *)
(* is left alone, refreshed or dropped.                                    *)
LEMMA CollectedContinues ==
  ASSUME ViewInv, NEW p \in Page, NEW c \in Collected(mm, p)
  PROVE  /\ OneHome(c.pte)
         /\ Continues(c.host, c.pte[mm])
         /\ KeepsFrames(c.host)
<1> PICK v : v = vma[mm][p]
  OBVIOUS
<1> PICK write : write = (v.write /\ ~v.exec)
  OBVIOUS
<1>1. \/ c = [entry |-> None, pte |-> pte, host |-> Host]
      \/ /\ v # None
         /\ \E r \in FaultOutcomes(mm, p, write) :
              c = [entry |-> [r.entry EXCEPT !.write = @ \/ v.write],
                   pte   |-> PteAfterFault(mm, p, r),
                   host  |-> HostAfterFault(p, r)]
  BY DEF Collected
<1>2. CASE c = [entry |-> None, pte |-> pte, host |-> Host]
  <2>1. c.pte = pte /\ c.host = Host /\ OneHome(pte)
    BY <1>2, ViewFacts
  <2> QED BY <2>1, SameContinues
<1>3. ASSUME v # None, NEW r \in FaultOutcomes(mm, p, write),
             c = [entry |-> [r.entry EXCEPT !.write = @ \/ v.write],
                  pte   |-> PteAfterFault(mm, p, r),
                  host  |-> HostAfterFault(p, r)]
      PROVE  OneHome(c.pte) /\ Continues(c.host, c.pte[mm]) /\ KeepsFrames(c.host)
  <2>1. c.pte = PteAfterFault(mm, p, r) /\ c.host = HostAfterFault(p, r)
    BY <1>3
  <2>2. v \in Vma /\ vma[mm][p] # None
    BY <1>3, ViewFacts DEF TypeOK
  <2>3. write \in BOOLEAN /\ (write => vma[mm][p].write)
    BY <2>2 DEF Vma
  <2>4. OneHome(PteAfterFault(mm, p, r))
    BY <1>3, <2>2, <2>3, FaultHomes
  <2>5. Continues(HostAfterFault(p, r), PteAfterFault(mm, p, r)[mm])
        /\ KeepsFrames(HostAfterFault(p, r))
    BY <1>3, <2>2, <2>3, FaultContinues
  <2> QED BY <2>1, <2>4, <2>5
<1> QED
  BY <1>1, <1>2, <1>3

LEMMA DropContinues ==
  ASSUME NEW h, OneCopy(h), NEW ws, NEW u, Continues(h, u), KeepsFrames(h)
  PROVE  Continues(DropWindows(h, ws), u) /\ KeepsFrames(DropWindows(h, ws))
<1> PICK g : g = DropWindows(h, ws)
  OBVIOUS
<1>1. /\ h \in HostState /\ AllBacked(h) /\ \A p \in Page : ReadsRight(h, u, p)
      /\ TextApart /\ Untranslated(Host) /\ AllInStep(Host) => Untranslated(h) /\ AllInStep(h)
  BY DEF Continues
<1>2. KeepsAll(h, g, u)
  BY <1>1, DropWindowsKeeps
<1>3. /\ g \in HostState
      /\ \A o \in Page : g.seg[o] = IF WindowOf(o) \in ws THEN None ELSE h.seg[o]
      /\ \A w \in Window : g.prot[w] = IF w \in ws THEN None ELSE h.prot[w]
  BY <1>1, DropWindowsFacts
<1>4. /\ AllBacked(g) /\ \A p \in Page : ReadsRight(g, u, p)
      /\ AllInStep(h) => AllInStep(g) /\ g.frame = h.frame
      /\ Untranslated(h) => Untranslated(g)
  BY <1>1, <1>2 DEF KeepsAll, KeepsCopy, AllBacked, AllInStep
<1>5. Continues(g, u)
  BY <1>1, <1>3, <1>4 DEF Continues
<1>6. KeepsFrames(g)
  BY <1>1, <1>4 DEF KeepsFrames
<1> QED
  BY <1>5, <1>6

LEMMA RefreshContinues ==
  ASSUME NEW h, OneCopy(h), NEW w \in Window, NEW got \in Entries,
         Len(got) = WindowPages, NEW u \in [Page -> Entry \cup {None}],
         WindowNoted(w, got, u), Continues(h, u), KeepsFrames(h)
  PROVE  Continues(RefreshWindow(h, w, got), u) /\ KeepsFrames(RefreshWindow(h, w, got))
<1> PICK g : g = RefreshWindow(h, w, got)
  OBVIOUS
<1>1. /\ h \in HostState /\ AllBacked(h) /\ \A p \in Page : ReadsRight(h, u, p)
      /\ TextApart /\ Untranslated(Host) /\ AllInStep(Host) => Untranslated(h) /\ AllInStep(h)
  BY DEF Continues
<1>2. /\ \A p \in Page : Backed(g, p) /\ ReadsRight(g, u, p)
      /\ TextApart /\ Untranslated(h) /\ AllInStep(h) =>
           Untranslated(g) /\ AllInStep(g) /\ g.frame = h.frame
  BY <1>1, RefreshWindowKeeps
<1>3. g \in HostState
  BY <1>1, RefreshWindowFacts
<1>4. Continues(g, u)
  BY <1>1, <1>2, <1>3 DEF Continues, AllBacked
<1>5. KeepsFrames(g)
  BY <1>1, <1>2 DEF KeepsFrames
<1> QED
  BY <1>4, <1>5

LEMMA ViewStepSyncPage ==
  ASSUME ViewInv, SyncPage
  PROVE  \E h : Good(h)
<1>1. PICK s \in Pass, w \in Window, p \in Page, got \in Entries :
        \E c : PassStep(s, w, p, c, got)
  BY PassFacts DEF ViewInv
<1>2. PICK c : PassStep(s, w, p, c, got)
  BY <1>1
<1> PICK u : u = pte'[mm]
  OBVIOUS
<1> PICK g : g = c.host
  OBVIOUS
<1>3. mm' = mm /\ mm \in Mm
  BY ViewFacts DEF SyncPage, mm
<1>4. c \in Collected(mm, p) /\ pte' = c.pte
  BY <1>2 DEF PassStep
<1>5. OneHome(pte') /\ Continues(g, u) /\ KeepsFrames(g)
  BY <1>4, CollectedContinues
<1>6. g \in HostState /\ MatchesPtes(g.seg, u) /\ pte' \in [Mm -> [Page -> Entry \cup {None}]]
  BY <1>4, CollectedFacts DEF ViewInv
<1>7. u \in [Page -> Entry \cup {None}]
  BY <1>3, <1>6
<1> PICK tables : tables = pte'
  OBVIOUS
<1>8. OneCopy(g)
  <2>1. OneHome(tables) /\ MatchesPtes(g.seg, tables[mm])
    BY <1>5, <1>6
  <2> QED BY <1>3, <1>6, <2>1, MatchingIsOneCopy
<1>9. WindowNoted(w, got, u)
  BY <1>2 DEF PassStep
<1>10. CASE HostBecomes(g)
  BY <1>3, <1>5, <1>10 DEF Good
<1>11. ASSUME Len(got) = WindowPages, HostBecomes(RefreshWindow(g, w, got))
       PROVE  \E h : Good(h)
  <2> PICK h : h = RefreshWindow(g, w, got)
    OBVIOUS
  <2>1. Continues(h, u) /\ KeepsFrames(h)
    BY <1>5, <1>7, <1>8, <1>9, <1>11, RefreshContinues
  <2> QED BY <1>3, <1>5, <1>11, <2>1 DEF Good
<1>12. CASE HostBecomes(DropWindows(g, {w}))
  <2> PICK h : h = DropWindows(g, {w})
    OBVIOUS
  <2>1. Continues(h, u) /\ KeepsFrames(h)
    BY <1>5, <1>8, DropContinues
  <2> QED BY <1>3, <1>5, <1>12, <2>1 DEF Good
<1> QED
  BY <1>2, <1>10, <1>11, <1>12 DEF PassStep

(* The two steps that do not keep the frames.                              *)
LEMMA ViewStepTrap ==
  ASSUME ViewInv, Trap
  PROVE  \E h : /\ HostBecomes(h)
                /\ Continues(h, pte'[mm'])
                /\ UNCHANGED <<mm, pte>>
                /\ h.frame = Contents
                /\ Untranslated(Host) => Untranslated(h) /\ AllInStep(h)
<1> PICK table : table = pte[mm]
  OBVIOUS
<1> PICK ws : ws = Window
  OBVIOUS
<1> PICK h : h = CopyBack(Host, ws)
  OBVIOUS
<1>1. HostBecomes(h) /\ UNCHANGED <<mm, pte>> /\ h.frame = Contents
  BY DEF Trap, mm, Contents
<1>2. /\ Host \in HostState /\ OneCopy(Host) /\ AllBacked(Host)
      /\ \A p \in Page : ReadsRight(Host, table, p)
  BY ViewFacts
<1>3. KeepsAll(Host, h, table) /\ \A p \in DirtyPages(Host, ws) : InStep(h, p)
  BY <1>2, CopyBackKeeps
<1>4. h \in HostState /\ h.seg = Host.seg /\ h.prot = Host.prot
  BY <1>2, CopyBackFacts
<1>5. AllInStep(h)
  <2> SUFFICES ASSUME NEW p \in Page PROVE InStep(h, p)
    BY DEF AllInStep
  <2>1. CASE p \in DirtyPages(Host, ws)
    BY <1>3, <2>1
  <2>2. CASE p \notin DirtyPages(Host, ws)
    BY <1>4, <2>2, WindowOfPage DEF DirtyPages, InStep
  <2> QED BY <2>1, <2>2
<1>6. /\ AllBacked(h) /\ \A p \in Page : ReadsRight(h, table, p)
      /\ Untranslated(Host) => Untranslated(h)
  BY <1>2, <1>3 DEF KeepsAll, KeepsCopy, AllBacked
<1>7. Continues(h, table)
  BY <1>4, <1>5, <1>6 DEF Continues
<1> QED
  BY <1>1, <1>5, <1>6, <1>7

LEMMA ViewStepCopyToUser ==
  ASSUME ViewInv, NEW p \in Page, NEW v \in UserValue, CopyToUser(p, v)
  PROVE  \E h : /\ HostBecomes(h)
                /\ Continues(h, pte'[mm'])
                /\ UNCHANGED <<mm, pte>>
                /\ TextApart /\ Untranslated(Host) =>
                     h.frame = [frame EXCEPT ![pte[mm][p].frame] = v]
<1> PICK table : table = pte[mm]
  OBVIOUS
<1> PICK e : e = table[p]
  OBVIOUS
<1> PICK frames : frames = [frame EXCEPT ![e.frame] = v]
  OBVIOUS
<1>1. /\ Host \in HostState /\ OneCopy(Host) /\ AllBacked(Host)
      /\ \A o \in Page : ReadsRight(Host, table, o)
      /\ MatchesPtes(Host.seg, table) /\ OneHome(pte) /\ mm \in Mm /\ TypeOK /\ AskedFor
  BY ViewFacts
<1>2. e \in Entry /\ e # None /\ e.write /\ e.frame \in Frame
  BY <1>1 DEF CopyToUser, Resolves, TypeOK, Entry
<1>3. v \in Content /\ v # "brk"
  BY ValueAssumption DEF Content
<1>4. frames \in [Frame -> Content] /\ \A f \in Frame : frames[f] = IF f = e.frame THEN v ELSE frame[f]
  BY <1>1, <1>2, <1>3 DEF TypeOK
<1>5. PICK g \in HostState :
        /\ g = [Host EXCEPT !.frame = frames]
        /\ g.frame = frames /\ g.seg = seg /\ g.prot = prot /\ g.shadow = shadow
  <2>1. [frame |-> frames, prot |-> prot, seg |-> seg, shadow |-> shadow] \in HostState
    BY <1>1, <1>4 DEF HostState, TypeOK
  <2>2. [Host EXCEPT !.frame = frames]
          = [frame |-> frames, prot |-> prot, seg |-> seg, shadow |-> shadow]
    BY DEF Host
  <2> QED BY <2>1, <2>2
<1>6. /\ HostBecomes(RefreshPage(g, p, e)) /\ UNCHANGED <<mm, pte>>
  BY <1>5 DEF CopyToUser, mm, Host
<1>7. Host.frame = frame /\ Host.seg = seg /\ Host.prot = prot /\ Host.shadow = shadow
  BY DEF Host
<1>8. OneCopy(g) /\ AllBacked(g)
  BY <1>1, <1>5, <1>7 DEF OneCopy, AllBacked, Backed
<1>9. ASSUME NEW o \in Page \ {p}, seg[o] # None PROVE frames[seg[o]] = frame[seg[o]]
  <2>1. table[o] # None /\ table[o].frame = seg[o] /\ seg[o] \in Frame
    BY <1>1, <1>7, <1>9 DEF MatchesPtes, TypeOK
  <2>2. seg[o] # e.frame
    BY <1>1, <1>2, <2>1 DEF OneHome
  <2> QED BY <1>4, <2>1, <2>2
<1>10. \A o \in Page \ {p} : /\ ReadsRight(g, table, o)
                             /\ InStep(Host, o) => InStep(g, o)
  BY <1>1, <1>5, <1>7, <1>9 DEF ReadsRight, InStep
<1>11. Untranslated(Host) => Untranslated(g)
  BY <1>3, <1>4, <1>5, <1>7 DEF Untranslated
<1>12. TextApart => ~(e.write /\ e.exec)
  BY <1>1, <1>2 DEF AskedFor, AskedAs, TextApart
<1> PICK h : h = RefreshPage(g, p, e)
  OBVIOUS
<1>13. PageRefreshed(g, h, p, e, table)
  <2>1. g \in HostState /\ \A o \in Page \ {p} : ReadsRight(g, table, o)
    BY <1>10
  <2> QED BY <1>2, <1>8, <2>1, RefreshPageKeeps
<1>14. h \in HostState
  BY <1>2, <1>5, RefreshPageFacts
<1>15. TextApart /\ Untranslated(Host) /\ AllInStep(Host) => Untranslated(h) /\ AllInStep(h)
  BY <1>10, <1>11, <1>12, <1>13 DEF AllInStep, PageRefreshed
<1>16. ASSUME TextApart, Untranslated(Host) PROVE h.frame = frames
  <2> PICK w \in Window : w = WindowOf(p)
    BY WindowOfPage
  <2>1. ASSUME NEW o \in DirtyPages(g, {w})
        PROVE  g.prot[w] = [write |-> e.write, exec |-> e.exec]
    <3>1. /\ o \in Page /\ WindowOf(o) = w /\ g.seg[o] # None /\ g.prot[w].write
      BY <2>1 DEF DirtyPages
    <3>2. g.prot[w] \in Prot
      BY <1>8, <3>1 DEF AllBacked, Backed, HostState
    <3>3. ~g.prot[w].exec
      BY <1>5, <1>7, <1>16, <3>1, <3>2, NoneIsNothing DEF Untranslated
    <3>4. g.prot[w] = [write |-> TRUE, exec |-> FALSE]
      BY <3>1, <3>2, <3>3 DEF Prot
    <3>5. e.write = TRUE /\ e.exec = FALSE
      BY <1>2, <1>12, <1>16 DEF Entry
    <3> QED BY <3>4, <3>5
  <2>2. DirtyPages(g, {w}) = {} \/ g.prot[w] = [write |-> e.write, exec |-> e.exec]
    BY <2>1
  <2> QED BY <1>5, <1>13, <2>2 DEF PageRefreshed
<1>17. Continues(h, table)
  BY <1>13, <1>14, <1>15 DEF Continues, AllBacked, PageRefreshed
<1> QED
  BY <1>6, <1>16, <1>17

LEMMA ViewStepUserStore ==
  ASSUME ViewInv, NEW p \in Page, NEW v \in UserValue, UserStore(p, v)
  PROVE  \E h \in HostState :
           /\ HostBecomes(h) /\ UNCHANGED <<mm, pte>>
           /\ AllBacked(h) /\ \A o \in Page : ReadsRight(h, pte[mm], o)
           /\ Untranslated(Host) => Untranslated(h)
<1> PICK table : table = pte[mm]
  OBVIOUS
<1>1. /\ Host \in HostState /\ AllBacked(Host) /\ TypeOK
      /\ \A o \in Page : ReadsRight(Host, table, o)
  BY ViewFacts
<1>2. v \in Content /\ v # "brk"
  BY ValueAssumption DEF Content
<1> PICK bytes : bytes = [shadow EXCEPT ![p] = v]
  OBVIOUS
<1>3. bytes \in [Page -> Content] /\ \A o \in Page : bytes[o] = IF o = p THEN v ELSE shadow[o]
  BY <1>1, <1>2 DEF TypeOK
<1>4. PICK h \in HostState :
        /\ h.frame = frame /\ h.seg = seg /\ h.prot = prot /\ h.shadow = bytes
  <2>1. [frame |-> frame, prot |-> prot, seg |-> seg, shadow |-> bytes] \in HostState
    BY <1>1, <1>3 DEF HostState, TypeOK
  <2> QED BY <2>1
<1>5. Host.frame = frame /\ Host.seg = seg /\ Host.prot = prot /\ Host.shadow = shadow
  BY DEF Host
<1>6. HostBecomes(h) /\ UNCHANGED <<mm, pte>> /\ prot[WindowOf(p)].write
  BY <1>4 DEF UserStore, HostBecomes, mm
<1>7. AllBacked(h)
  BY <1>1, <1>4, <1>5 DEF AllBacked, Backed
<1>8. ASSUME NEW o \in Page PROVE ReadsRight(h, table, o)
  <2>1. ReadsRight(Host, table, o)
    BY <1>1
  <2> QED BY <1>3, <1>4, <1>5, <1>6, <2>1 DEF ReadsRight
<1>9. Untranslated(Host) => Untranslated(h)
  BY <1>2, <1>3, <1>4, <1>5 DEF Untranslated
<1> QED
  BY <1>6, <1>7, <1>8, <1>9

-----------------------------------------------------------------------------
(* The kinds of steps, and what every one of them keeps.                   *)
LEMMA StepKinds ==
  ASSUME ViewInv, OwnSpaces, [Next]_vars
  PROVE  \/ UNCHANGED vars
         \/ \E p \in Page, v \in UserValue : UserStore(p, v)
         \/ \E p \in Page, v \in UserValue : CopyToUser(p, v)
         \/ Trap
         \/ mode = "kernel" /\ stored' = NoStore /\ \E h : Good(h)
<1>1. ASSUME NEW p \in Page, NEW write \in BOOLEAN, NEW bus \in BOOLEAN,
             ServeFault(p, write, bus)
      PROVE  mode = "kernel" /\ stored' = NoStore /\ \E h : Good(h)
  <2>1. mode = "kernel" /\ stored' = NoStore
    BY <1>1 DEF ServeFault, InKernel
  <2> QED BY <1>1, <2>1, ViewStepServeFault
<1>2. ASSUME NEW p \in Page, NEW write \in BOOLEAN, FaultInUser(p, write)
      PROVE  mode = "kernel" /\ stored' = NoStore /\ \E h : Good(h)
  <2>1. mode = "kernel" /\ stored' = NoStore
    BY <1>2 DEF FaultInUser, InKernel
  <2> QED BY <1>2, <2>1, ViewStepFaultInUser
<1>3. ASSUME NEW p \in Page, SyncUserReadRange(p)
      PROVE  mode = "kernel" /\ stored' = NoStore /\ \E h : Good(h)
  <2>1. mode = "kernel" /\ stored' = NoStore
        /\ UNCHANGED <<frame, prot, seg, shadow, pte, cur>>
    BY <1>3 DEF SyncUserReadRange, InKernel, hostVars
  <2> QED BY <2>1, ViewStepSame
<1>4. ASSUME NEW pc \in Pc, NEW sp \in Sp, NEW full \in BOOLEAN,
             NEW access, Resume(pc, sp, access, full)
      PROVE  mode = "kernel" /\ stored' = NoStore /\ \E h : Good(h)
  <2>1. mode = "kernel" /\ stored' = NoStore
        /\ UNCHANGED <<frame, prot, seg, shadow, pte, cur>>
    BY <1>4 DEF Resume, InKernel, hostVars
  <2> QED BY <2>1, ViewStepSame
<1>5. CASE SyncPage
  <2>1. mode = "kernel" /\ stored' = NoStore
    BY <1>5 DEF SyncPage
  <2> QED BY <1>5, <2>1, ViewStepSyncPage
<1>6. ASSUME NEW p \in Page, NEW v \in Vma, Mmap(p, v)
      PROVE  mode = "kernel" /\ stored' = NoStore /\ \E h : Good(h)
  <2>1. mode = "kernel" /\ stored' = NoStore
        /\ UNCHANGED <<frame, prot, seg, shadow, pte, cur>>
    BY <1>6 DEF Mmap, InKernel, hostVars
  <2> QED BY <2>1, ViewStepSame
<1>7. ASSUME NEW p \in Page, NEW v \in Vma, Mprotect(p, v)
      PROVE  mode = "kernel" /\ stored' = NoStore /\ \E h : Good(h)
  <2>1. mode = "kernel" /\ stored' = NoStore
    BY <1>7 DEF Mprotect, InKernel
  <2> QED BY <1>7, <2>1, ViewStepMprotect
<1>8. ASSUME NEW p \in Page, Munmap(p)
      PROVE  mode = "kernel" /\ stored' = NoStore /\ \E h : Good(h)
  <2>1. mode = "kernel" /\ stored' = NoStore
    BY <1>8 DEF Munmap, InKernel
  <2> QED BY <1>8, <2>1, ViewStepMunmap
<1>9. ASSUME NEW n \in Mm, Fork(n)
      PROVE  mode = "kernel" /\ stored' = NoStore /\ \E h : Good(h)
  <2>1. mode = "kernel" /\ stored' = NoStore
    BY <1>9 DEF Fork, InKernel
  <2> QED BY <1>9, <2>1, ViewStepFork
<1>10. CASE Exec
  <2>1. mode = "kernel" /\ stored' = NoStore
    BY <1>10 DEF Exec, InKernel
  <2> QED BY <1>10, <2>1, ViewStepExec
<1>11. ASSUME NEW t \in Task, Switch(t)
       PROVE  mode = "kernel" /\ stored' = NoStore /\ \E h : Good(h)
  <2>1. mode = "kernel" /\ stored' = NoStore
    BY <1>11 DEF Switch
  <2> QED BY <1>11, <2>1, ViewStepSwitch
<1>12. CASE UNCHANGED vars
  BY <1>12
<1>13. CASE Next
  BY <1>1, <1>2, <1>3, <1>4, <1>5, <1>6, <1>7, <1>8, <1>9, <1>10, <1>11, <1>13 DEF Next
<1> QED
  BY <1>12, <1>13

(* The host after a step is as good as before, for both invariants.        *)
Coherent == Untranslated(Host) /\ (mode # "user" => AllInStep(Host))
Held(h) ==
  /\ h \in HostState /\ HostBecomes(h) /\ OneHome(pte') /\ AllBacked(h)
  /\ \A p \in Page : ReadsRight(h, pte'[mm'], p)
  /\ TextApart /\ Coherent => Untranslated(h) /\ (mode' # "user" => AllInStep(h))

LEMMA StepHolds ==
  ASSUME ViewInv, OwnSpaces, [Next]_vars
  PROVE  \E h : Held(h)
<1> PICK table : table = pte[mm]
  OBVIOUS
<1>1. /\ Host \in HostState /\ AllBacked(Host) /\ OneHome(pte)
      /\ \A p \in Page : ReadsRight(Host, table, p)
  BY ViewFacts
<1>2. CASE UNCHANGED vars
  <2>1. HostBecomes(Host) /\ pte' = pte /\ mm' = mm /\ mode' = mode
    BY <1>2 DEF vars, HostBecomes, Host, mm
  <2>2. Held(Host)
    BY <1>1, <2>1 DEF Held, Coherent
  <2> QED BY <2>2
<1>3. ASSUME NEW p \in Page, NEW v \in UserValue, UserStore(p, v)
      PROVE  \E h : Held(h)
  <2>1. PICK h \in HostState :
          /\ HostBecomes(h) /\ UNCHANGED <<mm, pte>>
          /\ AllBacked(h) /\ \A o \in Page : ReadsRight(h, pte[mm], o)
          /\ Untranslated(Host) => Untranslated(h)
    BY <1>3, ViewStepUserStore
  <2>2. mode' = "user"
    BY <1>3 DEF UserStore
  <2>3. Held(h)
    BY <1>1, <2>1, <2>2 DEF Held, Coherent
  <2> QED BY <2>3
<1>4. ASSUME NEW p \in Page, NEW v \in UserValue, CopyToUser(p, v)
      PROVE  \E h : Held(h)
  <2>1. PICK h : HostBecomes(h) /\ Continues(h, pte'[mm']) /\ UNCHANGED <<mm, pte>>
    BY <1>4, ViewStepCopyToUser
  <2>2. mode = "kernel"
    BY <1>4 DEF CopyToUser, InKernel
  <2>3. Held(h)
    BY <1>1, <2>1, <2>2 DEF Held, Coherent, Continues
  <2> QED BY <2>3
<1>5. CASE Trap
  <2>1. PICK h : /\ HostBecomes(h) /\ Continues(h, pte'[mm']) /\ UNCHANGED <<mm, pte>>
                 /\ Untranslated(Host) => Untranslated(h) /\ AllInStep(h)
    BY <1>5, ViewStepTrap
  <2>2. Held(h)
    BY <1>1, <2>1 DEF Held, Coherent, Continues
  <2> QED BY <2>2
<1>6. ASSUME mode = "kernel", NEW h, Good(h)
      PROVE  Held(h)
  BY <1>6 DEF Held, Coherent, Continues, Good
<1> QED
  BY <1>2, <1>3, <1>4, <1>5, <1>6, StepKinds

LEMMA NextHost ==
  ASSUME NEW h \in HostState, HostBecomes(h)
  PROVE  Host' = h
<1>1. h = [frame |-> h.frame, prot |-> h.prot, seg |-> h.seg, shadow |-> h.shadow]
  BY DEF HostState
<1> QED
  BY <1>1 DEF HostBecomes, Host

LEMMA StepViewInv ==
  ASSUME ViewInv, OwnSpaces, [Next]_vars
  PROVE  ViewInv'
<1>1. PICK h : Held(h)
  BY StepHolds
<1>2. Host' = h
  BY <1>1, NextHost DEF Held
<1>3. IsolationInv'
  BY StepIsolationInv DEF Kept, ViewInv
<1>4. \A p \in Page : Backed(Host, p)' /\ ReadsRight(Host, pte[mm], p)'
  BY <1>1, <1>2 DEF Held, AllBacked, Backed, ReadsRight
<1>5. OneHome(pte)'
  BY <1>1 DEF Held, OneHome
<1> QED
  BY <1>3, <1>4, <1>5 DEF ViewInv

LEMMA StepCoherenceInv ==
  ASSUME CoherenceInv, OwnSpaces, TextApart, [Next]_vars
  PROVE  CoherenceInv'
<1>1. ViewInv /\ Coherent
  BY DEF CoherenceInv, Coherent, AllInStep
<1>2. PICK h : Held(h)
  BY <1>1, StepHolds
<1>3. Host' = h
  BY <1>2, NextHost DEF Held
<1>4. Untranslated(h) /\ (mode' # "user" => AllInStep(h))
  BY <1>1, <1>2 DEF Held
<1>5. Untranslated(Host)'
  BY <1>3, <1>4 DEF Untranslated
<1>6. mode' # "user" => \A p \in Page : InStep(Host, p)'
  BY <1>3, <1>4 DEF AllInStep, InStep
<1> QED
  BY <1>1, <1>5, <1>6, StepViewInv DEF CoherenceInv

-----------------------------------------------------------------------------
LEMMA InitCoherenceInv ==
  ASSUME Init
  PROVE  CoherenceInv
<1>1. IsolationInv
  BY InitIsolationInv
<1>2. OneHome(pte)
  BY CurrentSpace DEF Init, OneHome
<1>3. /\ \A p \in Page : seg[p] = None /\ shadow[p] = "zero"
      /\ \A w \in Window : prot[w] = None
      /\ \A f \in Frame : frame[f] # "brk"
  BY DEF Init
<1>4. Host.seg = seg /\ Host.shadow = shadow /\ Host.prot = prot /\ Host.frame = frame
  BY DEF Host
<1>5. \A p \in Page : Backed(Host, p) /\ ReadsRight(Host, pte[mm], p)
  BY <1>3, <1>4 DEF Backed, ReadsRight
<1>6. Untranslated(Host) /\ \A p \in Page : InStep(Host, p)
  BY <1>3, <1>4 DEF Untranslated, InStep
<1> QED
  BY <1>1, <1>2, <1>5, <1>6 DEF CoherenceInv, ViewInv

(* At a fork, a copy on write, an unmap, a switch or a new mirroring pass, *)
(* what a program finds in a window stays what its page table says: the    *)
(* state keeps ViewInv, in which a frame has one page                      *)
(* (orlix_host_user_refresh_window, kernel_mapping.c:437; switch_mm).      *)
THEOREM ViewInvariant == ASSUME OwnSpaces PROVE Spec => []ViewInv
<1>1. Init => ViewInv
  BY InitCoherenceInv DEF CoherenceInv
<1>2. ViewInv /\ [Next]_vars => ViewInv'
  BY StepViewInv
<1> QED
  BY <1>1, <1>2, PTL DEF Spec

(* A program reads in a window it may not write what its page table says   *)
(* it reads, with its system calls translated, for any layout of memory,   *)
(* also where text and data share a host page                              *)
(* (orlix_host_user_refresh_window, orlix_flush_host_user_range).          *)
THEOREM ProgramsReadFrames == ASSUME OwnSpaces PROVE Spec => []UserSeesFrames
<1>1. ASSUME ViewInv PROVE UserSeesFrames
  <2>1. /\ \A p \in Page : ReadsRight(Host, pte[mm], p)
        /\ SegmentsMatchPtes
    BY <1>1 DEF ViewInv, IsolationInv
  <2>2. Host.seg = seg /\ Host.shadow = shadow /\ Host.prot = prot /\ Host.frame = frame
    BY DEF Host
  <2> QED BY <2>1, <2>2 DEF UserSeesFrames, ReadsRight, SegmentsMatchPtes
<1>2. ViewInv => UserSeesFrames
  BY <1>1
<1> QED
  BY <1>2, ViewInvariant, PTL

(* Where no host page holds both memory a program may write and memory it  *)
(* may execute, a writable copy and its frame agree whenever the kernel    *)
(* runs, through every fault, flush and mirroring pass, and translated     *)
(* text is only in windows that are executed and never written             *)
(* (orlix_host_user_sync_writable_mappings, OrlixHostUserCopyBackMapping). *)
THEOREM CoherenceInvariant == ASSUME OwnSpaces, TextApart PROVE Spec => []CoherenceInv
<1>1. Init => CoherenceInv
  BY InitCoherenceInv
<1>2. CoherenceInv /\ [Next]_vars => CoherenceInv'
  BY StepCoherenceInv
<1> QED
  BY <1>1, <1>2, PTL DEF Spec

(* A kernel that reads user memory through the page tables reads what the  *)
(* program stored last: no store is still only in a window                 *)
(* (orlix_host_user_sync_writable_mappings, before copy_from_user).        *)
THEOREM KernelReadsStores ==
  ASSUME OwnSpaces, TextApart PROVE Spec => []KernelSeesUserStores
<1>1. ASSUME CoherenceInv PROVE KernelSeesUserStores
  <2>1. mode # "user" => \A p \in Page : InStep(Host, p)
    BY <1>1 DEF CoherenceInv
  <2>2. Host.seg = seg /\ Host.shadow = shadow /\ Host.prot = prot /\ Host.frame = frame
    BY DEF Host
  <2> QED BY <2>1, <2>2 DEF KernelSeesUserStores, InStep, DirtyPages
<1>2. CoherenceInv => KernelSeesUserStores
  BY <1>1
<1> QED
  BY <1>2, CoherenceInvariant, PTL

(* The BRK that stands for a system call in an executable copy reaches no  *)
(* frame, where other programs and the file system would read it           *)
(* (OrlixHostTranslateLinuxSyscalls, OrlixHostUserCopyBackMapping).        *)
THEOREM FramesUntranslated ==
  ASSUME OwnSpaces, TextApart PROVE Spec => []FramesStayUntranslated
<1>1. ASSUME CoherenceInv PROVE FramesStayUntranslated
  <2>1. \A f \in Frame : Host.frame[f] # "brk"
    BY <1>1 DEF CoherenceInv, Untranslated
  <2> QED BY <2>1 DEF FramesStayUntranslated, Host
<1>2. CoherenceInv => FramesStayUntranslated
  BY <1>1
<1> QED
  BY <1>2, CoherenceInvariant, PTL

-----------------------------------------------------------------------------
(* The refinement of PagedMemory.                                          *)

(* Copying back the dirty pages of h gives these frames.                   *)
Exact(h, dirty, frames) ==
  /\ \A p \in dirty : frames[h.seg[p]] = h.shadow[p]
  /\ \A f \in Frame : (\A p \in dirty : h.seg[p] # f) => frames[f] = h.frame[f]
LEMMA CopyBackIsExact ==
  ASSUME NEW h \in HostState, OneCopy(h), NEW ws
  PROVE  Exact(h, DirtyPages(h, ws), CopyBack(h, ws).frame)
  BY CopyBackExact DEF Exact

(* A store to a dirty page changes the contents of its frame alone.        *)
LEMMA StoreChangesContents ==
  ASSUME NEW h \in HostState, OneCopy(h), NEW ws, NEW p \in DirtyPages(h, ws),
         NEW v \in Content, NEW g \in HostState,
         g.frame = h.frame, g.seg = h.seg, g.prot = h.prot,
         g.shadow = [h.shadow EXCEPT ![p] = v]
  PROVE  CopyBack(g, ws).frame = [CopyBack(h, ws).frame EXCEPT ![h.seg[p]] = v]
<1> PICK dirty : dirty = DirtyPages(h, ws)
  OBVIOUS
<1> PICK before : before = CopyBack(h, ws).frame
  OBVIOUS
<1> PICK after : after = CopyBack(g, ws).frame
  OBVIOUS
<1>1. DirtyPages(g, ws) = dirty /\ dirty \subseteq Page /\ p \in dirty
  BY DEF DirtyPages
<1>2. OneCopy(g)
  BY DEF OneCopy
<1>3. /\ \A q \in dirty : before[h.seg[q]] = h.shadow[q]
      /\ \A f \in Frame : (\A q \in dirty : h.seg[q] # f) => before[f] = h.frame[f]
  BY CopyBackIsExact DEF Exact
<1>4. /\ \A q \in dirty : after[g.seg[q]] = g.shadow[q]
      /\ \A f \in Frame : (\A q \in dirty : g.seg[q] # f) => after[f] = g.frame[f]
  <2>1. Exact(g, DirtyPages(g, ws), after)
    BY <1>2, CopyBackIsExact
  <2> QED BY <1>1, <2>1 DEF Exact
<1>5. before \in [Frame -> Content] /\ after \in [Frame -> Content]
  <2>1. CopyBack(h, ws) \in HostState /\ CopyBack(g, ws) \in HostState
    BY CopyBackFacts
  <2> QED BY <2>1 DEF HostState
<1>6. \A q \in Page : g.shadow[q] = IF q = p THEN v ELSE h.shadow[q]
  BY <1>1 DEF HostState
<1> PICK home : home = h.seg[p]
  OBVIOUS
<1>7. ASSUME NEW f \in Frame PROVE after[f] = IF f = home THEN v ELSE before[f]
  <2>1. CASE f = home
    BY <1>1, <1>4, <1>6, <2>1
  <2>2. CASE f # home /\ \A q \in dirty : h.seg[q] # f
    BY <1>3, <1>4, <2>2
  <2>3. ASSUME f # home, NEW q \in dirty, h.seg[q] = f PROVE after[f] = before[f]
    <3>1. q # p /\ q \in Page
      BY <1>1, <2>3
    <3> QED BY <1>3, <1>4, <1>6, <2>3, <3>1
  <2> QED BY <2>1, <2>2, <2>3
<1>8. after = [before EXCEPT ![home] = v]
  BY <1>5, <1>7
<1> QED
  BY <1>8

(* When the copies agree with their frames, the frames are the contents.   *)
LEMMA ContentsOf ==
  ASSUME NEW h \in HostState, OneCopy(h), AllInStep(h)
  PROVE  CopyBack(h, Window).frame = h.frame
<1>1. \A p \in DirtyPages(h, Window) : InStep(h, p)
  BY DEF DirtyPages, AllInStep
<1> QED
  BY <1>1, CopyBackInStep

LEMMA NextContents ==
  ASSUME ViewInv', NEW h \in HostState, HostBecomes(h), AllInStep(h)
  PROVE  Contents' = h.frame
<1>1. Host' = h
  BY NextHost
<1>2. Contents' = CopyBack(h, Window).frame
  BY <1>1 DEF Contents, CopyBack, DirtyPages
<1>3. OneHome(pte') /\ MatchesPtes(h.seg, pte'[mm']) /\ mm' \in Mm
  <2>1. TypeOK' /\ SegmentsMatchPtes' /\ OneHome(pte)'
    BY DEF ViewInv, IsolationInv
  <2>2. cur' \in Task /\ mm' = MmOf[cur']
    BY <2>1 DEF TypeOK, mm
  <2>3. mm' \in Mm
    BY <2>2, SpaceAssumption
  <2>4. seg' = h.seg
    BY DEF HostBecomes
  <2> QED BY <2>1, <2>3, <2>4 DEF OneHome, SegmentsMatchPtes, MatchesPtes
<1> PICK tables : tables = pte'
  OBVIOUS
<1> PICK m \in Mm : m = mm'
  BY <1>3
<1>4. OneCopy(h)
  <2>1. OneHome(tables) /\ MatchesPtes(h.seg, tables[m])
    BY <1>3
  <2> QED BY <2>1, MatchingIsOneCopy
<1> QED
  BY <1>2, <1>4, ContentsOf

LEMMA InitMaps ==
  ASSUME Init
  PROVE  Mmu!PInit
<1>1. ViewInv
  BY InitCoherenceInv DEF CoherenceInv
<1>2. Host \in HostState /\ mm \in Mm
  BY <1>1, ViewFacts
<1>3. CopyBack(Host, Window) \in HostState
  BY <1>2, CopyBackFacts
<1>4. Contents \in [Frame -> Content]
  BY <1>3 DEF Contents, HostState
<1>5. pte = [m \in Mm |-> [p \in Page |-> None]] /\ stored = Mmu!NoStore
  BY DEF Init, NoStore, Mmu!NoStore
<1> QED
  BY <1>2, <1>4, <1>5 DEF Mmu!PInit

(* A step of the kernel changes no frame in use.                           *)
LEMMA ManageMaps ==
  ASSUME stored' = NoStore, NEW before, NEW after, before = Contents, after = Contents',
         \A f \in Frame \ Free : after[f] = before[f], TypeOK
  PROVE  Mmu!Manage
<1>1. \A f \in Mmu!FrameInUse : f \in Frame \ Free
  <2> SUFFICES ASSUME NEW f \in Mmu!FrameInUse PROVE f \in Frame \ Free
    OBVIOUS
  <2>1. CASE f \in FileFrames
    BY <2>1, FrameAssumption DEF Free, FileFrames
  <2>2. ASSUME NEW m \in Mm, NEW p \in Page, pte[m][p] # None, f = pte[m][p].frame
        PROVE  f \in Frame \ Free
    <3>1. f \in Frame
      BY <2>2 DEF TypeOK, Entry
    <3>2. f \in FramesOf(m)
      BY <2>2 DEF FramesOf, Mapped
    <3> QED BY <2>2, <3>1, <3>2 DEF Free
  <2> QED BY <2>1, <2>2 DEF Mmu!FrameInUse
<1> QED
  BY <1>1 DEF Mmu!Manage, Mmu!NoStore, NoStore

LEMMA StoreMaps ==
  ASSUME NEW p \in Page, NEW v \in UserValue, pte[mm][p] # None, pte[mm][p].write,
         Contents' = [Contents EXCEPT ![pte[mm][p].frame] = v],
         stored' = [page |-> p, value |-> v], UNCHANGED <<mm, pte>>
  PROVE  Mmu!PNext
<1>1. v \in Content
  BY ValueAssumption DEF Content
<1>2. Mmu!Store(p, v)
  BY DEF Mmu!Store
<1> QED
  BY <1>1, <1>2 DEF Mmu!PNext

LEMMA UserStoreMaps ==
  ASSUME CoherenceInv, CoherenceInv', NEW p \in Page, NEW v \in UserValue,
         UserStore(p, v), HasCopyToWrite(p)
  PROVE  Mmu!PNext
<1> PICK e : e = pte[mm][p]
  OBVIOUS
<1>1. ViewInv
  BY DEF CoherenceInv
<1>2. /\ Host \in HostState /\ OneCopy(Host) /\ MatchesPtes(Host.seg, pte[mm]) /\ TypeOK
  BY <1>1, ViewFacts
<1>3. Host.seg = seg /\ Host.shadow = shadow /\ Host.prot = prot /\ Host.frame = frame
  BY DEF Host
<1>4. /\ prot[WindowOf(p)] # None /\ prot[WindowOf(p)].write
      /\ shadow' = [shadow EXCEPT ![p] = v]
      /\ stored' = [page |-> p, value |-> v]
      /\ UNCHANGED <<mm, pte, frame, prot, seg>>
  BY DEF UserStore, mm
<1>5. seg[p] # None /\ e # None /\ e.write
  BY DEF HasCopyToWrite
<1>6. e.frame = seg[p]
  BY <1>2, <1>3, <1>5 DEF MatchesPtes
<1>7. p \in DirtyPages(Host, Window)
  BY <1>3, <1>4, <1>5, WindowOfPage DEF DirtyPages
<1> PICK h : h = Host
  OBVIOUS
<1> PICK g : g = Host'
  OBVIOUS
<1>8. v \in Content
  BY ValueAssumption DEF Content
<1>9. /\ g.frame = frame' /\ g.seg = seg' /\ g.prot = prot' /\ g.shadow = shadow'
  BY DEF Host
<1>10. g \in HostState
  BY DEF CoherenceInv, ViewInv, IsolationInv, TypeOK, HostState, Host
<1>11. CopyBack(g, Window).frame = [CopyBack(h, Window).frame EXCEPT ![h.seg[p]] = v]
  <2>1. /\ g.frame = h.frame /\ g.seg = h.seg /\ g.prot = h.prot
        /\ g.shadow = [h.shadow EXCEPT ![p] = v]
    BY <1>3, <1>4, <1>9
  <2>2. h \in HostState /\ OneCopy(h) /\ p \in DirtyPages(h, Window)
    BY <1>2, <1>7
  <2> QED BY <1>8, <1>10, <2>1, <2>2, StoreChangesContents
<1>12. Contents' = CopyBack(g, Window).frame
  BY DEF Contents, CopyBack, DirtyPages
<1>13. Contents' = [Contents EXCEPT ![e.frame] = v]
  BY <1>3, <1>6, <1>11, <1>12 DEF Contents
<1> QED
  BY <1>4, <1>5, <1>13, StoreMaps

LEMMA CopyToUserMaps ==
  ASSUME CoherenceInv, CoherenceInv', TextApart,
         NEW p \in Page, NEW v \in UserValue, CopyToUser(p, v)
  PROVE  Mmu!PNext
<1>1. mode = "kernel" /\ stored' = [page |-> p, value |-> v]
      /\ pte[mm][p] # None /\ pte[mm][p].write
  BY DEF CopyToUser, InKernel, Resolves
<1>2. ViewInv /\ ViewInv' /\ AllInStep(Host) /\ Untranslated(Host)
  BY <1>1 DEF CoherenceInv, AllInStep
<1>3. PICK h : /\ HostBecomes(h) /\ Continues(h, pte'[mm']) /\ UNCHANGED <<mm, pte>>
               /\ h.frame = [frame EXCEPT ![pte[mm][p].frame] = v]
  BY <1>2, ViewStepCopyToUser
<1>4. h \in HostState /\ AllInStep(h)
  BY <1>2, <1>3 DEF Continues
<1>5. Contents' = h.frame
  BY <1>2, <1>3, <1>4, NextContents
<1>6. Contents = frame
  <2>1. Host \in HostState /\ OneCopy(Host) /\ Host.frame = frame
    BY <1>2, ViewFacts DEF Host
  <2> QED BY <1>2, <2>1, ContentsOf DEF Contents
<1>7. Contents' = [Contents EXCEPT ![pte[mm][p].frame] = v]
  BY <1>3, <1>5, <1>6
<1> QED
  BY <1>1, <1>3, <1>7, StoreMaps

LEMMA TrapMaps ==
  ASSUME CoherenceInv, CoherenceInv', Trap
  PROVE  Mmu!PNext
<1>1. ViewInv /\ ViewInv' /\ Untranslated(Host) /\ TypeOK
  BY DEF CoherenceInv, ViewInv, IsolationInv
<1>2. PICK h : /\ HostBecomes(h) /\ Continues(h, pte'[mm']) /\ UNCHANGED <<mm, pte>>
               /\ h.frame = Contents /\ AllInStep(h)
  BY <1>1, ViewStepTrap
<1>3. h \in HostState
  BY <1>2 DEF Continues
<1>4. Contents' = Contents
  BY <1>1, <1>2, <1>3, NextContents
<1>5. stored' = NoStore
  BY DEF Trap
<1>6. Mmu!Manage
  BY <1>1, <1>4, <1>5, ManageMaps
<1> QED
  BY <1>6 DEF Mmu!PNext

LEMMA KernelMaps ==
  ASSUME CoherenceInv, CoherenceInv', TextApart, mode = "kernel", stored' = NoStore,
         NEW h, Good(h)
  PROVE  Mmu!PNext
<1>1. /\ ViewInv /\ ViewInv' /\ AllInStep(Host) /\ Untranslated(Host) /\ TypeOK
  BY DEF CoherenceInv, ViewInv, IsolationInv, AllInStep
<1>2. /\ HostBecomes(h) /\ h \in HostState /\ AllInStep(h)
      /\ \A f \in Frame \ Free : h.frame[f] = frame[f]
  BY <1>1 DEF Good, Continues, KeepsFrames
<1>3. Contents' = h.frame
  BY <1>1, <1>2, NextContents
<1>4. Contents = frame
  <2>1. Host \in HostState /\ OneCopy(Host) /\ Host.frame = frame
    BY <1>1, ViewFacts DEF Host
  <2> QED BY <1>1, <2>1, ContentsOf DEF Contents
<1> PICK before : before = Contents
  OBVIOUS
<1> PICK after : after = Contents'
  OBVIOUS
<1>5. \A f \in Frame \ Free : after[f] = before[f]
  BY <1>2, <1>3, <1>4
<1>6. Mmu!Manage
  BY <1>1, <1>5, ManageMaps
<1> QED
  BY <1>6 DEF Mmu!PNext

LEMMA StepMaps ==
  ASSUME CoherenceInv, CoherenceInv', OwnSpaces, TextApart, [BackedNext]_vars
  PROVE  [Mmu!PNext]_(Mmu!pVars)
<1>1. ViewInv /\ [Next]_vars
  BY DEF CoherenceInv, BackedNext
<1>2. CASE UNCHANGED vars
  BY <1>2 DEF vars, Mmu!pVars, mm, Contents, CopyBack, DirtyPages, Host
<1>3. ASSUME NEW p \in Page, NEW v \in UserValue, CopyToUser(p, v)
      PROVE  Mmu!PNext
  BY <1>3, CopyToUserMaps
<1>6. ASSUME NEW p \in Page, NEW v \in UserValue, UserStore(p, v), BackedNext
      PROVE  Mmu!PNext
  <2>1. HasCopyToWrite(p)
    BY <1>6 DEF BackedNext
  <2> QED BY <1>6, <2>1, UserStoreMaps
<1>4. CASE Trap
  BY <1>4, TrapMaps
<1>5. ASSUME mode = "kernel", stored' = NoStore, NEW h, Good(h) PROVE Mmu!PNext
  BY <1>5, KernelMaps
<1> QED
  BY <1>1, <1>2, <1>3, <1>4, <1>5, <1>6, StepKinds

(* Where no host page holds both memory a program may write and memory it  *)
(* may execute, and for programs that store only in pages they may write   *)
(* and that have a copy, the shadow memory is as good as a memory          *)
(* management unit, with any number of pages to a window: no store of a    *)
(* program or of the kernel is lost, reordered or made where the page      *)
(* table does not allow it, and no fault, flush, fork, exec, switch or     *)
(* mirroring pass changes a frame in use (init.c, kernel_mapping.c,        *)
(* uaccess.c).                                                             *)
THEOREM ShadowMemoryIsMmu ==
  ASSUME OwnSpaces, TextApart PROVE BackedSpec => ImplementsPagedMemory
<1>1. Init => Mmu!PInit
  BY InitMaps
<1>2. CoherenceInv /\ CoherenceInv' /\ [BackedNext]_vars => [Mmu!PNext]_(Mmu!pVars)
  BY StepMaps
<1>3. [BackedNext]_vars => [Next]_vars
  BY DEF BackedNext
<1> QED
  BY <1>1, <1>2, <1>3, CoherenceInvariant, PTL DEF Spec, BackedSpec,
     ImplementsPagedMemory, Mmu!PSpec
=============================================================================
