------------------------- MODULE VirtioQueueProofs -------------------------
(***************************************************************************)
(* Proofs about the queue of the block device, for any number of buffers   *)
(* and any modulus of the indices that it divides: the two rings hold one  *)
(* queue, in which no buffer is lost, doubled or overtaken.                *)
(***************************************************************************)
EXTENDS VirtioQueueProperties, NumberLemmas, SequenceTheorems, TLAPS

-----------------------------------------------------------------------------
(* Indices and slots.                                                      *)
LEMMA Sizes ==
  /\ Size \in Nat \ {0} /\ IndexMod \in Nat \ {0} /\ IndexMod > Size
  /\ 0 \in Index /\ 0 \in Buffer
  /\ \A i \in Index : i \in Nat /\ i < IndexMod /\ Slot(i) \in Buffer
BY SizeAssumption, DivisionWithRemainder DEF Index, Buffer, Slot

LEMMA SmallRemainder ==
  ASSUME NEW a \in 0..2 * IndexMod - 1
  PROVE  a % IndexMod = IF a < IndexMod THEN a ELSE a - IndexMod
BY Sizes, RemainderOfSmall

LEMMA SuccIs ==
  ASSUME NEW i \in Index
  PROVE  Succ(i) \in Index /\ Succ(i) = IF i + 1 = IndexMod THEN 0 ELSE i + 1
<1>1. PICK a : a = i + 1
  OBVIOUS
<1>2. a \in 0..2 * IndexMod - 1 /\ a <= IndexMod /\ i \in Nat
  BY <1>1, Sizes DEF Index
<1>3. a % IndexMod = IF a < IndexMod THEN a ELSE a - IndexMod
  BY <1>2, SmallRemainder
<1>4. Succ(i) = a % IndexMod
  BY <1>1 DEF Succ
<1> QED
  BY <1>1, <1>2, <1>3, <1>4, Sizes DEF Index

LEMMA DistanceIs ==
  ASSUME NEW i \in Index, NEW j \in Index
  PROVE  /\ Distance(i, j) \in Index
         /\ Distance(i, j) = IF i <= j THEN j - i ELSE j + IndexMod - i
<1>1. PICK a : a = j + IndexMod - i
  OBVIOUS
<1>2. /\ a \in 0..2 * IndexMod - 1 /\ i \in 0..IndexMod - 1 /\ j \in 0..IndexMod - 1
  BY <1>1, Sizes DEF Index
<1>3. a % IndexMod = IF a < IndexMod THEN a ELSE a - IndexMod
  BY <1>2, SmallRemainder
<1>4. Distance(i, j) = a % IndexMod
  BY <1>1 DEF Distance
<1> QED
  BY <1>1, <1>2, <1>3, <1>4, Sizes DEF Index

LEMMA DistanceSteps ==
  ASSUME NEW i \in Index, NEW j \in Index
  PROVE  /\ Distance(i, j) = 0 <=> i = j
         /\ Distance(i, j) + 1 < IndexMod => Distance(i, Succ(j)) = Distance(i, j) + 1
         /\ i # j => Distance(Succ(i), j) = Distance(i, j) - 1
<1>1. /\ i \in Nat /\ i < IndexMod /\ j \in Nat /\ j < IndexMod /\ IndexMod \in Nat
      /\ Succ(i) \in Index /\ Succ(j) \in Index
      /\ Succ(i) = IF i + 1 = IndexMod THEN 0 ELSE i + 1
      /\ Succ(j) = IF j + 1 = IndexMod THEN 0 ELSE j + 1
  BY Sizes, SuccIs
<1>2. Distance(i, j) = IF i <= j THEN j - i ELSE j + IndexMod - i
  BY DistanceIs
<1>3. Distance(i, Succ(j)) = IF i <= Succ(j) THEN Succ(j) - i ELSE Succ(j) + IndexMod - i
  BY <1>1, DistanceIs
<1>4. Distance(Succ(i), j) = IF Succ(i) <= j THEN j - Succ(i) ELSE j + IndexMod - Succ(i)
  BY <1>1, DistanceIs
<1> QED
  BY <1>1, <1>2, <1>3, <1>4

(* The indices of the entries, counted from i.                             *)
LEMMA NthIs ==
  ASSUME NEW i \in Index
  PROVE  /\ Nth(i, 1) = i
         /\ \A j \in Index : Nth(i, Distance(i, j) + 1) = j
         /\ \A k \in Nat \ {0} : Nth(i, k) \in Index /\ Nth(Succ(i), k) = Nth(i, k + 1)
<1>1. i \in Nat /\ i < IndexMod /\ IndexMod \in Nat \ {0}
  BY Sizes
<1>2. ASSUME NEW j \in Index PROVE Nth(i, Distance(i, j) + 1) = j
  <2>1. PICK a : a = i + (Distance(i, j) + 1) - 1
    OBVIOUS
  <2>2. j \in Nat /\ j < IndexMod /\ Distance(i, j) = IF i <= j THEN j - i ELSE j + IndexMod - i
    BY Sizes, DistanceIs
  <2>3. a \in 0..2 * IndexMod - 1 /\ a = IF i <= j THEN j ELSE j + IndexMod
    BY <1>1, <2>1, <2>2
  <2>4. a % IndexMod = IF a < IndexMod THEN a ELSE a - IndexMod
    BY <2>3, SmallRemainder
  <2>5. a % IndexMod = j
    BY <1>1, <2>2, <2>3, <2>4
  <2> QED BY <2>1, <2>5 DEF Nth
<1>3. Nth(i, 1) = i
  <2>1. i + 1 - 1 = i /\ i \in 0..2 * IndexMod - 1
    BY <1>1
  <2>2. i % IndexMod = IF i < IndexMod THEN i ELSE i - IndexMod
    BY <2>1, SmallRemainder
  <2> QED BY <1>1, <2>1, <2>2 DEF Nth
<1>4. ASSUME NEW k \in Nat \ {0}
      PROVE  Nth(i, k) \in Index /\ Nth(Succ(i), k) = Nth(i, k + 1)
  <2>1. PICK a \in Int, b \in Int : a = i + k - 1 /\ b = i + (k + 1) - 1
    BY <1>1
  <2>2. a % IndexMod \in Index
    BY <1>1, DivisionWithRemainder DEF Index
  <2>3. PICK c \in Int : c = Succ(i) + k - 1
    BY <1>1, SuccIs
  <2>4. c = b \/ b = c + IndexMod
    BY <1>1, <2>1, <2>3, SuccIs
  <2>5. c % IndexMod = b % IndexMod
    BY <1>1, <2>4, PeriodicRemainder
  <2> QED BY <2>1, <2>2, <2>3, <2>5 DEF Nth
<1> QED
  BY <1>2, <1>3, <1>4

(* The entries of a ring lie in different slots as long as there are no    *)
(* more of them than slots.                                                *)
LEMMA SlotsDiffer ==
  ASSUME NEW i \in Index, NEW k \in Nat \ {0}, NEW m \in Nat \ {0}, k < m, m < k + Size
  PROVE  Slot(Nth(i, k)) # Slot(Nth(i, m))
<1>1. PICK n \in Nat \ {0}, z \in Nat \ {0} : n = IndexMod /\ z = Size /\ n % z = 0
  BY SizeAssumption
<1>2. PICK a \in Int, b \in Int : a = i + k - 1 /\ b = i + m - 1
  BY Sizes
<1>3. a < b /\ b < a + z
  BY <1>1, <1>2, Sizes
<1>4. b % z # a % z
  BY <1>3, RemaindersDiffer
<1>5. n % z = 0
  BY <1>1
<1>6. (a % n) % z = a % z
  BY <1>5, RemainderOfRemainder
<1>7. (b % n) % z = b % z
  BY <1>5, RemainderOfRemainder
<1>8. (a % n) % z # (b % n) % z
  BY <1>4, <1>6, <1>7, Zenon
<1>9. Slot(Nth(i, k)) = (a % n) % z /\ Slot(Nth(i, m)) = (b % n) % z
  BY <1>1, <1>2 DEF Slot, Nth
<1> QED
  BY <1>8, <1>9, Zenon

-----------------------------------------------------------------------------
(* The entries of a ring.                                                  *)
LEMMA EntriesAre ==
  ASSUME NEW ring \in [Buffer -> Buffer], NEW i \in Index, NEW j \in Index
  PROVE  /\ Entries(ring, i, j) \in Seq(Buffer)
         /\ Len(Entries(ring, i, j)) = Distance(i, j)
         /\ \A k \in 1..Distance(i, j) :
              Entries(ring, i, j)[k] = ring[Slot(Nth(i, k))]
<1>1. PICK n \in Nat : n = Distance(i, j)
  BY DistanceIs, Sizes
<1>2. \A k \in 1..n : ring[Slot(Nth(i, k))] \in Buffer
  BY NthIs, Sizes
<1> DEFINE e == [k \in 1..n |-> ring[Slot(Nth(i, k))]]
<1>3. e \in Seq(Buffer) /\ Len(e) = n
  BY <1>2
<1>4. \A k \in 1..n : e[k] = ring[Slot(Nth(i, k))]
  OBVIOUS
<1>5. Entries(ring, i, j) = e
  BY <1>1 DEF Entries
<1> HIDE DEF e
<1> QED
  BY <1>1, <1>3, <1>4, <1>5

LEMMA EntriesEmpty ==
  ASSUME NEW ring \in [Buffer -> Buffer], NEW i \in Index
  PROVE  Entries(ring, i, i) = <<>>
<1>1. Len(Entries(ring, i, i)) = 0 /\ Entries(ring, i, i) \in Seq(Buffer)
  BY EntriesAre, DistanceSteps
<1> QED
  BY <1>1, EmptySeq

(* A new entry comes last, and no other is overwritten if there is room.   *)
LEMMA EntriesPut ==
  ASSUME NEW ring \in [Buffer -> Buffer], NEW i \in Index, NEW j \in Index,
         NEW h \in Buffer, Distance(i, j) < Size,
         NEW new \in [Buffer -> Buffer], new[Slot(j)] = h,
         \A b \in Buffer : b # Slot(j) => new[b] = ring[b]
  PROVE  Entries(new, i, Succ(j)) = Append(Entries(ring, i, j), h)
<1>1. PICK n \in Nat, s \in Seq(Buffer) : n = Distance(i, j) /\ s = Entries(ring, i, j)
  BY DistanceIs, EntriesAre, Sizes
<1>3. PICK t : t = Entries(new, i, Succ(j))
  OBVIOUS
<1>4. Succ(j) \in Index /\ Distance(i, Succ(j)) = n + 1 /\ Nth(i, n + 1) = j
  <2>1. Distance(i, j) + 1 < IndexMod
    BY <1>1, Sizes
  <2>2. Distance(i, Succ(j)) = Distance(i, j) + 1
    BY <2>1, DistanceSteps
  <2>3. Nth(i, Distance(i, j) + 1) = j
    BY NthIs
  <2> QED BY <1>1, <2>2, <2>3, SuccIs
<1>5. /\ t \in Seq(Buffer) /\ Len(t) = n + 1
      /\ \A k \in 1..n + 1 : t[k] = new[Slot(Nth(i, k))]
  <2>1. PICK l \in Index, m \in Nat : l = Succ(j) /\ m = n + 1
    BY <1>4
  <2>2. t = Entries(new, i, l) /\ Distance(i, l) = m
    BY <1>3, <1>4, <2>1
  <2>3. /\ t \in Seq(Buffer) /\ Len(t) = m
        /\ \A k \in 1..m : t[k] = new[Slot(Nth(i, k))]
    BY <2>2, EntriesAre
  <2> QED BY <2>1, <2>3
<1>6. Len(s) = n /\ \A k \in 1..n : s[k] = ring[Slot(Nth(i, k))]
  BY <1>1, EntriesAre
<1>7. Slot(j) \in Buffer
  BY Sizes
<1>8. t[n + 1] = h
  <2>1. n + 1 \in 1..n + 1
    OBVIOUS
  <2> QED BY <1>4, <1>5, <1>7, <2>1
<1>9. ASSUME NEW k \in 1..n PROVE t[k] = s[k]
  <2>1. PICK m \in Nat \ {0} : m = n + 1
    OBVIOUS
  <2>2. k < m /\ m < k + Size
    BY <1>1, <2>1, Sizes
  <2>3. Slot(Nth(i, k)) # Slot(j)
    BY <1>4, <2>1, <2>2, SlotsDiffer
  <2>4. new[Slot(Nth(i, k))] = ring[Slot(Nth(i, k))]
    <3>1. Slot(Nth(i, k)) \in Buffer
      BY NthIs, Sizes
    <3> QED BY <2>3, <3>1
  <2> QED BY <1>5, <1>6, <2>4
<1>10. PICK u : u = Append(s, h)
  OBVIOUS
<1>11. /\ u \in Seq(Buffer) /\ Len(u) = n + 1 /\ u[n + 1] = h
       /\ \A k \in 1..n : u[k] = s[k]
  <2>1. /\ u \in Seq(Buffer) /\ Len(u) = Len(s) + 1 /\ u[Len(s) + 1] = h
        /\ \A k \in 1..Len(s) : u[k] = s[k]
    BY <1>10, AppendProperties
  <2> QED BY <1>6, <2>1
<1>12. t = u
  <2>1. \A k \in 1..n + 1 : k \in 1..n \/ k = n + 1
    OBVIOUS
  <2>2. \A k \in 1..n + 1 : t[k] = u[k]
    BY <1>8, <1>9, <1>11, <2>1
  <2> QED BY <1>5, <1>11, <2>2, SeqEqual
<1> QED
  BY <1>1, <1>3, <1>10, <1>12

(* The entry that is taken is the first one.                               *)
LEMMA EntriesTake ==
  ASSUME NEW ring \in [Buffer -> Buffer], NEW i \in Index, NEW j \in Index, i # j
  PROVE  /\ Entries(ring, i, j) # <<>>
         /\ Head(Entries(ring, i, j)) = ring[Slot(i)]
         /\ Entries(ring, Succ(i), j) = Tail(Entries(ring, i, j))
<1>1. PICK n \in Nat, s \in Seq(Buffer) : n = Distance(i, j) /\ s = Entries(ring, i, j)
  BY DistanceIs, EntriesAre, Sizes
<1>2. n # 0 /\ Len(s) = n /\ \A k \in 1..n : s[k] = ring[Slot(Nth(i, k))]
  BY <1>1, EntriesAre, DistanceSteps
<1>3. Head(s) = ring[Slot(i)] /\ s # <<>>
  <2>1. s[1] = ring[Slot(Nth(i, 1))]
    BY <1>2
  <2>2. s # <<>> /\ Head(s) = s[1]
    BY <1>2
  <2>3. Nth(i, 1) = i
    BY NthIs
  <2> QED BY <2>1, <2>2, <2>3, Zenon
<1>4. PICK t : t = Entries(ring, Succ(i), j)
  OBVIOUS
<1>5. Succ(i) \in Index /\ Distance(Succ(i), j) = n - 1
  BY <1>1, SuccIs, DistanceSteps
<1>6. /\ t \in Seq(Buffer) /\ Len(t) = n - 1
      /\ \A k \in 1..n - 1 : t[k] = ring[Slot(Nth(Succ(i), k))]
  <2>1. PICK l \in Index, m \in Int : l = Succ(i) /\ m = n - 1
    BY <1>5
  <2>2. t = Entries(ring, l, j) /\ Distance(l, j) = m
    BY <1>4, <1>5, <2>1
  <2>3. /\ t \in Seq(Buffer) /\ Len(t) = m
        /\ \A k \in 1..m : t[k] = ring[Slot(Nth(l, k))]
    BY <2>2, EntriesAre
  <2> QED BY <2>1, <2>3
<1>7. ASSUME NEW k \in 1..n - 1 PROVE t[k] = s[k + 1]
  <2>1. k \in Nat \ {0} /\ k + 1 \in 1..n
    OBVIOUS
  <2>2. Nth(Succ(i), k) = Nth(i, k + 1)
    BY <2>1, NthIs
  <2> QED BY <1>2, <1>6, <2>1, <2>2
<1>8. PICK u : u = Tail(s)
  OBVIOUS
<1>9. u \in Seq(Buffer) /\ Len(u) = n - 1 /\ \A k \in 1..n - 1 : u[k] = s[k + 1]
  <2>1. /\ u \in Seq(Buffer) /\ Len(u) = Len(s) - 1
        /\ \A k \in 1..Len(u) : u[k] = s[k + 1]
    BY <1>3, <1>8, HeadTailProperties
  <2> QED BY <1>2, <2>1
<1>10. t = u
  BY <1>6, <1>7, <1>9, SeqEqual
<1> QED
  BY <1>1, <1>3, <1>4, <1>8, <1>10

-----------------------------------------------------------------------------
(* Two sequences in a row.                                                 *)
LEMMA RowIs ==
  ASSUME NEW T, NEW u \in Seq(T), NEW w \in Seq(T), NEW s, s = u \o w
  PROVE  /\ s \in Seq(T) /\ Len(s) = Len(u) + Len(w)
         /\ \A k \in 1..Len(u) : s[k] = u[k]
         /\ \A k \in 1..Len(w) : s[Len(u) + k] = w[k]
<1>1. /\ s \in Seq(T) /\ Len(s) = Len(u) + Len(w) /\ Len(u) \in Nat /\ Len(w) \in Nat
      /\ \A k \in 1..Len(u) + Len(w) :
           s[k] = IF k <= Len(u) THEN u[k] ELSE w[k - Len(u)]
  BY ConcatProperties
<1>2. ASSUME NEW k \in 1..Len(u) PROVE s[k] = u[k]
  <2>1. k \in 1..Len(u) + Len(w) /\ k <= Len(u)
    BY <1>1
  <2> QED BY <1>1, <2>1
<1>3. ASSUME NEW k \in 1..Len(w) PROVE s[Len(u) + k] = w[k]
  <2>1. PICK m : m = Len(u) + k
    OBVIOUS
  <2>2. m \in 1..Len(u) + Len(w) /\ ~(m <= Len(u)) /\ m - Len(u) = k
    BY <1>1, <2>1
  <2>3. s[m] = w[k]
    BY <1>1, <2>2
  <2> QED BY <2>1, <2>3
<1> QED
  BY <1>1, <1>2, <1>3

LEMMA PlacesInRow ==
  ASSUME NEW a \in Nat, NEW b \in Nat
  PROVE  \A k \in 1..a + b : k \in 1..a \/ \E m \in 1..b : k = a + m
<1> SUFFICES ASSUME NEW k \in 1..a + b, k \notin 1..a PROVE \E m \in 1..b : k = a + m
  OBVIOUS
<1>1. k - a \in 1..b /\ k = a + (k - a)
  OBVIOUS
<1> QED
  BY <1>1

LEMMA PutInRow ==
  ASSUME NEW T, NEW u \in Seq(T), NEW w \in Seq(T), NEW h \in T
  PROVE  u \o Append(w, h) = Append(u \o w, h)
<1>1. <<h>> \in Seq(T) /\ u \o w \in Seq(T)
  BY ConcatProperties
<1>2. Append(w, h) = w \o <<h>> /\ Append(u \o w, h) = (u \o w) \o <<h>>
  BY <1>1, AppendIsConcat
<1> QED
  BY <1>1, <1>2, ConcatAssociative

LEMMA MoveInRow ==
  ASSUME NEW T, NEW u \in Seq(T), NEW w \in Seq(T), w # <<>>
  PROVE  Append(u, Head(w)) \o Tail(w) = u \o w
<1>1. PICK h, v : h = Head(w) /\ v = Tail(w)
  OBVIOUS
<1>2. h \in T /\ v \in Seq(T) /\ <<h>> \in Seq(T)
  BY <1>1, HeadTailProperties
<1>3. w = <<h>> \o v
  <2>1. PICK s : s = <<h>> \o v
    OBVIOUS
  <2>2. PICK p \in Seq(T) : p = <<h>> /\ Len(p) = 1 /\ p[1] = h
    BY <1>2
  <2>3. /\ s \in Seq(T) /\ Len(s) = Len(p) + Len(v)
        /\ \A k \in 1..Len(p) : s[k] = p[k]
        /\ \A k \in 1..Len(v) : s[Len(p) + k] = v[k]
    <3>1. s = p \o v
      BY <2>1, <2>2
    <3> QED BY <1>2, <3>1, RowIs
  <2>4. Len(v) = Len(w) - 1 /\ w[1] = h /\ Len(w) \in Nat \ {0}
        /\ \A k \in 1..Len(v) : v[k] = w[k + 1]
    BY <1>1, HeadTailProperties, EmptySeq
  <2>5. Len(s) = Len(w)
    BY <2>2, <2>3, <2>4
  <2>6. \A k \in 1..Len(s) : s[k] = w[k]
    <3>1. \A k \in 1..Len(s) : k = 1 \/ \E m \in 1..Len(v) : k = 1 + m
      BY <1>2, <2>2, <2>3, PlacesInRow
    <3>2. s[1] = h
      BY <2>2, <2>3
    <3>3. \A m \in 1..Len(v) : s[1 + m] = w[1 + m]
      BY <2>2, <2>3, <2>4
    <3> QED BY <2>4, <3>1, <3>2, <3>3
  <2>7. s = w
    BY <2>3, <2>5, <2>6, SeqEqual
  <2> QED BY <2>1, <2>7
<1>4. Append(u, h) = u \o <<h>>
  BY <1>2, AppendIsConcat
<1>5. (u \o <<h>>) \o v = u \o (<<h>> \o v)
  BY <1>2, ConcatAssociative
<1> QED
  BY <1>1, <1>3, <1>4, <1>5, Zenon

LEMMA TakeFromRow ==
  ASSUME NEW T, NEW u \in Seq(T), NEW w \in Seq(T), u # <<>>
  PROVE  /\ u \o w # <<>> /\ Head(u \o w) = Head(u)
         /\ Tail(u) \o w = Tail(u \o w)
<1>13. PICK h \in T, v \in Seq(T) : h = Head(u) /\ v = Tail(u)
  BY HeadTailProperties
<1>14. PICK s, t : s = u \o w /\ t = v \o w
  OBVIOUS
<1>1. h = Head(u) /\ v = Tail(u) /\ s = u \o w /\ t = v \o w
  BY <1>13, <1>14
<1>2. /\ s \in Seq(T) /\ Len(s) = Len(u) + Len(w)
      /\ \A k \in 1..Len(u) : s[k] = u[k]
      /\ \A k \in 1..Len(w) : s[Len(u) + k] = w[k]
  BY <1>1, RowIs
<1>3. /\ t \in Seq(T) /\ Len(t) = Len(v) + Len(w)
      /\ \A k \in 1..Len(v) : t[k] = v[k]
      /\ \A k \in 1..Len(w) : t[Len(v) + k] = w[k]
  <2>1. t = v \o w
    BY <1>1
  <2> QED BY <2>1, RowIs
<1>4. /\ Len(u) \in Nat \ {0} /\ Len(w) \in Nat /\ Len(v) = Len(u) - 1 /\ h = u[1]
      /\ \A k \in 1..Len(v) : v[k] = u[k + 1]
  BY <1>1, HeadTailProperties, EmptySeq
<1>5. s # <<>> /\ Head(s) = h
  BY <1>2, <1>4
<1>6. PICK x : x = Tail(s)
  OBVIOUS
<1>7. x \in Seq(T) /\ Len(x) = Len(s) - 1 /\ \A k \in 1..Len(x) : x[k] = s[k + 1]
  BY <1>2, <1>5, <1>6, HeadTailProperties
<1>8. Len(t) = Len(x)
  BY <1>2, <1>3, <1>4, <1>7
<1>9. ASSUME NEW k \in 1..Len(v) PROVE t[k] = x[k]
  <2>1. k + 1 \in 1..Len(u) /\ k \in 1..Len(x)
    BY <1>2, <1>4, <1>7
  <2> QED BY <1>2, <1>3, <1>4, <1>7, <2>1
<1>10. ASSUME NEW m \in 1..Len(w) PROVE t[Len(v) + m] = x[Len(v) + m]
  <2>1. Len(v) + m \in 1..Len(x) /\ (Len(v) + m) + 1 = Len(u) + m
    BY <1>2, <1>4, <1>7
  <2>2. x[Len(v) + m] = s[Len(u) + m]
    BY <1>7, <2>1
  <2> QED BY <1>2, <1>3, <2>2
<1>11. \A k \in 1..Len(t) : t[k] = x[k]
  <2>1. \A k \in 1..Len(t) : k \in 1..Len(v) \/ \E m \in 1..Len(w) : k = Len(v) + m
    <3>1. PICK a \in Nat, b \in Nat : a = Len(v) /\ b = Len(w)
      BY <1>4
    <3>2. \A k \in 1..a + b : k \in 1..a \/ \E m \in 1..b : k = a + m
      BY PlacesInRow
    <3>3. Len(t) = a + b
      BY <1>3, <3>1
    <3> QED BY <3>1, <3>2, <3>3, Zenon
  <2> QED BY <1>9, <1>10, <2>1
<1>12. t = x
  BY <1>3, <1>7, <1>8, <1>11, SeqEqual
<1> QED
  BY <1>1, <1>5, <1>6, <1>12

-----------------------------------------------------------------------------
(* The one queue that the two rings make up.                               *)
LEMMA FiniteBuffers ==
  ASSUME NEW out \in SUBSET Buffer
  PROVE  /\ IsFiniteSet(out) /\ Cardinality(out) \in Nat /\ Cardinality(out) <= Size
         /\ out # Buffer => Cardinality(out) < Size
<1>1. IsFiniteSet(Buffer) /\ Cardinality(Buffer) = Size
  BY Sizes, FS_Interval DEF Buffer
<1>2. /\ IsFiniteSet(out) /\ Cardinality(out) <= Size
      /\ Size = Cardinality(out) => Buffer = out
  BY <1>1, FS_Subset
<1>3. Cardinality(out) \in Nat
  BY <1>2, FS_CardinalityType
<1> QED
  BY <1>2, <1>3, Sizes

LEMMA FifoPut ==
  ASSUME NEW s \in Seq(Buffer), NEW out \in SUBSET Buffer, NEW c \in [Buffer -> Payload],
         NEW last \in Nat, IsFifo(s, out, c, last),
         NEW h \in Buffer, h \notin out, last + Len(s) + 1 \in Payload
  PROVE  /\ Len(s) < Size
         /\ IsFifo(Append(s, h), out \cup {h}, [c EXCEPT ![h] = last + Len(s) + 1], last)
<1>1. PICK n \in Nat : n = Len(s)
  OBVIOUS
<1>2. /\ \A k \in 1..n : s[k] \in out /\ c[s[k]] = last + k /\ s[k] \in Buffer
      /\ \A b \in out : \E k \in 1..n : b = s[k]
      /\ n = Cardinality(out)
  BY <1>1 DEF IsFifo
<1>3. n < Size
  BY <1>2, FiniteBuffers
<1>4. PICK t, d : t = Append(s, h) /\ d = [c EXCEPT ![h] = last + n + 1]
  OBVIOUS
<1>5. /\ t \in Seq(Buffer) /\ Len(t) = n + 1 /\ t[n + 1] = h
      /\ \A k \in 1..n : t[k] = s[k]
  <2>1. /\ t \in Seq(Buffer) /\ Len(t) = Len(s) + 1 /\ t[Len(s) + 1] = h
        /\ \A k \in 1..Len(s) : t[k] = s[k]
    BY <1>4, AppendProperties
  <2> QED BY <1>1, <2>1
<1>6. \A k \in 1..n + 1 : k \in 1..n \/ k = n + 1
  OBVIOUS
<1>7. d[h] = last + n + 1 /\ \A b \in Buffer : b # h => d[b] = c[b]
  BY <1>4
<1>8. ASSUME NEW k \in 1..n + 1
      PROVE  t[k] \in out \cup {h} /\ d[t[k]] = last + k
  <2>1. CASE k \in 1..n
    <3>1. t[k] = s[k] /\ s[k] \in out /\ s[k] # h /\ s[k] \in Buffer
      BY <1>2, <1>5, <2>1
    <3> QED BY <1>2, <1>7, <2>1, <3>1
  <2>2. CASE k = n + 1
    BY <1>5, <1>7, <2>2
  <2> QED BY <1>6, <2>1, <2>2
<1>9. \A b \in out \cup {h} : \E k \in 1..n + 1 : b = t[k]
  <2>1. ASSUME NEW b \in out PROVE \E k \in 1..n + 1 : b = t[k]
    <3>1. PICK k \in 1..n : b = s[k]
      BY <1>2
    <3>2. k \in 1..n + 1 /\ b = t[k]
      BY <1>5, <3>1
    <3> QED BY <3>2
  <2>2. n + 1 \in 1..n + 1
    OBVIOUS
  <2> QED BY <1>5, <2>1, <2>2
<1>10. {t[k] : k \in 1..n + 1} = out \cup {h}
  <2>1. \A b : b \in {t[k] : k \in 1..n + 1} <=> b \in out \cup {h}
    BY <1>8, <1>9
  <2> QED BY <2>1, Zenon
<1>11. Cardinality(out \cup {h}) = n + 1
  BY <1>2, FiniteBuffers, FS_AddElement
<1>12. IsFifo(t, out \cup {h}, d, last)
  BY <1>5, <1>8, <1>10, <1>11 DEF IsFifo
<1> QED
  BY <1>1, <1>3, <1>4, <1>12

LEMMA FifoGet ==
  ASSUME NEW s \in Seq(Buffer), NEW out \in SUBSET Buffer, NEW c \in [Buffer -> Payload],
         NEW last \in Nat, IsFifo(s, out, c, last), s # <<>>
  PROVE  /\ Head(s) \in out /\ c[Head(s)] = last + 1
         /\ IsFifo(Tail(s), out \ {Head(s)}, c, last + 1)
<1>10. PICK n \in Nat : n = Len(s)
  OBVIOUS
<1>11. PICK h, t : h = Head(s) /\ t = Tail(s)
  OBVIOUS
<1>1. n = Len(s) /\ h = Head(s) /\ t = Tail(s)
  BY <1>10, <1>11
<1>2. /\ \A k \in 1..n : s[k] \in out /\ c[s[k]] = last + k /\ s[k] \in Buffer
      /\ \A b \in out : \E k \in 1..n : b = s[k]
      /\ n = Cardinality(out)
  BY <1>1 DEF IsFifo
<1>3. n # 0 /\ h = s[1] /\ h \in out /\ c[h] = last + 1
  <2>1. n # 0 /\ h = s[1]
    BY <1>1, EmptySeq
  <2>2. 1 \in 1..n
    BY <2>1
  <2> QED BY <1>2, <2>1, <2>2
<1>4. t \in Seq(Buffer) /\ Len(t) = n - 1 /\ \A k \in 1..n - 1 : t[k] = s[k + 1]
  <2>1. t \in Seq(Buffer) /\ Len(t) = Len(s) - 1 /\ \A k \in 1..Len(t) : t[k] = s[k + 1]
    BY <1>1, HeadTailProperties
  <2> QED BY <1>1, <2>1
<1>5. ASSUME NEW k \in 1..n - 1
      PROVE  t[k] \in out \ {h} /\ c[t[k]] = (last + 1) + k
  <2>1. k + 1 \in 1..n /\ t[k] = s[k + 1]
    BY <1>4
  <2>2. t[k] \in out /\ c[t[k]] = last + (k + 1)
    BY <1>2, <2>1
  <2>3. last + (k + 1) # last + 1 /\ last + (k + 1) = (last + 1) + k
    OBVIOUS
  <2> QED BY <1>3, <2>2, <2>3
<1>6. ASSUME NEW b \in out \ {h} PROVE \E k \in 1..n - 1 : b = t[k]
  <2>1. PICK k \in 1..n : b = s[k]
    BY <1>2
  <2>2. k # 1
    BY <1>3, <2>1
  <2>3. PICK m \in 1..n - 1 : k = m + 1
    <3>1. k - 1 \in 1..n - 1 /\ k = (k - 1) + 1
      BY <2>2
    <3> QED BY <3>1
  <2> QED BY <1>4, <2>1, <2>3
<1>7. {t[k] : k \in 1..n - 1} = out \ {h}
  <2>1. \A b : b \in {t[k] : k \in 1..n - 1} <=> b \in out \ {h}
    BY <1>5, <1>6
  <2> QED BY <2>1, Zenon
<1>8. Cardinality(out \ {h}) = n - 1
  BY <1>2, <1>3, FiniteBuffers, FS_RemoveElement
<1>9. IsFifo(t, out \ {h}, c, last + 1)
  BY <1>4, <1>5, <1>7, <1>8 DEF IsFifo
<1> QED
  BY <1>1, <1>3, <1>9

-----------------------------------------------------------------------------
(* The steps of the queue of the block device.                             *)
LEMMA CallChains ==
  ASSUME NEW a, NEW b
  PROVE  /\ SubSeq(<<a, b>>, 1, 1) = <<a>> /\ SubSeq(<<a>>, 1, 0) = <<>>
         /\ Append(<<a>>, b) = <<a, b>>
<1>5. PICK T : a \in T /\ b \in T
  <2>1. a \in {a, b} /\ b \in {a, b}
    OBVIOUS
  <2> QED BY <2>1
<1>6. PICK s, t : s = <<a, b>> /\ t = <<a>>
  OBVIOUS
<1>1. /\ s = <<a, b>> /\ s \in Seq(T) /\ Len(s) = 2 /\ s[1] = a /\ s[2] = b
      /\ t = <<a>> /\ t \in Seq(T) /\ Len(t) = 1 /\ t[1] = a
  BY <1>5, <1>6
<1>2. SubSeq(<<a>>, 1, 0) = <<>>
  OBVIOUS
<1>3. SubSeq(s, 1, 1) = t
  <2>1. PICK u : u = SubSeq(s, 1, 1)
    OBVIOUS
  <2>2. u \in Seq(T) /\ Len(u) = 1 /\ u[1] = a
    BY <1>1, <2>1
  <2>3. u = t
    BY <1>1, <2>2, SeqEqual
  <2> QED BY <2>1, <2>3
<1>4. Append(t, b) = s
  <2>1. PICK u : u = Append(t, b)
    OBVIOUS
  <2>2. u \in Seq(T) /\ Len(u) = 2 /\ u[1] = a /\ u[2] = b
    BY <1>1, <1>5, <2>1, AppendProperties
  <2>3. \A k \in 1..2 : k = 1 \/ k = 2
    OBVIOUS
  <2>4. u = s
    BY <1>1, <2>2, <2>3, SeqEqual
  <2> QED BY <2>1, <2>4
<1> QED
  BY <1>1, <1>2, <1>3, <1>4

LEMMA IrqIn ==
  /\ ~\E i \in 1..Len(<<>>) : (<<>>)[i] = "irq"
  /\ ~\E i \in 1..Len(<<"loop">>) : (<<"loop">>)[i] = "irq"
  /\ \E i \in 1..Len(<<"loop", "irq">>) : (<<"loop", "irq">>)[i] = "irq"
<1>1. Len(<<"loop">>) = 1 /\ <<"loop">>[1] = "loop" /\ \A i \in 1..1 : i = 1
  OBVIOUS
<1>2. Len(<<"loop", "irq">>) = 2 /\ <<"loop", "irq">>[2] = "irq" /\ 2 \in 1..2
  OBVIOUS
<1> QED
  BY <1>1, <1>2

LEMMA CallFacts ==
  ASSUME CallsInv
  PROVE  /\ InIrq <=> calls = <<"loop", "irq">>
         /\ Innermost("irq") <=> calls = <<"loop", "irq">>
         /\ Innermost("loop") <=> calls = <<"loop">>
         /\ calls = <<"loop", "irq">> => Return = <<"loop">>
         /\ calls = <<"loop">> => Return = <<>> /\ Interrupt = <<"loop", "irq">>
<1>1. CASE calls = <<>>
  BY <1>1 DEF InIrq, Innermost
<1>2. CASE calls = <<"loop">>
  <2>1. Len(calls) = 1 /\ calls[1] = "loop" /\ \A i \in 1..Len(calls) : i = 1
    BY <1>2
  <2>2. ~InIrq /\ ~Innermost("irq") /\ Innermost("loop")
    BY <1>2, <2>1 DEF InIrq, Innermost
  <2>3. Return = <<>>
    BY <1>2, CallChains DEF Return
  <2>4. Interrupt = <<"loop", "irq">>
    BY <1>2, <2>2, CallChains DEF Interrupt
  <2> QED BY <1>2, <2>2, <2>3, <2>4
<1>3. CASE calls = <<"loop", "irq">>
  <2>1. Len(calls) = 2 /\ calls[1] = "loop" /\ calls[2] = "irq" /\ 2 \in 1..Len(calls)
    BY <1>3
  <2>2. Return = <<"loop">>
    <3>1. Len(calls) - 1 = 1
      BY <2>1
    <3> QED BY <1>3, <3>1, CallChains DEF Return
  <2> QED BY <1>3, <2>1, <2>2 DEF InIrq, Innermost
<1> QED
  BY <1>1, <1>2, <1>3 DEF CallsInv

(* Waiting and used buffers, and where they are.                           *)
LEMMA QueueFacts ==
  ASSUME QueueInv
  PROVE  /\ WaitsFrom \in Index /\ availIdx \in Index /\ lastUsed \in Index
         /\ usedIdx \in Index /\ availRing \in [Buffer -> Buffer]
         /\ usedRing \in [Buffer -> Buffer] /\ lastAvail \in Index
         /\ Waiting \in Seq(Buffer) /\ Used \in Seq(Buffer)
         /\ Len(Waiting) = Distance(WaitsFrom, availIdx)
         /\ Len(Used) = Distance(lastUsed, usedIdx)
         /\ Outstanding \in Seq(Buffer)
         /\ Len(Outstanding) = Len(Used) + Len(Waiting)
         /\ Len(received) \in Nat /\ content \in [Buffer -> Payload]
         /\ Buffer \ held \in SUBSET Buffer /\ sent \in Payload
<1>1. /\ availIdx \in Index /\ lastUsed \in Index /\ usedIdx \in Index /\ lastAvail \in Index
      /\ availRing \in [Buffer -> Buffer] /\ usedRing \in [Buffer -> Buffer]
      /\ Len(received) \in Nat /\ content \in [Buffer -> Payload] /\ sent \in Payload
  BY DEF QueueInv, TypeOK
<1>2. WaitsFrom \in Index
  BY <1>1, SuccIs DEF WaitsFrom
<1>3. Waiting \in Seq(Buffer) /\ Len(Waiting) = Distance(WaitsFrom, availIdx)
  BY <1>1, <1>2, EntriesAre DEF Waiting
<1>4. Used \in Seq(Buffer) /\ Len(Used) = Distance(lastUsed, usedIdx)
  BY <1>1, EntriesAre DEF Used
<1>5. Outstanding \in Seq(Buffer) /\ Len(Outstanding) = Len(Used) + Len(Waiting)
  <2>1. PICK w \in Seq(Buffer), u \in Seq(Buffer) : w = Waiting /\ u = Used
    BY <1>3, <1>4
  <2>4. PICK s : s = u \o w
    OBVIOUS
  <2>2. s \in Seq(Buffer) /\ Len(s) = Len(u) + Len(w)
    BY <2>4, RowIs
  <2>3. Outstanding = s
    BY <2>1, <2>4 DEF Outstanding
  <2> QED BY <2>1, <2>2, <2>3
<1> QED
  BY <1>1, <1>2, <1>3, <1>4, <1>5

LEMMA SubmitKeeps ==
  ASSUME QueueInv, Deferred, NEW h \in Buffer, Submit(h) PROVE QueueInv'
<1>1. /\ ready /\ h \in held /\ sent < Last /\ held' = held \ {h}
      /\ availRing' = [availRing EXCEPT ![Slot(availIdx)] = h]
      /\ availIdx' = Succ(availIdx) /\ pending' = TRUE /\ work' = TRUE
      /\ sent' = sent + 1 /\ content' = [content EXCEPT ![h] = sent + 1]
      /\ UNCHANGED <<ready, lastAvail, usedIdx, usedRing, lastUsed, broken, received, input, calls>>
  BY DEF Submit, AddBuffer, Notify, usedVars
<1>2. PICK w, u, s : w = Waiting /\ u = Used /\ s = Outstanding
  OBVIOUS
<1>3. /\ w \in Seq(Buffer) /\ u \in Seq(Buffer) /\ s \in Seq(Buffer) /\ s = u \o w
      /\ Len(w) = Distance(WaitsFrom, availIdx) /\ Len(s) = Len(u) + Len(w)
  BY <1>2, QueueFacts DEF Outstanding
<1>4. PICK out, last : out = Buffer \ held /\ last = Len(received)
  OBVIOUS
<1>5. /\ IsFifo(s, out, content, last) /\ sent = last + Len(s) /\ h \notin out
      /\ last \in Nat /\ out \in SUBSET Buffer /\ last + Len(s) + 1 \in Payload
  <2>1. IsFifo(s, out, content, last) /\ sent = last + Len(s)
    BY <1>1, <1>2, <1>4 DEF QueueInv
  <2>2. last \in Nat /\ out \in SUBSET Buffer /\ h \notin out
    BY <1>1, <1>4, QueueFacts
  <2>3. last + Len(s) + 1 \in Payload
    BY <1>1, <2>1, QueueFacts, PayloadAssumption DEF Payload
  <2> QED BY <2>1, <2>2, <2>3
<1>6. /\ Len(s) < Size
      /\ IsFifo(Append(s, h), out \cup {h}, [content EXCEPT ![h] = last + Len(s) + 1], last)
  BY <1>3, <1>5, QueueFacts, FifoPut
<1>7. WaitsFrom' = WaitsFrom /\ Used' = u
  BY <1>1, <1>2 DEF WaitsFrom, InIrq, Used
<1>8. availRing' \in [Buffer -> Buffer] /\ Waiting' = Append(w, h)
  <2>1. Distance(WaitsFrom, availIdx) < Size
    <3>1. Len(u) \in Nat /\ Len(w) \in Nat
      BY <1>3
    <3> QED BY <1>3, <1>6, <3>1, Sizes
  <2>2. PICK i \in Index, j \in Index, r \in [Buffer -> Buffer] :
          i = WaitsFrom /\ j = availIdx /\ r = availRing
    BY QueueFacts
  <2>3. PICK new : new = [r EXCEPT ![Slot(j)] = h]
    OBVIOUS
  <2>6. new \in [Buffer -> Buffer] /\ new[Slot(j)] = h
        /\ \A b \in Buffer : b # Slot(j) => new[b] = r[b]
    BY <2>3, Sizes
  <2>7. Distance(i, j) < Size
    BY <2>1, <2>2
  <2>4. new \in [Buffer -> Buffer] /\ Entries(new, i, Succ(j)) = Append(Entries(r, i, j), h)
    BY <2>6, <2>7, EntriesPut
  <2>5. w = Entries(r, i, j) /\ availRing' = new /\ Waiting' = Entries(new, i, Succ(j))
    BY <1>1, <1>2, <1>7, <2>2, <2>3 DEF Waiting
  <2> QED BY <2>4, <2>5
<1>9. Outstanding' = Append(s, h)
  <2>1. u \o Append(w, h) = Append(u \o w, h)
    BY <1>3, PutInRow
  <2> QED BY <1>3, <1>7, <1>8, <2>1 DEF Outstanding
<1>10. Buffer \ held' = out \cup {h}
  BY <1>1, <1>4
<1>11. IsFifo(Outstanding', Buffer \ held', content', Len(received'))
  BY <1>1, <1>4, <1>5, <1>6, <1>9, <1>10
<1>12. sent' = Len(received') + Len(Outstanding')
  <2>1. Len(Append(s, h)) = Len(s) + 1
    BY <1>3, AppendProperties
  <2> QED BY <1>1, <1>3, <1>4, <1>5, <1>9, <2>1
<1>13. TypeOK'
  <2>1. sent' \in Payload /\ content' \in [Buffer -> Payload]
    BY <1>1, <1>4, <1>5, QueueFacts
  <2>2. availIdx' \in Index /\ held' \in SUBSET Buffer
    BY <1>1, QueueFacts, SuccIs DEF QueueInv, TypeOK
  <2> QED BY <1>1, <1>8, <2>1, <2>2 DEF QueueInv, TypeOK
<1>14. CallsInv' /\ InOrder' /\ ~broken'
  BY <1>1 DEF QueueInv, CallsInv, InOrder
<1> QED
  BY <1>1, <1>11, <1>12, <1>13, <1>14 DEF QueueInv

(* Serving a buffer moves the border between used and waiting buffers.     *)
LEMMA ServeKeeps ==
  ASSUME QueueInv, Deferred, Serve PROVE QueueInv'
<1>1. /\ ready /\ Innermost("loop") /\ lastAvail # availIdx
      /\ usedRing' = [usedRing EXCEPT ![Slot(usedIdx)] = availRing[Slot(lastAvail)]]
      /\ usedIdx' = Succ(usedIdx) /\ calls' = Interrupt
      /\ lastAvail' = IF InIrq THEN Succ(lastAvail) ELSE lastAvail
      /\ UNCHANGED <<ready, pending, work, availIdx, availRing, lastUsed, held, broken,
                     received, sent, content, input>>
  BY DEF Serve, NothingToServe, availVars, driverVars
<1>2. /\ calls = <<"loop">> /\ ~InIrq /\ calls' = <<"loop", "irq">>
      /\ lastAvail' = lastAvail /\ WaitsFrom = lastAvail
  <2>1. calls = <<"loop">> /\ Interrupt = <<"loop", "irq">>
    BY <1>1, CallFacts DEF QueueInv
  <2>2. ~InIrq
    BY <2>1, CallFacts DEF QueueInv
  <2> QED BY <1>1, <2>1, <2>2 DEF WaitsFrom
<1>3. CallsInv' /\ InIrq'
  <2>1. CallsInv'
    BY <1>1, <1>2 DEF CallsInv
  <2> QED BY <1>2, <2>1, IrqIn DEF InIrq, CallsInv
<1>4. WaitsFrom' = Succ(lastAvail)
  BY <1>2, <1>3 DEF WaitsFrom
<1>12. PICK i \in Index, j \in Index, r \in [Buffer -> Buffer] :
         i = lastAvail /\ j = availIdx /\ r = availRing
  BY QueueFacts
<1>13. PICK w, u, h : w = Waiting /\ u = Used /\ h = availRing[Slot(lastAvail)]
  OBVIOUS
<1>5. /\ i = lastAvail /\ j = availIdx /\ r = availRing
      /\ w = Waiting /\ u = Used /\ h = availRing[Slot(lastAvail)]
  BY <1>12, <1>13
<1>6. w \in Seq(Buffer) /\ u \in Seq(Buffer) /\ w = Entries(r, i, j) /\ i # j
  BY <1>1, <1>2, <1>5, QueueFacts DEF Waiting
<1>7. w # <<>> /\ Head(w) = h /\ Waiting' = Tail(w) /\ h \in Buffer
  <2>1. w # <<>> /\ Head(w) = r[Slot(i)] /\ Entries(r, Succ(i), j) = Tail(w)
    BY <1>6, EntriesTake
  <2>2. Waiting' = Entries(r, Succ(i), j)
    BY <1>1, <1>4, <1>5 DEF Waiting
  <2> QED BY <1>5, <1>6, <2>1, <2>2, HeadTailProperties
<1>8. usedRing' \in [Buffer -> Buffer] /\ Used' = Append(u, h)
  <2>1. PICK l \in Index, m \in Index, q \in [Buffer -> Buffer] :
          l = lastUsed /\ m = usedIdx /\ q = usedRing
    BY QueueFacts
  <2>2. Distance(l, m) < Size
    <3>1. PICK n \in Nat, k \in Nat \ {0} : n = Len(u) /\ k = Len(w)
      BY <1>6, <1>7, EmptySeq
    <3>2. n + k <= Size
      <4>1. Len(Outstanding) = Cardinality(Buffer \ held)
        BY <1>1 DEF QueueInv, IsFifo
      <4>2. Len(Outstanding) = n + k
        BY <1>5, <3>1, QueueFacts
      <4> QED BY <4>1, <4>2, QueueFacts, FiniteBuffers
    <3>3. Distance(l, m) = n
      BY <1>5, <2>1, <3>1, QueueFacts
    <3> QED BY <3>2, <3>3, Sizes
  <2>3. PICK new : new = [q EXCEPT ![Slot(m)] = h]
    OBVIOUS
  <2>4. new \in [Buffer -> Buffer] /\ new[Slot(m)] = h
        /\ \A b \in Buffer : b # Slot(m) => new[b] = q[b]
    BY <1>7, <2>3, Sizes
  <2>5. Entries(new, l, Succ(m)) = Append(Entries(q, l, m), h)
    BY <1>7, <2>2, <2>4, EntriesPut
  <2>6. u = Entries(q, l, m) /\ usedRing' = new /\ Used' = Entries(new, l, Succ(m))
    BY <1>1, <1>5, <2>1, <2>3 DEF Used
  <2> QED BY <2>4, <2>5, <2>6
<1>9. Outstanding' = Outstanding
  <2>1. Append(u, Head(w)) \o Tail(w) = u \o w
    BY <1>6, <1>7, MoveInRow
  <2> QED BY <1>5, <1>7, <1>8, <2>1 DEF Outstanding
<1>10. TypeOK'
  <2>1. usedIdx' \in Index
    BY <1>1, QueueFacts, SuccIs
  <2> QED BY <1>1, <1>2, <1>8, <2>1 DEF QueueInv, TypeOK
<1>11. InOrder' /\ ~broken'
  BY <1>1 DEF QueueInv, InOrder
<1> QED
  BY <1>1, <1>3, <1>9, <1>10, <1>11 DEF QueueInv

(* The oldest buffer is the one that the driver takes.                     *)
LEMMA TakeUsedKeeps ==
  ASSUME QueueInv, Deferred, TakeUsed PROVE QueueInv'
<1>1. ready /\ ~broken /\ lastUsed # usedIdx /\ Innermost("irq")
  BY DEF TakeUsed
<1>18. PICK i \in Index, j \in Index, r \in [Buffer -> Buffer] :
         i = lastUsed /\ j = usedIdx /\ r = usedRing
  BY QueueFacts
<1>19. PICK w, u, s, h :
         w = Waiting /\ u = Used /\ s = Outstanding /\ h = usedRing[Slot(lastUsed)]
  OBVIOUS
<1>2. /\ i = lastUsed /\ j = usedIdx /\ r = usedRing
      /\ w = Waiting /\ u = Used /\ s = Outstanding /\ h = usedRing[Slot(lastUsed)]
  BY <1>18, <1>19
<1>3. /\ w \in Seq(Buffer) /\ u \in Seq(Buffer) /\ s \in Seq(Buffer) /\ s = u \o w
      /\ u = Entries(r, i, j) /\ i # j
  BY <1>1, <1>2, QueueFacts DEF Used, Outstanding
<1>4. u # <<>> /\ Head(u) = h /\ Entries(r, Succ(i), j) = Tail(u)
  <2>1. u # <<>> /\ Head(u) = r[Slot(i)] /\ Entries(r, Succ(i), j) = Tail(u)
    BY <1>3, EntriesTake
  <2> QED BY <1>2, <2>1
<1>5. s # <<>> /\ Head(s) = h /\ Tail(u) \o w = Tail(s)
  BY <1>3, <1>4, TakeFromRow
<1>6. PICK out, last, c : out = Buffer \ held /\ last = Len(received) /\ c = content
  OBVIOUS
<1>7. /\ IsFifo(s, out, c, last) /\ sent = last + Len(s)
      /\ last \in Nat /\ out \in SUBSET Buffer /\ c \in [Buffer -> Payload]
  <2>1. IsFifo(s, out, c, last) /\ sent = last + Len(s)
    BY <1>1, <1>2, <1>6 DEF QueueInv
  <2> QED BY <1>6, <2>1, QueueFacts
<1>8. h \in out /\ c[h] = last + 1 /\ IsFifo(Tail(s), out \ {h}, c, last + 1)
  BY <1>3, <1>5, <1>7, FifoGet
<1>9. h \notin held /\ h \in Buffer
  BY <1>6, <1>8
<1>10. /\ lastUsed' = Succ(lastUsed) /\ received' = Append(received, last + 1)
       /\ held' = held \cup {h}
       /\ UNCHANGED <<ready, lastAvail, pending, work, availIdx, availRing, usedIdx, usedRing,
                      broken, calls, content, input, sent>>
  BY <1>2, <1>6, <1>8, <1>9 DEF TakeUsed, deviceVars, availVars, usedVars
<1>11. WaitsFrom' = WaitsFrom /\ Waiting' = w /\ Used' = Tail(u)
  <2>1. WaitsFrom' = WaitsFrom
    BY <1>10 DEF WaitsFrom, InIrq
  <2>2. Used' = Entries(r, Succ(i), j)
    BY <1>2, <1>10 DEF Used
  <2> QED BY <1>2, <1>4, <1>10, <2>1, <2>2 DEF Waiting
<1>12. Outstanding' = Tail(s)
  BY <1>5, <1>11 DEF Outstanding
<1>13. /\ received' \in Seq(Payload) /\ Len(received') = last + 1
       /\ InOrder'
  <2>1. last + 1 \in Payload
    BY <1>7, <1>8, <1>9
  <2>9. PICK a \in Seq(Payload) : a = received
    BY DEF QueueInv, TypeOK
  <2>10. PICK b : b = received'
    OBVIOUS
  <2>2. a = received /\ b = received'
    BY <2>9, <2>10
  <2>3. /\ b \in Seq(Payload) /\ Len(b) = Len(a) + 1 /\ b[Len(a) + 1] = last + 1
        /\ \A k \in 1..Len(a) : b[k] = a[k]
    BY <1>10, <2>1, <2>2, AppendProperties
  <2>4. Len(b) = last + 1 /\ b[last + 1] = last + 1 /\ \A k \in 1..last : b[k] = a[k]
    BY <1>6, <2>2, <2>3
  <2>5. \A k \in 1..last : a[k] = k
    BY <1>6, <2>2 DEF QueueInv, InOrder
  <2>6. \A k \in 1..last + 1 : k \in 1..last \/ k = last + 1
    BY <1>7
  <2>7. \A k \in 1..last + 1 : b[k] = k
    BY <2>4, <2>5, <2>6
  <2>8. b = [k \in 1..last + 1 |-> k]
    BY <2>3, <2>4, <2>7
  <2> QED BY <2>2, <2>3, <2>4, <2>8 DEF InOrder
<1>14. IsFifo(Outstanding', Buffer \ held', content', Len(received'))
  <2>1. Buffer \ held' = out \ {h}
    BY <1>6, <1>10
  <2> QED BY <1>6, <1>8, <1>10, <1>12, <1>13, <2>1
<1>15. sent' = Len(received') + Len(Outstanding')
  <2>1. Tail(s) \in Seq(Buffer) /\ Len(Tail(s)) = Len(s) - 1 /\ Len(s) \in Nat
    BY <1>3, <1>5, HeadTailProperties
  <2>2. PICK n \in Nat : n = Len(s)
    BY <2>1
  <2>3. Len(Tail(s)) = n - 1
    BY <2>1, <2>2
  <2>4. Len(Outstanding') = n - 1
    BY <1>12, <2>3, Zenon
  <2>5. sent' = last + n
    BY <1>7, <1>10, <2>2
  <2> QED BY <1>7, <1>13, <2>4, <2>5
<1>16. TypeOK'
  <2>1. lastUsed' \in Index /\ held' \in SUBSET Buffer
    BY <1>9, <1>10, QueueFacts, SuccIs DEF QueueInv, TypeOK
  <2> QED BY <1>10, <1>13, <2>1 DEF QueueInv, TypeOK
<1>17. CallsInv' /\ ~broken'
  BY <1>1, <1>10 DEF QueueInv, CallsInv
<1> QED
  BY <1>1, <1>10, <1>13, <1>14, <1>15, <1>16, <1>17 DEF QueueInv

(* The handler returns, and the loop counts the buffer it has served.      *)
LEMMA IrqReturnsKeeps ==
  ASSUME QueueInv, Deferred, IrqReturns PROVE QueueInv'
<1>1. /\ Innermost("irq") /\ calls' = Return /\ lastAvail' = Succ(lastAvail)
      /\ UNCHANGED <<ready, pending, work, availIdx, availRing, usedIdx, usedRing, lastUsed,
                     held, broken, received, content, input, sent>>
  BY DEF IrqReturns, availVars, usedVars, driverVars
<1>2. calls = <<"loop", "irq">> /\ InIrq /\ calls' = <<"loop">> /\ ready
  BY <1>1, CallFacts DEF QueueInv, CallsInv
<1>3. CallsInv' /\ ~InIrq'
  <2>1. CallsInv'
    BY <1>1, <1>2 DEF CallsInv
  <2> QED BY <1>2, <2>1, IrqIn DEF InIrq, CallsInv
<1>4. WaitsFrom' = WaitsFrom
  BY <1>1, <1>2, <1>3 DEF WaitsFrom
<1>5. Outstanding' = Outstanding
  BY <1>1, <1>4 DEF Outstanding, Used, Waiting
<1>6. TypeOK'
  <2>1. lastAvail' \in Index
    BY <1>1, QueueFacts, SuccIs
  <2> QED BY <1>1, <1>2, <2>1 DEF QueueInv, TypeOK
<1>7. InOrder' /\ ~broken'
  BY <1>1 DEF QueueInv, InOrder
<1> QED
  BY <1>1, <1>2, <1>3, <1>5, <1>6, <1>7 DEF QueueInv

(* A step that changes the calls only moves no buffer.                     *)
LEMMA StillKeeps ==
  ASSUME QueueInv,
         UNCHANGED <<ready, lastAvail, availVars, usedVars, driverVars, content, input, sent>>,
         pending' \in BOOLEAN, work' \in BOOLEAN, CallsInv', InIrq' <=> InIrq
  PROVE  QueueInv'
<1>1. UNCHANGED <<ready, lastAvail, availIdx, availRing, usedIdx, usedRing, lastUsed, held,
                  broken, received, content, input, sent>>
  BY DEF availVars, usedVars, driverVars
<1>2. Outstanding' = Outstanding
  BY <1>1 DEF Outstanding, Used, Waiting, WaitsFrom
<1>3. TypeOK'
  BY <1>1 DEF QueueInv, TypeOK, CallsInv
<1>4. InOrder' /\ ~broken'
  BY <1>1 DEF QueueInv, InOrder
<1> QED
  BY <1>1, <1>2, <1>3, <1>4 DEF QueueInv

LEMMA NotifyWorkKeeps ==
  ASSUME QueueInv, Deferred, NotifyWork PROVE QueueInv'
<1>1. /\ calls = <<>> /\ work /\ work' = FALSE /\ pending' = FALSE
      /\ calls' = <<"loop">> \/ calls' = <<>>
  BY DEF NotifyWork
<1>2. UNCHANGED <<ready, lastAvail, availVars, usedVars, driverVars, content, input, sent>>
  BY DEF NotifyWork
<1>3. ~InIrq /\ ~InIrq'
  BY <1>1, IrqIn DEF InIrq
<1>4. CallsInv'
  BY <1>1, <1>2 DEF QueueInv, CallsInv
<1> QED
  BY <1>1, <1>2, <1>3, <1>4, StillKeeps

LEMMA LoopEndsKeeps ==
  ASSUME QueueInv, Deferred, LoopEnds PROVE QueueInv'
<1>1. /\ Innermost("loop") /\ work' = work
      /\ \/ pending' = FALSE /\ calls' = calls
         \/ calls' = Return /\ pending' = pending
  BY DEF LoopEnds
<1>2. UNCHANGED <<ready, lastAvail, availVars, usedVars, driverVars, content, input, sent>>
  BY DEF LoopEnds
<1>3. calls = <<"loop">> /\ (calls' = <<"loop">> \/ calls' = <<>>)
  BY <1>1, CallFacts DEF QueueInv
<1>4. ~InIrq /\ ~InIrq'
  BY <1>3, IrqIn DEF InIrq
<1>5. CallsInv'
  BY <1>2, <1>3 DEF QueueInv, CallsInv
<1>6. pending' \in BOOLEAN /\ work' \in BOOLEAN
  BY <1>1 DEF QueueInv, TypeOK
<1> QED
  BY <1>2, <1>4, <1>5, <1>6, StillKeeps

(* The queue is empty when a driver comes or leaves.                       *)
LEMMA NoneOutstanding ==
  /\ Cardinality(Buffer \ Buffer) = 0
  /\ \A payloads, last : IsFifo(<<>>, Buffer \ Buffer, payloads, last)
<1>1. Buffer \ Buffer = {} /\ Cardinality({}) = 0 /\ Len(<<>>) = 0
  BY FS_EmptySet
<1>2. \A k \in 1..0 : FALSE
  OBVIOUS
<1> QED
  BY <1>1, <1>2 DEF IsFifo

LEMMA ResetKeeps ==
  ASSUME QueueInv, Deferred, Reset PROVE QueueInv'
<1>1. /\ ready /\ calls = <<>> /\ held = Buffer /\ held' = Buffer
      /\ work' = FALSE /\ pending' = FALSE /\ ready' = FALSE /\ lastAvail' = 0
      /\ UNCHANGED <<availIdx, availRing, usedIdx, usedRing, lastUsed, broken, received,
                     content, input, sent, calls>>
  BY DEF Reset, ResetDevice, availVars, usedVars
<1>2. sent' = Len(received')
  <2>1. Len(Outstanding) = 0 /\ sent = Len(received) + Len(Outstanding)
    BY <1>1, NoneOutstanding DEF QueueInv, IsFifo
  <2> QED BY <1>1, <2>1, QueueFacts
<1>3. TypeOK'
  BY <1>1, Sizes DEF QueueInv, TypeOK
<1>4. CallsInv' /\ InOrder' /\ ~broken'
  BY <1>1 DEF QueueInv, CallsInv, InOrder
<1> QED
  BY <1>1, <1>2, <1>3, <1>4 DEF QueueInv

LEMMA ProbeKeeps ==
  ASSUME QueueInv, Deferred, Probe PROVE QueueInv'
<1>1. /\ ~ready /\ ready' /\ calls = <<>> /\ held = Buffer /\ lastAvail = 0
      /\ sent = Len(received)
      /\ availIdx' = 0 /\ usedIdx' = 0 /\ lastUsed' = 0
      /\ availRing' = [i \in Buffer |-> 0] /\ usedRing' = [i \in Buffer |-> 0]
      /\ UNCHANGED <<lastAvail, pending, work, held, broken, received, content, input,
                     sent, calls>>
  BY DEF Probe, QueueInv
<1>2. availRing' \in [Buffer -> Buffer] /\ usedRing' \in [Buffer -> Buffer]
  BY <1>1, Sizes
<1>3. ~InIrq'
  BY <1>1, IrqIn DEF InIrq
<1>4. Waiting' = <<>> /\ Used' = <<>>
  <2>1. Waiting' = Entries(availRing', 0, 0) /\ Used' = Entries(usedRing', 0, 0)
    BY <1>1, <1>3 DEF Waiting, Used, WaitsFrom
  <2> QED BY <1>2, <2>1, Sizes, EntriesEmpty
<1>5. Outstanding' = <<>>
  BY <1>4, EmptySeq, ConcatEmptySeq DEF Outstanding
<1>6. IsFifo(Outstanding', Buffer \ held', content', Len(received'))
  BY <1>1, <1>5, NoneOutstanding
<1>7. sent' = Len(received') + Len(Outstanding')
  BY <1>1, <1>5, QueueFacts
<1>8. TypeOK'
  BY <1>1, <1>2, Sizes DEF QueueInv, TypeOK
<1>9. InOrder' /\ ~broken'
  BY <1>1 DEF QueueInv, InOrder
<1>10. CallsInv'
  BY <1>1 DEF QueueInv, CallsInv
<1> QED
  BY <1>1, <1>6, <1>7, <1>8, <1>9, <1>10 DEF QueueInv

LEMMA InitIsQueue == Init => QueueInv
<1> SUFFICES ASSUME Init PROVE QueueInv
  OBVIOUS
<1>1. TypeOK
  <2>1. 0 \in Payload
    BY PayloadAssumption DEF Payload
  <2>2. <<>> \in Seq(Payload)
    OBVIOUS
  <2>3. [i \in Buffer |-> 0] \in [Buffer -> Buffer] /\ [h \in Buffer |-> 0] \in [Buffer -> Payload]
    BY <2>1, Sizes
  <2> QED BY <2>1, <2>2, <2>3, Sizes DEF Init, TypeOK
<1>2. Len(received) = 0 /\ CallsInv
  BY DEF Init, CallsInv
<1>3. InOrder
  <2>1. [k \in 1..0 |-> k] = <<>>
    OBVIOUS
  <2> QED BY <1>2, <2>1 DEF Init, InOrder
<1> QED
  BY <1>1, <1>2, <1>3 DEF Init, QueueInv

-----------------------------------------------------------------------------
(* The invariant of the queue of the block device.  (block_drain_queue,    *)
(* orlix_virtio_mmio_push_used, mmio.c.)                                   *)
THEOREM QueueInvariant ==
  ASSUME Deferred PROVE BlockSpec => []QueueInv
<1>1. Init => QueueInv
  BY InitIsQueue
<1>2. QueueInv /\ [BlockNext]_vars => QueueInv'
  <2> SUFFICES ASSUME QueueInv, [BlockNext]_vars PROVE QueueInv'
    OBVIOUS
  <2>1. CASE NotifyWork
    BY <2>1, NotifyWorkKeeps
  <2>2. CASE LoopEnds
    BY <2>2, LoopEndsKeeps
  <2>3. CASE Serve
    BY <2>3, ServeKeeps
  <2>4. CASE TakeUsed
    BY <2>4, TakeUsedKeeps
  <2>5. CASE IrqReturns
    BY <2>5, IrqReturnsKeeps
  <2>6. CASE Reset
    BY <2>6, ResetKeeps
  <2>7. CASE Probe
    BY <2>7, ProbeKeeps
  <2>8. ASSUME NEW h \in Buffer, Submit(h) PROVE QueueInv'
    BY <2>8, SubmitKeeps
  <2>9. CASE UNCHANGED vars
    <3>1. UNCHANGED <<ready, lastAvail, availVars, usedVars, driverVars, content, input, sent>>
      BY <2>9 DEF vars, deviceVars
    <3>2. pending' \in BOOLEAN /\ work' \in BOOLEAN
      BY <2>9 DEF vars, deviceVars, QueueInv, TypeOK
    <3>3. CallsInv' /\ (InIrq' <=> InIrq)
      BY <2>9 DEF vars, deviceVars, QueueInv, CallsInv, InIrq
    <3> QED BY <3>1, <3>2, <3>3, StillKeeps
  <2> QED BY <2>1, <2>2, <2>3, <2>4, <2>5, <2>6, <2>7, <2>8, <2>9 DEF BlockNext
<1> QED
  BY <1>1, <1>2, PTL DEF BlockSpec

(* Every index stays an index of a ring and every buffer a buffer.         *)
THEOREM QueueTypeCorrect ==
  ASSUME Deferred PROVE BlockSpec => []TypeOK
<1>1. QueueInv => TypeOK
  BY DEF QueueInv
<1> QED
  BY <1>1, QueueInvariant, PTL

(* Requests complete once and in the order of their submission.            *)
(* (block_drain_queue and orlix_virtio_mmio_run_queue_notify, mmio.c.)     *)
THEOREM RequestsInOrder ==
  ASSUME Deferred PROVE BlockSpec => []InOrder
<1>1. QueueInv => InOrder
  BY DEF QueueInv
<1> QED
  BY <1>1, QueueInvariant, PTL

(* A buffer that the driver has made available and not taken back waits    *)
(* for the device or is used, and is so once.                              *)
(* (orlix_virtio_mmio_push_used, mmio.c.)                                  *)
THEOREM BuffersKept ==
  ASSUME Deferred PROVE BlockSpec => []BuffersAccountedFor
<1>1. QueueInv => BuffersAccountedFor
  <2> SUFFICES ASSUME QueueInv, ready
               PROVE  LET all == Waiting \o Used
                      IN /\ {all[k] : k \in 1..Len(all)} = Buffer \ held
                         /\ Len(all) = Cardinality(Buffer \ held)
    BY DEF BuffersAccountedFor
  <2>1. PICK w, u, s, all, out :
          /\ w = Waiting /\ u = Used /\ s = Outstanding /\ all = Waiting \o Used
          /\ out = Buffer \ held
    OBVIOUS
  <2>2. /\ w \in Seq(Buffer) /\ u \in Seq(Buffer) /\ s = u \o w /\ all = w \o u
        /\ IsFifo(s, out, content, Len(received))
    BY <2>1, QueueFacts DEF QueueInv, Outstanding
  <2>3. /\ Len(s) = Len(u) + Len(w)
        /\ \A k \in 1..Len(u) : s[k] = u[k]
        /\ \A k \in 1..Len(w) : s[Len(u) + k] = w[k]
    BY <2>2, RowIs
  <2>4. /\ Len(all) = Len(w) + Len(u)
        /\ \A k \in 1..Len(w) : all[k] = w[k]
        /\ \A k \in 1..Len(u) : all[Len(w) + k] = u[k]
    BY <2>2, RowIs
  <2>5. PICK a \in Nat, b \in Nat : a = Len(u) /\ b = Len(w)
    BY <2>2
  <2>6. Len(all) = Len(s) /\ Len(s) = a + b
    BY <2>3, <2>4, <2>5
  <2>7. ASSUME NEW k \in 1..a + b PROVE \E m \in 1..a + b : s[k] = all[m]
    <3>1. k \in 1..a \/ \E m \in 1..b : k = a + m
      BY PlacesInRow
    <3>2. CASE k \in 1..a
      <4>1. b + k \in 1..a + b /\ s[k] = all[b + k]
        BY <2>3, <2>4, <2>5, <3>2
      <4> QED BY <4>1
    <3>3. CASE \E m \in 1..b : k = a + m
      <4>1. PICK m \in 1..b : k = a + m
        BY <3>3
      <4>2. s[a + m] = w[m] /\ all[m] = w[m]
        BY <2>3, <2>4, <2>5
      <4>3. m \in 1..a + b
        OBVIOUS
      <4> QED BY <4>1, <4>2, <4>3, Zenon
    <3> QED BY <3>1, <3>2, <3>3
  <2>8. ASSUME NEW k \in 1..a + b PROVE \E m \in 1..a + b : all[k] = s[m]
    <3>1. k \in 1..b \/ \E m \in 1..a : k = b + m
      <4>1. k \in 1..b + a
        OBVIOUS
      <4> QED BY <4>1, PlacesInRow
    <3>2. CASE k \in 1..b
      <4>1. a + k \in 1..a + b /\ all[k] = s[a + k]
        BY <2>3, <2>4, <2>5, <3>2
      <4> QED BY <4>1
    <3>3. CASE \E m \in 1..a : k = b + m
      <4>1. PICK m \in 1..a : k = b + m
        BY <3>3
      <4>2. all[b + m] = u[m] /\ s[m] = u[m]
        BY <2>3, <2>4, <2>5
      <4>3. m \in 1..a + b
        OBVIOUS
      <4> QED BY <4>1, <4>2, <4>3, Zenon
    <3> QED BY <3>1, <3>2, <3>3
  <2>9. {s[k] : k \in 1..Len(s)} = out /\ Len(s) = Cardinality(out)
    BY <2>2 DEF IsFifo
  <2>10. {all[k] : k \in 1..Len(all)} = out
    <3>1. \A x : x \in {all[k] : k \in 1..Len(all)} <=> x \in {s[k] : k \in 1..Len(s)}
      BY <2>6, <2>7, <2>8
    <3> QED BY <2>9, <3>1, Zenon
  <2>11. {all[k] : k \in 1..Len(all)} = Buffer \ held
    BY <2>1, <2>10
  <2>12. Len(all) = Cardinality(Buffer \ held)
    BY <2>1, <2>6, <2>9
  <2>13. all = Waiting \o Used
    BY <2>1
  <2> QED BY <2>11, <2>12, <2>13, Zenon
<1> QED
  BY <1>1, QueueInvariant, PTL
=============================================================================
