-------------------------- MODULE LinuxInitProofs --------------------------
(***************************************************************************)
(* Proofs about the start of Linux: the command that runs is the one of    *)
(* the descriptor, no mount hides another, and what is typed arrives in    *)
(* order, for any descriptors and any sizes of the buffers.                *)
(***************************************************************************)
EXTENDS LinuxInitProperties, NumberLemmas, SequenceTheorems, TLAPS

-----------------------------------------------------------------------------
(* The command line.                                                       *)
LEMMA ConcatTwo ==
  ASSUME NEW T, NEW x \in Seq(T), NEW y \in Seq(T)
  PROVE  /\ x \o y \in Seq(T) /\ Len(x \o y) = Len(x) + Len(y)
         /\ \A n \in 1..Len(x) : (x \o y)[n] = x[n]
         /\ \A n \in 1..Len(y) : (x \o y)[Len(x) + n] = y[n]
<1>1. ASSUME NEW n \in 1..Len(y) PROVE (x \o y)[Len(x) + n] = y[n]
  <2>1. /\ Len(x) \in Nat /\ Len(y) \in Nat /\ Len(x) + n \in 1..Len(x) + Len(y)
        /\ ~(Len(x) + n <= Len(x)) /\ (Len(x) + n) - Len(x) = n
    OBVIOUS
  <2> QED BY <2>1, ConcatProperties
<1> QED
  BY <1>1, ConcatProperties

LEMMA TokensFacts ==
  ASSUME NEW d \in Descriptor, d.argv # <<>>, ~d.ownLine
  PROVE  LET s == Tokens(d)
             a == Len(d.argv)
             e == Len(d.env)
         IN /\ a \in Nat \ {0} /\ e \in Nat
            /\ DOMAIN s = 1..(a + e + 4) /\ Len(s) = a + e + 4
            /\ s[1] = Token("exec", 0, d.argv[1])
            /\ \A i \in 1..a : s[1 + i] = Token("argv", i, d.argv[i])
            /\ \A i \in 1..e : s[1 + a + i] = Token("env", i, d.env[i])
            /\ s[a + e + 2] = Token("cwd", 0, d.cwd)
            /\ s[a + e + 3] = Token("uid", 0, d.uid)
            /\ s[a + e + 4] = Token("gid", 0, d.gid)
<1>1. PICK a \in Nat, e \in Nat : a = Len(d.argv) /\ e = Len(d.env)
  BY DEF Descriptor
<1>2. DOMAIN d.argv = 1..a /\ DOMAIN d.env = 1..e /\ a > 0
  BY <1>1 DEF Descriptor
<1> DEFINE First == Token("exec", 0, d.argv[1])
           Cwd == Token("cwd", 0, d.cwd)
           Uid == Token("uid", 0, d.uid)
           Gid == Token("gid", 0, d.gid)
           q == [i \in 1..a |-> Token("argv", i, d.argv[i])]
           r == [i \in 1..e |-> Token("env", i, d.env[i])]
           T == {First, Cwd, Uid, Gid} \cup {q[i] : i \in 1..a} \cup {r[i] : i \in 1..e}
<1>3. Tokens(d) = <<First>> \o q \o r \o <<Cwd, Uid, Gid>>
  BY <1>2 DEF Tokens
<1>4. /\ \A i \in 1..a : q[i] = Token("argv", i, d.argv[i])
      /\ \A i \in 1..e : r[i] = Token("env", i, d.env[i])
      /\ DOMAIN q = 1..a /\ DOMAIN r = 1..e
  OBVIOUS
<1>5. q = [i \in 1..a |-> q[i]] /\ r = [i \in 1..e |-> r[i]]
  OBVIOUS
<1> HIDE DEF First, Cwd, Uid, Gid, q, r
<1>6. <<First>> \in Seq(T) /\ <<Cwd, Uid, Gid>> \in Seq(T)
  OBVIOUS
<1>7. q \in Seq(T) /\ Len(q) = a
  BY <1>5
<1>8. r \in Seq(T) /\ Len(r) = e
  BY <1>5
<1> HIDE DEF T
<1>9. PICK p \in Seq(T), u \in Seq(T) : p = <<First>> /\ u = <<Cwd, Uid, Gid>>
  BY <1>6
<1>10. /\ Len(p) = 1 /\ p[1] = First
       /\ Len(u) = 3 /\ u[1] = Cwd /\ u[2] = Uid /\ u[3] = Gid
  BY <1>9
<1>11. /\ p \o q \in Seq(T) /\ Len(p \o q) = 1 + a /\ (p \o q)[1] = First
       /\ \A i \in 1..a : (p \o q)[1 + i] = q[i]
  <2>1. p \in Seq(T) /\ q \in Seq(T)
    BY <1>7, <1>10
  <2>2. /\ p \o q \in Seq(T) /\ Len(p \o q) = Len(p) + Len(q)
        /\ \A n \in 1..Len(p) : (p \o q)[n] = p[n]
        /\ \A n \in 1..Len(q) : (p \o q)[Len(p) + n] = q[n]
    BY <2>1, ConcatTwo
  <2> QED BY <1>7, <1>10, <2>2
<1>15. PICK x : x = p \o q
  OBVIOUS
<1>16. /\ x \in Seq(T) /\ Len(x) = 1 + a /\ x[1] = First
       /\ \A i \in 1..a : x[1 + i] = q[i]
  BY <1>11, <1>15
<1>17. /\ x \o r \in Seq(T) /\ Len(x \o r) = 1 + a + e
       /\ \A i \in 1..1 + a : (x \o r)[i] = x[i]
       /\ \A i \in 1..e : (x \o r)[1 + a + i] = r[i]
  <2>1. x \in Seq(T) /\ r \in Seq(T)
    BY <1>8, <1>16
  <2>2. /\ x \o r \in Seq(T) /\ Len(x \o r) = Len(x) + Len(r)
        /\ \A n \in 1..Len(x) : (x \o r)[n] = x[n]
        /\ \A n \in 1..Len(r) : (x \o r)[Len(x) + n] = r[n]
    BY <2>1, ConcatTwo
  <2> QED BY <1>8, <1>16, <2>2
<1>18. PICK y : y = x \o r
  OBVIOUS
<1>19. /\ y \in Seq(T) /\ Len(y) = 1 + a + e
       /\ \A i \in 1..1 + a : y[i] = x[i]
       /\ \A i \in 1..e : y[1 + a + i] = r[i]
  BY <1>17, <1>18
<1>20. /\ y \o u \in Seq(T) /\ Len(y \o u) = 1 + a + e + 3
       /\ \A i \in 1..1 + a + e : (y \o u)[i] = y[i]
       /\ \A i \in 1..3 : (y \o u)[1 + a + e + i] = u[i]
  <2>1. y \in Seq(T) /\ u \in Seq(T)
    BY <1>10, <1>19
  <2>2. /\ y \o u \in Seq(T) /\ Len(y \o u) = Len(y) + Len(u)
        /\ \A n \in 1..Len(y) : (y \o u)[n] = y[n]
        /\ \A n \in 1..Len(u) : (y \o u)[Len(y) + n] = u[n]
    BY <2>1, ConcatTwo
  <2> QED BY <1>10, <1>19, <2>2
<1>21. PICK s : s = y \o u
  OBVIOUS
<1>22. /\ s \in Seq(T) /\ Len(s) = 1 + a + e + 3
       /\ \A i \in 1..1 + a + e : s[i] = y[i]
       /\ \A i \in 1..3 : s[1 + a + e + i] = u[i]
  BY <1>20, <1>21
<1>23. /\ s[1] = First
       /\ \A i \in 1..a : s[1 + i] = q[i]
       /\ \A i \in 1..e : s[1 + a + i] = r[i]
  BY <1>16, <1>19, <1>22
<1>12. DOMAIN s = 1..(a + e + 4) /\ Len(s) = a + e + 4
  BY <1>22
<1>13. s[a + e + 2] = Cwd /\ s[a + e + 3] = Uid /\ s[a + e + 4] = Gid
  <2>1. s[1 + a + e + 1] = Cwd /\ s[1 + a + e + 2] = Uid /\ s[1 + a + e + 3] = Gid
    BY <1>10, <1>22
  <2> QED BY <2>1
<1>14. Tokens(d) = s
  BY <1>3, <1>9, <1>15, <1>18, <1>21
<1>24. /\ s[1] = Token("exec", 0, d.argv[1])
       /\ \A i \in 1..a : s[1 + i] = Token("argv", i, d.argv[i])
       /\ \A i \in 1..e : s[1 + a + i] = Token("env", i, d.env[i])
  BY <1>4, <1>23 DEF First
<1>25. /\ s[a + e + 2] = Token("cwd", 0, d.cwd)
       /\ s[a + e + 3] = Token("uid", 0, d.uid)
       /\ s[a + e + 4] = Token("gid", 0, d.gid)
  BY <1>13 DEF Cwd, Uid, Gid
<1>26. a \in Nat \ {0}
  BY <1>2
<1> QED
  BY <1>1, <1>12, <1>14, <1>24, <1>25, <1>26
LEMMA TokenIsRecord ==
  ASSUME NEW k, NEW i, NEW v
  PROVE  Token(k, i, v).key = k /\ Token(k, i, v).index = i /\ Token(k, i, v).value = v
BY DEF Token

(* What a key names on the line of a descriptor.                           *)
LEMMA KeysOfTokens ==
  ASSUME NEW d \in Descriptor, d.argv # <<>>, ~d.ownLine, NEW j \in DOMAIN Tokens(d)
  PROVE  LET t == Tokens(d)[j]
         IN \/ t = Token("exec", 0, d.argv[1])
            \/ \E i \in 1..Len(d.argv) : t = Token("argv", i, d.argv[i])
            \/ \E i \in 1..Len(d.env) : t = Token("env", i, d.env[i])
            \/ t = Token("cwd", 0, d.cwd)
            \/ t = Token("uid", 0, d.uid)
            \/ t = Token("gid", 0, d.gid)
<1>1. PICK s, a, e : s = Tokens(d) /\ a = Len(d.argv) /\ e = Len(d.env)
  OBVIOUS
<1>2. /\ a \in Nat \ {0} /\ e \in Nat /\ j \in 1..(a + e + 4)
      /\ s[1] = Token("exec", 0, d.argv[1])
      /\ \A i \in 1..a : s[1 + i] = Token("argv", i, d.argv[i])
      /\ \A i \in 1..e : s[1 + a + i] = Token("env", i, d.env[i])
      /\ s[a + e + 2] = Token("cwd", 0, d.cwd)
      /\ s[a + e + 3] = Token("uid", 0, d.uid)
      /\ s[a + e + 4] = Token("gid", 0, d.gid)
  BY <1>1, TokensFacts
<1>3. CASE j \in 2..a + 1
  <2>1. PICK i \in 1..a : j = 1 + i
    <3>1. j - 1 \in 1..a /\ j = 1 + (j - 1)
      BY <1>2, <1>3
    <3> QED BY <3>1
  <2> QED BY <1>1, <1>2, <2>1
<1>4. CASE j \in a + 2..a + e + 1
  <2>1. PICK i \in 1..e : j = 1 + a + i
    <3>1. j - 1 - a \in 1..e /\ j = 1 + a + (j - 1 - a)
      BY <1>2, <1>4
    <3> QED BY <3>1
  <2> QED BY <1>1, <1>2, <2>1
<1>5. CASE j = 1 \/ j = a + e + 2 \/ j = a + e + 3 \/ j = a + e + 4
  BY <1>1, <1>2, <1>5
<1>6. \/ j = 1 \/ j \in 2..a + 1 \/ j \in a + 2..a + e + 1
      \/ j = a + e + 2 \/ j = a + e + 3 \/ j = a + e + 4
  BY <1>2
<1> QED
  BY <1>3, <1>4, <1>5, <1>6

LEMMA GivenFacts ==
  ASSUME NEW d \in Descriptor, d.argv # <<>>, ~d.ownLine,
         \A j \in DOMAIN Tokens(d) : Tokens(d)[j].value # "long"
  PROVE  LET line == Tokens(d)
         IN /\ Given(line, "exec", 0) = {Token("exec", 0, d.argv[1])}
            /\ \A i \in 1..Len(d.argv) : Given(line, "argv", i) = {Token("argv", i, d.argv[i])}
            /\ Given(line, "argv", Len(d.argv) + 1) = {}
            /\ \A i \in 1..Len(d.env) : Given(line, "env", i) = {Token("env", i, d.env[i])}
            /\ Given(line, "env", Len(d.env) + 1) = {}
            /\ Given(line, "cwd", 0) = {Token("cwd", 0, d.cwd)}
            /\ Given(line, "uid", 0) = {Token("uid", 0, d.uid)}
            /\ Given(line, "gid", 0) = {Token("gid", 0, d.gid)}
<1>1. PICK s, a, e : s = Tokens(d) /\ a = Len(d.argv) /\ e = Len(d.env)
  OBVIOUS
<1>2. /\ a \in Nat \ {0} /\ e \in Nat /\ DOMAIN s = 1..(a + e + 4)
      /\ s[1] = Token("exec", 0, d.argv[1])
      /\ \A i \in 1..a : s[1 + i] = Token("argv", i, d.argv[i])
      /\ \A i \in 1..e : s[1 + a + i] = Token("env", i, d.env[i])
      /\ s[a + e + 2] = Token("cwd", 0, d.cwd)
      /\ s[a + e + 3] = Token("uid", 0, d.uid)
      /\ s[a + e + 4] = Token("gid", 0, d.gid)
  BY <1>1, TokensFacts
<1>3. \A k, i : Given(s, k, i) =
                {t \in {s[j] : j \in DOMAIN s} : t.key = k /\ t.index = i /\ t.value # "long"}
  BY DEF Given
<1>4. \A k, i, t : t \in Given(s, k, i) <=>
                   /\ \E j \in DOMAIN s : t = s[j]
                   /\ t.key = k /\ t.index = i
  BY <1>1, <1>3
<1>5. \A k, i, t : t \in Given(s, k, i) =>
                   /\ t.key = k /\ t.index = i
                   /\ \/ t = Token("exec", 0, d.argv[1])
                      \/ \E n \in 1..a : t = Token("argv", n, d.argv[n])
                      \/ \E n \in 1..e : t = Token("env", n, d.env[n])
                      \/ t = Token("cwd", 0, d.cwd)
                      \/ t = Token("uid", 0, d.uid)
                      \/ t = Token("gid", 0, d.gid)
  BY <1>1, <1>4, KeysOfTokens
<1>6. ASSUME NEW j \in DOMAIN s, NEW k, NEW i, NEW v, s[j] = Token(k, i, v)
      PROVE  Token(k, i, v) \in Given(s, k, i)
  BY <1>4, <1>6, TokenIsRecord
<1>7. /\ Token("exec", 0, d.argv[1]) \in Given(s, "exec", 0)
      /\ Token("cwd", 0, d.cwd) \in Given(s, "cwd", 0)
      /\ Token("uid", 0, d.uid) \in Given(s, "uid", 0)
      /\ Token("gid", 0, d.gid) \in Given(s, "gid", 0)
  <2>1. 1 \in DOMAIN s /\ {a + e + 2, a + e + 3, a + e + 4} \subseteq DOMAIN s
    BY <1>2
  <2> QED BY <1>2, <1>6, <2>1
<1>8. \A i \in 1..a : Token("argv", i, d.argv[i]) \in Given(s, "argv", i)
  <2> TAKE i \in 1..a
  <2>1. 1 + i \in DOMAIN s
    BY <1>2
  <2> QED BY <1>2, <1>6, <2>1
<1>9. \A i \in 1..e : Token("env", i, d.env[i]) \in Given(s, "env", i)
  <2> TAKE i \in 1..e
  <2>1. 1 + a + i \in DOMAIN s
    BY <1>2
  <2> QED BY <1>2, <1>6, <2>1
<1>10. /\ \A t \in Given(s, "exec", 0) : t = Token("exec", 0, d.argv[1])
       /\ \A t \in Given(s, "cwd", 0) : t = Token("cwd", 0, d.cwd)
       /\ \A t \in Given(s, "uid", 0) : t = Token("uid", 0, d.uid)
       /\ \A t \in Given(s, "gid", 0) : t = Token("gid", 0, d.gid)
       /\ \A i : \A t \in Given(s, "argv", i) : i \in 1..a /\ t = Token("argv", i, d.argv[i])
       /\ \A i : \A t \in Given(s, "env", i) : i \in 1..e /\ t = Token("env", i, d.env[i])
  BY <1>5, TokenIsRecord
<1>11. a + 1 \notin 1..a /\ e + 1 \notin 1..e
  BY <1>2
<1>12. /\ Given(s, "exec", 0) = {Token("exec", 0, d.argv[1])}
       /\ Given(s, "cwd", 0) = {Token("cwd", 0, d.cwd)}
       /\ Given(s, "uid", 0) = {Token("uid", 0, d.uid)}
       /\ Given(s, "gid", 0) = {Token("gid", 0, d.gid)}
  BY <1>7, <1>10, Zenon
<1>13. /\ \A i \in 1..a : Given(s, "argv", i) = {Token("argv", i, d.argv[i])}
       /\ \A i \in 1..e : Given(s, "env", i) = {Token("env", i, d.env[i])}
  BY <1>8, <1>9, <1>10, Zenon
<1>14. Given(s, "argv", a + 1) = {} /\ Given(s, "env", e + 1) = {}
  BY <1>10, <1>11, Zenon
<1> QED
  BY <1>1, <1>12, <1>13, <1>14
LEMMA ListLengthIs ==
  ASSUME NEW line, NEW k, NEW max \in Nat, NEW n \in 0..max,
         \A i \in 1..n : Has(line, k, i), ~Has(line, k, n + 1)
  PROVE  ListLength(line, k, max) = n
<1> DEFINE P(m) == /\ \A i \in 1..m : Has(line, k, i)
                   /\ m = max \/ ~Has(line, k, m + 1)
<1>1. P(n)
  OBVIOUS
<1>2. ASSUME NEW m \in 0..max, P(m) PROVE m = n
  <2>1. CASE m < n
    <3>1. m + 1 \in 1..n /\ m # max
      BY <2>1
    <3> QED BY <1>2, <3>1
  <2>2. CASE n < m
    <3>1. n + 1 \in 1..m
      BY <2>2
    <3> QED BY <1>2, <3>1
  <2> QED BY <2>1, <2>2
<1>3. ListLength(line, k, max) = CHOOSE m \in 0..max : P(m)
  BY DEF ListLength
<1> HIDE DEF P
<1>4. \E m \in 0..max : P(m)
  BY <1>1
<1>5. (CHOOSE m \in 0..max : P(m)) \in 0..max /\ P(CHOOSE m \in 0..max : P(m))
  BY <1>4, Zenon
<1> QED
  BY <1>2, <1>3, <1>5

LEMMA ValueIs ==
  ASSUME NEW line, NEW k, NEW i, NEW v, Given(line, k, i) = {Token(k, i, v)}
  PROVE  Has(line, k, i) /\ Value(line, k, i) = v
<1>1. (CHOOSE t \in Given(line, k, i) : TRUE) = Token(k, i, v)
  OBVIOUS
<1> QED
  BY <1>1, TokenIsRecord DEF Has, Value

LEMMA ListIs ==
  ASSUME NEW line, NEW k, NEW max \in Nat, NEW q \in Seq(STRING), Len(q) <= max,
         \A i \in 1..Len(q) : Given(line, k, i) = {Token(k, i, q[i])},
         Given(line, k, Len(q) + 1) = {}
  PROVE  List(line, k, max) = q
<1>1. \A i \in 1..Len(q) : Has(line, k, i) /\ Value(line, k, i) = q[i]
  BY ValueIs
<1>2. ~Has(line, k, Len(q) + 1)
  BY DEF Has
<1>3. ListLength(line, k, max) = Len(q)
  BY <1>1, <1>2, ListLengthIs
<1>4. List(line, k, max) = [i \in 1..Len(q) |-> q[i]]
  BY <1>1, <1>3 DEF List
<1> QED
  BY <1>4

(* A command that fits is read back as it was written.                     *)
LEMMA CommandArrives ==
  ASSUME NEW d \in Descriptor, d.argv # <<>>, ~d.ownLine, Fits(d)
  PROVE  SelectedCommandConfig(Tokens(d)) = Command(d)
<1> PICK line : line = Tokens(d)
  OBVIOUS
<1>1. /\ Given(line, "exec", 0) = {Token("exec", 0, d.argv[1])}
      /\ \A i \in 1..Len(d.argv) : Given(line, "argv", i) = {Token("argv", i, d.argv[i])}
      /\ Given(line, "argv", Len(d.argv) + 1) = {}
      /\ \A i \in 1..Len(d.env) : Given(line, "env", i) = {Token("env", i, d.env[i])}
      /\ Given(line, "env", Len(d.env) + 1) = {}
      /\ Given(line, "cwd", 0) = {Token("cwd", 0, d.cwd)}
      /\ Given(line, "uid", 0) = {Token("uid", 0, d.uid)}
      /\ Given(line, "gid", 0) = {Token("gid", 0, d.gid)}
  BY GivenFacts DEF Fits
<1>2. /\ d.argv \in Seq(STRING) /\ d.env \in Seq(STRING)
      /\ Len(d.argv) <= MaxArgs /\ Len(d.env) <= MaxEnv
      /\ MaxArgs \in Nat /\ MaxEnv \in Nat
  BY InitAssumption DEF Fits, Descriptor
<1>3. List(line, "argv", MaxArgs) = d.argv /\ List(line, "env", MaxEnv) = d.env
  <2>1. PICK a \in Seq(STRING), e \in Seq(STRING) : a = d.argv /\ e = d.env
    BY <1>2
  <2>2. /\ \A i \in 1..Len(a) : Given(line, "argv", i) = {Token("argv", i, a[i])}
        /\ Given(line, "argv", Len(a) + 1) = {}
        /\ \A i \in 1..Len(e) : Given(line, "env", i) = {Token("env", i, e[i])}
        /\ Given(line, "env", Len(e) + 1) = {}
        /\ Len(a) <= MaxArgs /\ Len(e) <= MaxEnv
    BY <1>1, <1>2, <2>1
  <2>3. List(line, "argv", MaxArgs) = a /\ List(line, "env", MaxEnv) = e
    <3>1. PICK m \in Nat, n \in Nat : m = MaxArgs /\ n = MaxEnv
      BY <1>2
    <3>2. Len(a) <= m /\ Len(e) <= n
      BY <2>2, <3>1
    <3>3. List(line, "argv", m) = a
      BY <2>2, <3>2, ListIs
    <3>4. List(line, "env", n) = e
      BY <2>2, <3>2, ListIs
    <3> QED BY <3>1, <3>3, <3>4
  <2> QED BY <2>1, <2>3
<1>4. /\ Has(line, "exec", 0)
      /\ ValueOr(line, "cwd", "/") = d.cwd
      /\ ValueOr(line, "uid", "0") = d.uid
      /\ ValueOr(line, "gid", "0") = d.gid
  BY <1>1, ValueIs DEF ValueOr
<1>5. NonEmpty(d.argv, <<Value(line, "exec", 0)>>) = d.argv
  BY DEF NonEmpty
<1>6. SelectedCommandConfig(line) =
        [argv |-> Interactive(d.argv), env |-> NonEmpty(d.env, DefaultEnv), cwd |-> d.cwd,
         uid |-> d.uid, gid |-> d.gid]
  BY <1>3, <1>4, <1>5 DEF SelectedCommandConfig
<1> QED
  BY <1>6 DEF Command
-----------------------------------------------------------------------------
(* The mounts, and how far the boot is.                                    *)
LEMMA AboveIs ==
  \A p, q : q \in Above(p) =>
    /\ q \in {"/", "/dev", "/sys", "/newroot"} /\ p # "/" /\ q # p
    /\ q = "/dev" => p \in {"/dev/pts", "/dev/shm"}
    /\ q = "/sys" => p \in {"/sys/fs/cgroup", "/sys/fs/selinux"}
    /\ q = "/newroot" => p \in {"/newroot/dev", "/newroot/proc", "/newroot/sys"}
<1> TAKE p, q
<1>1. CASE p \in {"/dev/pts", "/dev/shm"}
  BY <1>1 DEF Above
<1>2. CASE p \in {"/sys/fs/cgroup", "/sys/fs/selinux"}
  BY <1>2 DEF Above
<1>3. CASE p \in {"/newroot/dev", "/newroot/proc", "/newroot/sys"}
  BY <1>3 DEF Above
<1>4. CASE p = "/"
  BY <1>4 DEF Above
<1>5. CASE p \notin {"/dev/pts", "/dev/shm", "/sys/fs/cgroup", "/sys/fs/selinux",
                    "/newroot/dev", "/newroot/proc", "/newroot/sys", "/"}
  BY <1>5 DEF Above
<1> QED
  BY <1>1, <1>2, <1>3, <1>4, <1>5

LEMMA RootMountsAre ==
  /\ Len(RootMounts) = 9
  /\ RootMounts[1] = "/dev" /\ RootMounts[2] = "/proc" /\ RootMounts[3] = "/sys"
  /\ RootMounts[4] = "/lower" /\ RootMounts[5] = "/state" /\ RootMounts[6] = "/newroot"
  /\ RootMounts[7] = "/newroot/dev" /\ RootMounts[8] = "/newroot/proc"
  /\ RootMounts[9] = "/newroot/sys"
BY DEF RootMounts

LEMMA PlacesAre ==
  /\ \A i \in 1..9 : RootMounts[i] \in Places
  /\ \A i \in 1..10 : InitMounts[i] \in Places
  /\ "/" \in Places
<1>1. DOMAIN RootMounts = 1..9 /\ DOMAIN InitMounts = 1..10
  BY DEF RootMounts, InitMounts
<1> QED
  BY <1>1 DEF Places

LEMMA RootMountsFacts ==
  /\ Len(RootMounts) = 9
  /\ \A i \in 1..9 : RootMounts[i] \in Places
  /\ \A i, j \in 1..9 : RootMounts[i] = RootMounts[j] => i = j
  /\ \A i, j \in 1..9 : i < j => RootMounts[j] \notin Above(RootMounts[i])
<1>1. \A i \in 1..9 : i = 1 \/ i = 2 \/ i = 3 \/ i = 4 \/ i = 5 \/ i = 6 \/ i = 7 \/ i = 8 \/ i = 9
  OBVIOUS
<1>2. ASSUME NEW i \in 1..9
      PROVE  /\ RootMounts[i] # "/"
             /\ RootMounts[i] = "/dev" => i = 1
             /\ RootMounts[i] = "/proc" => i = 2
             /\ RootMounts[i] = "/sys" => i = 3
             /\ RootMounts[i] = "/lower" => i = 4
             /\ RootMounts[i] = "/state" => i = 5
             /\ RootMounts[i] = "/newroot" => i = 6
             /\ RootMounts[i] = "/newroot/dev" => i = 7
             /\ RootMounts[i] = "/newroot/proc" => i = 8
             /\ RootMounts[i] = "/newroot/sys" => i = 9
             /\ RootMounts[i] \notin {"/dev/pts", "/dev/shm", "/sys/fs/cgroup", "/sys/fs/selinux"}
  <2>1. CASE i = 1
    BY <2>1, RootMountsAre
  <2>2. CASE i = 2
    BY <2>2, RootMountsAre
  <2>3. CASE i = 3
    BY <2>3, RootMountsAre
  <2>4. CASE i = 4
    BY <2>4, RootMountsAre
  <2>5. CASE i = 5
    BY <2>5, RootMountsAre
  <2>6. CASE i = 6
    BY <2>6, RootMountsAre
  <2>7. CASE i = 7
    BY <2>7, RootMountsAre
  <2>8. CASE i = 8
    BY <2>8, RootMountsAre
  <2>9. CASE i = 9
    BY <2>9, RootMountsAre
  <2> QED BY <1>1, <2>1, <2>2, <2>3, <2>4, <2>5, <2>6, <2>7, <2>8, <2>9
<1>3. \A i, j \in 1..9 : RootMounts[i] = RootMounts[j] => i = j
  BY <1>1, <1>2, RootMountsAre
<1>4. ASSUME NEW i \in 1..9, NEW j \in 1..9, RootMounts[j] \in Above(RootMounts[i])
      PROVE  ~(i < j)
  <2>1. /\ RootMounts[j] = "/newroot"
        /\ RootMounts[i] \in {"/newroot/dev", "/newroot/proc", "/newroot/sys"}
    BY <1>2, <1>4, AboveIs
  <2> QED BY <1>2, <2>1
<1> QED
  BY <1>2, <1>3, <1>4, RootMountsAre, PlacesAre

LEMMA InitMountsAre ==
  /\ Len(InitMounts) = 10
  /\ InitMounts[1] = "/dev" /\ InitMounts[2] = "/proc" /\ InitMounts[3] = "/sys"
  /\ InitMounts[4] = "/sys/fs/cgroup" /\ InitMounts[5] = "/dev"
  /\ InitMounts[6] = "/dev/pts" /\ InitMounts[7] = "/dev/shm"
  /\ InitMounts[8] = "/run" /\ InitMounts[9] = "/tmp" /\ InitMounts[10] = "/sys/fs/selinux"
BY DEF InitMounts

LEMMA InitMountsFacts ==
  /\ Len(InitMounts) = 10
  /\ \A i \in 1..10 :
       /\ InitMounts[i] \in Places /\ InitMounts[i] # "/" /\ InitMounts[i] # "/newroot"
       /\ InitMounts[i] = "/dev" => i <= 5
       /\ InitMounts[i] = "/sys" => i <= 3
       /\ InitMounts[i] \in {"/dev/pts", "/dev/shm"} => i > 5
       /\ InitMounts[i] \in {"/sys/fs/cgroup", "/sys/fs/selinux"} => i > 3
<1>1. \A i \in 1..10 : \/ i = 1 \/ i = 2 \/ i = 3 \/ i = 4 \/ i = 5
                       \/ i = 6 \/ i = 7 \/ i = 8 \/ i = 9 \/ i = 10
  OBVIOUS
<1>2. ASSUME NEW i \in 1..10
      PROVE  /\ InitMounts[i] # "/" /\ InitMounts[i] # "/newroot"
             /\ InitMounts[i] = "/dev" => i <= 5
             /\ InitMounts[i] = "/sys" => i <= 3
             /\ InitMounts[i] \in {"/dev/pts", "/dev/shm"} => i > 5
             /\ InitMounts[i] \in {"/sys/fs/cgroup", "/sys/fs/selinux"} => i > 3
  <2>1. CASE i = 1
    BY <2>1, InitMountsAre
  <2>2. CASE i = 2
    BY <2>2, InitMountsAre
  <2>3. CASE i = 3
    BY <2>3, InitMountsAre
  <2>4. CASE i = 4
    BY <2>4, InitMountsAre
  <2>5. CASE i = 5
    BY <2>5, InitMountsAre
  <2>6. CASE i = 6
    BY <2>6, InitMountsAre
  <2>7. CASE i = 7
    BY <2>7, InitMountsAre
  <2>8. CASE i = 8
    BY <2>8, InitMountsAre
  <2>9. CASE i = 9
    BY <2>9, InitMountsAre
  <2>10. CASE i = 10
    BY <2>10, InitMountsAre
  <2> QED BY <1>1, <2>1, <2>2, <2>3, <2>4, <2>5, <2>6, <2>7, <2>8, <2>9, <2>10
<1> QED
  BY <1>2, InitMountsAre, PlacesAre

(* A file system is mounted after the others, on a place of its own that   *)
(* does not lie over any of theirs.                                        *)
LEMMA MountOnTop ==
  ASSUME NEW s \in Seq(Places), NEW p \in Places,
         \A i, j \in DOMAIN s : s[i] = s[j] => i = j,
         \A i, j \in DOMAIN s : i < j => s[j] \notin Above(s[i]),
         \A i \in DOMAIN s : p # s[i] /\ p \notin Above(s[i])
  PROVE  LET t == Append(s, p)
         IN /\ t \in Seq(Places) /\ Len(t) = Len(s) + 1
            /\ DOMAIN t = 1..Len(s) + 1 /\ t[Len(s) + 1] = p
            /\ \A i \in DOMAIN s : i \in DOMAIN t /\ t[i] = s[i]
            /\ \A i, j \in DOMAIN t : t[i] = t[j] => i = j
            /\ \A i, j \in DOMAIN t : i < j => t[j] \notin Above(t[i])
<1>10. PICK t : t = Append(s, p)
  OBVIOUS
<1>11. PICK n \in Nat : n = Len(s)
  OBVIOUS
<1>1. /\ t \in Seq(Places) /\ Len(t) = n + 1 /\ t[n + 1] = p
      /\ \A i \in 1..n : t[i] = s[i]
  <2>1. /\ t \in Seq(Places) /\ Len(t) = Len(s) + 1 /\ t[Len(s) + 1] = p
        /\ \A i \in 1..Len(s) : t[i] = s[i]
    <3>1. /\ Append(s, p) \in Seq(Places) /\ Len(Append(s, p)) = Len(s) + 1
          /\ Append(s, p)[Len(s) + 1] = p
          /\ \A i \in 1..Len(s) : Append(s, p)[i] = s[i]
      BY AppendProperties
    <3> QED BY <1>10, <3>1, Zenon
  <2> QED BY <1>11, <2>1
<1>2. DOMAIN s = 1..n /\ DOMAIN t = 1..n + 1
  BY <1>1, <1>11
<1>3. \A i \in DOMAIN t : i = n + 1 \/ i \in DOMAIN s
  BY <1>2
<1>4. \A i \in DOMAIN s : i \in DOMAIN t /\ t[i] = s[i] /\ i < n + 1
  BY <1>1, <1>2
<1>5. \A i, j \in DOMAIN t : t[i] = t[j] => i = j
  <2> SUFFICES ASSUME NEW i \in DOMAIN t, NEW j \in DOMAIN t, t[i] = t[j] PROVE i = j
    OBVIOUS
  <2>1. CASE i \in DOMAIN s /\ j \in DOMAIN s
    BY <1>4, <2>1
  <2>2. CASE i = n + 1 /\ j \in DOMAIN s
    BY <1>1, <1>4, <2>2
  <2>3. CASE i \in DOMAIN s /\ j = n + 1
    BY <1>1, <1>4, <2>3
  <2> QED BY <1>3, <2>1, <2>2, <2>3
<1>6. \A i, j \in DOMAIN t : i < j => t[j] \notin Above(t[i])
  <2> SUFFICES ASSUME NEW i \in DOMAIN t, NEW j \in DOMAIN t, i < j
               PROVE  t[j] \notin Above(t[i])
    OBVIOUS
  <2>1. i \in DOMAIN s /\ t[i] = s[i]
    <3>1. i \in 1..n
      BY <1>2
    <3> QED BY <1>2, <1>4, <3>1
  <2>2. CASE j \in DOMAIN s
    BY <1>4, <2>1, <2>2
  <2>3. CASE j = n + 1
    BY <1>1, <2>1, <2>3
  <2> QED BY <1>3, <2>2, <2>3
<1> QED
  BY <1>1, <1>2, <1>4, <1>5, <1>6, <1>10, <1>11

LEMMA RootMountKeeps == ASSUME BootInv, RootMount PROVE BootInv'
<1>1. /\ step \in 1..9 /\ Len(mounts) = step - 1 /\ mounts \in Seq(Places)
      /\ \A i \in DOMAIN mounts : mounts[i] = RootMounts[i]
      /\ DOMAIN mounts = 1..step - 1
  BY RootMountsFacts DEF BootInv, BootTypeOK, RootinitInv, RootMount
<1>2. /\ RootMounts[step] \in Places
      /\ \A i \in DOMAIN mounts : /\ RootMounts[step] # mounts[i]
                                /\ RootMounts[step] \notin Above(mounts[i])
  BY <1>1, RootMountsFacts
<1> PICK s, p : s = mounts /\ p = RootMounts[step]
  OBVIOUS
<1>3. /\ s \in Seq(Places) /\ p \in Places
      /\ \A i, j \in DOMAIN s : s[i] = s[j] => i = j
      /\ \A i, j \in DOMAIN s : i < j => s[j] \notin Above(s[i])
      /\ \A i \in DOMAIN s : p # s[i] /\ p \notin Above(s[i])
  BY <1>1, <1>2 DEF BootInv, BootTypeOK, NothingHidden
<1>4. mounts' = Append(s, p)
  BY DEF RootMount
<1>5. /\ mounts' \in Seq(Places) /\ Len(mounts') = Len(s) + 1
      /\ DOMAIN mounts' = 1..Len(s) + 1 /\ mounts'[Len(s) + 1] = p
      /\ \A i \in DOMAIN s : i \in DOMAIN mounts' /\ mounts'[i] = s[i]
      /\ \A i, j \in DOMAIN mounts' : mounts'[i] = mounts'[j] => i = j
      /\ \A i, j \in DOMAIN mounts' : i < j => mounts'[j] \notin Above(mounts'[i])
  BY <1>3, <1>4, MountOnTop
<1>6. step' = step + 1 /\ boot' \in {"rootinit", "vda"} /\ boot = "rootinit"
      /\ UNCHANGED <<attempts, disks, failures, config>>
  BY DEF RootMount
<1>7. RootinitInv'
  <2>1. Len(mounts') = step /\ step' = step + 1 /\ step' <= Len(RootMounts) + 1 /\ step' - 1 = step
    BY <1>1, <1>5, <1>6, RootMountsFacts
  <2>2. ASSUME NEW i \in DOMAIN mounts' PROVE mounts'[i] = RootMounts[i]
    <3>1. DOMAIN s = 1..step - 1 /\ Len(s) + 1 = step /\ DOMAIN mounts' = 1..step
      BY <1>1, <1>5
    <3>2. i = step \/ i \in DOMAIN s
      BY <1>1, <3>1
    <3>3. i = step => mounts'[i] = RootMounts[i]
      BY <1>5, <3>1
    <3>4. i \in DOMAIN s => mounts'[i] = RootMounts[i]
      BY <1>1, <1>5
    <3> QED BY <3>2, <3>3, <3>4
  <2> QED BY <2>1, <2>2 DEF RootinitInv
<1>8. BootTypeOK' /\ NothingHidden'
  BY <1>1, <1>5, <1>6, InitMountsFacts DEF BootInv, BootTypeOK, NothingHidden
<1> QED
  BY <1>6, <1>7, <1>8 DEF BootInv, InitInv

LEMMA SwitchRootKeeps == ASSUME BootInv, SwitchRoot PROVE BootInv'
<1>1. /\ mounts' \in Seq(Places) /\ DOMAIN mounts' = 1..4
      /\ \A i, j \in 1..4 : mounts'[i] = mounts'[j] => i = j
      /\ \A i, j \in 1..4 : i < j => mounts'[j] \notin Above(mounts'[i])
      /\ \A i \in 1..4 : mounts'[i] \in {"/", "/dev", "/proc", "/sys"}
  <2>1. \A i \in 1..4 : i = 1 \/ i = 2 \/ i = 3 \/ i = 4
    OBVIOUS
  <2>2. /\ mounts' \in Seq(Places) /\ DOMAIN mounts' = 1..4
        /\ mounts'[1] = "/" /\ mounts'[2] = "/dev"
        /\ mounts'[3] = "/proc" /\ mounts'[4] = "/sys"
    <3> PICK t : t = <<"/", "/dev", "/proc", "/sys">>
      OBVIOUS
    <3>1. mounts' = t
      BY DEF SwitchRoot
    <3>2. t \in Seq(Places) /\ DOMAIN t = 1..4
      <4>1. "/" \in Places /\ "/dev" \in Places /\ "/proc" \in Places /\ "/sys" \in Places
        BY RootMountsAre, PlacesAre
      <4> QED BY <4>1
    <3>3. t[1] = "/" /\ t[2] = "/dev" /\ t[3] = "/proc" /\ t[4] = "/sys"
      OBVIOUS
    <3> QED BY <3>1, <3>2, <3>3
  <2>3. \A i, j \in 1..4 : mounts'[i] = mounts'[j] => i = j
    BY <2>1, <2>2
  <2>4. \A i \in 1..4 : mounts'[i] \in {"/", "/dev", "/proc", "/sys"}
    BY <2>1, <2>2
  <2>5. \A i, j \in 1..4 : mounts'[j] \in Above(mounts'[i]) => mounts'[j] = "/"
    BY <2>4, AboveIs
  <2>6. \A i, j \in 1..4 : i < j => mounts'[j] # "/"
    BY <2>1, <2>2
  <2> QED BY <2>2, <2>3, <2>4, <2>5, <2>6
<1>2. boot' = "init" /\ boot = "rootinit" /\ step' = 1 /\ UNCHANGED <<attempts, disks, failures, config>>
  BY DEF SwitchRoot
<1> QED
  BY <1>1, <1>2, InitMountsFacts
     DEF BootInv, BootTypeOK, NothingHidden, InitInv, RootinitInv, Mounted

(* What a mount of init may be put over.                                   *)
LEMMA MountIfNeededKeeps == ASSUME BootInv, MountIfNeeded PROVE BootInv'
<1>1. step \in 1..10 /\ boot = "init"
  BY InitMountsFacts DEF BootInv, BootTypeOK, InitInv, MountIfNeeded
<1>2. /\ UNCHANGED <<attempts, disks, failures, config>> /\ step' = step + 1
      /\ boot' = IF step = 1 THEN "console" ELSE IF step = 10 THEN "pty" ELSE "init"
  BY <1>1, InitMountsFacts DEF MountIfNeeded, AfterMount
<1> PICK s, p : s = mounts /\ p = InitMounts[step]
  OBVIOUS
<1>3. /\ s \in Seq(Places) /\ p \in Places
      /\ \A i, j \in DOMAIN s : s[i] = s[j] => i = j
      /\ \A i, j \in DOMAIN s : i < j => s[j] \notin Above(s[i])
  BY <1>1, InitMountsFacts DEF BootInv, BootTypeOK, NothingHidden
<1>4. CASE p \in Mounted
  <2>1. mounts' = mounts
    BY <1>4 DEF MountIfNeeded
  <2>2. Mounted' = Mounted /\ p \in Mounted
    BY <1>4, <2>1 DEF Mounted
  <2>3. InitInv'
    <3>1. step = 1 => p \notin {"/sys/fs/cgroup", "/sys/fs/selinux", "/dev/pts", "/dev/shm"}
      BY <1>1, InitMountsFacts
    <3> QED BY <1>1, <1>2, <2>2, <3>1, InitMountsFacts DEF BootInv, InitInv
  <2>4. BootTypeOK' /\ NothingHidden'
    BY <1>1, <1>2, <2>1, InitMountsFacts DEF BootInv, BootTypeOK, NothingHidden
  <2> QED BY <1>1, <1>2, <2>3, <2>4 DEF BootInv, RootinitInv
<1>5. CASE p \notin Mounted
  <2>1. \A i \in DOMAIN s : p # s[i] /\ p \notin Above(s[i])
    <3> SUFFICES ASSUME NEW i \in DOMAIN s PROVE p # s[i] /\ p \notin Above(s[i])
      OBVIOUS
    <3>1. s[i] \in Mounted
      BY DEF Mounted
    <3>2. p # s[i]
      BY <1>5, <3>1
    <3>3. /\ p # "/" /\ p # "/newroot"
          /\ p = "/dev" => s[i] \notin {"/dev/pts", "/dev/shm"}
          /\ p = "/sys" => s[i] \notin {"/sys/fs/cgroup", "/sys/fs/selinux"}
      BY <1>1, <3>1, InitMountsFacts DEF BootInv, InitInv
    <3> QED BY <3>2, <3>3 DEF Above
  <2>2. mounts' = Append(s, p)
    BY <1>5 DEF MountIfNeeded
  <2>3. /\ mounts' \in Seq(Places) /\ Len(mounts') = Len(s) + 1
        /\ DOMAIN mounts' = 1..Len(s) + 1 /\ mounts'[Len(s) + 1] = p
        /\ \A i \in DOMAIN s : i \in DOMAIN mounts' /\ mounts'[i] = s[i]
        /\ \A i, j \in DOMAIN mounts' : mounts'[i] = mounts'[j] => i = j
        /\ \A i, j \in DOMAIN mounts' : i < j => mounts'[j] \notin Above(mounts'[i])
    BY <1>3, <2>1, <2>2, MountOnTop
  <2>4. \A q \in Mounted' : q = p \/ q \in Mounted
    <3>1. DOMAIN s = 1..Len(s) /\ Len(s) \in Nat
      BY <1>3
    <3> QED BY <2>3, <3>1 DEF Mounted
  <2>5. InitInv'
    BY <1>1, <1>2, <2>4, InitMountsFacts DEF BootInv, InitInv
  <2> QED BY <1>1, <1>2, <2>3, <2>5, InitMountsFacts
          DEF BootInv, BootTypeOK, NothingHidden, RootinitInv
<1> QED
  BY <1>4, <1>5

LEMMA FailsCounted ==
  ASSUME BootTypeOK, Fails PROVE failures' \in 0..MaxFailures /\ failures' # 0
BY InitAssumption DEF BootTypeOK, Fails

LEMMA WaitForPathKeeps == ASSUME BootInv, WaitForPath PROVE BootInv'
<1>1. /\ boot \in {"vda", "vdb"} /\ boot' \in {"vda", "vdb", "rootinit", "panic"}
      /\ attempts' \in 0..Attempts /\ (boot' # "panic" => attempts' < Attempts)
  BY InitAssumption DEF BootInv, BootTypeOK, WaitForPath, NextAttempt
<1>2. UNCHANGED <<step, disks, mounts, failures, config>>
  BY DEF WaitForPath
<1>3. BootTypeOK' /\ NothingHidden'
  BY <1>1, <1>2 DEF BootInv, BootTypeOK, NothingHidden
<1>4. RootinitInv' /\ InitInv'
  BY <1>1, <1>2 DEF BootInv, RootinitInv, InitInv
<1> QED
  BY <1>1, <1>3, <1>4 DEF BootInv

(* A step that mounts nothing, and that leaves the list of mounts for      *)
(* another activity or not at all.                                         *)
LEMMA OtherStepKeeps ==
  ASSUME BootInv, UNCHANGED <<step, mounts, config, attempts>>,
         disks' \subseteq {"vda", "vdb"}, failures' \in 0..MaxFailures,
         boot' = boot \/ boot' \in {"panic", "paused", "relay"}
                      \/ (boot = "console" /\ boot' = "init"),
         boot = "panic" => boot' = "panic"
  PROVE  BootInv'
<1>1. BootTypeOK' /\ (boot' # "panic" => attempts' < Attempts)
  BY DEF BootInv, BootTypeOK
<1>2. NothingHidden' /\ RootinitInv'
  BY DEF BootInv, NothingHidden, RootinitInv
<1>3. InitInv'
  <2>1. Mounted' = Mounted
    BY DEF Mounted
  <2> QED BY <2>1, InitMountsAre DEF BootInv, InitInv
<1> QED
  BY <1>1, <1>2, <1>3 DEF BootInv

LEMMA MountFailsKeeps == ASSUME BootInv, MountFails PROVE BootInv'
<1>1. step \in 1..10 /\ boot = "init"
  BY InitMountsFacts DEF BootInv, BootTypeOK, InitInv, MountFails
<1>2. /\ UNCHANGED <<attempts, disks, mounts, config>> /\ step' = step + 1
      /\ boot' = IF step = 1 THEN "console" ELSE IF step = 10 THEN "pty" ELSE "init"
  BY <1>1, InitMountsFacts DEF MountFails, AfterMount
<1>3. Mounted' = Mounted /\ InitMounts[step] \notin Mounted
  BY <1>2 DEF Mounted, MountFails
<1>4. failures' \in 0..MaxFailures
  BY FailsCounted DEF BootInv, MountFails
<1>5. InitInv'
  BY <1>1, <1>2, <1>3, InitMountsFacts DEF BootInv, InitInv
<1>6. BootTypeOK' /\ NothingHidden'
  BY <1>1, <1>2, <1>4, InitMountsFacts DEF BootInv, BootTypeOK, NothingHidden
<1> QED
  BY <1>1, <1>2, <1>5, <1>6 DEF BootInv, RootinitInv

LEMMA BootStepKeeps == ASSUME BootInv, LinuxNext PROVE BootInv'
<1> USE DEF BootInv
<1>0. /\ disks \subseteq {"vda", "vdb"} /\ failures \in 0..MaxFailures
  BY DEF BootTypeOK
<1>1. CASE RootMount
  BY <1>1, RootMountKeeps
<1>2. CASE WaitForPath
  BY <1>2, WaitForPathKeeps
<1>3. CASE SwitchRoot
  BY <1>3, SwitchRootKeeps
<1>4. CASE RootFails
  <2>1. failures' \in 0..MaxFailures
    BY <1>4, FailsCounted DEF RootFails
  <2>2. boot = "rootinit" /\ boot' \in {"panic", "paused"}
        /\ UNCHANGED <<step, attempts, disks, mounts, config>>
    BY <1>4 DEF RootFails
  <2> HIDE DEF BootInv
  <2> QED BY <1>0, <2>1, <2>2, OtherStepKeeps
<1>5. CASE MountIfNeeded
  BY <1>5, MountIfNeededKeeps
<1>6. CASE MountFails
  BY <1>6, MountFailsKeeps
<1>7. CASE OpenControllingTty
  <2>1. failures' \in 0..MaxFailures
    BY <1>0, <1>7, FailsCounted DEF OpenControllingTty
  <2>2. boot = "console" /\ boot' \in {"panic", "init"}
        /\ UNCHANGED <<step, attempts, disks, mounts, config>>
    BY <1>7 DEF OpenControllingTty
  <2> HIDE DEF BootInv
  <2> QED BY <1>0, <2>1, <2>2, OtherStepKeeps
<1>8. CASE RunPtyShell
  <2>1. boot = "pty" /\ boot' = "relay"
        /\ UNCHANGED <<step, attempts, disks, mounts, config, failures>>
    BY <1>8 DEF RunPtyShell
  <2> HIDE DEF BootInv
  <2> QED BY <1>0, <2>1, OtherStepKeeps
<1>9. CASE NoPtyShell
  <2>1. failures' \in 0..MaxFailures
    BY <1>0, <1>9, FailsCounted DEF NoPtyShell
  <2>2. boot = "pty" /\ boot' = "paused"
        /\ UNCHANGED <<step, attempts, disks, mounts, config>>
    BY <1>9 DEF NoPtyShell
  <2> HIDE DEF BootInv
  <2> QED BY <1>0, <2>1, <2>2, OtherStepKeeps
<1>10. CASE Executes
  <2>1. failures' \in 0..MaxFailures
    BY <1>0, <1>10, FailsCounted DEF Executes
  <2>2. UNCHANGED <<boot, step, attempts, disks, mounts, config>>
    BY <1>10 DEF Executes
  <2> HIDE DEF BootInv
  <2> QED BY <1>0, <2>1, <2>2, OtherStepKeeps
<1>11. CASE ExecFails \/ Input \/ Session
  <2>1. UNCHANGED <<boot, step, attempts, disks, mounts, config, failures>>
    BY <1>11 DEF ExecFails, Input, Session, bootVars
  <2> HIDE DEF BootInv
  <2> QED BY <1>0, <2>1, OtherStepKeeps
<1>12. CASE RelayEnds
  <2>1. boot = "relay" /\ boot' = "paused"
        /\ UNCHANGED <<step, attempts, disks, mounts, config, failures>>
    BY <1>12 DEF RelayEnds
  <2> HIDE DEF BootInv
  <2> QED BY <1>0, <2>1, OtherStepKeeps
<1>13. CASE DiskFound
  <2>1. disks' \subseteq {"vda", "vdb"}
        /\ UNCHANGED <<boot, step, attempts, mounts, config, failures>>
    BY <1>0, <1>13 DEF DiskFound
  <2> HIDE DEF BootInv
  <2> QED BY <1>0, <2>1, OtherStepKeeps
<1> QED
  BY <1>1, <1>2, <1>3, <1>4, <1>5, <1>6, <1>7, <1>8, <1>9, <1>10, <1>11, <1>12, <1>13
  DEF LinuxNext, Boots

LEMMA BootStarts == LinuxStart => BootInv
<1> SUFFICES ASSUME LinuxStart PROVE BootInv
  OBVIOUS
<1>1. /\ step = 1 /\ attempts = 0 /\ failures = 0 /\ config \in Descriptors
      /\ disks \subseteq {"vda", "vdb"}
      /\ \/ boot = "rootinit" /\ mounts = <<>>
         \/ boot = "init" /\ mounts = <<"/">>
  BY DEF LinuxStart
<1>2. PICK root : root = "/" /\ root \in Places /\ root \notin {"/dev/pts", "/dev/shm", "/sys/fs/cgroup", "/sys/fs/selinux"}
  BY PlacesAre
<1>3. /\ mounts \in Seq(Places) /\ DOMAIN mounts \subseteq {1}
      /\ \A i \in DOMAIN mounts : mounts[i] = root
      /\ boot = "rootinit" => (Len(mounts) = 0 /\ DOMAIN mounts = {})
  <2>1. CASE boot = "rootinit" /\ mounts = <<>>
    BY <2>1
  <2>2. CASE boot = "init" /\ mounts = <<"/">>
    <3>1. mounts = <<root>>
      BY <1>2, <2>2
    <3>2. mounts \in Seq(Places) /\ DOMAIN mounts = {1} /\ mounts[1] = root
      BY <1>2, <3>1
    <3> QED BY <2>2, <3>2
  <2> QED BY <1>1, <2>1, <2>2
<1>4. BootTypeOK /\ attempts < Attempts
  BY <1>1, <1>3, InitMountsAre, InitAssumption DEF BootTypeOK
<1>5. NothingHidden
  BY <1>3 DEF NothingHidden
<1>6. RootinitInv
  BY <1>1, <1>3, RootMountsAre DEF RootinitInv
<1>7. InitInv
  BY <1>1, <1>2, <1>3, InitMountsAre DEF InitInv, Mounted
<1> QED
  BY <1>4, <1>5, <1>6, <1>7 DEF BootInv

(* The boot is always where its mounts say it is, whichever disks appear,  *)
(* whichever mounts fail and whatever the session does (rootinit.c:47-177, *)
(* init.c:145-191).                                                        *)
THEOREM BootInvariant == LinuxSpec => []BootInv
<1>1. BootInv /\ [LinuxNext]_allVars => BootInv'
  <2> SUFFICES ASSUME BootInv, [LinuxNext]_allVars PROVE BootInv'
    OBVIOUS
  <2>1. CASE LinuxNext
    BY <2>1, BootStepKeeps
  <2>2. CASE UNCHANGED allVars
    BY <2>2 DEF allVars, bootVars, BootInv, BootTypeOK, NothingHidden, RootinitInv,
               InitInv, Mounted
  <2> QED BY <2>1, <2>2
<1> QED
  BY <1>1, BootStarts, PTL DEF LinuxSpec

(* No mount of rootinit or of init hides one that was made before it,      *)
(* whichever of them fail, for any number of failures (init.c:145-191).    *)
THEOREM MountsStayVisible == LinuxSpec => []NothingHidden
<1>1. BootInv => NothingHidden
  BY DEF BootInv
<1> QED
  BY <1>1, BootInvariant, PTL

-----------------------------------------------------------------------------
(* The command of the session.                                             *)
(* A line of the caller that names no command leaves the default one.      *)
LEMMA DefaultIsTaken ==
  ASSUME NEW d, d.ownLine
  PROVE  SelectedCommandConfig(Tokens(d)) = Command(d)
<1>1. Tokens(d) = <<>>
  BY DEF Tokens
<1>2. ~Has(<<>>, "exec", 0)
  BY DEF Has, Given
<1> QED
  BY <1>1, <1>2 DEF SelectedCommandConfig, Command

LEMMA LineIsWhole ==
  ASSUME Fits(config) PROVE Lines(config) = {Tokens(config)}
BY DEF Fits, Lines

LEMMA ExecutesTheCommand ==
  ASSUME BootTypeOK, Executes, Fits(config), failures' = 0
  PROVE  ran' \subseteq {Command(config)}
<1>1. config \in Descriptor /\ config.argv # <<>>
  BY DescriptorAssumption DEF BootTypeOK
<1>2. SelectedCommandConfig(Tokens(config)) = Command(config)
  <2> PICK d : d = config
    OBVIOUS
  <2>1. d \in Descriptor /\ d.argv # <<>> /\ Fits(d)
    BY <1>1
  <2>2. SelectedCommandConfig(Tokens(d)) = Command(d)
    BY <2>1, CommandArrives, DefaultIsTaken
  <2> QED BY <2>2
<1>3. ~Fails
  BY FailsCounted
<1>4. PICK line \in Lines(config) : ran' = {SelectedCommandConfig(line)}
  BY <1>3 DEF Executes
<1> QED
  BY <1>2, <1>4, LineIsWhole

LEMMA CommandKept ==
  ASSUME BootTypeOK, RunsTheCommand, LinuxNext PROVE RunsTheCommand'
<1>1. CASE Executes
  <2> SUFFICES ASSUME failures' = 0, Fits(config') PROVE ran' \subseteq {Command(config')}
    BY DEF RunsTheCommand
  <2>1. config' = config
    BY <1>1 DEF Executes
  <2> QED BY <1>1, <2>1, ExecutesTheCommand
<1>2. CASE UNCHANGED <<config, ran>> /\ (failures' = failures \/ Fails)
  <2>1. failures' = 0 => failures = 0
    BY <1>2, FailsCounted
  <2> QED BY <1>2, <2>1 DEF RunsTheCommand
<1>3. LinuxNext => Executes \/ (UNCHANGED <<config, ran>> /\ (failures' = failures \/ Fails))
  BY DEF LinuxNext, Boots, RootMount, WaitForPath, SwitchRoot, RootFails, MountIfNeeded,
         MountFails, OpenControllingTty, RunPtyShell, NoPtyShell, ExecFails, RelayEnds,
         DiskFound, Input, Session, bootVars
<1> QED
  BY <1>1, <1>2, <1>3

(* The program that runs in a session is the one of its descriptor, with   *)
(* the arguments, environment, directory and user written there, for every *)
(* descriptor that fits in the command line and in the tables of init      *)
(* (OrlixEnvironment.swift:613-645, setup.c:95, init.c:416-520).           *)
THEOREM CommandRuns == LinuxSpec => []RunsTheCommand
<1>1. LinuxStart => RunsTheCommand
  BY DEF LinuxStart, RunsTheCommand
<1>2. BootTypeOK /\ RunsTheCommand /\ [LinuxNext]_allVars => RunsTheCommand'
  <2> SUFFICES ASSUME BootTypeOK, RunsTheCommand, [LinuxNext]_allVars PROVE RunsTheCommand'
    OBVIOUS
  <2>1. CASE LinuxNext
    BY <2>1, CommandKept
  <2>2. CASE UNCHANGED allVars
    BY <2>2 DEF allVars, bootVars, RunsTheCommand
  <2> QED BY <2>1, <2>2
<1>3. BootInv => BootTypeOK
  BY DEF BootInv
<1> QED
  BY <1>1, <1>2, <1>3, BootInvariant, PTL DEF LinuxSpec

-----------------------------------------------------------------------------
(* The terminal.  Sequences that are cut, and numbers in turn.             *)
LEMMA RelaySizes ==
  /\ RingSize \in Nat \ {0} /\ TtySize \in Nat \ {0} /\ Chunk \in Nat \ {0}
  /\ InSize \in Nat \ {0} /\ OutSize \in Nat \ {0} /\ Burst \in Nat \ {0}
  /\ Labels \in Nat \ {0} /\ Labels = RingSize + TtySize + Chunk + InSize + 1
  /\ Cell = 0..RingSize - 1 /\ Label = 0..Labels - 1
BY RelayAssumption DEF Labels, Cell, Label

LEMMA TakeDrop ==
  ASSUME NEW T, NEW s \in Seq(T), NEW n \in 0..Len(s)
  PROVE  /\ Take(s, n) \in Seq(T) /\ Len(Take(s, n)) = n
         /\ Drop(s, n) \in Seq(T) /\ Len(Drop(s, n)) = Len(s) - n
         /\ \A k \in 1..Len(s) - n : Drop(s, n)[k] = s[n + k]
         /\ Take(s, n) \o Drop(s, n) = s
<1>1. Len(s) \in Nat /\ \A i \in 1..Len(s) : s[i] \in T
  BY LenProperties, ElementOfSeq
<1>2. /\ SubSeq(s, 1, n) \in Seq(T) /\ Len(SubSeq(s, 1, n)) = n
  BY <1>1, SubSeqProperties
<1>3. PICK m \in Int : m = n + 1
  BY <1>1
<1>4. /\ SubSeq(s, m, Len(s)) \in Seq(T) /\ Len(SubSeq(s, m, Len(s))) = Len(s) - n
      /\ \A k \in 1..Len(s) - n : SubSeq(s, m, Len(s))[k] = s[n + k]
  <2>1. \A i \in m..Len(s) : s[i] \in T
    BY <1>1, <1>3
  <2>2. /\ SubSeq(s, m, Len(s)) \in Seq(T)
        /\ Len(SubSeq(s, m, Len(s))) = IF m <= Len(s) THEN Len(s) - m + 1 ELSE 0
        /\ \A i \in 1..Len(s) - m + 1 : SubSeq(s, m, Len(s))[i] = s[m + i - 1]
    BY <1>1, <2>1, SubSeqProperties
  <2>3. \A k \in Int : m + k - 1 = n + k
    BY <1>1, <1>3
  <2> QED BY <1>1, <1>3, <2>2, <2>3
<1>5. SubSeq(s, 1, n) \o SubSeq(s, n + 1, Len(s)) = SubSeq(s, 1, Len(s))
  <2>1. 1 \in 1..Len(s) + 1 /\ n \in 1 - 1..Len(s) /\ Len(s) \in n..Len(s)
    BY <1>1
  <2> QED BY <2>1, ConcatAdjacentSubSeq
<1>6. SubSeq(s, 1, Len(s)) = s
  BY SubSeqFull
<1>7. Take(s, n) = SubSeq(s, 1, n) /\ Drop(s, n) = SubSeq(s, m, Len(s))
  BY <1>3 DEF Take, Drop
<1>8. SubSeq(s, 1, n) \o SubSeq(s, m, Len(s)) = s
  BY <1>3, <1>5, <1>6, Zenon
<1> QED
  BY <1>2, <1>4, <1>7, <1>8, Zenon

(* The number at a place, counted from m.                                  *)
At(m, k) == (m + k - 1) % Labels

LEMMA AtIs ==
  ASSUME NEW a \in Int, NEW k \in Int
  PROVE  /\ At(a, k) \in Label
         /\ \A b, j \in Int : a + k = b + j => At(a, k) = At(b, j)
         /\ \A b, j \in Int : a + k = b + j + Labels => At(a, k) = At(b, j)
<1>1. PICK z \in Nat \ {0} : z = Labels /\ Label = 0..z - 1
  BY RelaySizes
<1>2. PICK c \in Int : c = a + k - 1
  OBVIOUS
<1>3. c % z \in 0..z - 1
  BY DivisionWithRemainder
<1>4. ASSUME NEW b \in Int, NEW j \in Int, a + k = b + j PROVE At(a, k) = At(b, j)
  <2>1. b + j - 1 = a + k - 1
    BY <1>4
  <2> QED BY <2>1 DEF At
<1>5. ASSUME NEW b \in Int, NEW j \in Int, a + k = b + j + Labels PROVE At(a, k) = At(b, j)
  <2>1. PICK d \in Int : d = b + j - 1
    OBVIOUS
  <2>2. c = d + z
    BY <1>1, <1>2, <1>5, <2>1
  <2>3. c % z = d % z
    BY <2>2, PeriodicRemainder
  <2> QED BY <1>1, <1>2, <2>1, <2>3, Zenon DEF At
<1> QED
  BY <1>1, <1>2, <1>3, <1>4, <1>5 DEF At

LEMMA AtRemainder ==
  ASSUME NEW a \in Int, NEW b \in Int, NEW k \in Int
  PROVE  At((a % Labels) + b, k) = At(a + b, k)
<1>0. PICK z \in Nat \ {0}, c \in Int : z = Labels /\ c = b + k - 1
  BY RelaySizes
<1>1. PICK r \in Int : r = a % z
  <2>1. a % z \in 0..z - 1
    BY DivisionWithRemainder
  <2> QED BY <2>1
<1>2. (r + c) % z = (a + c) % z
  BY <1>1, SumRemainder, Zenon
<1>3. r + b + k - 1 = r + c /\ a + b + k - 1 = a + c
  BY <1>0
<1> QED
  BY <1>0, <1>1, <1>2, <1>3, Zenon DEF At

LEMMA NumbersAre ==
  ASSUME NEW m \in Int, NEW n \in Nat
  PROVE  /\ Numbers(m, n) \in Seq(Label) /\ Len(Numbers(m, n)) = n
         /\ \A k \in 1..n : Numbers(m, n)[k] = At(m, k)
<1>1. Numbers(m, n) = [k \in 1..n |-> At(m, k)]
  BY DEF Numbers, At
<1>2. \A k \in 1..n : At(m, k) \in Label
  BY AtIs
<1> QED
  BY <1>1, <1>2

(* The bytes of s end with the one before m.                               *)
Ordered(s, m) == s = Numbers(m + Labels - Len(s), Len(s))

LEMMA OrderGrows ==
  ASSUME NEW s \in Seq(Label), NEW m \in Label, NEW n \in Nat, Ordered(s, m)
  PROVE  Ordered(s \o Numbers(m, n), (m + n) % Labels)
<1>1. PICK z \in Nat \ {0}, l \in Nat : z = Labels /\ l = Len(s)
  BY RelaySizes, LenProperties
<1>2. m \in Int
  BY RelaySizes
<1>3. PICK x : x = Numbers(m, n) /\ x \in Seq(Label) /\ Len(x) = n
               /\ \A k \in 1..n : x[k] = At(m, k)
  BY <1>2, NumbersAre
<1>4. PICK u : u = s \o x
  OBVIOUS
<1>5. u \in Seq(Label) /\ Len(u) = l + n
      /\ \A k \in 1..l + n : u[k] = IF k <= l THEN s[k] ELSE x[k - l]
  <2>1. /\ u \in Seq(Label) /\ Len(u) = Len(s) + Len(x)
        /\ \A k \in 1..Len(s) + Len(x) : u[k] = IF k <= Len(s) THEN s[k] ELSE x[k - Len(s)]
    BY <1>3, <1>4, ConcatProperties
  <2> QED BY <1>1, <1>3, <2>1
<1>6. PICK w : w = (m + n) % z
  OBVIOUS
<1>7. w \in Int
  <2>1. m + n \in Int
    BY <1>2
  <2> QED BY <1>6, <2>1, DivisionWithRemainder
<1>8. PICK f \in Int : f = w + z - (l + n)
  BY <1>7
<1>9. PICK v : v = Numbers(f, l + n) /\ v \in Seq(Label) /\ Len(v) = l + n /\ \A k \in 1..l + n : v[k] = At(f, k)
  <2>1. l + n \in Nat
    OBVIOUS
  <2> QED BY <1>8, <2>1, NumbersAre
<1>10. PICK g \in Int : g = m + z - l /\ s = Numbers(g, l)
  BY <1>1, <1>2 DEF Ordered
<1>11. \A k \in 1..l : s[k] = At(g, k)
  BY <1>10, NumbersAre
<1>12. ASSUME NEW k \in 1..l + n PROVE v[k] = At(g, k)
  <2>1. PICK a \in Int, b \in Int : a = m + n /\ b = z - (l + n)
    BY <1>2
  <2>2. At((a % Labels) + b, k) = At(a + b, k)
    BY AtRemainder
  <2>3. f = w + b /\ a + b = g
    BY <1>2, <1>7, <1>8, <1>10, <2>1
  <2> QED BY <1>1, <1>6, <1>9, <2>1, <2>2, <2>3, Zenon
<1>13. ASSUME NEW k \in 1..l + n PROVE u[k] = v[k]
  <2>1. CASE k <= l
    BY <1>5, <1>11, <1>12, <2>1
  <2>2. CASE ~(k <= l)
    <3>1. k - l \in 1..n /\ g + k = m + (k - l) + z
      BY <1>2, <1>10, <2>2
    <3>2. At(g, k) = At(m, k - l)
      BY <1>1, <1>2, <3>1, AtIs
    <3> QED BY <1>3, <1>5, <1>12, <2>2, <3>1, <3>2
  <2> QED BY <2>1, <2>2
<1>14. u = v
  <2> QED BY <1>5, <1>9, <1>13, SeqEqual
<1> QED
  BY <1>1, <1>3, <1>4, <1>5, <1>6, <1>8, <1>9, <1>14 DEF Ordered

LEMMA OrderShrinks ==
  ASSUME NEW s \in Seq(Label), NEW m \in Label, s # <<>>, Ordered(s, m)
  PROVE  Ordered(Tail(s), m)
<1>1. PICK z \in Nat \ {0}, l \in Nat : z = Labels /\ l = Len(s)
  BY RelaySizes, LenProperties
<1>2. m \in Int
  BY RelaySizes
<1>3. PICK t : t = Tail(s) /\ t \in Seq(Label) /\ Len(t) = l - 1 /\ l - 1 \in Nat
               /\ \A k \in 1..l - 1 : t[k] = s[k + 1]
  <2>1. PICK t : t = Tail(s) /\ t \in Seq(Label) /\ Len(t) = l - 1 /\ \A k \in 1..Len(t) : t[k] = s[k + 1]
    BY <1>1, HeadTailProperties
  <2> QED BY <2>1, LenProperties
<1>4. PICK f \in Int : f = m + z - (l - 1)
  BY <1>2
<1>5. PICK v : v = Numbers(f, l - 1) /\ v \in Seq(Label) /\ Len(v) = l - 1 /\ \A k \in 1..l - 1 : v[k] = At(f, k)
  <2>1. PICK e \in Nat : e = l - 1
    BY <1>3
  <2>2. \E v : v = Numbers(f, e) /\ v \in Seq(Label) /\ Len(v) = e
               /\ \A k \in 1..e : v[k] = At(f, k)
    BY NumbersAre
  <2> QED BY <2>1, <2>2, Zenon
<1>6. PICK g \in Int : g = m + z - l /\ s = Numbers(g, l)
  BY <1>1, <1>2 DEF Ordered
<1>7. ASSUME NEW k \in 1..l - 1 PROVE t[k] = v[k]
  <2>1. k + 1 \in 1..l /\ g + (k + 1) = f + k
    BY <1>2, <1>4, <1>6
  <2>2. s[k + 1] = At(g, k + 1)
    BY <1>6, <2>1, NumbersAre
  <2>3. At(g, k + 1) = At(f, k)
    BY <2>1, AtIs
  <2> QED BY <1>3, <1>5, <2>2, <2>3
<1>8. t = v
  <2> QED BY <1>3, <1>5, <1>7, SeqEqual
<1> QED
  BY <1>1, <1>3, <1>4, <1>5, <1>8 DEF Ordered

(* The ring: what is taken leaves at its head, what is put in follows.     *)
IsRing(r) ==
  /\ r.cells \in [Cell -> Label] /\ r.head \in Cell /\ r.length \in 0..RingSize
  /\ DOMAIN r = {"cells", "head", "length"}
CellAt(r, k) == (r.head + k - 1) % RingSize

LEMMA CellsAre ==
  ASSUME NEW r, IsRing(r)
  PROVE  /\ \A k \in Int : CellAt(r, k) \in Cell
         /\ Contents(r) \in Seq(Label) /\ Len(Contents(r)) = r.length
         /\ \A k \in 1..r.length : Contents(r)[k] = r.cells[CellAt(r, k)]
<1>1. PICK z \in Nat \ {0}, h \in Int, n \in Nat : z = RingSize /\ h = r.head /\ n = r.length /\ Cell = 0..z - 1
  BY RelaySizes DEF IsRing
<1>2. ASSUME NEW k \in Int PROVE CellAt(r, k) \in Cell
  <2>1. PICK c \in Int : c = h + k - 1
    OBVIOUS
  <2>2. c % z \in 0..z - 1
    BY DivisionWithRemainder
  <2> QED BY <1>1, <2>1, <2>2 DEF CellAt
<1>3. PICK c : c = Contents(r) /\ c = [k \in 1..n |-> r.cells[CellAt(r, k)]]
  BY <1>1 DEF Contents, CellAt
<1>4. \A k \in 1..n : r.cells[CellAt(r, k)] \in Label
  BY <1>2 DEF IsRing
<1>5. c \in Seq(Label) /\ Len(c) = n /\ \A k \in 1..n : c[k] = r.cells[CellAt(r, k)]
  BY <1>3, <1>4
<1> QED
  BY <1>1, <1>2, <1>3, <1>5, Zenon

LEMMA RingShrinks ==
  ASSUME NEW r, IsRing(r), NEW n \in 0..r.length
  PROVE  IsRing(Dequeue(r, n)) /\ Contents(Dequeue(r, n)) = Drop(Contents(r), n)
<1>1. PICK z \in Nat \ {0}, h \in Int, l \in Nat : z = RingSize /\ h = r.head /\ l = r.length /\ Cell = 0..z - 1
  BY RelaySizes DEF IsRing
<1>2. PICK q : q = Dequeue(r, n) /\ q.cells = r.cells /\ q.head = (h + n) % z /\ q.length = l - n
               /\ DOMAIN q = DOMAIN r
  <2>1. PICK w : w = (h + n) % z
    OBVIOUS
  <2>2. (r.head + n) % RingSize = w
    BY <1>1, <2>1, Zenon
  <2>3. PICK q : q = Dequeue(r, n) /\ q = [r EXCEPT !.head = w, !.length = l - n]
    BY <1>1, <2>2 DEF Dequeue
  <2>4. q.cells = r.cells /\ q.head = w /\ q.length = l - n /\ DOMAIN q = DOMAIN r
    BY <2>3 DEF IsRing
  <2> QED BY <2>1, <2>3, <2>4, Zenon
<1>3. (h + n) % z \in 0..z - 1
  <2>1. h + n \in Int
    BY <1>1
  <2> QED BY <2>1, DivisionWithRemainder
<1>4. IsRing(q)
  BY <1>1, <1>2, <1>3 DEF IsRing
<1>5. PICK c : c = Contents(r) /\ c \in Seq(Label) /\ Len(c) = l
               /\ \A k \in 1..l : c[k] = r.cells[CellAt(r, k)]
  BY <1>1, CellsAre
<1>6. PICK d : d = Contents(q) /\ d \in Seq(Label) /\ Len(d) = l - n
               /\ \A k \in 1..l - n : d[k] = q.cells[CellAt(q, k)]
  BY <1>2, <1>4, CellsAre
<1>7. PICK e : e = Drop(c, n) /\ e \in Seq(Label) /\ Len(e) = l - n
               /\ \A k \in 1..l - n : e[k] = c[n + k]
  <2>1. n \in 0..Len(c) /\ n \in Int
    BY <1>1, <1>5
  <2>2. /\ Drop(c, n) \in Seq(Label) /\ Len(Drop(c, n)) = Len(c) - n
        /\ \A k \in 1..Len(c) - n : Drop(c, n)[k] = c[n + k]
    <3>1. c \in Seq(Label)
      BY <1>5
    <3> HIDE DEF Label
    <3> QED BY <2>1, <3>1, TakeDrop
  <2> QED BY <1>5, <2>2, Zenon
<1>8. ASSUME NEW k \in 1..l - n PROVE d[k] = e[k]
  <2>1. CellAt(q, k) = CellAt(r, n + k)
    <3>1. PICK a \in Int, b \in Int : a = h + n /\ b = k - 1
      BY <1>1
    <3>2. ((a % z) + b) % z = (a + b) % z
      BY SumRemainder
    <3>3. CellAt(q, k) = ((a % z) + b) % z
      <4>1. PICK w \in Int : w = a % z /\ w = q.head
        BY <1>2, <1>3, <3>1
      <4>2. w + k - 1 = w + b
        BY <3>1
      <4> QED BY <1>1, <4>1, <4>2, Zenon DEF CellAt
    <3>4. r.head + (n + k) - 1 = a + b
      BY <1>1, <3>1
    <3>5. CellAt(r, n + k) = (a + b) % z
      BY <1>1, <3>4, Zenon DEF CellAt
    <3> QED BY <3>2, <3>3, <3>5, Zenon
  <2>2. n + k \in 1..l
    BY <1>1
  <2>3. e[k] = c[n + k] /\ c[n + k] = r.cells[CellAt(r, n + k)] /\ d[k] = q.cells[CellAt(q, k)]
    BY <1>5, <1>6, <1>7, <2>2, Zenon
  <2> QED BY <1>2, <2>1, <2>3, Zenon
<1>9. d = e
  BY <1>6, <1>7, <1>8, SeqEqual
<1> QED
  BY <1>2, <1>4, <1>5, <1>6, <1>7, <1>9

(* How far a cell is after the tail of a ring.                             *)
Place(r, i) == (i + RingSize - RingTail(r)) % RingSize

LEMMA CellAfterTail ==
  ASSUME NEW r, IsRing(r), NEW k \in 1..RingSize
  PROVE  Place(r, CellAt(r, k)) =
           IF k <= r.length THEN RingSize + k - 1 - r.length ELSE k - 1 - r.length
<1>1. PICK z \in Nat \ {0}, h \in Int, l \in 0..RingSize : z = RingSize /\ h = r.head /\ l = r.length
  BY RelaySizes DEF IsRing
<1>2. PICK c \in Int : c = h + k - 1
  BY <1>1
<1>3. PICK d \in Int : d = h + l
  BY <1>1
<1>4. PICK p \in Int, e \in 0..z - 1 : p = c \div z /\ e = c % z /\ c = z * p + e
  BY Division
<1>5. PICK q \in Int, t \in 0..z - 1 : q = d \div z /\ t = d % z /\ d = z * q + t
  BY Division
<1>6. CellAt(r, k) = e /\ RingTail(r) = t
  BY <1>1, <1>2, <1>3, <1>4, <1>5, Zenon DEF CellAt, RingTail
<1>7. PICK m \in 0..z - 1 : m = IF k <= l THEN z + k - 1 - l ELSE k - 1 - l
  BY <1>1
<1>8. PICK f \in Int : f = e + z - t
  OBVIOUS
<1>9. PICK s \in Int : f = z * s + m
  <2>1. PICK x \in Int, y \in Int : x = z * p /\ y = z * q
    OBVIOUS
  <2>2. c = x + e /\ d = y + t
    BY <1>4, <1>5, <2>1
  <2>3. f = y - x + z + (k - 1 - l)
    BY <1>1, <1>2, <1>3, <1>8, <2>2
  <2>4. CASE k <= l
    <3>1. f = y - x + m
      BY <1>7, <2>3, <2>4
    <3>2. z * (q - p) = y - x
      BY <2>1
    <3>3. f = z * (q - p) + m
      BY <3>1, <3>2
    <3> QED BY <3>3
  <2>5. CASE ~(k <= l)
    <3>1. f = y - x + z + m
      BY <1>7, <2>3, <2>5
    <3>2. z * (q - p + 1) = y - x + z
      BY <2>1
    <3>3. f = z * (q - p + 1) + m
      BY <3>1, <3>2
    <3> QED BY <3>3
  <2> QED BY <2>4, <2>5
<1>10. f % z = m
  BY <1>9, RemainderIs
<1>11. Place(r, CellAt(r, k)) = m
  BY <1>1, <1>6, <1>8, <1>10, Zenon DEF Place
<1>12. m = IF k <= r.length THEN RingSize + k - 1 - r.length ELSE k - 1 - r.length
  BY <1>1, <1>7, Zenon
<1> QED
  BY <1>11, <1>12, Zenon

LEMMA PlaceIs ==
  ASSUME NEW r, IsRing(r), NEW i \in Cell
  PROVE  Place(r, i) \in 0..RingSize - 1
<1>1. PICK z \in Nat \ {0}, t \in Int : z = RingSize /\ t = RingTail(r)
  <2>1. PICK z \in Nat \ {0}, d \in Int : z = RingSize /\ d = r.head + r.length
    BY RelaySizes DEF IsRing
  <2>2. d % z \in 0..z - 1
    BY DivisionWithRemainder
  <2>3. RingTail(r) = d % z
    BY <2>1, Zenon DEF RingTail
  <2> QED BY <2>1, <2>2, <2>3
<1>2. PICK a \in Int : a = i + z - t
  BY <1>1, RelaySizes
<1>3. a % z \in 0..z - 1
  BY DivisionWithRemainder
<1> QED
  BY <1>1, <1>2, <1>3, Zenon DEF Place

HasRoom(r, n) == n <= RingSize - r.length

LEMMA RingGrows ==
  ASSUME NEW r, IsRing(r), NEW x \in Seq(Label), HasRoom(r, Len(x))
  PROVE  IsRing(Enqueue(r, x)) /\ Contents(Enqueue(r, x)) = Contents(r) \o x
<1>1. PICK z \in Nat \ {0}, l \in Nat, n \in Nat :
        z = RingSize /\ l = r.length /\ n = Len(x) /\ n <= z - l /\ Cell = 0..z - 1
  <2>1. PICK z \in Nat \ {0}, l \in Nat : z = RingSize /\ l = r.length /\ Cell = 0..z - 1
    BY RelaySizes DEF IsRing
  <2>2. PICK n \in Nat : n = Len(x)
    BY LenProperties
  <2>3. n <= z - l
    BY <2>1, <2>2, Zenon DEF HasRoom
  <2> QED BY <2>1, <2>2, <2>3
<1>0. n <= z - l
  BY <1>1
<1>2. PICK q : /\ q = Enqueue(r, x) /\ q.length = l + n /\ q.head = r.head /\ DOMAIN q = DOMAIN r
               /\ q.cells = [i \in Cell |-> IF Place(r, i) < n THEN x[Place(r, i) + 1] ELSE r.cells[i]]
  <2>1. PICK cells : cells = [i \in Cell |-> IF Place(r, i) < n THEN x[Place(r, i) + 1] ELSE r.cells[i]]
    OBVIOUS
  <2>2. Enqueue(r, x) = [r EXCEPT !.length = l + n, !.cells = cells]
    BY <1>1, <2>1, Zenon DEF Enqueue, Place
  <2>3. PICK q : q = Enqueue(r, x) /\ q = [r EXCEPT !.length = l + n, !.cells = cells]
    BY <2>2
  <2>4. q.length = l + n /\ q.cells = cells /\ q.head = r.head /\ DOMAIN q = DOMAIN r
    BY <2>3 DEF IsRing
  <2> QED BY <2>1, <2>3, <2>4, Zenon
<1>3. \A i \in Cell : q.cells[i] = IF Place(r, i) < n THEN x[Place(r, i) + 1] ELSE r.cells[i]
  BY <1>2
<1>4. IsRing(q)
  <2>1. ASSUME NEW i \in Cell
        PROVE  (IF Place(r, i) < n THEN x[Place(r, i) + 1] ELSE r.cells[i]) \in Label
    <3>1. PICK k \in 0..z - 1 : k = Place(r, i)
      BY <1>1, PlaceIs
    <3>2. k < n => x[k + 1] \in Label
      <4>1. k < n => k + 1 \in 1..Len(x)
        BY <1>1
      <4> QED BY <4>1, ElementOfSeq
    <3> QED BY <3>1, <3>2 DEF IsRing
  <2>2. q.cells \in [Cell -> Label]
    BY <1>2, <2>1
  <2>3. q.length \in 0..RingSize
    BY <1>1, <1>2
  <2> QED BY <1>2, <2>2, <2>3 DEF IsRing
<1>5. PICK c : c = Contents(r) /\ c \in Seq(Label) /\ Len(c) = l
               /\ \A k \in 1..l : c[k] = r.cells[CellAt(r, k)]
  BY <1>1, CellsAre
<1>6. PICK d : d = Contents(q) /\ d \in Seq(Label) /\ Len(d) = l + n
               /\ \A k \in 1..l + n : d[k] = q.cells[CellAt(q, k)]
  BY <1>2, <1>4, CellsAre
<1>7. PICK e : e = c \o x /\ e \in Seq(Label) /\ Len(e) = l + n
               /\ \A k \in 1..l + n : e[k] = IF k <= l THEN c[k] ELSE x[k - l]
  <2>1. /\ c \o x \in Seq(Label) /\ Len(c \o x) = Len(c) + Len(x)
        /\ \A k \in 1..Len(c) + Len(x) : (c \o x)[k] = IF k <= Len(c) THEN c[k] ELSE x[k - Len(c)]
    <3>1. c \in Seq(Label)
      BY <1>5
    <3> QED BY <3>1, ConcatProperties
  <2>2. Len(c) = l /\ Len(x) = n
    BY <1>1, <1>5
  <2>3. \E e : /\ e = c \o x /\ e \in Seq(Label) /\ Len(e) = Len(c) + Len(x)
               /\ \A k \in 1..Len(c) + Len(x) : e[k] = IF k <= Len(c) THEN c[k] ELSE x[k - Len(c)]
    BY <2>1, Zenon
  <2> QED BY <2>2, <2>3, Zenon
<1>8. ASSUME NEW k \in 1..l + n PROVE d[k] = e[k]
  <2>1. PICK i \in Cell : i = CellAt(r, k) /\ i = CellAt(q, k)
    BY <1>2, CellsAre DEF CellAt
  <2>2. k \in 1..RingSize
    BY <1>1
  <2>3. d[k] = IF Place(r, i) < n THEN x[Place(r, i) + 1] ELSE r.cells[i]
    BY <1>3, <1>6, <2>1, Zenon
  <2>4. PICK m \in Int : m = Place(r, i) /\ m = IF k <= l THEN z + k - 1 - l ELSE k - 1 - l
    <3>1. PICK m \in Int : m = IF k <= l THEN z + k - 1 - l ELSE k - 1 - l
      <4>1. PICK a \in Int, b \in Int : a = z + k - 1 - l /\ b = k - 1 - l
        OBVIOUS
      <4>2. (IF k <= l THEN a ELSE b) \in Int
        OBVIOUS
      <4> QED BY <4>1, <4>2, Zenon
    <3>2. Place(r, CellAt(r, k)) = IF k <= r.length THEN RingSize + k - 1 - r.length ELSE k - 1 - r.length
      BY <2>2, CellAfterTail
    <3> QED BY <1>1, <2>1, <3>1, <3>2, Zenon
  <2>5. CASE k <= l
    <3>1. ~(m < n) /\ k \in 1..l
        <4>1. m = z + k - 1 - l
        BY <2>4, <2>5
      <4> QED BY <1>0, <4>1, <2>5
    <3>2. d[k] = r.cells[i]
      BY <2>3, <2>4, <3>1, Zenon
    <3>3. e[k] = r.cells[i]
      BY <1>5, <1>7, <2>1, <2>5, <3>1, Zenon
    <3> QED BY <3>2, <3>3
  <2>6. CASE ~(k <= l)
    <3>1. m < n /\ m + 1 = k - l
        <4>1. m = k - 1 - l
        BY <2>4, <2>6
      <4> QED BY <1>0, <4>1, <2>6
    <3>2. d[k] = x[m + 1]
      BY <2>3, <2>4, <3>1, Zenon
    <3>3. e[k] = x[k - l]
      BY <1>7, <2>6, Zenon
    <3> QED BY <3>1, <3>2, <3>3, Zenon
  <2> QED BY <2>5, <2>6
<1>9. d = e
  BY <1>6, <1>7, <1>8, SeqEqual
<1> QED
  BY <1>2, <1>4, <1>5, <1>6, <1>7, <1>9

-----------------------------------------------------------------------------
(* The input is in order.  What moves from one buffer to the next is not   *)
(* changed by it.                                                          *)
(* The equations have names: as they stand, the provers rewrite with them  *)
(* without end.                                                            *)
IsBytes(s) == s \in Seq(Label)
Associate(s, t, u) == (s \o t) \o u = s \o (t \o u)
CutMove(x, y, z, n) == (x \o (y \o Take(z, n))) \o Drop(z, n) = (x \o y) \o z

LEMMA Associates ==
  \A s, t, u : IsBytes(s) /\ IsBytes(t) /\ IsBytes(u) => Associate(s, t, u)
BY ConcatAssociative DEF IsBytes, Associate

LEMMA BytesCut ==
  ASSUME NEW s, IsBytes(s), NEW n \in 0..Len(s)
  PROVE  /\ IsBytes(Take(s, n)) /\ IsBytes(Drop(s, n))
         /\ Take(s, n) \o Drop(s, n) = s
         /\ Len(Take(s, n)) = n /\ Len(Drop(s, n)) = Len(s) - n
<1>1. s \in Seq(Label)
  BY DEF IsBytes
<1> QED
  BY <1>1, TakeDrop DEF IsBytes

LEMMA CutMoves ==
  ASSUME NEW x, NEW y, NEW z, IsBytes(x), IsBytes(y), IsBytes(z), NEW n \in 0..Len(z)
  PROVE  CutMove(x, y, z, n)
<1>1. PICK p, d : IsBytes(p) /\ IsBytes(d) /\ p = Take(z, n) /\ d = Drop(z, n) /\ p \o d = z
  BY BytesCut
<1>2. IsBytes(y \o p)
  BY <1>1, ConcatProperties DEF IsBytes
<1>3. Associate(x, y \o p, d) /\ Associate(y, p, d) /\ Associate(x, y, z)
  BY <1>1, <1>2, Associates, Zenon
<1>4. /\ (x \o (y \o p)) \o d = x \o ((y \o p) \o d)
      /\ (y \o p) \o d = y \o (p \o d)
      /\ (x \o y) \o z = x \o (y \o z)
  BY <1>3, Zenon DEF Associate
<1>5. (x \o (y \o p)) \o d = x \o (y \o z)
  BY <1>1, <1>4, Zenon
<1> QED
  BY <1>1, <1>4, <1>5, Zenon DEF CutMove

(* The buffers on the way, whose contents are sequences of bytes.          *)
LEMMA BuffersAre ==
  ASSUME TypeOK, DOMAIN ring = {"cells", "head", "length"}
  PROVE  /\ toShell \in Seq(Label) /\ buf \in Seq(Label) /\ tty \in Seq(Label)
         /\ IsRing(ring) /\ Contents(ring) \in Seq(Label) /\ Len(Contents(ring)) = ring.length
         /\ Len(toShell) \in 0..InSize /\ Len(buf) \in 0..Chunk /\ Len(tty) \in 0..TtySize
         /\ toShell \o buf \in Seq(Label) /\ (toShell \o buf) \o tty \in Seq(Label)
         /\ Underway \in Seq(Label)
<1>1. toShell \in Seq(Label) /\ buf \in Seq(Label) /\ tty \in Seq(Label) /\ IsRing(ring)
  BY DEF TypeOK, IsRing
<1>2. Contents(ring) \in Seq(Label) /\ Len(Contents(ring)) = ring.length
  BY <1>1, CellsAre
<1>3. Len(toShell) \in Nat /\ Len(buf) \in Nat /\ Len(tty) \in Nat
  BY <1>1, LenProperties
<1>4. Len(toShell) \in 0..InSize /\ Len(buf) \in 0..Chunk /\ Len(tty) \in 0..TtySize
  BY <1>3, RelaySizes DEF TypeOK
<1>5. toShell \o buf \in Seq(Label)
  BY <1>1, ConcatProperties
<1>6. (toShell \o buf) \o tty \in Seq(Label)
  BY <1>1, <1>5, ConcatProperties
<1>7. Underway \in Seq(Label)
  BY <1>2, <1>6, ConcatProperties DEF Underway
<1> QED
  BY <1>1, <1>2, <1>4, <1>5, <1>6, <1>7

(* Steps that move no byte.                                                *)
Control(r, e, p, s, h) ==
  /\ r \in {"off", "raw", "reap", "poll", "fromConsole", "toMaster", "fromMaster", "hup", "done"}
  /\ e \subseteq {"console", "pty", "hup"} /\ p \in 0..OutSize
  /\ s \in {"none", "starting", "reading", "writing", "closed", "zombie", "reaped"}
  /\ h \subseteq {"shell", "child"}

LEMMA NothingMoves ==
  ASSUME RelayInv, UNCHANGED <<ring, next, tty, buf, toShell>>,
         Control(relay', revents', printed', shell', holders'),
         relay \in {"toMaster", "done"} => relay' \in {relay, "done"},
         relay = "done" => relay' = "done",
         relay' \in {"off", "raw"} => relay \in {"off", "raw"}
  PROVE  RelayInv'
<1>1. Underway' = Underway /\ UNCHANGED next
  BY DEF Underway
<1>2. InputInOrder'
  BY <1>1 DEF RelayInv, InputInOrder
<1>3. TypeOK' /\ DOMAIN ring' = {"cells", "head", "length"}
  BY DEF RelayInv, TypeOK, Control
<1>4. /\ relay' \notin {"toMaster", "done"} => buf' = <<>>
      /\ relay' \in {"off", "raw"} => toShell' = <<>>
  BY DEF RelayInv
<1> QED
  BY <1>2, <1>3, <1>4 DEF RelayInv

LEMMA ControlSteps ==
  ASSUME RelayInv,
         \/ Reap \/ Poll \/ ToMasterFails \/ FromMaster \/ CheckHangup
         \/ ShellPrints \/ ShellWrites \/ ShellForks \/ ShellCloses \/ ShellDies
         \/ ChildCloses \/ StartRelay \/ ShellStarts \/ UNCHANGED vars
  PROVE  RelayInv'
<1>1. Control(relay, revents, printed, shell, holders)
  BY DEF RelayInv, TypeOK, Control
<1>2. UNCHANGED <<ring, next, tty, buf, toShell>>
  BY DEF Reap, Poll, ToMasterFails, FromMaster, CheckHangup, ShellPrints, ShellWrites, ShellForks,
         ShellCloses, ShellDies, ChildCloses, StartRelay, ShellStarts, vars, consoleVars,
         relayVars, shellVars
<1>3. CASE Reap \/ Poll \/ ToMasterFails \/ CheckHangup
  <2>1. Control(relay', revents', printed', shell', holders')
    BY <1>1, <1>3 DEF Reap, Reaped, Poll, Events, ToMasterFails, CheckHangup, shellVars, Control
  <2>2. /\ relay # "done" /\ (relay = "toMaster" => relay' = "done")
        /\ relay' \notin {"off", "raw"}
    BY <1>3 DEF Reap, Reaped, Poll, ToMasterFails, CheckHangup
  <2> QED BY <1>2, <2>1, <2>2, NothingMoves
<1>4. CASE FromMaster
  <2>1. printed' \in 0..OutSize
    <3>1. printed \in 0..OutSize /\ Chunk \in Nat /\ OutSize \in Nat
      BY <1>1, RelaySizes DEF Control
    <3>2. CASE printed' = printed
      BY <3>1, <3>2
    <3>3. CASE \E n \in 1..Least(printed, Chunk) : printed' = printed - n
      BY <3>1, <3>3 DEF Least
    <3> QED BY <1>4, <3>2, <3>3 DEF FromMaster
  <2>2. relay = "fromMaster" /\ relay' \in {"hup", "done"} /\ UNCHANGED <<revents, shell, holders>>
    BY <1>4 DEF FromMaster
  <2>3. Control(relay', revents', printed', shell', holders')
    BY <1>1, <2>1, <2>2 DEF Control
  <2> QED BY <1>2, <2>2, <2>3, NothingMoves
<1>5. CASE ShellWrites
  <2>1. printed' \in 0..OutSize
    BY <1>1, <1>5, RelaySizes DEF ShellWrites, Control
  <2>2. shell' = "reading" /\ UNCHANGED <<relay, revents, holders>>
    BY <1>5 DEF ShellWrites, relayVars
  <2>3. Control(relay', revents', printed', shell', holders')
    BY <1>1, <2>1, <2>2 DEF Control
  <2> QED BY <1>2, <2>2, <2>3, NothingMoves
<1>6. CASE ShellPrints \/ ShellForks \/ ShellCloses \/ ShellDies \/ ChildCloses \/ ShellStarts
           \/ UNCHANGED vars
  <2>1. /\ UNCHANGED <<relay, revents, printed>>
        /\ shell' \in {shell, "writing", "closed", "zombie", "reading"}
        /\ holders' \subseteq holders \cup {"child"}
    BY <1>6 DEF ShellPrints, ShellForks, ShellCloses, ShellDies, ChildCloses, ShellStarts,
                vars, relayVars, shellVars
  <2>2. Control(relay', revents', printed', shell', holders')
    BY <1>1, <2>1 DEF Control
  <2> QED BY <1>2, <2>1, <2>2, NothingMoves
<1>7. CASE StartRelay
  <2>1. relay = "off" /\ relay' = "raw" /\ UNCHANGED <<revents, printed>>
        /\ shell' = "starting" /\ holders' = {"shell"}
    BY <1>7 DEF StartRelay
  <2>2. Control(relay', revents', printed', shell', holders')
    BY <1>1, <2>1 DEF Control
  <2> QED BY <1>2, <2>1, <2>2, NothingMoves
<1> QED
  BY <1>3, <1>4, <1>5, <1>6, <1>7

(* Steps that move bytes.  Type puts new ones into the ring.               *)
LEMMA BytesMove ==
  ASSUME RelayInv, TypeOK', DOMAIN ring' = {"cells", "head", "length"},
         relay' \notin {"toMaster", "done"} => buf' = <<>>,
         relay # "done" => Underway' = Underway, UNCHANGED next, relay' # "done" => relay # "done",
         relay' \in {"off", "raw"} => toShell' = <<>>
  PROVE  RelayInv'
<1>1. InputInOrder'
  BY DEF RelayInv, InputInOrder
<1> QED
  BY <1>1 DEF RelayInv

LEMMA RingTyped ==
  ASSUME TypeOK, IsRing(ring'), next' \in Label, tty' \in Seq(Label), Len(tty') <= TtySize,
         UNCHANGED <<relayVars, shellVars>>
  PROVE  TypeOK' /\ DOMAIN ring' = {"cells", "head", "length"}
BY DEF TypeOK, IsRing, relayVars, shellVars

LEMMA TypeKeeps == ASSUME RelayInv, Type PROVE RelayInv'
<1>1. /\ TypeOK /\ IsRing(ring) /\ Contents(ring) \in Seq(Label) /\ next \in Label
      /\ (toShell \o buf) \o tty \in Seq(Label) /\ Underway \in Seq(Label)
  BY BuffersAre DEF RelayInv, TypeOK
<1>2. PICK n \in 1..Burst : LET copied == Copied(ring, n)
                           IN /\ copied > 0 /\ ring' = Enqueue(ring, Numbers(next, copied))
                              /\ next' = (next + copied) % Labels
  BY DEF Type
<1>3. PICK c \in Nat : c = Copied(ring, n) /\ c <= RingSize - ring.length
  <2>0. PICK z \in Nat : z = RingSize
    BY RelaySizes
  <2>1. PICK l \in 0..z : z = RingSize /\ l = ring.length
    BY <1>1, <2>0 DEF IsRing
  <2>2. n \in Nat
    BY RelaySizes
  <2>3. Least(n, z - l) \in Nat /\ Least(n, z - l) <= z - l
    BY <2>2 DEF Least
  <2> QED BY <2>1, <2>3 DEF Copied
<1>4. PICK x \in Seq(Label) : x = Numbers(next, c) /\ Len(x) = c
  <2>1. next \in Int
    BY <1>1, RelaySizes
  <2> QED BY <2>1, NumbersAre
<1>5. ring' = Enqueue(ring, x) /\ next' = (next + c) % Labels /\ UNCHANGED <<tty, relayVars, shellVars>>
  BY <1>2, <1>3, <1>4 DEF Type
<1>6. IsRing(ring') /\ Contents(ring') = Contents(ring) \o x
  <2>1. HasRoom(ring, Len(x))
    BY <1>3, <1>4 DEF HasRoom
  <2> QED BY <1>1, <1>5, <2>1, RingGrows
<1>7. next' \in Label
  <2>1. PICK z \in Nat \ {0}, m \in Int : z = Labels /\ m = next + c /\ Label = 0..z - 1
    BY <1>1, RelaySizes
  <2>2. m % z \in 0..z - 1
    BY DivisionWithRemainder
  <2> QED BY <1>5, <2>1, <2>2
<1>8. TypeOK' /\ DOMAIN ring' = {"cells", "head", "length"}
  BY <1>1, <1>5, <1>6, <1>7, RingTyped DEF TypeOK
<1>9. Underway' = Underway \o x
  <2>1. PICK a, b : a = (toShell \o buf) \o tty /\ b = Contents(ring) /\ IsBytes(a) /\ IsBytes(b) /\ IsBytes(x)
    BY <1>1 DEF IsBytes
  <2>2. Associate(a, b, x)
    BY <2>1, Associates, Zenon
  <2>3. Underway = a \o b
    BY <2>1 DEF Underway
  <2>4. Underway' = a \o (b \o x)
    BY <1>5, <1>6, <2>1 DEF Underway, relayVars, shellVars
  <2> QED BY <2>2, <2>3, <2>4, Zenon DEF Associate
<1>10. ASSUME relay' # "done" PROVE Ordered(Underway', next')
  <2>1. Ordered(Underway, next)
    BY <1>5, <1>10 DEF RelayInv, InputInOrder, Ordered, relayVars
  <2>2. Ordered(Underway \o Numbers(next, c), (next + c) % Labels)
    BY <1>1, <2>1, OrderGrows
  <2> QED BY <1>4, <1>5, <1>9, <2>2
<1>11. InputInOrder'
  BY <1>10 DEF InputInOrder, Ordered
<1>12. /\ relay' \notin {"toMaster", "done"} => buf' = <<>>
       /\ relay' \in {"off", "raw"} => toShell' = <<>>
  BY <1>5 DEF RelayInv, relayVars, shellVars
<1> QED
  BY <1>8, <1>11, <1>12 DEF RelayInv

LEMMA TtyReceivesKeeps == ASSUME RelayInv, TtyReceives PROVE RelayInv'
<1>1. /\ TypeOK /\ IsRing(ring) /\ tty \in Seq(Label) /\ next \in Label /\ toShell \o buf \in Seq(Label)
      /\ Len(tty) \in 0..TtySize
  BY BuffersAre DEF RelayInv, TypeOK
<1>2. PICK c \in Seq(Label) : c = Contents(ring) /\ Len(c) = ring.length
  BY BuffersAre DEF RelayInv
<1>3. PICK n \in 1..Least(ring.length, TtySize - Len(tty)) :
        tty' = tty \o Take(c, n) /\ ring' = Dequeue(ring, n)
  BY <1>2 DEF TtyReceives
<1>4. n \in 0..Len(c) /\ Len(tty) + n <= TtySize
  <2>0. PICK l \in Nat, z \in Nat : l = ring.length /\ z = TtySize
    BY <1>1, RelaySizes DEF IsRing
  <2>1. PICK m \in 0..z : l = ring.length /\ z = TtySize /\ m = Len(tty)
    BY <1>1, <2>0
  <2>2. n \in 1..Least(l, z - m)
    BY <2>1
  <2>3. n \in 0..l /\ m + n <= z
    BY <2>2 DEF Least
  <2> QED BY <1>2, <2>1, <2>3
<1>5. UNCHANGED <<next, relayVars, shellVars>>
  BY DEF TtyReceives
<1>6. IsRing(ring') /\ Contents(ring') = Drop(c, n)
  <2>1. n \in 0..ring.length
    BY <1>2, <1>4
  <2> QED BY <1>1, <1>2, <1>3, <2>1, RingShrinks
<1>7. tty' \in Seq(Label) /\ Len(tty') <= TtySize
  <2>1. PICK p \in Seq(Label) : p = Take(c, n) /\ Len(p) = n
    BY <1>4, TakeDrop
  <2>2. tty \o p \in Seq(Label) /\ Len(tty \o p) = Len(tty) + Len(p)
    BY <1>1, ConcatProperties
  <2> QED BY <1>3, <1>4, <2>1, <2>2
<1>8. TypeOK' /\ DOMAIN ring' = {"cells", "head", "length"}
  BY <1>1, <1>5, <1>6, <1>7, RingTyped
<1>9. Underway' = Underway
  <2>1. PICK x : x = toShell \o buf /\ IsBytes(x)
    BY <1>1 DEF IsBytes
  <2>2. PICK y : y = tty /\ IsBytes(y) /\ IsBytes(c)
    BY <1>1 DEF IsBytes
  <2>3. CutMove(x, y, c, n)
    BY <1>4, <2>1, <2>2, CutMoves, Zenon
  <2>4. Underway = (x \o y) \o c
    BY <1>2, <2>1, <2>2 DEF Underway
  <2>5. Underway' = (x \o (y \o Take(c, n))) \o Drop(c, n)
    BY <1>3, <1>5, <1>6, <2>1, <2>2 DEF Underway, relayVars, shellVars
  <2> QED BY <2>3, <2>4, <2>5, Zenon DEF CutMove
<1> QED
  BY <1>5, <1>8, <1>9, BytesMove DEF RelayInv, relayVars, shellVars

LEMMA FromConsoleKeeps == ASSUME RelayInv, FromConsole PROVE RelayInv'
<1>1. /\ TypeOK /\ tty \in Seq(Label) /\ toShell \in Seq(Label) /\ Contents(ring) \in Seq(Label)
      /\ Len(tty) \in 0..TtySize /\ buf = <<>>
  BY BuffersAre DEF RelayInv, FromConsole
<1>2. UNCHANGED <<ring, next, revents, shellVars>> /\ relay = "fromConsole"
  BY DEF FromConsole
<1>3. CASE ~ReadConsole
  <2>1. relay' = "fromMaster" /\ UNCHANGED <<buf, tty>>
    BY <1>3 DEF FromConsole
  <2>2. Control(relay', revents', printed', shell', holders')
    BY <1>1, <1>2, <2>1 DEF TypeOK, Control, shellVars
  <2> QED BY <1>2, <2>1, <2>2, NothingMoves DEF shellVars
<1>4. CASE ReadConsole
  <2>1. PICK n \in 1..Least(Len(tty), Chunk) :
          buf' = Take(tty, n) /\ tty' = Drop(tty, n) /\ relay' = "toMaster"
    BY <1>4 DEF FromConsole
  <2>2. n \in 0..Len(tty) /\ n <= Chunk
    <3>1. PICK l \in Nat, z \in Nat : l = Len(tty) /\ z = Chunk
      BY <1>1, RelaySizes
    <3>2. n \in 0..l /\ n <= z
      BY <3>1 DEF Least
    <3> QED BY <3>1, <3>2
  <2>3. PICK p \in Seq(Label), d \in Seq(Label) :
          /\ p = Take(tty, n) /\ d = Drop(tty, n) /\ p \o d = tty
          /\ Len(p) = n /\ Len(d) = Len(tty) - n
    <3>1. IsBytes(tty)
      BY <1>1 DEF IsBytes
    <3>2. /\ IsBytes(Take(tty, n)) /\ IsBytes(Drop(tty, n)) /\ Take(tty, n) \o Drop(tty, n) = tty
        /\ Len(Take(tty, n)) = n /\ Len(Drop(tty, n)) = Len(tty) - n
      BY <2>2, <3>1, BytesCut
    <3> QED BY <3>2 DEF IsBytes
  <2>4. Len(p) <= Chunk /\ Len(d) <= TtySize
    BY <1>1, <2>2, <2>3, RelaySizes
  <2>5. TypeOK' /\ DOMAIN ring' = {"cells", "head", "length"}
    BY <1>2, <2>1, <2>3, <2>4 DEF RelayInv, TypeOK, shellVars
  <2>6. Underway' = Underway
    <3>1. Associate(toShell, p, d)
      <4>1. IsBytes(toShell) /\ IsBytes(p) /\ IsBytes(d)
        BY <1>1 DEF IsBytes
      <4> QED BY <4>1, Associates, Zenon
    <3>2. toShell \o <<>> = toShell
      BY <1>1
    <3>3. Underway = ((toShell \o <<>>) \o tty) \o Contents(ring)
      BY <1>1 DEF Underway
    <3>4. Underway' = ((toShell \o p) \o d) \o Contents(ring)
      BY <1>2, <2>1, <2>3 DEF Underway, shellVars
    <3> QED BY <2>3, <3>1, <3>2, <3>3, <3>4, Zenon DEF Associate
  <2> QED BY <1>2, <2>1, <2>5, <2>6, BytesMove
<1> QED
  BY <1>3, <1>4

LEMMA ToMasterKeeps == ASSUME RelayInv, ToMaster PROVE RelayInv'
<1>1. /\ TypeOK /\ tty \in Seq(Label) /\ toShell \in Seq(Label) /\ buf \in Seq(Label)
      /\ Len(toShell) \in 0..InSize /\ Len(buf) \in 0..Chunk
  BY BuffersAre DEF RelayInv
<1>2. PICK n \in Written : /\ toShell' = toShell \o Take(buf, n) /\ buf' = Drop(buf, n)
                          /\ relay' = IF Drop(buf, n) = <<>> THEN "fromMaster" ELSE relay
  BY DEF ToMaster, Rest
<1>3. UNCHANGED <<consoleVars, revents, printed, shell, holders>> /\ relay = "toMaster"
  BY DEF ToMaster
<1>4. n \in 0..Len(buf) /\ Len(toShell) + n <= InSize
  <2>0. PICK z \in Nat, c \in Nat : z = InSize /\ c = Chunk
    BY RelaySizes
  <2>1. PICK l \in 0..c, m \in 0..z : l = Len(buf) /\ z = InSize /\ m = Len(toShell) /\ m <= z
    BY <1>1, <2>0
  <2>2. n \in 1..Least(l, z - m)
    BY <2>1 DEF Written
  <2>3. n \in 0..l /\ m + n <= z
    BY <2>1, <2>2 DEF Least
  <2> QED BY <2>1, <2>3
<1>5. PICK p \in Seq(Label), d \in Seq(Label) :
        /\ p = Take(buf, n) /\ d = Drop(buf, n) /\ p \o d = buf
        /\ Len(p) = n /\ Len(d) = Len(buf) - n
  <2>1. IsBytes(buf)
    BY <1>1 DEF IsBytes
  <2>2. /\ IsBytes(Take(buf, n)) /\ IsBytes(Drop(buf, n)) /\ Take(buf, n) \o Drop(buf, n) = buf
      /\ Len(Take(buf, n)) = n /\ Len(Drop(buf, n)) = Len(buf) - n
    BY <1>4, <2>1, BytesCut
  <2> QED BY <2>2 DEF IsBytes
<1>6. PICK s \in Seq(Label) : s = toShell \o p /\ Len(s) = Len(toShell) + n
  <2>1. toShell \o p \in Seq(Label) /\ Len(toShell \o p) = Len(toShell) + Len(p)
    BY <1>1, <1>5, ConcatProperties
  <2> QED BY <1>5, <2>1
<1>7. Len(s) <= InSize /\ Len(d) <= Chunk
  BY <1>1, <1>4, <1>5, <1>6, RelaySizes
<1>8. relay' \in {"fromMaster", "toMaster"} /\ (relay' # "toMaster" => buf' = <<>>)
  BY <1>2, <1>3
<1>9. TypeOK' /\ DOMAIN ring' = {"cells", "head", "length"}
  BY <1>2, <1>3, <1>5, <1>6, <1>7, <1>8 DEF RelayInv, TypeOK, consoleVars
<1>10. Underway' = Underway
  <2>1. Associate(toShell, p, d)
    <3>1. IsBytes(toShell) /\ IsBytes(p) /\ IsBytes(d)
      BY <1>1 DEF IsBytes
    <3> QED BY <3>1, Associates, Zenon
  <2>2. Underway' = ((toShell \o p) \o d) \o tty \o Contents(ring)
    BY <1>2, <1>3, <1>5 DEF Underway, consoleVars
  <2> QED BY <1>5, <2>1, <2>2, Zenon DEF Underway, Associate
<1>11. UNCHANGED next /\ relay # "done"
  BY <1>3 DEF consoleVars
<1> QED
  BY <1>8, <1>9, <1>10, <1>11, BytesMove

(* The shell takes the oldest byte.                                        *)
LEMMA TailOfConcat ==
  ASSUME NEW T, NEW s \in Seq(T), NEW x \in Seq(T), s # <<>>
  PROVE  s \o x # <<>> /\ Tail(s \o x) = Tail(s) \o x
<1>1. PICK l \in Nat, m \in Nat : l = Len(s) /\ m = Len(x) /\ l # 0
  BY LenProperties, EmptySeq
<1>2. PICK t : /\ t = Tail(s) /\ t \in Seq(T) /\ Len(t) = l - 1
               /\ \A k \in 1..l - 1 : t[k] = s[k + 1]
  <2>1. /\ Tail(s) \in Seq(T) /\ Len(Tail(s)) = Len(s) - 1
        /\ \A k \in 1..Len(Tail(s)) : Tail(s)[k] = s[k + 1]
    BY HeadTailProperties
  <2> QED BY <1>1, <2>1
<1>3. PICK u : /\ u = s \o x /\ u \in Seq(T) /\ Len(u) = l + m
               /\ \A k \in 1..l + m : u[k] = IF k <= l THEN s[k] ELSE x[k - l]
  <2>1. PICK u : u = s \o x
    OBVIOUS
  <2>2. /\ u \in Seq(T) /\ Len(u) = Len(s) + Len(x)
        /\ \A k \in 1..Len(s) + Len(x) : u[k] = IF k <= Len(s) THEN s[k] ELSE x[k - Len(s)]
    BY <2>1, ConcatProperties
  <2> QED BY <1>1, <2>1, <2>2
<1>4. u # <<>>
  BY <1>1, <1>3, EmptySeq
<1>5. PICK v : /\ v = Tail(u) /\ v \in Seq(T) /\ Len(v) = l + m - 1
               /\ \A k \in 1..l + m - 1 : v[k] = u[k + 1]
  <2>1. /\ Tail(u) \in Seq(T) /\ Len(Tail(u)) = Len(u) - 1
        /\ \A k \in 1..Len(Tail(u)) : Tail(u)[k] = u[k + 1]
    BY <1>3, <1>4, HeadTailProperties
  <2>2. PICK v : v = Tail(u)
    OBVIOUS
  <2>3. Len(u) - 1 = l + m - 1 /\ Len(v) = l + m - 1
    BY <1>3, <2>1, <2>2
  <2>4. v \in Seq(T) /\ \A k \in 1..Len(v) : v[k] = u[k + 1]
    BY <2>1, <2>2, Zenon
  <2> QED BY <2>2, <2>3, <2>4, Zenon
<1>6. PICK w : /\ w = t \o x /\ w \in Seq(T) /\ Len(w) = l + m - 1
               /\ \A k \in 1..l + m - 1 : w[k] = IF k <= l - 1 THEN t[k] ELSE x[k - (l - 1)]
  <2>1. PICK w : w = t \o x
    OBVIOUS
  <2>2. /\ w \in Seq(T) /\ Len(w) = Len(t) + Len(x)
        /\ \A k \in 1..Len(t) + Len(x) : w[k] = IF k <= Len(t) THEN t[k] ELSE x[k - Len(t)]
    BY <1>2, <2>1, ConcatProperties
  <2>3. Len(t) + Len(x) = l + m - 1
    BY <1>1, <1>2
  <2>4. \A k \in 1..l + m - 1 : w[k] = IF k <= l - 1 THEN t[k] ELSE x[k - (l - 1)]
    BY <1>2, <2>2, <2>3, Zenon
  <2>5. w \in Seq(T) /\ Len(w) = l + m - 1
    BY <2>2, <2>3, Zenon
  <2> QED BY <2>1, <2>4, <2>5, Zenon
<1>7. \A k \in 1..l + m - 1 : v[k] = w[k]
  <2> SUFFICES ASSUME NEW k \in 1..l + m - 1 PROVE v[k] = w[k]
    OBVIOUS
  <2>1. k + 1 \in 1..l + m /\ (k + 1) - l = k - (l - 1)
    OBVIOUS
  <2>2. CASE k <= l - 1
    BY <1>2, <1>3, <1>5, <1>6, <2>1, <2>2
  <2>3. CASE ~(k <= l - 1)
    <3>1. ~(k + 1 <= l)
      BY <2>3
    <3>2. u[k + 1] = x[(k + 1) - l] /\ w[k] = x[k - (l - 1)]
      BY <1>3, <1>6, <2>1, <2>3, <3>1, Zenon
    <3> QED BY <1>5, <2>1, <3>2, Zenon
  <2> QED BY <2>2, <2>3
<1>8. v = w
  BY <1>5, <1>6, <1>7, SeqEqual
<1> QED
  BY <1>2, <1>3, <1>4, <1>5, <1>6, <1>8, Zenon

LEMMA DropOne ==
  ASSUME NEW T, NEW s \in Seq(T), s # <<>>
  PROVE  Tail(s) \in Seq(T) /\ Len(Tail(s)) = Len(s) - 1 /\ Drop(s, 1) = Tail(s)
<1>1. PICK l \in Nat : l = Len(s) /\ l # 0
  BY LenProperties, EmptySeq
<1>2. PICK t : /\ t = Tail(s) /\ t \in Seq(T) /\ Len(t) = l - 1
               /\ \A k \in 1..l - 1 : t[k] = s[k + 1]
  <2>1. /\ Tail(s) \in Seq(T) /\ Len(Tail(s)) = Len(s) - 1
        /\ \A k \in 1..Len(Tail(s)) : Tail(s)[k] = s[k + 1]
    BY HeadTailProperties
  <2> QED BY <1>1, <2>1
<1>3. PICK d : /\ d = Drop(s, 1) /\ d \in Seq(T) /\ Len(d) = l - 1
               /\ \A k \in 1..l - 1 : d[k] = s[1 + k]
  <2>1. 1 \in 0..Len(s)
    BY <1>1
  <2>2. /\ Drop(s, 1) \in Seq(T) /\ Len(Drop(s, 1)) = Len(s) - 1
        /\ \A k \in 1..Len(s) - 1 : Drop(s, 1)[k] = s[1 + k]
    BY <2>1, TakeDrop
  <2> QED BY <1>1, <2>2
<1>4. \A k \in 1..l - 1 : d[k] = t[k]
  <2>1. \A k \in 1..l - 1 : k + 1 = 1 + k
    OBVIOUS
  <2> QED BY <1>2, <1>3, <2>1
<1>5. d = t
  BY <1>2, <1>3, <1>4, SeqEqual
<1> QED
  BY <1>1, <1>2, <1>3, <1>5

LEMMA ShellReadsKeeps == ASSUME RelayInv, ShellReads PROVE RelayInv'
<1>1. /\ TypeOK /\ tty \in Seq(Label) /\ toShell \in Seq(Label) /\ buf \in Seq(Label)
      /\ Len(toShell) \in 0..InSize /\ Contents(ring) \in Seq(Label)
      /\ toShell \o buf \in Seq(Label) /\ (toShell \o buf) \o tty \in Seq(Label)
      /\ Underway \in Seq(Label) /\ next \in Label
  BY BuffersAre DEF RelayInv, TypeOK
<1>2. /\ toShell # <<>> /\ toShell' = Drop(toShell, 1) /\ shell' \in {"reading", "writing"}
      /\ UNCHANGED <<consoleVars, relayVars, printed, holders>> /\ relay # "done"
  BY DEF ShellReads, OnTerminal, Relaying
<1>3. PICK t \in Seq(Label) : t = toShell' /\ t = Tail(toShell) /\ Len(t) <= InSize
  <2>1. PICK s \in Seq(Label) : s = toShell /\ s # <<>>
    BY <1>1, <1>2
  <2>2. Tail(s) \in Seq(Label) /\ Len(Tail(s)) = Len(s) - 1 /\ Drop(s, 1) = Tail(s)
    BY <2>1, DropOne
  <2>3. Len(s) - 1 <= InSize
    BY <1>1, <2>1, RelaySizes
  <2> QED BY <1>2, <2>1, <2>2, <2>3
<1>4. TypeOK' /\ DOMAIN ring' = {"cells", "head", "length"}
  BY <1>2, <1>3 DEF RelayInv, TypeOK, consoleVars, relayVars
<1>5. Underway # <<>> /\ Underway' = Tail(Underway)
  <2>1. toShell \o buf # <<>> /\ Tail(toShell \o buf) = t \o buf
    BY <1>1, <1>2, <1>3, TailOfConcat
  <2>2. /\ (toShell \o buf) \o tty # <<>>
        /\ Tail((toShell \o buf) \o tty) = Tail(toShell \o buf) \o tty
    BY <1>1, <2>1, TailOfConcat
  <2>3. /\ ((toShell \o buf) \o tty) \o Contents(ring) # <<>>
        /\ Tail(((toShell \o buf) \o tty) \o Contents(ring))
             = Tail((toShell \o buf) \o tty) \o Contents(ring)
    BY <1>1, <2>2, TailOfConcat
  <2>4. Underway' = ((t \o buf) \o tty) \o Contents(ring)
    BY <1>2, <1>3 DEF Underway, consoleVars, relayVars
  <2> QED BY <2>1, <2>2, <2>3, <2>4, Zenon DEF Underway
<1>6. Ordered(Underway', next')
  <2>1. Ordered(Underway, next)
    BY <1>2 DEF RelayInv, InputInOrder, Ordered
  <2>2. Ordered(Tail(Underway), next)
    BY <1>1, <1>5, <2>1, OrderShrinks
  <2>3. next' = next
    BY <1>2 DEF consoleVars
  <2> QED BY <1>5, <2>2, <2>3
<1>7. InputInOrder'
  BY <1>6 DEF InputInOrder, Ordered
<1>8. /\ relay' \notin {"toMaster", "done"} => buf' = <<>>
      /\ relay' \notin {"off", "raw"}
  BY <1>2 DEF RelayInv, relayVars
<1> QED
  BY <1>4, <1>7, <1>8 DEF RelayInv

(* The flush takes bytes from the front of all that is under way.          *)
LEMMA OrderOfRest ==
  ASSUME NEW p \in Seq(Label), NEW t \in Seq(Label), NEW m \in Label, Ordered(p \o t, m)
  PROVE  Ordered(t, m)
<1>1. PICK z \in Nat \ {0}, n \in Nat, l \in Nat : z = Labels /\ n = Len(p) /\ l = Len(t)
  BY RelaySizes, LenProperties
<1>2. m \in Int
  BY RelaySizes
<1>3. PICK s : /\ s = p \o t /\ s \in Seq(Label) /\ Len(s) = n + l
               /\ \A k \in 1..l : s[n + k] = t[k]
  <2>1. PICK s : s = p \o t
    OBVIOUS
  <2>2. /\ s \in Seq(Label) /\ Len(s) = Len(p) + Len(t)
        /\ \A k \in 1..Len(t) : s[Len(p) + k] = t[k]
    BY <2>1, ConcatTwo
  <2> QED BY <1>1, <2>1, <2>2, Zenon
<1>4. PICK f \in Int : f = m + z - l
  BY <1>2
<1>5. PICK v : v = Numbers(f, l) /\ v \in Seq(Label) /\ Len(v) = l /\ \A k \in 1..l : v[k] = At(f, k)
  BY NumbersAre
<1>6. PICK g \in Int, h \in Nat : g = m + z - h /\ h = n + l /\ s = Numbers(g, h)
  <2>1. PICK h \in Nat, g \in Int : h = n + l /\ g = m + z - h
    BY <1>2
  <2>2. s = Numbers(m + z - h, h)
    BY <1>1, <1>3, <2>1, Zenon DEF Ordered
  <2> QED BY <2>1, <2>2
<1>7. ASSUME NEW k \in 1..l PROVE t[k] = v[k]
  <2>1. n + k \in 1..h /\ g + (n + k) = f + k /\ n + k \in Int
    BY <1>2, <1>4, <1>6
  <2>2. s[n + k] = At(g, n + k)
    BY <1>6, <2>1, NumbersAre
  <2>3. At(g, n + k) = At(f, k)
    BY <2>1, AtIs
  <2> QED BY <1>3, <1>5, <2>2, <2>3
<1>8. t = v
  BY <1>1, <1>5, <1>7, SeqEqual
<1> QED
  BY <1>1, <1>4, <1>5, <1>8 DEF Ordered

LEMMA MakeTransportRawKeeps == ASSUME RelayInv, MakeTransportRaw PROVE RelayInv'
<1>1. /\ TypeOK /\ tty \in Seq(Label) /\ Contents(ring) \in Seq(Label) /\ next \in Label
      /\ Len(tty) \in 0..TtySize
  BY BuffersAre DEF RelayInv, TypeOK
<1>2. /\ relay = "raw" /\ relay' = "reap" /\ UNCHANGED <<ring, next, revents, buf, shellVars>>
      /\ buf = <<>> /\ toShell = <<>>
  BY DEF MakeTransportRaw, RelayInv
<1>3. PICK n \in 0..Len(tty) : tty' = Drop(tty, n)
  BY DEF MakeTransportRaw
<1>4. PICK p, d, c : /\ p = Take(tty, n) /\ d = Drop(tty, n) /\ c = Contents(ring)
                     /\ IsBytes(p) /\ IsBytes(d) /\ IsBytes(c)
                     /\ p \o d = tty /\ Len(d) = Len(tty) - n
  <2>1. IsBytes(tty) /\ IsBytes(Contents(ring))
    BY <1>1 DEF IsBytes
  <2> QED BY <2>1, BytesCut
<1>5. TypeOK' /\ DOMAIN ring' = {"cells", "head", "length"}
  <2>1. tty' \in Seq(Label) /\ Len(tty') <= TtySize
    BY <1>1, <1>3, <1>4, RelaySizes DEF IsBytes
  <2> QED BY <1>2, <2>1 DEF RelayInv, TypeOK, shellVars
<1>6. Underway = p \o (d \o c) /\ Underway' = d \o c
  <2>1. <<>> \o <<>> = <<>> /\ <<>> \o tty = tty /\ <<>> \o d = d
    BY <1>1, <1>4 DEF IsBytes
  <2>2. Associate(p, d, c)
    BY <1>4, Associates, Zenon
  <2>3. Underway = (p \o d) \o c
    BY <1>2, <1>4, <2>1 DEF Underway
  <2>4. Underway' = d \o c
    BY <1>2, <1>3, <1>4, <2>1 DEF Underway, shellVars
  <2> QED BY <2>2, <2>3, <2>4, Zenon DEF Associate
<1>7. Ordered(Underway', next')
  <2>1. Ordered(p \o (d \o c), next)
    BY <1>2, <1>6 DEF RelayInv, InputInOrder, Ordered
  <2>2. p \in Seq(Label) /\ d \o c \in Seq(Label)
    BY <1>4, ConcatProperties DEF IsBytes
  <2>3. Ordered(d \o c, next)
    BY <1>1, <2>1, <2>2, OrderOfRest
  <2> QED BY <1>2, <1>6, <2>3
<1>8. InputInOrder'
  BY <1>7 DEF InputInOrder, Ordered
<1> QED
  BY <1>2, <1>5, <1>8 DEF RelayInv

LEMMA RelayStarts == Init => RelayInv
<1> SUFFICES ASSUME Init PROVE RelayInv
  OBVIOUS
<1>1. /\ 0 \in Cell /\ 0 \in Label /\ 0 \in 0..RingSize /\ 0 \in 0..OutSize
      /\ 0 <= TtySize /\ 0 <= Chunk /\ 0 <= InSize
  BY RelaySizes
<1>2. <<>> \in Seq(Label) /\ Len(<<>>) = 0
  BY EmptySeq
<1>3. PICK c : c = [i \in Cell |-> 0] /\ c \in [Cell -> Label]
  <2>1. [i \in Cell |-> 0] \in [Cell -> Label]
    BY <1>1
  <2> QED BY <2>1, Zenon
<1>4. ring = [cells |-> c, head |-> 0, length |-> 0]
  BY <1>3 DEF Init
<1>5. ring.cells = c /\ ring.head = 0 /\ ring.length = 0 /\ DOMAIN ring = {"cells", "head", "length"}
  BY <1>4
<1>6. TypeOK
  BY <1>1, <1>2, <1>3, <1>5 DEF Init, TypeOK
<1>7. Underway = <<>>
  <2>1. Contents(ring) = <<>>
    <3>1. Contents(ring) \in Seq(Label) /\ Len(Contents(ring)) = 0
      BY <1>5, <1>6, BuffersAre
    <3> QED BY <3>1, EmptySeq
  <2>2. toShell = <<>> /\ buf = <<>> /\ tty = <<>>
    BY DEF Init
  <2>3. <<>> \o <<>> = <<>>
    OBVIOUS
  <2> QED BY <2>1, <2>2, <2>3 DEF Underway
<1>8. InputInOrder
  <2>1. PICK m \in Int : m = next + Labels - 0
    BY RelaySizes DEF Init
  <2>2. Numbers(m, 0) \in Seq(Label) /\ Len(Numbers(m, 0)) = 0
    BY NumbersAre
  <2>3. Numbers(m, 0) = <<>>
    BY <2>2, EmptySeq
  <2> QED BY <1>2, <1>7, <2>1, <2>3, Zenon DEF InputInOrder
<1> QED
  BY <1>5, <1>6, <1>8 DEF RelayInv, Init

LEMMA RelayStepKeeps == ASSUME RelayInv, LinuxNext PROVE RelayInv'
<1>1. CASE Boots
  <2>1. CASE RootMount \/ WaitForPath \/ SwitchRoot \/ RootFails \/ MountIfNeeded \/ MountFails
             \/ OpenControllingTty \/ NoPtyShell \/ RelayEnds
    <3>1. UNCHANGED vars
      BY <2>1 DEF RootMount, WaitForPath, SwitchRoot, RootFails, MountIfNeeded, MountFails,
                  OpenControllingTty, NoPtyShell, RelayEnds
    <3> QED BY <3>1, ControlSteps
  <2>2. CASE RunPtyShell
    BY <2>2, ControlSteps DEF RunPtyShell
  <2>3. CASE Executes
    BY <2>3, ControlSteps DEF Executes
  <2>4. CASE ExecFails
    BY <2>4, ControlSteps DEF ExecFails
  <2> QED BY <1>1, <2>1, <2>2, <2>3, <2>4 DEF Boots
<1>2. CASE DiskFound
  <2>1. UNCHANGED vars
    BY <1>2 DEF DiskFound
  <2> QED BY <2>1, ControlSteps
<1>3. CASE Session
  <2>1. CASE Relay
    BY <2>1, ControlSteps, MakeTransportRawKeeps, FromConsoleKeeps, ToMasterKeeps DEF Relay
  <2>2. CASE ShellCloses \/ ShellDies
    BY <2>2, ControlSteps
  <2>3. CASE Type \/ ShellReads
    BY <2>3, TypeKeeps, ShellReadsKeeps
  <2>4. CASE ShellWrites \/ ChildCloses \/ ShellPrints \/ ShellForks
    BY <2>4, ControlSteps
  <2> QED BY <1>3, <2>1, <2>2, <2>3, <2>4 DEF Session
<1>4. CASE Input
  BY <1>4, TtyReceivesKeeps DEF Input
<1> QED
  BY <1>1, <1>2, <1>3, <1>4 DEF LinuxNext

(* The type of the terminal and the order of its bytes hold together: a    *)
(* byte keeps its place only as long as no buffer overflows                *)
(* (console.c:69-145, init.c:20-37).                                       *)
THEOREM RelayInvariant == LinuxSpec => []RelayInv
<1>1. LinuxStart => RelayInv
  BY RelayStarts DEF LinuxStart
<1>2. RelayInv /\ [LinuxNext]_allVars => RelayInv'
  <2> SUFFICES ASSUME RelayInv, [LinuxNext]_allVars PROVE RelayInv'
    OBVIOUS
  <2>1. CASE LinuxNext
    BY <2>1, RelayStepKeeps
  <2>2. CASE UNCHANGED allVars
    BY <2>2, ControlSteps DEF allVars
  <2> QED BY <2>1, <2>2
<1> QED
  BY <1>1, <1>2, PTL DEF LinuxSpec

(* The bytes on their way to the shell are the last ones that the ring has *)
(* accepted, in their order, whatever the sizes of the ring, of the tty,   *)
(* of the relay's buffer and of the pseudo terminal: however the ring      *)
(* wraps, and however much each read and each write moves.  What the flush *)
(* of the tty discards was in front of them all                            *)
(* (console.c:69-145, init.c:20-37, init.c:193-214, init.c:522-535).       *)
THEOREM InputArrivesInOrder == LinuxSpec => []InputInOrder
<1>1. RelayInv => InputInOrder
  BY DEF RelayInv
<1> QED
  BY <1>1, RelayInvariant, PTL

(* Every variable of the start of Linux keeps its type: no buffer of the   *)
(* terminal is ever fuller than its size (console.c:69-145,                *)
(* init.c:20-37), the boot waits no longer than Attempts, and mounts lists *)
(* each place once (rootinit.c:47-65, init.c:145-191).                     *)
THEOREM LinuxTypeCorrect == LinuxSpec => []LinuxTypeOK
<1>1. RelayInv /\ BootInv => LinuxTypeOK
  BY DEF RelayInv, BootInv, LinuxTypeOK
<1> QED
  BY <1>1, RelayInvariant, BootInvariant, PTL
=============================================================================
