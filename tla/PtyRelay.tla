------------------------------ MODULE PtyRelay ------------------------------
(***************************************************************************)
(* The terminal of a session: the input ring of the host console           *)
(* (console.c), the tty of Linux behind it, and the relay of init between  *)
(* that tty and the pseudo terminal of the shell (init.c).  The tty, the   *)
(* pseudo terminal and the programs on it are external.                    *)
(*                                                                         *)
(* Bytes are numbered when the ring accepts them, modulo Labels, which is  *)
(* more than can be under way.  What the shell prints is counted.  Until   *)
(* the tty is raw it also edits what it holds, which is left out: the tty  *)
(* is flushed when it becomes raw.                                         *)
(*                                                                         *)
(* Operators whose names end in _Mutant are not part of the model: each is *)
(* a plausible bug in the definition that follows it.                      *)
(***************************************************************************)
EXTENDS Naturals, Sequences

CONSTANTS RingSize,  \* ORLIX_HOST_CONSOLE_INPUT_BYTES
          Burst,     \* the most bytes that are typed or pasted at once
          TtySize,   \* what the tty of the console holds
          Chunk,     \* the buffer of copy_available
          InSize,    \* what the pseudo terminal holds for the shell
          OutSize    \* and for the relay

Labels == RingSize + TtySize + Chunk + InSize + 1

ASSUME RelayAssumption ==
  {RingSize, Burst, TtySize, Chunk, InSize, OutSize} \subseteq Nat \ {0}

VARIABLES
  ring,      \* OrlixHostConsoleInput, its Head and its Length
  next,      \* the number of the byte that is accepted next
  tty,       \* read from the ring, not yet by init
  relay,     \* how far relay_pty is
  revents,   \* what poll returned
  buf,       \* console input that copy_available has still to write
  toShell,   \* input of the pseudo terminal
  printed,   \* how much output the pseudo terminal holds
  shell,     \* the child of init
  holders    \* the processes that have the slave open

consoleVars == <<ring, next, tty>>
relayVars == <<relay, revents, buf>>
shellVars == <<toShell, printed, shell, holders>>
vars == <<consoleVars, relayVars, shellVars>>

Label == 0..Labels - 1
Cell == 0..RingSize - 1
Relaying == relay \notin {"off", "done"}
HungUp == holders = {}

TypeOK ==
  /\ ring.cells \in [Cell -> Label] /\ ring.head \in Cell
  /\ ring.length \in 0..RingSize /\ next \in Label
  /\ tty \in Seq(Label) /\ Len(tty) <= TtySize
  /\ relay \in {"off", "raw", "reap", "poll", "fromConsole", "toMaster", "fromMaster",
                "hup", "done"}
  /\ revents \subseteq {"console", "pty", "hup"}
  /\ buf \in Seq(Label) /\ Len(buf) <= Chunk
  /\ toShell \in Seq(Label) /\ Len(toShell) <= InSize
  /\ printed \in 0..OutSize
  /\ shell \in {"none", "starting", "reading", "writing", "closed", "zombie", "reaped"}
  /\ holders \subseteq {"shell", "child"}

Init ==
  /\ ring = [cells |-> [i \in Cell |-> 0], head |-> 0, length |-> 0]
  /\ next = 0 /\ tty = <<>>
  /\ relay = "off" /\ revents = {} /\ buf = <<>>
  /\ toShell = <<>> /\ printed = 0
  /\ shell = "none" /\ holders = {}

Least(i, j) == IF i < j THEN i ELSE j
Take(s, n) == SubSeq(s, 1, n)
Drop(s, n) == SubSeq(s, n + 1, Len(s))
Numbers(first, n) == [k \in 1..n |-> (first + k - 1) % Labels]

-----------------------------------------------------------------------------
(* orlix_host_console_enqueue_input and orlix_host_console_read_input, each *)
(* under the lock of the ring: what does not fit is not copied.            *)
RingTail(r) == (r.head + r.length) % RingSize
Contents(r) == [k \in 1..r.length |-> r.cells[(r.head + k - 1) % RingSize]]

Copied_Mutant(r, n) == n
Copied(r, n) == Least(n, RingSize - r.length)
Enqueue(r, bytes) ==
  [r EXCEPT !.length = @ + Len(bytes),
            !.cells = [i \in Cell |->
               LET k == (i + RingSize - RingTail(r)) % RingSize
               IN IF k < Len(bytes) THEN bytes[k + 1] ELSE @[i]]]

Dequeue(r, n) == [r EXCEPT !.head = (@ + n) % RingSize, !.length = @ - n]

Type ==
  /\ \E n \in 1..Burst :
       LET copied == Copied(ring, n)
       IN /\ copied > 0
          /\ ring' = Enqueue(ring, Numbers(next, copied))
          /\ next' = (next + copied) % Labels
  /\ UNCHANGED <<tty, relayVars, shellVars>>

(* The console driver takes what the tty has room for.                     *)
TtyReceives ==
  /\ \E n \in 1..Least(ring.length, TtySize - Len(tty)) :
       /\ tty' = tty \o Take(Contents(ring), n)
       /\ ring' = Dequeue(ring, n)
  /\ UNCHANGED <<next, relayVars, shellVars>>

-----------------------------------------------------------------------------
(* relay_pty.                                                              *)
Reaped == shell' = "reaped" /\ relay' = "done"

Reap ==
  /\ relay = "reap"
  /\ IF shell = "zombie" THEN Reaped ELSE relay' = "poll" /\ UNCHANGED shell
  /\ UNCHANGED <<consoleVars, revents, buf, toShell, printed, holders>>

Events == {e \in {"console", "pty", "hup"} : \/ e = "console" /\ tty # <<>>
                                             \/ e = "pty" /\ printed > 0
                                             \/ e = "hup" /\ HungUp}
PollWakes_Mutant == Events \ {"hup"} # {}
PollWakes == Events # {}

Poll ==
  /\ relay = "poll" /\ PollWakes
  /\ revents' = Events
  /\ relay' = "fromConsole"
  /\ UNCHANGED <<consoleVars, buf, shellVars>>

ReadConsole_Mutant == "console" \in revents /\ "pty" \notin revents
ReadConsole == "console" \in revents

FromConsole ==
  /\ relay = "fromConsole"
  /\ IF ReadConsole
     THEN \E n \in 1..Least(Len(tty), Chunk) :
            /\ buf' = Take(tty, n) /\ tty' = Drop(tty, n)
            /\ relay' = "toMaster"
     ELSE relay' = "fromMaster" /\ UNCHANGED <<buf, tty>>
  /\ UNCHANGED <<ring, next, revents, shellVars>>

(* write_all: a write takes what there is room for, and blocks when there  *)
(* is none; it fails when nobody has the slave open.                       *)
Written == 1..Least(Len(buf), InSize - Len(toShell))
Rest_Mutant(n) == <<>>
Rest(n) == Drop(buf, n)

ToMaster ==
  /\ relay = "toMaster" /\ ~HungUp
  /\ \E n \in Written :
       /\ toShell' = toShell \o Take(buf, n)
       /\ buf' = Rest(n)
       /\ relay' = IF Rest(n) = <<>> THEN "fromMaster" ELSE relay
  /\ UNCHANGED <<consoleVars, revents, printed, shell, holders>>

ToMasterFails ==
  /\ relay = "toMaster" /\ HungUp
  /\ relay' = "done"
  /\ UNCHANGED <<consoleVars, revents, buf, shellVars>>

(* The console does not block: its file descriptor drops what it has no    *)
(* room for.  The write may fail, which ends the relay.                    *)
FromMaster ==
  /\ relay = "fromMaster"
  /\ \/ /\ "pty" \notin revents
        /\ relay' = "hup" /\ UNCHANGED printed
     \/ /\ "pty" \in revents
        /\ \E n \in 1..Least(printed, Chunk) : printed' = printed - n
        /\ relay' \in {"hup", "done"}
  /\ UNCHANGED <<consoleVars, revents, buf, toShell, shell, holders>>

CheckHangup ==
  /\ relay = "hup"
  /\ IF "hup" \in revents
     THEN IF shell = "zombie" THEN Reaped ELSE relay' = "done" /\ UNCHANGED shell
     ELSE relay' = "reap" /\ UNCHANGED shell
  /\ UNCHANGED <<consoleVars, revents, buf, toShell, printed, holders>>

-----------------------------------------------------------------------------
(* The shell reads and prints, one at a time; it may leave a process on    *)
(* the terminal.  It closes its files before it can be reaped.             *)
OnTerminal == Relaying /\ "shell" \in holders

ShellReads ==
  /\ OnTerminal /\ shell = "reading" /\ toShell # <<>>
  /\ toShell' = Drop(toShell, 1)
  /\ shell' \in {"reading", "writing"}
  /\ UNCHANGED <<consoleVars, relayVars, printed, holders>>

ShellPrints ==
  /\ OnTerminal /\ shell = "reading"
  /\ shell' = "writing"
  /\ UNCHANGED <<consoleVars, relayVars, toShell, printed, holders>>

ShellWrites ==
  /\ OnTerminal /\ shell = "writing" /\ printed < OutSize
  /\ printed' = printed + 1
  /\ shell' = "reading"
  /\ UNCHANGED <<consoleVars, relayVars, toShell, holders>>

ShellForks ==
  /\ OnTerminal /\ shell = "reading" /\ "child" \notin holders
  /\ holders' = holders \cup {"child"}
  /\ UNCHANGED <<consoleVars, relayVars, toShell, printed, shell>>

ShellCloses ==
  /\ "shell" \in holders
  /\ holders' = holders \ {"shell"}
  /\ shell' = "closed"
  /\ UNCHANGED <<consoleVars, relayVars, toShell, printed>>

ShellDies ==
  /\ shell = "closed"
  /\ shell' = "zombie"
  /\ UNCHANGED <<consoleVars, relayVars, toShell, printed, holders>>

ChildCloses ==
  /\ "child" \in holders
  /\ holders' = holders \ {"child"}
  /\ UNCHANGED <<consoleVars, relayVars, toShell, printed, shell>>

-----------------------------------------------------------------------------
(* run_pty_shell: the shell is started, the tty made raw, then the relay.  *)
StartRelay ==
  /\ relay = "off"
  /\ relay' = "raw"
  /\ shell' = "starting" /\ holders' = {"shell"}
  /\ UNCHANGED <<consoleVars, revents, buf, toShell, printed>>

(* make_transport_raw sets the modes with TCSAFLUSH, which discards what   *)
(* the line discipline holds: the first bytes of tty, and none if the call *)
(* fails, which is only reported.                                          *)
MakeTransportRaw ==
  /\ relay = "raw"
  /\ \E n \in 0..Len(tty) : tty' = Drop(tty, n)
  /\ relay' = "reap"
  /\ UNCHANGED <<ring, next, revents, buf, shellVars>>

ShellStarts ==
  /\ shell = "starting"
  /\ shell' = "reading"
  /\ UNCHANGED <<consoleVars, relayVars, toShell, printed, holders>>

Relay == \/ MakeTransportRaw \/ Reap \/ Poll \/ FromConsole \/ ToMaster \/ ToMasterFails
         \/ FromMaster \/ CheckHangup
RelayFairness == /\ WF_vars(Relay)
                 /\ SF_vars(ShellReads) /\ WF_vars(ShellWrites)
=============================================================================
