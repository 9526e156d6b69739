------------------------ MODULE LinuxInitProperties ------------------------
(***************************************************************************)
(* What the start of Linux and the terminal of a session promise.          *)
(***************************************************************************)
EXTENDS LinuxInit

(* What is on its way to the shell is the last that the ring accepted, in  *)
(* order and without a gap: nothing is doubled, reordered or lost between  *)
(* bytes that arrive, however the ring wraps around and however much each  *)
(* write to the pseudo terminal takes (console.c:80-142, init.c:20-37).    *)
(* What the tty held when init made it raw is lost, but only in front of   *)
(* all that arrives (init.c:210).                                          *)
Underway == toShell \o buf \o tty \o Contents(ring)
InputInOrder ==
  relay # "done" =>
    Underway = Numbers(next + Labels - Len(Underway), Len(Underway))

(* What makes it inductive: the ring is a record, the relay holds bytes    *)
(* only while it writes them, and none is past it before it starts.        *)
RelayInv ==
  /\ TypeOK /\ DOMAIN ring = {"cells", "head", "length"}
  /\ relay \notin {"toMaster", "done"} => buf = <<>>
  /\ relay \in {"off", "raw"} => toShell = <<>>
  /\ InputInOrder

(* The cycle that nothing in init or in the kernel breaks: the relay waits *)
(* for the shell to read, and the shell for the relay (init.c:534).        *)
Jammed == /\ relay = "toMaster" /\ Len(toShell) = InSize
          /\ shell = "writing" /\ printed = OutSize

(* What is typed, or is left of the time before the relay, reaches a shell *)
(* that goes on reading, also when it prints without end, unless the two   *)
(* jam.  The bytes are numbered in turn, so one number stands for all.     *)
Typed == \E i \in DOMAIN Underway : Underway[i] = 0
TypedArrives ==
  Typed ~> (~Typed \/ Jammed \/ ~OnTerminal)

(* The end of the shell ends the session, if no other process has the      *)
(* terminal open, although nothing is typed or printed any more            *)
(* (init.c:597-629).                                                       *)
ShellExitNoticed ==
  (boot = "relay" /\ shell = "zombie" /\ HungUp) ~> boot = "paused"

(* A boot ends, with a session, with a panic or with init at rest: a disk  *)
(* that never appears does not hold it up for ever (rootinit.c:47-65).     *)
BootEnds == <>(boot \in {"relay", "paused", "panic"})

(* No file system hides one that was mounted before it, whichever of the   *)
(* mounts fail: init mounts /dev twice, and other things inside it         *)
(* (init.c:145-191).                                                       *)
Above(p) == CASE p \in {"/dev/pts", "/dev/shm"} -> {"/", "/dev"}
              [] p \in {"/sys/fs/cgroup", "/sys/fs/selinux"} -> {"/", "/sys"}
              [] p \in {"/newroot/dev", "/newroot/proc", "/newroot/sys"} -> {"/", "/newroot"}
              [] p = "/" -> {}
              [] OTHER -> {"/"}
NothingHidden ==
  \A i, j \in DOMAIN mounts : i < j => mounts[j] \notin Above(mounts[i])

(* What makes it inductive: rootinit is as far in its list as its mounts   *)
(* say, and init has mounted nothing inside /dev before its second mount   *)
(* of /dev, and nothing inside /sys before /sys (init.c:145-191).          *)
RootinitInv ==
  boot \in {"rootinit", "vda", "vdb"} =>
    /\ step <= Len(RootMounts) + 1 /\ Len(mounts) = step - 1
    /\ \A i \in DOMAIN mounts : mounts[i] = RootMounts[i]
InitInv ==
  /\ boot = "init" => step <= Len(InitMounts)
  /\ boot = "console" => step = 2
  /\ boot \in {"init", "console"} =>
       /\ step <= 5 => {"/dev/pts", "/dev/shm"} \cap Mounted = {}
       /\ step <= 3 => {"/sys/fs/cgroup", "/sys/fs/selinux"} \cap Mounted = {}
BootInv ==
  /\ BootTypeOK
  /\ boot # "panic" => attempts < Attempts
  /\ NothingHidden /\ RootinitInv /\ InitInv

(* The command that the descriptor names is the one that runs, with its    *)
(* arguments, environment, directory and user, through the command line    *)
(* that Swift writes, the kernel cuts and init reads, as long as it fits   *)
(* in all of them; the default command, when the caller gives a line that  *)
(* names none (OrlixEnvironment.swift:550-563, 613-645, setup.c:95,        *)
(* init.c:416-520).                                                        *)
Fits(d) ==
  /\ Len(Tokens(d)) <= LineSize
  /\ Len(d.argv) <= MaxArgs /\ Len(d.env) <= MaxEnv
  /\ \A i \in DOMAIN Tokens(d) : Tokens(d)[i].value # "long"
Command(d) ==
  IF d.ownLine THEN DefaultCommand
  ELSE [argv |-> Interactive(d.argv), env |-> NonEmpty(d.env, DefaultEnv),
        cwd |-> d.cwd, uid |-> d.uid, gid |-> d.gid]
RunsTheCommand ==
  (failures = 0 /\ Fits(config)) => ran \subseteq {Command(config)}
=============================================================================
