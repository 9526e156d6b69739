----------------------------- MODULE LinuxInit -----------------------------
(***************************************************************************)
(* The first program of Linux: rootinit.c assembles the overlay root of a  *)
(* development boot, init.c mounts the other file systems, opens the       *)
(* console, starts the command of the session on a pseudo terminal and     *)
(* relays it (PtyRelay).  The command travels on the kernel command line,  *)
(* from the descriptor of the environment (OrlixEnvironment.swift) through *)
(* a kernel that cuts it (setup.c) to selected_command_config.             *)
(***************************************************************************)
EXTENDS PtyRelay

CONSTANTS Attempts,     \* of wait_for_path
          MaxFailures,  \* bound: steps that fail in one behaviour
          LineSize,     \* COMMAND_LINE_SIZE, in tokens
          MaxArgs,      \* ORLIX_INIT_MAX_ARGS
          MaxEnv,       \* ORLIX_INIT_MAX_ENV
          Descriptors,  \* the commands of the sessions
          Typical,      \* bound: the only one whose terminal is used
          Programs      \* the files that can be executed

ASSUME InitAssumption ==
  /\ {Attempts, LineSize, MaxArgs, MaxEnv} \subseteq Nat \ {0}
  /\ MaxFailures \in Nat /\ Typical \in Descriptors

(* The name of the program comes first in its arguments; a descriptor      *)
(* without a command is refused (OrlixEnvironment.swift:558).  "ownLine":  *)
(* its command line is given by the caller and says nothing of a command.  *)
Descriptor == [argv : Seq(STRING), env : Seq(STRING), cwd : STRING, uid : STRING,
               gid : STRING, ownLine : BOOLEAN]
ASSUME DescriptorAssumption == \A d \in Descriptors : d \in Descriptor /\ d.argv # <<>>

VARIABLES boot,      \* what PID 1 is doing
          step,      \* how far it is in its list of mounts
          attempts,  \* of wait_for_path
          disks,     \* the block devices that Linux has found
          mounts,    \* where file systems are mounted, in order
          failures,
          config,    \* the command of the session
          ran        \* what the child of init executed

bootVars == <<boot, step, attempts, disks, mounts, failures, config, ran>>
allVars == <<bootVars, vars>>

-----------------------------------------------------------------------------
(* The command: the tokens that Swift writes, the line that the kernel     *)
(* keeps, and what init reads from it.  "cut" is the beginning of a value, *)
(* "long" one that init does not accept: it has no room for it, or cannot  *)
(* decode it, or it is no path, assignment or number.                      *)
Token(k, i, v) == [key |-> k, index |-> i, value |-> v]
Tokens(d) ==
  IF d.ownLine THEN <<>> ELSE
     <<Token("exec", 0, d.argv[1])>>
  \o [i \in DOMAIN d.argv |-> Token("argv", i, d.argv[i])]
  \o [i \in DOMAIN d.env |-> Token("env", i, d.env[i])]
  \o <<Token("cwd", 0, d.cwd), Token("uid", 0, d.uid), Token("gid", 0, d.gid)>>

Lines(d) ==
  IF Len(Tokens(d)) <= LineSize THEN {Tokens(d)}
  ELSE LET kept == Take(Tokens(d), LineSize - 1)
       IN {kept, Append(kept, [Tokens(d)[LineSize] EXCEPT !.value = "cut"])}

(* read_cmdline_value: the token with the key, if its value is accepted.   *)
Given(line, k, i) == {t \in {line[j] : j \in DOMAIN line} :
                        t.key = k /\ t.index = i /\ t.value # "long"}
Has(line, k, i) == Given(line, k, i) # {}
Value(line, k, i) == (CHOOSE t \in Given(line, k, i) : TRUE).value
ValueOr(line, k, v) == IF Has(line, k, 0) THEN Value(line, k, 0) ELSE v

(* The values at the indices 1, 2, ... until the first one that is missing. *)
ListLength_Mutant(line, k, max) ==
  CHOOSE n \in 0..max : /\ \A i \in 1..n : Has(line, k, i)
                        /\ n = max - 1 \/ ~Has(line, k, n + 1)
ListLength(line, k, max) ==
  CHOOSE n \in 0..max : /\ \A i \in 1..n : Has(line, k, i)
                        /\ n = max \/ ~Has(line, k, n + 1)
List(line, k, max) == [i \in 1..ListLength(line, k, max) |-> Value(line, k, i)]

ShellCommand == <<"/bin/sh", "-i">>
DefaultEnv == <<"HOME", "PATH", "TERM">>
DefaultCommand == [argv |-> ShellCommand, env |-> DefaultEnv, cwd |-> "/",
                   uid |-> "0", gid |-> "0"]

Interactive(argv) == IF argv = <<"/bin/sh">> THEN ShellCommand ELSE argv
NonEmpty(list, default) == IF list = <<>> THEN default ELSE list

(* selected_command_config.                                                *)
SelectedCommandConfig(line) ==
  IF ~Has(line, "exec", 0) THEN DefaultCommand
  ELSE [argv |-> Interactive(NonEmpty(List(line, "argv", MaxArgs),
                                    <<Value(line, "exec", 0)>>)),
        env |-> NonEmpty(List(line, "env", MaxEnv), DefaultEnv),
        cwd |-> ValueOr(line, "cwd", "/"),
        uid |-> ValueOr(line, "uid", "0"),
        gid |-> ValueOr(line, "gid", "0")]

-----------------------------------------------------------------------------
(* rootinit.c: every step is needed, and if one fails PID 1 returns and    *)
(* Linux panics.                                                           *)
RootMounts == <<"/dev", "/proc", "/sys", "/lower", "/state", "/newroot",
                "/newroot/dev", "/newroot/proc", "/newroot/sys">>
BeforeDisks == 3

Fails == failures < MaxFailures /\ failures' = failures + 1

RootMount ==
  /\ boot = "rootinit" /\ step <= Len(RootMounts)
  /\ mounts' = Append(mounts, RootMounts[step])
  /\ step' = step + 1
  /\ boot' = IF step = BeforeDisks THEN "vda" ELSE boot
  /\ UNCHANGED <<attempts, disks, failures, config, ran, vars>>

NextAttempt_Mutant == IF attempts + 1 < Attempts THEN attempts + 1 ELSE attempts
NextAttempt == attempts + 1

WaitForPath ==
  /\ boot \in {"vda", "vdb"}
  /\ IF boot \in disks
     THEN attempts' = 0 /\ boot' = IF boot = "vda" THEN "vdb" ELSE "rootinit"
     ELSE /\ attempts' = NextAttempt
          /\ boot' = IF attempts' = Attempts THEN "panic" ELSE boot
  /\ UNCHANGED <<step, disks, mounts, failures, config, ran, vars>>

(* switch_to_new_root hides what rootinit mounted on the old root.         *)
SwitchRoot ==
  /\ boot = "rootinit" /\ step > Len(RootMounts)
  /\ mounts' = <<"/", "/dev", "/proc", "/sys">>
  /\ boot' = "init" /\ step' = 1
  /\ UNCHANGED <<attempts, disks, failures, config, ran, vars>>

RootFails ==
  /\ boot = "rootinit" /\ Fails
  /\ boot' \in IF step > Len(RootMounts) THEN {"panic", "paused"} ELSE {"panic"}
  /\ UNCHANGED <<step, attempts, disks, mounts, config, ran, vars>>

DiskFound ==
  /\ boot \in {"rootinit", "vda", "vdb"}
  /\ \E d \in {"vda", "vdb"} \ disks : disks' = disks \cup {d}
  /\ UNCHANGED <<boot, step, attempts, mounts, failures, config, ran, vars>>

-----------------------------------------------------------------------------
(* main of init.c: a mount that fails is reported and left out, and one    *)
(* that is there already (EBUSY) is as good.                               *)
InitMounts_Mutant ==
  <<"/dev", "/proc", "/sys", "/sys/fs/cgroup", "/dev/pts", "/dev", "/dev/shm",
    "/run", "/tmp", "/sys/fs/selinux">>
InitMounts ==
  <<"/dev", "/proc", "/sys", "/sys/fs/cgroup", "/dev", "/dev/pts", "/dev/shm",
    "/run", "/tmp", "/sys/fs/selinux">>

Mounted == {mounts[i] : i \in DOMAIN mounts}
Places == {"/"} \cup {RootMounts[i] : i \in DOMAIN RootMounts}
                \cup {InitMounts[i] : i \in DOMAIN InitMounts}

AfterMount == /\ step' = step + 1
              /\ boot' = CASE step = 1 -> "console"
                           [] step = Len(InitMounts) -> "pty"
                           [] OTHER -> boot

MountIfNeeded ==
  /\ boot = "init" /\ AfterMount
  /\ mounts' = IF InitMounts[step] \in Mounted THEN mounts
               ELSE Append(mounts, InitMounts[step])
  /\ UNCHANGED <<attempts, disks, failures, config, ran, vars>>

MountFails ==
  /\ boot = "init" /\ AfterMount
  /\ InitMounts[step] \notin Mounted /\ Fails
  /\ UNCHANGED <<attempts, disks, mounts, config, ran, vars>>

OpenControllingTty ==
  /\ boot = "console"
  /\ \/ boot' = "init" /\ UNCHANGED failures
     \/ boot' = "panic" /\ Fails
  /\ UNCHANGED <<step, attempts, disks, mounts, config, ran, vars>>

(* run_pty_shell: the pseudo terminal comes from devpts.                   *)
RunPtyShell ==
  /\ boot = "pty" /\ "/dev/pts" \in Mounted
  /\ boot' = "relay"
  /\ StartRelay
  /\ UNCHANGED <<step, attempts, disks, mounts, failures, config, ran>>

NoPtyShell ==
  /\ boot = "pty"
  /\ IF "/dev/pts" \in Mounted THEN Fails ELSE UNCHANGED failures
  /\ boot' = "paused"
  /\ UNCHANGED <<step, attempts, disks, mounts, config, ran, vars>>

(* The child of init.  That its directory, group or user does not change   *)
(* is only reported.                                                       *)
Executes ==
  /\ boot = "relay" /\ ShellStarts
  /\ \E line \in Lines(config) :
       LET command == SelectedCommandConfig(line)
       IN /\ command.argv[1] \in Programs
          /\ \/ ran' = {command} /\ UNCHANGED failures
             \/ /\ Fails
                /\ \E w \in {"/", command.cwd}, u \in {"0", command.uid},
                      g \in {"0", command.gid} :
                     ran' = {[command EXCEPT !.cwd = w, !.uid = u, !.gid = g]}
  /\ UNCHANGED <<boot, step, attempts, disks, mounts, config>>

ExecFails ==
  /\ boot = "relay" /\ shell = "starting"
  /\ \E line \in Lines(config) : SelectedCommandConfig(line).argv[1] \notin Programs
  /\ ShellCloses
  /\ UNCHANGED bootVars

(* The relay returns, and init waits for ever.                             *)
RelayEnds ==
  /\ boot = "relay" /\ relay = "done"
  /\ boot' = "paused"
  /\ UNCHANGED <<step, attempts, disks, mounts, failures, config, ran, vars>>

-----------------------------------------------------------------------------
BootTypeOK ==
  /\ boot \in {"rootinit", "vda", "vdb", "init", "console", "pty", "relay",
               "paused", "panic"}
  /\ step \in 1..Len(InitMounts) + 1 /\ attempts \in 0..Attempts
  /\ disks \subseteq {"vda", "vdb"} /\ failures \in 0..MaxFailures
  /\ mounts \in Seq(Places) /\ \A i, j \in DOMAIN mounts : mounts[i] = mounts[j] => i = j
  /\ config \in Descriptors
LinuxTypeOK == TypeOK /\ BootTypeOK

LinuxStart ==
  /\ Init
  /\ \/ boot = "rootinit" /\ mounts = <<>> /\ disks = {}
     \/ boot = "init" /\ mounts = <<"/">> /\ disks = {"vda", "vdb"}
  /\ step = 1 /\ attempts = 0 /\ failures = 0
  /\ config \in Descriptors /\ ran = {}

Boots == \/ RootMount \/ WaitForPath \/ SwitchRoot \/ RootFails
         \/ MountIfNeeded \/ MountFails \/ OpenControllingTty
         \/ RunPtyShell \/ NoPtyShell \/ Executes \/ ExecFails \/ RelayEnds

(* Bound: the terminal is used while no step of the boot has failed only.  *)
Used == failures = 0 /\ config = Typical

(* The driver of the console, until Linux panics.                          *)
Input == boot # "panic" /\ TtyReceives /\ UNCHANGED bootVars

Session == /\ UNCHANGED bootVars
           /\ \/ Relay
              \/ ShellReads \/ ShellWrites \/ ShellCloses \/ ShellDies \/ ChildCloses
              \/ Used /\ (Type \/ ShellPrints \/ ShellForks)

LinuxNext == Boots \/ DiskFound \/ Input \/ Session

LinuxSpec == /\ LinuxStart /\ [][LinuxNext]_allVars
             /\ WF_allVars(Boots) /\ WF_allVars(Input) /\ RelayFairness
=============================================================================
