----------------------------- MODULE UserCalls -----------------------------
(***************************************************************************)
(* A task between its system calls and its signal handlers: how a call     *)
(* that was interrupted ends (orlix_do_signal_or_restart), what a handler  *)
(* interrupts and its return restores (signal.c, syscall.c), and the clock *)
(* events that are polled on the way (hosted_exec.c, idle.c).              *)
(*                                                                         *)
(* The program calls at 0 and computes at 1; a handler calls at 2,         *)
(* computes at 3 and ends at 4, where the restorer calls rt_sigreturn.  A  *)
(* call is a BRK, with its number in x8 and its argument in x0, or a       *)
(* branch to the gate, with its number in x0 and its argument in x1.       *)
(*                                                                         *)
(* Operators whose names end in _Mutant are not part of the model: each is *)
(* a plausible bug in the definition that follows it.                      *)
(***************************************************************************)
EXTENDS ClockEvents, Sequences

CONSTANTS Sig,
          SaRestart,   \* the signals whose handlers have SA_RESTART
          Masks,       \* the signal masks that the program sets
          Segv,        \* SIGSEGV, if the program handles it
          UserValue,   \* what x0 can hold while the program computes
          Gates,       \* where the program calls through the gate
          LongResult,  \* 64 bit results whose low half is a restart code,
          Low,         \* namely this one
          MaxFrames    \* the signal frames that the user stack holds

NoMask == {"none"}
RestartCode == {"ERESTARTNOHAND", "ERESTARTSYS", "ERESTARTNOINTR",
                "ERESTART_RESTARTBLOCK"}
ASSUME CallAssumption ==
  /\ SaRestart \subseteq Sig /\ Masks \subseteq SUBSET Sig /\ MaxFrames \in Nat
  /\ NoMask \notin SUBSET Sig
  /\ Gates \subseteq {0, 2}
ASSUME ResultAssumption ==
  /\ Low \in [LongResult -> RestartCode]
  /\ \A r \in LongResult : r \notin RestartCode \cup {"ok", "EINTR", "none"}

ReturnValue == RestartCode \cup LongResult \cup {"ok", "EINTR"}

VARIABLES
  mode,         \* "user", or how far the kernel is
  regs,         \* pt_regs: pc, x0, x8 (nr), orig_x0 and whether in_syscall
  frames,       \* the rt_sigframes on the user stack
  blocked,      \* current->blocked
  savedMask,    \* current->saved_sigmask, or NoMask: no TIF_RESTORE_SIGMASK
  pending,      \* signals sent and not delivered
  work,         \* TIF_NEED_RESCHED and TIF_NOTIFY_RESUME
  block         \* of the proof: the depth of the call whose remainder
                \* restart_block runs, or -1 (do_no_restart_syscall)

maskVars == <<blocked, savedMask>>
callVars == <<mode, regs, frames, maskVars, pending, work, block>>
vars == <<callVars, clockVars>>

Mode == {"user", "call", "blocked", "woken", "poll", "resched", "signal", "resume"}
RestoreMask == savedMask # NoMask
Deliverable == pending \ blocked
Depth == Len(frames)

Value == UserValue \cup ReturnValue \cup Sig \cup {"arg", "number"}
Regs == [pc : 0..5, x0 : Value, nr : {"work", "restart", "sigreturn"}, orig : Value,
         sys : BOOLEAN]
SigFrame == [pc : 0..4, x0 : Value, nr : {"work", "restart", "sigreturn"},
             mask : SUBSET Sig]

TypeOK ==
  /\ ClockTypeOK
  /\ mode \in Mode
  /\ regs \in Regs
  /\ frames \in Seq(SigFrame) /\ Depth <= MaxFrames
  /\ blocked \subseteq Sig /\ savedMask \in (SUBSET Sig) \cup {NoMask}
  /\ pending \subseteq Sig /\ work \subseteq {"resched", "notify"}
  /\ block \in -1..MaxFrames

FirstRegs == [pc |-> 1, x0 |-> "arg", nr |-> "work", orig |-> "arg", sys |-> FALSE]

Init ==
  /\ mode = "user" /\ regs = FirstRegs /\ frames = <<>>
  /\ blocked = {} /\ savedMask = NoMask
  /\ pending = {} /\ work = {} /\ block = -1
  /\ ClockInit

-----------------------------------------------------------------------------
(* The program and its handlers.                                           *)
Compute ==
  /\ mode = "user" /\ regs.pc \in {1, 3}
  /\ \E v \in UserValue : regs' = [regs EXCEPT !.x0 = v]
  /\ UNCHANGED <<mode, frames, maskVars, pending, work, block, clockVars>>

GoToCall ==
  /\ mode = "user" /\ regs.pc \in {1, 3}
  /\ regs' = [regs EXCEPT !.pc = @ - 1, !.nr = "work",
                          !.x0 = IF regs.pc - 1 \in Gates THEN "number" ELSE "arg"]
  /\ UNCHANGED <<mode, frames, maskVars, pending, work, block, clockVars>>

HandlerReturns ==
  /\ mode = "user" /\ regs.pc = 3
  /\ regs' = [regs EXCEPT !.pc = 4, !.x0 = "arg", !.nr = "sigreturn"]
  /\ UNCHANGED <<mode, frames, maskVars, pending, work, block, clockVars>>

(* orlix_hosted_user_trap_entry, a system call, and                        *)
(* orlix_hosted_syscall_dispatch, which takes the number from x0 and puts  *)
(* the argument there; what x0 holds at a call that is made again is the   *)
(* number of some other call, which is taken to be one of those below.     *)
ByBrk == [regs EXCEPT !.pc = @ + 1, !.orig = regs.x0, !.sys = TRUE]
ByGate == [regs EXCEPT !.pc = @ + 1, !.x0 = "arg", !.orig = "arg", !.nr = "work", !.sys = TRUE]

TrapSyscall ==
  /\ mode = "user" /\ regs.pc \in {0, 2, 4}
  /\ regs' = IF regs.pc \in Gates THEN ByGate ELSE ByBrk
  /\ mode' = "call"
  /\ UNCHANGED <<frames, maskVars, pending, work, block, clockVars>>

(* The timer of the host, and a fault, which ends without a poll.          *)
TrapTimer ==
  /\ mode = "user"
  /\ mode' = "poll"
  /\ UNCHANGED <<regs, frames, maskVars, pending, work, block, clockVars>>

TrapFault ==
  /\ mode = "user"
  /\ mode' = "resched"
  /\ UNCHANGED <<regs, frames, maskVars, pending, work, block, clockVars>>

-----------------------------------------------------------------------------
(* The system calls of Linux.  syscall_set_return_value puts the value in  *)
(* x0, and the clock is polled next.                                       *)
Executes == /\ mode = "call"
            /\ regs.nr = "work" \/ (regs.nr = "restart" /\ block # -1)
Answer(v) == regs' = [regs EXCEPT !.x0 = v] /\ mode' = "poll"

(* A call ends; it may have sent signals to its own task, or have made     *)
(* work for the return to the user.                                        *)
CallReturns ==
  /\ Executes
  /\ \E v \in LongResult \cup {"ok"} : Answer(v)
  /\ \E sent \in SUBSET Sig : pending' = pending \cup sent
  /\ \E w \in SUBSET {"resched", "notify"} : work' = work \cup w
  /\ UNCHANGED <<frames, maskVars, block, clockVars>>

SetMask ==
  /\ mode = "call" /\ regs.nr = "work"
  /\ Answer("ok")
  /\ \E m \in Masks : blocked' = m
  /\ UNCHANGED <<frames, savedMask, pending, work, block, clockVars>>

(* A call that waits, until a deadline or for ever.                        *)
CallSleeps ==
  /\ Executes
  /\ mode' = "blocked"
  /\ SetNextEvent(Period)
  /\ UNCHANGED <<regs, frames, maskVars, pending, work, block>>

(* rt_sigsuspend waits with another mask, which the return takes back.     *)
CallSuspends ==
  /\ mode = "call" /\ regs.nr = "work"
  /\ \E m \in Masks : blocked' = m
  /\ savedMask' = blocked
  /\ mode' = "blocked"
  /\ UNCHANGED <<regs, frames, pending, work, block, clockVars>>

Wakes ==
  /\ mode = "blocked"
  /\ Deliverable # {}
  /\ \E c \in IF RestoreMask THEN {"ERESTARTNOHAND"} ELSE RestartCode :
       /\ Answer(c)
       /\ block' = IF c = "ERESTART_RESTARTBLOCK" THEN Depth ELSE block
  /\ UNCHANGED <<frames, maskVars, pending, work, clockVars>>

SleepEnds ==
  /\ mode = "woken"
  /\ Answer("ok")
  /\ UNCHANGED <<frames, maskVars, pending, work, block, clockVars>>

(* restart_syscall after a signal handler: do_no_restart_syscall.          *)
NoRestart ==
  /\ mode = "call" /\ regs.nr = "restart" /\ block = -1
  /\ Answer("EINTR")
  /\ UNCHANGED <<frames, maskVars, pending, work, block, clockVars>>

(* rt_sigreturn.                                                           *)
Restored_Mutant(f) == [pc |-> f.pc, x0 |-> f.x0, nr |-> f.nr, orig |-> regs.orig, sys |-> TRUE]
Restored(f) == [pc |-> f.pc, x0 |-> f.x0, nr |-> f.nr, orig |-> regs.orig, sys |-> FALSE]

NoRestartBlock_Mutant == block
NoRestartBlock == -1

Sigreturn ==
  /\ mode = "call" /\ regs.nr = "sigreturn"
  /\ LET f == frames[Depth]
     IN /\ regs' = Restored(f)
        /\ blocked' = f.mask
  /\ frames' = SubSeq(frames, 1, Depth - 1)
  /\ block' = NoRestartBlock
  /\ mode' = "poll"
  /\ UNCHANGED <<savedMask, pending, work, clockVars>>

-----------------------------------------------------------------------------
(* orlix_timer_poll.  The handler of Linux may wake the task that sleeps,  *)
(* send it a signal, ask for another task and set the next event.          *)
Expire ==
  /\ Due
  /\ Advance \/ SetNextEvent(Period) \/ SetPeriodic
  /\ \E sent \in SUBSET Sig : pending' = pending \cup sent
  /\ \E w \in SUBSET {"resched"} : work' = work \cup w

Poll ==
  /\ mode = "poll"
  /\ mode' = "resched"
  /\ IF Due THEN Expire ELSE UNCHANGED <<pending, work, clockVars>>
  /\ UNCHANGED <<regs, frames, maskVars, block>>

(* arch_cpu_idle, while the task waits: poll, sleep, poll.                 *)
IdlePoll ==
  /\ mode = "blocked"
  /\ Expire
  /\ mode' = IF RestoreMask THEN "blocked" ELSE "woken"
  /\ UNCHANGED <<regs, frames, maskVars, block>>

IdleSleep ==
  /\ mode = "blocked" /\ ~Due
  /\ SleepToDeadline
  /\ UNCHANGED callVars

(* Other tasks send signals, and other threads of the program take them.   *)
OtherTasks ==
  /\ \E p \in SUBSET Sig : pending' = p
  /\ \E w \in SUBSET {"notify"} : work' = (work \ {"resched"}) \cup w

OthersRun ==
  /\ mode = "blocked"
  /\ OtherTasks
  /\ UNCHANGED <<mode, regs, frames, maskVars, block, clockVars>>

-----------------------------------------------------------------------------
(* orlix_exit_to_user_mode_work, three steps that are repeated.            *)
Reschedule ==
  /\ mode = "resched"
  /\ mode' = "signal"
  /\ IF "resched" \in work THEN OtherTasks ELSE UNCHANGED <<pending, work>>
  /\ UNCHANGED <<regs, frames, maskVars, block, clockVars>>

SignalWork_Mutant == mode = "signal" /\ (regs.sys \/ RestoreMask)
SignalWork == mode = "signal" /\ (regs.sys \/ Deliverable # {} \/ RestoreMask)

(* orlix_do_signal_or_restart: what the call returned, as an int, and the  *)
(* registers that make the call again.                                     *)
AsInt(v) == IF v \in LongResult THEN Low[v] ELSE v
Restarts == regs.sys /\ AsInt(regs.x0) \in RestartCode
Rewound == IF Restarts
           THEN [regs EXCEPT !.sys = FALSE, !.x0 = regs.orig, !.pc = @ - 1]
           ELSE [regs EXCEPT !.sys = FALSE]

(* Whether the handler of a signal ends the call.                          *)
Ends(s) == /\ Restarts
           /\ \/ AsInt(regs.x0) \in {"ERESTARTNOHAND", "ERESTART_RESTARTBLOCK"}
              \/ (AsInt(regs.x0) = "ERESTARTSYS" /\ s \notin SaRestart)

Interrupted(s) == IF Ends(s) THEN [regs EXCEPT !.sys = FALSE, !.x0 = "EINTR"]
                  ELSE Rewound

(* handle_signal: sigmask_to_save, setup_rt_frame, signal_setup_done.      *)
MaskToSave_Mutant2 == savedMask
MaskToSave == IF RestoreMask THEN savedMask ELSE blocked

DeliverSignal(s) ==
  /\ SignalWork
  /\ s \in Deliverable /\ Depth < MaxFrames
  /\ pending' = pending \ {s}
  /\ LET r == Interrupted(s)
     IN /\ frames' = Append(frames, [pc |-> r.pc, x0 |-> r.x0, nr |-> r.nr,
                                     mask |-> MaskToSave])
        /\ regs' = [r EXCEPT !.pc = 3, !.x0 = s]
  /\ blocked' = blocked \cup {s}
  /\ savedMask' = NoMask
  /\ mode' = "resume"
  /\ UNCHANGED <<work, block, clockVars>>

(* The program ends, and another is started in its place.                  *)
ProgramEnds ==
  /\ mode' = "user" /\ regs' = FirstRegs /\ frames' = <<>>
  /\ blocked' = {} /\ savedMask' = NoMask
  /\ pending' = {} /\ work' = {} /\ block' = -1
  /\ UNCHANGED clockVars

(* The frame cannot be written, or it has no restorer: signal_setup_done   *)
(* forces SIGSEGV, which ends the program or is delivered next.            *)
SetupFails(s) ==
  /\ SignalWork
  /\ s \in Deliverable
  /\ ProgramEnds

SetupFaults(s) ==
  /\ SignalWork
  /\ s \in Deliverable \ {Segv} /\ Segv \in Sig \ blocked
  /\ pending' = (pending \ {s}) \cup {Segv}
  /\ regs' = Interrupted(s)
  /\ mode' = "resume"
  /\ UNCHANGED <<frames, maskVars, work, block, clockVars>>

(* rt_sigreturn finds a frame that was overwritten.  The signal that it    *)
(* forces is taken to end the program, which has nothing to return to.     *)
BadFrame ==
  /\ mode = "call" /\ regs.nr = "sigreturn"
  /\ ProgramEnds

(* No signal after all: the call is made again, or a part of it.           *)
NoSignal ==
  /\ SignalWork
  /\ Deliverable = {}
  /\ regs' = IF Restarts /\ AsInt(regs.x0) = "ERESTART_RESTARTBLOCK"
             THEN [Rewound EXCEPT !.nr = "restart"] ELSE Rewound
  /\ blocked' = IF RestoreMask THEN savedMask ELSE blocked
  /\ savedMask' = NoMask
  /\ mode' = "resume"
  /\ UNCHANGED <<frames, pending, work, block, clockVars>>

NoSignalWork ==
  /\ mode = "signal" /\ ~SignalWork
  /\ mode' = "resume"
  /\ UNCHANGED <<regs, frames, maskVars, pending, work, block, clockVars>>

(* resume_user_mode_work runs the work of others, who may send a signal.   *)
ResumeWork ==
  /\ mode = "resume"
  /\ "notify" \in work
  /\ work' = work \ {"notify"}
  /\ \E sent \in SUBSET Sig : pending' = pending \cup sent
  /\ mode' = "resched"
  /\ UNCHANGED <<regs, frames, maskVars, block, clockVars>>

UserWorkPending == work # {} \/ Deliverable # {} \/ RestoreMask

Again ==
  /\ mode = "resume" /\ "notify" \notin work
  /\ UserWorkPending
  /\ mode' = "resched"
  /\ UNCHANGED <<regs, frames, maskVars, pending, work, block, clockVars>>

EnterUser ==
  /\ mode = "resume" /\ "notify" \notin work
  /\ ~UserWorkPending
  /\ mode' = "user"
  /\ regs' = [regs EXCEPT !.sys = FALSE]
  /\ UNCHANGED <<frames, maskVars, pending, work, block, clockVars>>

-----------------------------------------------------------------------------
ClockRuns == TimePasses /\ UNCHANGED callVars

Program == Compute \/ GoToCall \/ HandlerReturns \/ TrapSyscall \/ TrapFault
LinuxCall == \/ CallReturns \/ SetMask \/ CallSleeps \/ CallSuspends \/ Wakes
             \/ SleepEnds \/ NoRestart \/ Sigreturn \/ BadFrame
Idle == IdlePoll \/ IdleSleep
ExitWork == \/ Poll \/ Reschedule \/ NoSignal \/ NoSignalWork
            \/ ResumeWork \/ Again \/ EnterUser
            \/ \E s \in Sig : DeliverSignal(s) \/ SetupFails(s) \/ SetupFaults(s)

Next == Program \/ TrapTimer \/ LinuxCall \/ Idle \/ OthersRun \/ ExitWork \/ ClockRuns

Spec == Init /\ [][Next]_vars

(* The kernel runs on, the timer of the host traps the program, the idle   *)
(* loop runs while nothing else does, and time passes.                     *)
Fairness == /\ WF_vars(LinuxCall) /\ WF_vars(ExitWork) /\ SF_vars(TrapTimer)
            /\ WF_vars(Idle) /\ WF_vars(ClockRuns)
FairSpec == Spec /\ Fairness
=============================================================================
