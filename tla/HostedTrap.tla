----------------------------- MODULE HostedTrap -----------------------------
(***************************************************************************)
(* The user trap transport: how the one Darwin thread that runs the Linux  *)
(* kernel enters, traps out of and resumes Linux user code.                *)
(*                                                                         *)
(* Two actors share memory: the hosted thread, which runs user code, the   *)
(* Darwin signal handler, the kernel and the spin loop of                  *)
(* orlix_host_user_trap_resume, and the timer thread                       *)
(* (OrlixHostUserTimerMain), which suspends the hosted thread to load the  *)
(* resume frame into it and sends it the timer signal.                     *)
(*                                                                         *)
(* Operators whose names end in _Mutant are not part of the model: each    *)
(* is a plausible bug in the definition that follows it, which a property  *)
(* must notice.                                                            *)
(***************************************************************************)

CONSTANTS Task,   \* Linux task slots
          Idle,   \* the boot task, a kernel thread that never exits or execs
          Tls,    \* TLS values orlix_hosted_valid_user_tls accepts
          NoTls,  \* TLS value 0
          Host,   \* the hosted Darwin thread's own TLS
          BadTls, \* any other value: unaligned, or outside the aperture
          None

ASSUME IdleAssumption == Idle \in Task /\ None \notin Task
ASSUME TlsAssumption == /\ Tls \cap {NoTls, Host, BadTls} = {}
                        /\ NoTls \notin {Host, BadTls} /\ Host # BadTls
ASSUME TokenAssumption ==
          /\ Task \cap {"ret", "handler", "fresh", "dead"} = {}
          /\ Tls \cap {"unset", "program"} = {}

VARIABLES
  mode,         \* where the hosted thread executes
  cur,          \* current: the task whose kernel stack and mm are in use
  kind,         \* of a task slot: free, kernel thread or user task
  work,         \* of a task: why it is in the kernel
  regs,         \* task_pt_regs(t)
  saved,        \* t->thread.user_tls
  tlsSet,       \* ghost: t's program set a valid TLS, or was cloned with one
  hw,           \* TPIDR_EL0 of the hosted thread
  activeTls,    \* orlix_hosted_active_user_tls
  userActive,   \* orlix_hosted_user_active
  kernelSp,     \* orlix_hosted_kernel_sp, by the task that owns the stack
  ureg,         \* the register file of the hosted thread in user code
  trap,         \* the trap being handled: its number and the TLS it writes
  trapFrame,    \* OrlixHostUserTrapFrame
  resumeFrame,  \* OrlixHostUserResumeFrame
  pending,      \* OrlixHostUserResumePending
  sigPending,   \* the timer signal is pending on the hosted thread
  masked,       \* the hosted thread blocks the timer signal
  ignoring,     \* the hosted thread is in the handler of a timer signal that
                \* interrupted kernel code
  tpc           \* where the timer thread is

taskVars == <<cur, kind, work, regs, saved, tlsSet>>
hostVars == <<activeTls, kernelSp, trapFrame, resumeFrame>>
sigVars  == <<sigPending, masked, ignoring>>
vars == <<mode, cur, kind, work, regs, saved, tlsSet, hw, activeTls,
          userActive, kernelSp, ureg, trap, trapFrame, resumeFrame, pending,
          sigPending, masked, ignoring, tpc>>

-----------------------------------------------------------------------------
(* The content of a register file, by who computed it: a task, a system    *)
(* call result, the entry of a signal handler, a new image.  "dead" marks  *)
(* registers and frames that were consumed: nothing may read them again.   *)
Gpr == Task \cup {"ret", "handler", "fresh"}
AnyGpr == Gpr \cup {"dead"}
AnyTls == Tls \cup {NoTls, Host, BadTls}

(* The hosted thread's registers; x16 stands for x16 and x17.              *)
UserRegs == [gpr : AnyGpr, x16 : Tls \cup {"program"}]
KernelRegs == [gpr |-> "dead", x16 |-> "program"]
Frame == [gpr : AnyGpr, tls : AnyTls]
Consumed == [gpr |-> "dead", tls |-> NoTls]
NoTrap == [no |-> "none", val |-> NoTls]

Mode == {"user",     \* user code
         "tramp",    \* the TLS resume trampoline of the syscall gate page
         "gate",     \* the gate, before it clears user_active
         "trap",     \* OrlixHostUserTrapHandler, for a trap of user code
         "entry",    \* orlix_hosted_user_trap_entry, before it copies the frame
         "kernel",   \* kernel code, on behalf of cur
         "resume",   \* orlix_host_user_trap_resume, frame copied
         "spin",     \* the same, resume published
         "exited"}   \* _exit
Kind == {"free", "kernel", "user"}
Work == {"none",     \* a kernel thread, a free slot
         "new",      \* ret_from_fork: a task that was never in user mode
         "syscall",  \* a system call without result
         "result",   \* a system call with its result in x0
         "return"}   \* on its way to orlix_exit_to_user_mode_work
Resumable == {"new", "result", "return"}
TimerPc == {"off", "top", "asleep", "kill"}

TypeOK ==
  /\ mode \in Mode
  /\ cur \in Task
  /\ kind \in [Task -> Kind]
  /\ work \in [Task -> Work]
  /\ regs \in [Task -> Gpr]
  /\ saved \in [Task -> AnyTls]
  /\ tlsSet \in [Task -> BOOLEAN]
  /\ hw \in AnyTls
  /\ activeTls \in AnyTls
  /\ userActive \in BOOLEAN
  /\ kernelSp \in Task \cup {None}
  /\ ureg \in UserRegs
  /\ trap \in [no : {"none", "timer", "syscall", "fault", "tlswrite"},
               val : AnyTls]
  /\ trapFrame \in Frame
  /\ resumeFrame \in Frame
  /\ pending \in BOOLEAN
  /\ sigPending \in BOOLEAN
  /\ masked \in BOOLEAN
  /\ ignoring \in BOOLEAN
  /\ tpc \in TimerPc

Init ==
  /\ mode = "kernel"
  /\ cur = Idle
  /\ kind = [t \in Task |-> IF t = Idle THEN "kernel" ELSE "free"]
  /\ work = [t \in Task |-> "none"]
  /\ regs = [t \in Task |-> "fresh"]
  /\ saved = [t \in Task |-> NoTls]
  /\ tlsSet = [t \in Task |-> FALSE]
  /\ hw = Host
  /\ activeTls = NoTls
  /\ userActive = FALSE
  /\ kernelSp = None
  /\ ureg = KernelRegs
  /\ trap = NoTrap
  /\ trapFrame = Consumed
  /\ resumeFrame = Consumed
  /\ pending = FALSE
  /\ sigPending = FALSE
  /\ masked = FALSE
  /\ ignoring = FALSE
  /\ tpc = "off"

-----------------------------------------------------------------------------
(* A TLS value is used only if it lies in the user aperture.               *)
ValidUserTls_Mutant(v) == v # NoTls
ValidUserTls(v) == v \in Tls

(*                              User code                                  *)

(* The hosted thread runs what its program counter says, unless a signal   *)
(* handler sits on top of it.                                              *)
At(m) == mode = m /\ ~ignoring

UserStep == /\ At("user")
            /\ ureg' = [gpr |-> cur, x16 |-> "program"]
            /\ UNCHANGED <<mode, taskVars, hw, userActive, trap, hostVars,
                           pending, sigVars, tpc>>

(* A syscall BRK, a TLS write BRK or a fault: Darwin delivers SIGTRAP,     *)
(* SIGBUS or SIGSEGV to the handler.                                       *)
UserTrap(no, val) ==
  /\ At("user")
  /\ mode' = "trap"
  /\ trap' = [no |-> no, val |-> val]
  /\ tlsSet' = [tlsSet EXCEPT ![cur] = @ \/ (no = "tlswrite" /\ val \in Tls)]
  /\ UNCHANGED <<cur, kind, work, regs, saved, hw, userActive, hostVars, ureg,
                 pending, sigVars, tpc>>

SyscallTrap  == UserTrap("syscall", NoTls)
FaultTrap    == UserTrap("fault", NoTls)
TlsWriteTrap == \E v \in AnyTls : UserTrap("tlswrite", v)

(* A load through a lost TLS pointer: the handler repairs the register and *)
(* TPIDR_EL0 and returns to the load.                                      *)
RepairUserTlsLoad ==
  /\ At("user")
  /\ ValidUserTls(activeTls)
  /\ hw # activeTls
  /\ hw' = activeTls
  /\ UNCHANGED <<mode, taskVars, userActive, ureg, trap, hostVars, pending,
                 sigVars, tpc>>

(* User code branches to the syscall gate.                                 *)
EnterGate == /\ At("user")
             /\ mode' = "gate"
             /\ UNCHANGED <<taskVars, hw, userActive, ureg, trap, hostVars,
                            pending, sigVars, tpc>>

(* Darwin may lose the user value of TPIDR_EL0 at any time (signal frames  *)
(* do not carry it).                                                       *)
LoseUserTls == /\ mode # "exited"
               /\ hw # Host
               /\ hw' = Host
               /\ UNCHANGED <<mode, taskVars, userActive, ureg, trap,
                              hostVars, pending, sigVars, tpc>>

-----------------------------------------------------------------------------
(*                    Kernel entry: handler and gate                       *)

(* The TLS the handler attributes to the interrupted user code.            *)
CurrentTls_Mutant == hw
CurrentTls == IF ValidUserTls(hw) THEN hw
              ELSE IF (hw = Host \/ userActive) /\ ValidUserTls(activeTls)
                   THEN activeTls
                   ELSE hw

(* The handler switches to host TLS, clears user_active, saves the frame   *)
(* and returns from the signal into the kernel entry point.  Returning     *)
(* restores the signal mask of the interrupted code, in which a timer      *)
(* signal that was delivered was not blocked.                              *)
TrapHandler ==
  /\ At("trap")
  /\ kernelSp # None
  /\ mode' = "entry"
  /\ ureg' = KernelRegs
  /\ trapFrame' = [gpr |-> ureg.gpr,
                   tls |-> IF trap.no = "tlswrite" THEN trap.val
                                                   ELSE CurrentTls]
  /\ hw' = Host
  /\ userActive' = FALSE
  /\ masked' = IF trap.no = "timer" THEN FALSE ELSE masked
  /\ UNCHANGED <<taskVars, activeTls, kernelSp, resumeFrame, trap, pending,
                 sigPending, ignoring, tpc>>

(* orlix_hosted_user_trap_entry copies the frame into task_pt_regs(current)*)
(* and, when it is valid, the TLS into the task.                           *)
TrapEntry_Mutant ==
  /\ At("entry")
  /\ mode' = "kernel"
  /\ regs' = [regs EXCEPT ![cur] = trapFrame.gpr]
  /\ saved' = [saved EXCEPT ![cur] =
                 IF trapFrame.tls # NoTls THEN trapFrame.tls ELSE @]
  /\ activeTls' = IF trap.no = "tlswrite" /\ ValidUserTls(trapFrame.tls)
                  THEN trapFrame.tls ELSE activeTls
  /\ work' = [work EXCEPT ![cur] = IF trap.no = "syscall" THEN "syscall"
                                                          ELSE "return"]
  /\ trap' = NoTrap
  /\ trapFrame' = Consumed
  /\ UNCHANGED <<cur, kind, tlsSet, hw, userActive, kernelSp, ureg,
                 resumeFrame, pending, sigVars, tpc>>

TrapEntry ==
  /\ At("entry")
  /\ mode' = "kernel"
  /\ regs' = [regs EXCEPT ![cur] = trapFrame.gpr]
  /\ saved' = [saved EXCEPT ![cur] =
                 IF ValidUserTls(trapFrame.tls) THEN trapFrame.tls ELSE @]
  /\ activeTls' = IF trap.no = "tlswrite" /\ ValidUserTls(trapFrame.tls)
                  THEN trapFrame.tls ELSE activeTls
  /\ work' = [work EXCEPT ![cur] = IF trap.no = "syscall" THEN "syscall"
                                                          ELSE "return"]
  /\ trap' = NoTrap
  /\ trapFrame' = Consumed
  /\ UNCHANGED <<cur, kind, tlsSet, hw, userActive, kernelSp, ureg,
                 resumeFrame, pending, sigVars, tpc>>

(* The gate clears user_active, then hands the registers and TPIDR_EL0 to  *)
(* orlix_hosted_syscall_dispatch.                                          *)
GateEntry ==
  /\ At("gate")
  /\ kernelSp # None
  /\ mode' = "kernel"
  /\ userActive' = FALSE
  /\ ureg' = KernelRegs
  /\ regs' = [regs EXCEPT ![cur] = ureg.gpr]
  /\ saved' = [saved EXCEPT ![cur] = IF ValidUserTls(hw) THEN hw ELSE @]
  /\ activeTls' = IF ValidUserTls(hw) THEN hw ELSE activeTls
  /\ work' = [work EXCEPT ![cur] = "syscall"]
  /\ UNCHANGED <<cur, kind, tlsSet, hw, kernelSp, trap, trapFrame, resumeFrame,
                 pending, sigVars, tpc>>

-----------------------------------------------------------------------------
(*                               The kernel                                *)

InKernel == At("kernel")
kernelUnchanged == <<mode, userActive, kernelSp, ureg, trap, trapFrame,
                     resumeFrame, pending, sigVars, tpc>>

(* orlix_hosted_restore_task_user_tls: a task without an mm restores none. *)
RestoreUserTls_Mutant(n, value, active) ==
  activeTls' = (IF kind[n] = "user" THEN value ELSE active) /\ UNCHANGED hw
RestoreUserTls(n, value, active) ==
  IF kind[n] = "user" THEN activeTls' = value /\ hw' = value
                      ELSE activeTls' = active /\ UNCHANGED hw

(* schedule() and __switch_to: what is in TPIDR_EL0, if it is valid, is    *)
(* taken for the TLS of the user task that leaves.                         *)
SwitchTo(n) ==
  /\ InKernel
  /\ n # cur
  /\ kind[n] \in {"user", "kernel"}
  /\ IF kind[cur] = "user" /\ ValidUserTls(hw)
     THEN saved' = [saved EXCEPT ![cur] = hw] /\ RestoreUserTls(n, saved[n], hw)
     ELSE UNCHANGED saved /\ RestoreUserTls(n, saved[n], activeTls)
  /\ cur' = n
  /\ UNCHANGED <<kind, work, regs, tlsSet, kernelUnchanged>>

(* do_exit: the mm is gone when the task is switched out for good; its     *)
(* slot can be used by a new task.                                         *)
ExitTo(n) ==
  /\ InKernel
  /\ cur # Idle
  /\ n # cur
  /\ kind[n] \in {"user", "kernel"}
  /\ kind' = [kind EXCEPT ![cur] = "free"]
  /\ work' = [work EXCEPT ![cur] = "none"]
  /\ regs' = [regs EXCEPT ![cur] = "fresh"]
  /\ tlsSet' = [tlsSet EXCEPT ![cur] = FALSE]
  /\ saved' = [saved EXCEPT ![cur] = NoTls]
  /\ RestoreUserTls(n, saved[n], activeTls)
  /\ cur' = n
  /\ UNCHANGED kernelUnchanged

(* orlix_syscall_dispatch, to the result in x0.                            *)
SyscallDispatch ==
  /\ InKernel
  /\ work[cur] = "syscall"
  /\ regs' = [regs EXCEPT ![cur] = "ret"]
  /\ work' = [work EXCEPT ![cur] = "result"]
  /\ UNCHANGED <<cur, kind, saved, tlsSet, hw, activeTls, kernelUnchanged>>

(* copy_thread of a user task, with or without CLONE_SETTLS, whose value   *)
(* is stored as the program gave it.                                       *)
Clone(c, settls, v) ==
  /\ InKernel
  /\ work[cur] = "syscall"
  /\ kind[c] = "free"
  /\ kind' = [kind EXCEPT ![c] = "user"]
  /\ work' = [work EXCEPT ![c] = "new"]
  /\ regs' = [regs EXCEPT ![c] = "ret"]
  /\ saved' = [saved EXCEPT ![c] = IF settls THEN v ELSE saved[cur]]
  /\ tlsSet' = [tlsSet EXCEPT ![c] = IF settls THEN v \in Tls ELSE tlsSet[cur]]
  /\ UNCHANGED <<cur, hw, activeTls, kernelUnchanged>>

(* copy_thread of a kernel thread.                                         *)
KernelThread(c) ==
  /\ InKernel
  /\ kind[cur] = "kernel"
  /\ kind[c] = "free"
  /\ kind' = [kind EXCEPT ![c] = "kernel"]
  /\ regs' = [regs EXCEPT ![c] = "fresh"]
  /\ saved' = [saved EXCEPT ![c] = NoTls]
  /\ UNCHANGED <<cur, work, tlsSet, hw, activeTls, kernelUnchanged>>

(* flush_thread and start_thread, by execve of a user task or of a kernel  *)
(* thread that becomes one.                                                *)
Exec ==
  /\ InKernel
  /\ cur # Idle
  /\ \/ kind[cur] = "kernel"
     \/ kind[cur] = "user" /\ work[cur] = "syscall"
  /\ kind' = [kind EXCEPT ![cur] = "user"]
  /\ work' = [work EXCEPT ![cur] = IF kind[cur] = "user" THEN "return"
                                                        ELSE "new"]
  /\ regs' = [regs EXCEPT ![cur] = "fresh"]
  /\ saved' = [saved EXCEPT ![cur] = NoTls]
  /\ tlsSet' = [tlsSet EXCEPT ![cur] = FALSE]
  /\ UNCHANGED <<cur, hw, activeTls, kernelUnchanged>>

(* arch_cpu_idle: nothing of this module changes while there is no work.   *)
CpuIdle == InKernel /\ cur = Idle /\ UNCHANGED vars

(* orlix_exit_to_user_mode_work delivers a signal before the resume; a new *)
(* task (orlix_ret_from_fork_user) is resumed without that work.           *)
DeliverLinuxSignal ==
  /\ InKernel
  /\ kind[cur] = "user"
  /\ work[cur] \in Resumable \ {"new"}
  /\ regs' = [regs EXCEPT ![cur] = "handler"]
  /\ work' = [work EXCEPT ![cur] = "return"]
  /\ UNCHANGED <<cur, kind, saved, tlsSet, hw, activeTls,
                 kernelUnchanged>>

-----------------------------------------------------------------------------
(*                          Resume of user code                            *)

(* orlix_hosted_resume_current_user, up to the copy of the frame.  Only a  *)
(* frame without a valid TLS has its TLS written before the spin; the      *)
(* first resume starts the timer thread.                                   *)
ResumeCurrentUser_Mutant ==
  /\ InKernel
  /\ kind[cur] = "user"
  /\ work[cur] \in Resumable
  /\ mode' = "resume"
  /\ kernelSp' = IF kernelSp = None THEN cur ELSE kernelSp
  /\ resumeFrame' = [gpr |-> regs[cur], tls |-> saved[cur]]
  /\ activeTls' = saved[cur]
  /\ hw' = IF ValidUserTls(saved[cur]) THEN hw ELSE saved[cur]
  /\ tpc' = IF tpc = "off" THEN "top" ELSE tpc
  /\ UNCHANGED <<taskVars, userActive, ureg, trap, trapFrame, pending, sigVars>>

ResumeCurrentUser ==
  /\ InKernel
  /\ kind[cur] = "user"
  /\ work[cur] \in Resumable
  /\ mode' = "resume"
  /\ kernelSp' = cur
  /\ resumeFrame' = [gpr |-> regs[cur], tls |-> saved[cur]]
  /\ activeTls' = saved[cur]
  /\ hw' = IF ValidUserTls(saved[cur]) THEN hw ELSE saved[cur]
  /\ tpc' = IF tpc = "off" THEN "top" ELSE tpc
  /\ UNCHANGED <<taskVars, userActive, ureg, trap, trapFrame, pending, sigVars>>

PublishResume_Mutant == /\ At("resume")
                        /\ pending' = TRUE
                        /\ userActive' = TRUE
                        /\ mode' = "spin"
                        /\ UNCHANGED <<taskVars, hw, ureg, trap, hostVars,
                                       sigVars, tpc>>

PublishResume == /\ At("resume")
                 /\ pending' = TRUE
                 /\ mode' = "spin"
                 /\ UNCHANGED <<taskVars, hw, userActive, ureg, trap, hostVars,
                                sigVars, tpc>>

(* The spin ends in user code.  It ends by itself only when the timer      *)
(* thread cleared the flag without redirecting.                            *)
ResumeFailed == /\ At("spin")
                /\ ~pending
                /\ mode' = "exited"
                /\ hw' = Host
                /\ UNCHANGED <<taskVars, userActive, ureg, trap, hostVars,
                               pending, sigVars, tpc>>

(* msr tpidr_el0, x16; isb; br x17                                         *)
Trampoline == /\ At("tramp")
              /\ hw' = ureg.x16
              /\ mode' = "user"
              /\ UNCHANGED <<taskVars, userActive, ureg, trap, hostVars,
                             pending, sigVars, tpc>>

-----------------------------------------------------------------------------
(*                            The timer signal                             *)

(* The handler traps user code; anything else it leaves alone.             *)
TakeTimerSignal ==
  /\ mode # "exited"
  /\ sigPending
  /\ ~masked
  /\ ~ignoring
  /\ sigPending' = FALSE
  /\ masked' = TRUE
  /\ IF mode = "user"
     THEN /\ mode' = "trap"
          /\ trap' = [no |-> "timer", val |-> NoTls]
          /\ UNCHANGED ignoring
     ELSE /\ ignoring' = TRUE
          /\ UNCHANGED <<mode, trap>>
  /\ UNCHANGED <<taskVars, hw, userActive, ureg, hostVars, pending, tpc>>

IgnoreTimerSignal == /\ ignoring
                     /\ ignoring' = FALSE
                     /\ masked' = FALSE
                     /\ UNCHANGED <<mode, taskVars, hw, userActive, ureg, trap,
                                    hostVars, pending, sigPending, tpc>>

-----------------------------------------------------------------------------
(*                            The timer thread                             *)

(* OrlixHostUserResumeRedirect, with the hosted thread suspended: load the *)
(* frame, mark user mode, clear the request.  Loading replaces the program *)
(* counter wherever it is, in the spin loop or in a handler above it, and  *)
(* leaves the signal mask as it is.                                        *)
Redirect_Mutant ==
  /\ tpc \in {"top", "asleep"}
  /\ pending
  /\ userActive' = TRUE
  /\ ignoring' = FALSE
  /\ IF ValidUserTls(resumeFrame.tls)
     THEN /\ mode' = "tramp"
          /\ ureg' = [gpr |-> resumeFrame.gpr, x16 |-> resumeFrame.tls]
     ELSE /\ mode' = "user"
          /\ ureg' = [gpr |-> resumeFrame.gpr, x16 |-> "program"]
  /\ resumeFrame' = Consumed
  /\ tpc' = "top"
  /\ UNCHANGED <<taskVars, hw, trap, activeTls, kernelSp, trapFrame,
                 sigPending, masked,
                 pending>>

Redirect ==
  /\ tpc \in {"top", "asleep"}
  /\ pending
  /\ pending' = FALSE
  /\ userActive' = TRUE
  /\ ignoring' = FALSE
  /\ IF ValidUserTls(resumeFrame.tls)
     THEN /\ mode' = "tramp"
          /\ ureg' = [gpr |-> resumeFrame.gpr, x16 |-> resumeFrame.tls]
     ELSE /\ mode' = "user"
          /\ ureg' = [gpr |-> resumeFrame.gpr, x16 |-> "program"]
  /\ resumeFrame' = Consumed
  /\ tpc' = "top"
  /\ UNCHANGED <<taskVars, hw, trap, activeTls, kernelSp, trapFrame,
                 sigPending, masked>>

(* Where the loop goes when it did not redirect: at the top it sleeps for  *)
(* a period, or less when a resume is pending or the condition signalled;  *)
(* after the sleep it tests user_active and sends the signal, both without *)
(* stopping the hosted thread.                                             *)
NextTimerPc_Mutant == IF tpc = "top" THEN "asleep"
                      ELSE IF pending THEN "kill" ELSE "top"
NextTimerPc == IF tpc = "top" THEN "asleep"
               ELSE IF userActive THEN "kill" ELSE "top"

(* thread_suspend failed: the request stays.                               *)
SuspendFails_Mutant == /\ tpc \in {"top", "asleep"}
                       /\ pending
                       /\ tpc' = "off"
                       /\ UNCHANGED <<mode, taskVars, hw, userActive, ureg,
                                      trap, hostVars, pending, sigVars>>

SuspendFails == /\ tpc \in {"top", "asleep"}
                /\ pending
                /\ tpc' = NextTimerPc
                /\ UNCHANGED <<mode, taskVars, hw, userActive, ureg, trap,
                               hostVars, pending, sigVars>>

(* thread_set_state failed: the request is dropped.                        *)
SetStateFails == /\ tpc \in {"top", "asleep"}
                 /\ pending
                 /\ pending' = FALSE
                 /\ tpc' = NextTimerPc
                 /\ UNCHANGED <<mode, taskVars, hw, userActive, ureg, trap,
                                hostVars, sigVars>>

NothingToRedirect == /\ mode # "exited"
                     /\ tpc \in {"top", "asleep"}
                     /\ ~pending
                     /\ tpc' = NextTimerPc
                     /\ UNCHANGED <<mode, taskVars, hw, userActive, ureg, trap,
                                    hostVars, pending, sigVars>>

(* pthread_kill, some time after the check.                                *)
SendTimerSignal == /\ mode # "exited"
                   /\ tpc = "kill"
                   /\ sigPending' = TRUE
                   /\ tpc' = "top"
                   /\ UNCHANGED <<mode, taskVars, hw, userActive, ureg, trap,
                                  hostVars, pending, masked, ignoring>>

(* The process is gone.                                                    *)
Exited == mode = "exited" /\ UNCHANGED vars

-----------------------------------------------------------------------------
UserCode == UserStep \/ SyscallTrap \/ FaultTrap \/ TlsWriteTrap
            \/ RepairUserTlsLoad \/ EnterGate
HandlerCode == TrapHandler \/ TrapEntry \/ GateEntry \/ TakeTimerSignal
               \/ IgnoreTimerSignal
Kernel == \/ \E n \in Task : SwitchTo(n) \/ ExitTo(n) \/ KernelThread(n)
          \/ \E c \in Task, settls \in BOOLEAN, v \in AnyTls : Clone(c, settls, v)
          \/ SyscallDispatch \/ Exec \/ DeliverLinuxSignal \/ CpuIdle
Resume == ResumeCurrentUser \/ PublishResume \/ ResumeFailed \/ Trampoline
TimerThread == \/ Redirect \/ SuspendFails \/ SetStateFails
               \/ NothingToRedirect \/ SendTimerSignal

Next == UserCode \/ HandlerCode \/ Kernel \/ Resume \/ TimerThread
        \/ LoseUserTls \/ Exited

Spec == Init /\ [][Next]_vars

(* The timer thread runs forever and Darwin schedules both threads and     *)
(* delivers signals; thread_suspend and thread_set_state do not fail for   *)
(* ever.  Nothing is assumed of user code or of the kernel's own progress. *)
Fairness == /\ WF_vars(NothingToRedirect \/ SendTimerSignal)
            /\ SF_vars(Redirect)
            /\ WF_vars(TrapHandler \/ TrapEntry)
            /\ WF_vars(TakeTimerSignal)
            /\ WF_vars(IgnoreTimerSignal)
            /\ WF_vars(PublishResume \/ ResumeFailed \/ Trampoline)

FairSpec == Spec /\ Fairness
=============================================================================
