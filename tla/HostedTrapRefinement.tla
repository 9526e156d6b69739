----------------------- MODULE HostedTrapRefinement -----------------------
(***************************************************************************)
(* Proof that the user trap transport implements TaskExecution: every step *)
(* of HostedTrap is a step of TaskExecution or leaves its state alone.     *)
(***************************************************************************)
EXTENDS HostedTrapProofs


USE TlsAssumption, IdleAssumption
USE DEF vars, taskVars, hostVars, sigVars, kernelUnchanged, At, InKernel,
        ValidUserTls

Same == UNCHANGED <<absOn, absAsked, absGpr, absTls>>

(* What a step is compared under the mapping with: the invariant, and the  *)
(* mapping itself.                                                         *)
USE DEF IInv, TypeOK, SlotInv, FrameInv, TlsInv, RedirectOnlyFromSpin, InUser,
        Resumable, CurrentTls, Same, absOn, absAsked, Asks, absGpr, LiveGpr,
        absTls, LiveTls

(* Steps of the transport, of the timer thread and of Darwin are invisible *)
(* to the tasks.                                                           *)
LEMMA HostStepStutters ==
  ASSUME IInv,
         \/ RepairUserTlsLoad
         \/ TrapHandler
         \/ TrapEntry
         \/ GateEntry
         \/ IgnoreTimerSignal
         \/ ResumeCurrentUser
         \/ PublishResume
         \/ ResumeFailed
         \/ SuspendFails
         \/ SetStateFails
         \/ NothingToRedirect
         \/ SendTimerSignal
         \/ LoseUserTls
  PROVE  Same
<1>1. CASE RepairUserTlsLoad
  BY <1>1 DEF RepairUserTlsLoad
<1>2. CASE TrapHandler
  BY <1>2 DEF TrapHandler
<1>3. CASE TrapEntry
  BY <1>3 DEF TrapEntry
<1>4. CASE GateEntry
  BY <1>4 DEF GateEntry
<1>5. CASE IgnoreTimerSignal
  BY <1>5 DEF IgnoreTimerSignal
<1>6. CASE ResumeCurrentUser
  BY <1>6 DEF ResumeCurrentUser
<1>7. CASE PublishResume
  BY <1>7 DEF PublishResume
<1>8. CASE ResumeFailed
  BY <1>8 DEF ResumeFailed
<1>9. CASE SuspendFails
  BY <1>9 DEF SuspendFails
<1>10. CASE SetStateFails
  BY <1>10 DEF SetStateFails
<1>11. CASE NothingToRedirect
  BY <1>11 DEF NothingToRedirect
<1>12. CASE SendTimerSignal
  BY <1>12 DEF SendTimerSignal
<1>13. CASE LoseUserTls
  BY <1>13 DEF LoseUserTls
<1> QED
  BY <1>1, <1>2, <1>3, <1>4, <1>5, <1>6, <1>7, <1>8, <1>9, <1>10, <1>11, <1>12, <1>13

(* So is a context switch, and the start of a kernel thread.                *)
LEMMA SwitchToStutters ==
  ASSUME IInv, NEW n \in Task, SwitchTo(n)
  PROVE  Same
BY DEF SwitchTo, RestoreUserTls

LEMMA KernelThreadStutters ==
  ASSUME IInv, NEW n \in Task, KernelThread(n)
  PROVE  Same
BY DEF KernelThread

(* User code computes, or stops in one of four ways.                       *)
LEMMA UserStepComputes ==
  ASSUME IInv, UserStep
  PROVE  Abs!Compute(cur)
BY DEF UserStep, Abs!Compute

LEMMA SyscallTrapAsks ==
  ASSUME IInv, SyscallTrap
  PROVE  Abs!Ask(cur)
BY DEF SyscallTrap, UserTrap, Abs!Ask

LEMMA EnterGateAsks ==
  ASSUME IInv, EnterGate
  PROVE  Abs!Ask(cur)
BY DEF EnterGate, Abs!Ask

LEMMA FaultTrapStops ==
  ASSUME IInv, FaultTrap
  PROVE  Abs!Stop(cur)
BY DEF FaultTrap, UserTrap, Abs!Stop

LEMMA TlsWriteTrapWrites ==
  ASSUME IInv, NEW v \in Tls, UserTrap("tlswrite", v)
  PROVE  Abs!WriteTls(cur, v)
BY DEF UserTrap, Abs!WriteTls

LEMMA InvalidTlsWriteTrapStops ==
  ASSUME IInv, NEW v \in AnyTls \ Tls, UserTrap("tlswrite", v)
  PROVE  Abs!Stop(cur)
BY DEF UserTrap, Abs!Stop

(* The timer signal stops user code and nothing else.                      *)
LEMMA TimerSignalStops ==
  ASSUME IInv, TakeTimerSignal, mode = "user"
  PROVE  Abs!Stop(cur)
BY DEF TakeTimerSignal, Abs!Stop

LEMMA TimerSignalStutters ==
  ASSUME IInv, TakeTimerSignal, mode # "user"
  PROVE  Same
BY DEF TakeTimerSignal

(* Exit and exec end a register context.                                   *)
LEMMA ExitToResets ==
  ASSUME IInv, NEW n \in Task, ExitTo(n)
  PROVE  Abs!NewImage(cur)
BY DEF ExitTo, RestoreUserTls, Abs!NewImage, Abs!Unset

LEMMA ExecResets ==
  ASSUME IInv, Exec
  PROVE  Abs!NewImage(cur)
BY DEF Exec, Abs!NewImage, Abs!Unset

(* Only the current task's registers get a result or a signal frame.       *)
LEMMA SyscallDispatchAnswers ==
  ASSUME IInv, SyscallDispatch
  PROVE  Abs!Result(cur)
BY DEF SyscallDispatch, Abs!Result

LEMMA LinuxSignalSignals ==
  ASSUME IInv, DeliverLinuxSignal
  PROVE  Abs!Signal(cur)
BY DEF DeliverLinuxSignal, Abs!Signal

(* User code resumes at the end of the trampoline, or at the redirect when *)
(* there is no TLS to load.                                                *)
LEMMA TrampolineRuns ==
  ASSUME IInv, Trampoline
  PROVE  Abs!Run(cur)
BY DEF Trampoline, Abs!Run

LEMMA RedirectRuns ==
  ASSUME IInv, Redirect, resumeFrame.tls \notin Tls
  PROVE  Abs!Run(cur)
BY DEF Redirect, Abs!Run

LEMMA RedirectStutters ==
  ASSUME IInv, Redirect, resumeFrame.tls \in Tls
  PROVE  Same
BY DEF Redirect

LEMMA CloneIsChild ==
  ASSUME IInv, NEW c \in Task, NEW settls \in BOOLEAN, NEW v \in AnyTls,
         Clone(c, settls, v)
  PROVE  Abs!Child(cur, c)
<1> USE DEF Clone
<1>1. absOn = None /\ absOn' = absOn /\ cur \in Task /\ cur # c
  OBVIOUS
<1>2. absAsked' = absAsked /\ cur \in absAsked /\ c \notin absAsked
  OBVIOUS
<1>3. absGpr' = [absGpr EXCEPT ![c] = "ret"]
  OBVIOUS
<1>4. \E x \in Tls \cup {absTls[cur], Abs!Unset} : absTls' = [absTls EXCEPT ![c] = x]
  <2>1. CASE settls
    <3>1. absTls' = [absTls EXCEPT ![c] = IF v \in Tls THEN v ELSE Abs!Unset]
      BY <2>1 DEF Abs!Unset
    <3> QED
      BY <3>1
  <2>2. CASE ~settls
    <3>1. absTls' = [absTls EXCEPT ![c] = absTls[cur]]
      BY <2>2
    <3> QED
      BY <3>1
  <2> QED
    BY <2>1, <2>2
<1> QED
  BY <1>1, <1>2, <1>3, <1>4 DEF Abs!Child

-----------------------------------------------------------------------------
LEMMA InitMaps ==
  ASSUME Init
  PROVE  Abs!AInit
BY DEF Init, Abs!AInit, Abs!Unset

HIDE DEF At, InKernel, IInv, TypeOK, SlotInv, FrameInv, TlsInv, Resumable,
         CurrentTls, Same, RedirectOnlyFromSpin, InUser, absOn, absAsked,
         Asks, absGpr, LiveGpr, absTls, LiveTls, vars, taskVars, hostVars,
         sigVars, kernelUnchanged, ValidUserTls

(* Every step of the detailed system is one of the abstract one, or none.  *)
LEMMA StepMaps ==
  ASSUME IInv, [Next]_vars
  PROVE  [Abs!ANext]_(Abs!aVars)
<1>0. cur \in Task
  BY DEF IInv, TypeOK
<1>1. ASSUME Same PROVE [Abs!ANext]_(Abs!aVars)
  BY <1>1 DEF Same, Abs!aVars
<1>2. CASE UNCHANGED vars
  <2>1. Same
    BY <1>2 DEF Same, absOn, absAsked, Asks, absGpr, LiveGpr, absTls, LiveTls,
                CurrentTls, vars, taskVars, hostVars, sigVars
  <2> QED
    BY <2>1, <1>1
<1>3. CASE UserCode
  <2> USE <1>0 DEF Abs!ANext
  <2>1. CASE UserStep
    BY <2>1, UserStepComputes
  <2>2. CASE SyscallTrap
    BY <2>2, SyscallTrapAsks
  <2>3. CASE FaultTrap
    BY <2>3, FaultTrapStops
  <2>4. CASE TlsWriteTrap
    <3>1. PICK v \in AnyTls : UserTrap("tlswrite", v)
      BY <2>4 DEF TlsWriteTrap
    <3>2. CASE v \in Tls
      BY <3>1, <3>2, TlsWriteTrapWrites
    <3>3. CASE v \notin Tls
      BY <3>1, <3>3, InvalidTlsWriteTrapStops
    <3> QED
      BY <3>2, <3>3
  <2>5. CASE RepairUserTlsLoad
    BY <2>5, <1>1, HostStepStutters
  <2>6. CASE EnterGate
    BY <2>6, EnterGateAsks
  <2> QED
    BY <1>3, <2>1, <2>2, <2>3, <2>4, <2>5, <2>6 DEF UserCode
<1>4. CASE HandlerCode
  <2>1. CASE TakeTimerSignal
    BY <2>1, <1>0, <1>1, TimerSignalStops, TimerSignalStutters DEF Abs!ANext
  <2> QED
    BY <1>4, <2>1, <1>1, HostStepStutters DEF HandlerCode
<1>5. CASE Kernel
  <2> USE <1>0 DEF Abs!ANext
  <2>1. ASSUME NEW n \in Task, SwitchTo(n) \/ ExitTo(n) \/ KernelThread(n)
        PROVE  [Abs!ANext]_(Abs!aVars)
    BY <2>1, <1>1, SwitchToStutters, ExitToResets, KernelThreadStutters
  <2>2. ASSUME NEW c \in Task, NEW settls \in BOOLEAN, NEW v \in AnyTls,
               Clone(c, settls, v)
        PROVE  [Abs!ANext]_(Abs!aVars)
    BY <2>2, CloneIsChild
  <2>3. CASE SyscallDispatch
    BY <2>3, SyscallDispatchAnswers
  <2>4. CASE Exec
    BY <2>4, ExecResets
  <2>5. CASE DeliverLinuxSignal
    BY <2>5, LinuxSignalSignals
  <2>6. CASE CpuIdle
    BY <2>6, <1>2 DEF CpuIdle
  <2> QED
    BY <1>5, <2>1, <2>2, <2>3, <2>4, <2>5, <2>6 DEF Kernel
<1>6. CASE Resume
  <2>1. CASE Trampoline
    BY <2>1, <1>0, TrampolineRuns DEF Abs!ANext
  <2> QED
    BY <1>6, <2>1, <1>1, HostStepStutters DEF Resume
<1>7. CASE TimerThread
  <2>1. CASE Redirect
    BY <2>1, <1>0, <1>1, RedirectRuns, RedirectStutters DEF Abs!ANext
  <2> QED
    BY <1>7, <2>1, <1>1, HostStepStutters DEF TimerThread
<1>8. CASE LoseUserTls
  BY <1>8, <1>1, HostStepStutters
<1>9. CASE Exited
  BY <1>9, <1>2 DEF Exited
<1> QED
  BY <1>2, <1>3, <1>4, <1>5, <1>6, <1>7, <1>8, <1>9 DEF Next

(* For any tasks and any TLS values, and whatever the timer thread and     *)
(* Darwin do in between: a task's registers and TLS pointer are changed    *)
(* only by the task, its system calls, its signals, exec and exit.         *)
THEOREM Refines == Spec => ImplementsTaskExecution
<1>1. Init => Abs!AInit
  BY InitMaps
<1>2. IInv /\ [Next]_vars => [Abs!ANext]_(Abs!aVars)
  BY StepMaps
<1> QED
  BY <1>1, <1>2, Inductive, PTL DEF Spec, ImplementsTaskExecution, Abs!ASpec
=============================================================================
