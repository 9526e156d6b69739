-------------------------- MODULE HostedTrapProofs --------------------------
(***************************************************************************)
(* Proofs about the user trap transport for every number of tasks and TLS  *)
(* values: its inductive invariant, and that it implements TaskExecution.  *)
(***************************************************************************)
EXTENDS HostedTrapProperties, TLAPS

USE DEF vars, taskVars, hostVars, sigVars, kernelUnchanged, At, InKernel,
        ValidUserTls

LEMMA InitIInv == Init => IInv
<1> SUFFICES ASSUME Init PROVE IInv
  OBVIOUS
<1> USE IdleAssumption, TlsAssumption, TokenAssumption DEF Init
<1>1. TypeOK
  BY DEF TypeOK, Mode, Kind, Work, Resumable, TimerPc, Gpr, AnyGpr, AnyTls,
         UserRegs, KernelRegs, Frame, Consumed, NoTrap
<1>2. UserActiveOnlyInUserCode /\ RedirectOnlyFromSpin /\ EntersOnOwnStack
  BY DEF UserActiveOnlyInUserCode, RedirectOnlyFromSpin, EntersOnOwnStack
<1>3. SlotInv
  BY DEF SlotInv
<1>4. FrameInv
  BY DEF FrameInv, InUser
<1>5. TlsInv
  BY DEF TlsInv, InUser, NoTrap
<1> QED
  BY <1>1, <1>2, <1>3, <1>4, <1>5 DEF IInv

Control == UserActiveOnlyInUserCode /\ RedirectOnlyFromSpin /\ EntersOnOwnStack

-----------------------------------------------------------------------------
(* Every action keeps the types, given the invariant.                      *)
LEMMA TypeStep == IInv /\ [Next]_vars => TypeOK'
<1> SUFFICES ASSUME TypeOK, FrameInv, TlsInv, [Next]_vars PROVE TypeOK'
  BY DEF IInv
<1>0. Tls \subseteq AnyTls /\ NoTls \in AnyTls /\ Host \in AnyTls
  BY DEF AnyTls
<1> USE <1>0 DEF TypeOK
<1>1. CASE UserStep
  BY <1>1 DEF UserStep, UserRegs, AnyGpr, Gpr
<1>2. ASSUME NEW no \in {"syscall", "fault", "tlswrite"},
             NEW v \in AnyTls, UserTrap(no, v)
      PROVE TypeOK'
  BY <1>2 DEF UserTrap, Mode
<1>3. CASE RepairUserTlsLoad
  BY <1>3 DEF RepairUserTlsLoad, AnyTls
<1>4. CASE EnterGate
  BY <1>4 DEF EnterGate, Mode
<1>5. CASE TrapHandler
  <2>1. ureg.gpr \in AnyGpr /\ trap.val \in AnyTls /\ CurrentTls \in AnyTls
    BY DEF CurrentTls, UserRegs, AnyTls
  <2>2. trapFrame' \in Frame
    BY <1>5, <2>1 DEF TrapHandler, Frame
  <2>3. ureg' \in UserRegs
    BY <1>5 DEF TrapHandler, UserRegs, KernelRegs, AnyGpr
  <2>4. hw' \in AnyTls /\ mode' \in Mode
    BY <1>5 DEF TrapHandler, AnyTls, Mode
  <2> QED
    BY <1>5, <2>2, <2>3, <2>4 DEF TrapHandler
<1>6. CASE TrapEntry
  <2>1. trapFrame.gpr \in Gpr
    BY <1>6 DEF TrapEntry, FrameInv
  <2>2. regs' \in [Task -> Gpr] /\ work' \in [Task -> Work]
    BY <1>6, <2>1 DEF TrapEntry, Work
  <2>3. saved' \in [Task -> AnyTls] /\ activeTls' \in AnyTls
    BY <1>6 DEF TrapEntry
  <2>4. mode' \in Mode /\ trapFrame' \in Frame
    BY <1>6 DEF TrapEntry, Mode, Frame, Consumed, AnyGpr, AnyTls
  <2>5. trap' \in [no : {"none", "timer", "syscall", "fault", "tlswrite"},
                   val : AnyTls]
    BY <1>6 DEF TrapEntry, NoTrap
  <2> QED
    BY <1>6, <2>2, <2>3, <2>4, <2>5 DEF TrapEntry
<1>7. CASE GateEntry
  <2>1. ureg.gpr \in Gpr
    BY <1>7 DEF GateEntry, FrameInv, InUser
  <2>2. regs' \in [Task -> Gpr] /\ work' \in [Task -> Work]
    BY <1>7, <2>1 DEF GateEntry, Work
  <2>3. saved' \in [Task -> AnyTls] /\ activeTls' \in AnyTls
    BY <1>7 DEF GateEntry
  <2>4. mode' \in Mode /\ ureg' \in UserRegs
    BY <1>7 DEF GateEntry, Mode, UserRegs, KernelRegs, AnyGpr
  <2> QED
    BY <1>7, <2>2, <2>3, <2>4 DEF GateEntry
<1>8. CASE TakeTimerSignal
  <2>1. CASE mode = "user"
    <3>1. trap' \in [no : {"none", "timer", "syscall", "fault", "tlswrite"},
                     val : AnyTls]
      BY <1>8, <2>1 DEF TakeTimerSignal
    <3>2. mode' = "trap" /\ ignoring' = ignoring
      BY <1>8, <2>1 DEF TakeTimerSignal
    <3> QED
      BY <1>8, <3>1, <3>2 DEF TakeTimerSignal, Mode
  <2>2. CASE mode # "user"
    BY <1>8, <2>2 DEF TakeTimerSignal
  <2> QED
    BY <2>1, <2>2
<1>9. CASE IgnoreTimerSignal
  BY <1>9 DEF IgnoreTimerSignal
<1>10. ASSUME NEW n \in Task, SwitchTo(n) PROVE TypeOK'
  <2>1. saved' \in [Task -> AnyTls]
    BY <1>10 DEF SwitchTo
  <2>2. hw' \in AnyTls /\ activeTls' \in AnyTls
    BY <1>10 DEF SwitchTo, RestoreUserTls, AnyTls
  <2> QED
    BY <1>10, <2>1, <2>2 DEF SwitchTo
<1>11. ASSUME NEW n \in Task, ExitTo(n) PROVE TypeOK'
  <2>1. hw' \in AnyTls /\ activeTls' \in AnyTls
    BY <1>11 DEF ExitTo, RestoreUserTls, AnyTls
  <2> QED
    BY <1>11, <2>1 DEF ExitTo, Kind, Work, Gpr
<1>12. ASSUME NEW n \in Task, KernelThread(n) PROVE TypeOK'
  BY <1>12 DEF KernelThread, Kind, Gpr
<1>13. ASSUME NEW c \in Task, NEW settls \in BOOLEAN, NEW v \in AnyTls,
              Clone(c, settls, v)
       PROVE TypeOK'
  BY <1>13 DEF Clone, Kind, Work, Gpr
<1>14. CASE SyscallDispatch
  BY <1>14 DEF SyscallDispatch, Work, Gpr
<1>15. CASE Exec
  BY <1>15 DEF Exec, Kind, Work, Gpr
<1>16. CASE DeliverLinuxSignal
  BY <1>16 DEF DeliverLinuxSignal, Work, Gpr
<1>17. CASE ResumeCurrentUser
  BY <1>17 DEF ResumeCurrentUser, Mode, Frame, AnyGpr, AnyTls, TimerPc
<1>18. CASE PublishResume
  BY <1>18 DEF PublishResume, Mode
<1>19. CASE ResumeFailed
  BY <1>19 DEF ResumeFailed, Mode, AnyTls
<1>20. CASE Trampoline
  <2>1. hw' = saved[cur]
    BY <1>20 DEF Trampoline, FrameInv
  <2> QED
    BY <1>20, <2>1 DEF Trampoline, Mode, AnyTls
<1>21. CASE Redirect
  <2>1. resumeFrame.gpr \in AnyGpr
    BY DEF Frame
  <2>2. ureg' \in UserRegs /\ mode' \in Mode
    BY <1>21, <2>1 DEF Redirect, UserRegs, Mode
  <2>3. resumeFrame' \in Frame /\ tpc' \in TimerPc
    BY <1>21 DEF Redirect, Frame, Consumed, AnyGpr, AnyTls, TimerPc
  <2> QED
    BY <1>21, <2>2, <2>3 DEF Redirect
<1>22. CASE SuspendFails \/ SetStateFails \/ NothingToRedirect
            \/ SendTimerSignal
  <2>1. tpc' \in TimerPc
    BY <1>22 DEF SuspendFails, SetStateFails, NothingToRedirect,
                 SendTimerSignal, NextTimerPc, TimerPc
  <2> QED
    BY <1>22, <2>1 DEF SuspendFails, SetStateFails, NothingToRedirect,
                       SendTimerSignal
<1>23. CASE LoseUserTls
  BY <1>23 DEF LoseUserTls, AnyTls
<1>24. CASE CpuIdle \/ Exited \/ UNCHANGED vars
  BY <1>24 DEF CpuIdle, Exited
<1> QED
  BY <1>1, <1>2, <1>3, <1>4, <1>5, <1>6, <1>7, <1>8, <1>9, <1>10, <1>11,
     <1>12, <1>13, <1>14, <1>15, <1>16, <1>17, <1>18, <1>19, <1>20, <1>21,
     <1>22, <1>23, <1>24
     DEF Next, UserCode, SyscallTrap, FaultTrap, TlsWriteTrap, HandlerCode,
         Kernel, Resume, TimerThread
-----------------------------------------------------------------------------
(* Who may run, and on which stack.                                        *)
LEMMA ControlStep == IInv /\ [Next]_vars => Control'
<1> SUFFICES ASSUME IInv, [Next]_vars PROVE Control'
  OBVIOUS
<1> USE DEF IInv, TypeOK, UserActiveOnlyInUserCode, RedirectOnlyFromSpin,
            EntersOnOwnStack, SlotInv, Control
<1>1. CASE UserStep
  BY <1>1 DEF UserStep
<1>2. CASE SyscallTrap
  BY <1>2 DEF SyscallTrap, UserTrap
<1>3. CASE FaultTrap
  BY <1>3 DEF FaultTrap, UserTrap
<1>4. CASE TlsWriteTrap
  BY <1>4 DEF TlsWriteTrap, UserTrap
<1>5. CASE RepairUserTlsLoad
  BY <1>5 DEF RepairUserTlsLoad
<1>6. CASE EnterGate
  BY <1>6 DEF EnterGate
<1>7. CASE TrapHandler
  BY <1>7 DEF TrapHandler, CurrentTls
<1>8. CASE TrapEntry
  BY <1>8 DEF TrapEntry
<1>9. CASE GateEntry
  BY <1>9 DEF GateEntry
<1>10. CASE TakeTimerSignal
  BY <1>10 DEF TakeTimerSignal
<1>11. CASE IgnoreTimerSignal
  BY <1>11 DEF IgnoreTimerSignal
<1>12. ASSUME NEW n \in Task, SwitchTo(n) PROVE Control'
  BY <1>12 DEF SwitchTo, RestoreUserTls
<1>13. ASSUME NEW n \in Task, ExitTo(n) PROVE Control'
  BY <1>13 DEF ExitTo, RestoreUserTls
<1>14. ASSUME NEW n \in Task, KernelThread(n) PROVE Control'
  BY <1>14 DEF KernelThread
<1>15. ASSUME NEW c \in Task, NEW settls \in BOOLEAN, NEW v \in AnyTls,
              Clone(c, settls, v)
       PROVE Control'
  BY <1>15 DEF Clone
<1>16. CASE SyscallDispatch
  BY <1>16 DEF SyscallDispatch
<1>17. CASE Exec
  BY <1>17 DEF Exec
<1>18. CASE DeliverLinuxSignal
  BY <1>18 DEF DeliverLinuxSignal
<1>19. CASE ResumeCurrentUser
  BY <1>19 DEF ResumeCurrentUser
<1>20. CASE PublishResume
  BY <1>20 DEF PublishResume
<1>21. CASE ResumeFailed
  BY <1>21 DEF ResumeFailed
<1>22. CASE Trampoline
  BY <1>22 DEF Trampoline
<1>23. CASE Redirect
  <2>1. mode' \in {"tramp", "user"} /\ pending' = FALSE /\ kernelSp' = cur'
    BY <1>23 DEF Redirect
  <2> QED
    BY <2>1
<1>24. CASE SuspendFails
  BY <1>24 DEF SuspendFails
<1>25. CASE SetStateFails
  BY <1>25 DEF SetStateFails
<1>26. CASE NothingToRedirect
  BY <1>26 DEF NothingToRedirect
<1>27. CASE SendTimerSignal
  BY <1>27 DEF SendTimerSignal
<1>28. CASE LoseUserTls
  BY <1>28 DEF LoseUserTls
<1>29. CASE CpuIdle \/ Exited \/ UNCHANGED vars
  BY <1>29 DEF CpuIdle, Exited
<1> QED
  BY <1>1, <1>2, <1>3, <1>4, <1>5, <1>6, <1>7, <1>8, <1>9, <1>10, <1>11,
     <1>12, <1>13, <1>14, <1>15, <1>16, <1>17, <1>18, <1>19, <1>20, <1>21,
     <1>22, <1>23, <1>24, <1>25, <1>26, <1>27, <1>28, <1>29
     DEF Next, UserCode, HandlerCode, Kernel, Resume, TimerThread

(* Slots and open system calls.                                            *)
LEMMA SlotStep == IInv /\ [Next]_vars => SlotInv'
<1> SUFFICES ASSUME IInv, [Next]_vars PROVE SlotInv'
  OBVIOUS
<1> USE DEF IInv, TypeOK, SlotInv, Resumable, RedirectOnlyFromSpin
<1>1. CASE UserStep
  BY <1>1 DEF UserStep
<1>2. CASE SyscallTrap
  BY <1>2 DEF SyscallTrap, UserTrap
<1>3. CASE FaultTrap
  BY <1>3 DEF FaultTrap, UserTrap
<1>4. CASE TlsWriteTrap
  BY <1>4 DEF TlsWriteTrap, UserTrap
<1>5. CASE RepairUserTlsLoad
  BY <1>5 DEF RepairUserTlsLoad
<1>6. CASE EnterGate
  BY <1>6 DEF EnterGate
<1>7. CASE TrapHandler
  BY <1>7 DEF TrapHandler, CurrentTls
<1>8. CASE TrapEntry
  BY <1>8 DEF TrapEntry
<1>9. CASE GateEntry
  BY <1>9 DEF GateEntry
<1>10. CASE TakeTimerSignal
  BY <1>10 DEF TakeTimerSignal
<1>11. CASE IgnoreTimerSignal
  BY <1>11 DEF IgnoreTimerSignal
<1>12. ASSUME NEW n \in Task, SwitchTo(n) PROVE SlotInv'
  BY <1>12 DEF SwitchTo, RestoreUserTls
<1>13. ASSUME NEW n \in Task, ExitTo(n) PROVE SlotInv'
  BY <1>13 DEF ExitTo, RestoreUserTls
<1>14. ASSUME NEW n \in Task, KernelThread(n) PROVE SlotInv'
  BY <1>14 DEF KernelThread
<1>15. ASSUME NEW c \in Task, NEW settls \in BOOLEAN, NEW v \in AnyTls,
              Clone(c, settls, v)
       PROVE SlotInv'
  BY <1>15 DEF Clone
<1>16. CASE SyscallDispatch
  BY <1>16 DEF SyscallDispatch
<1>17. CASE Exec
  BY <1>17 DEF Exec
<1>18. CASE DeliverLinuxSignal
  BY <1>18 DEF DeliverLinuxSignal
<1>19. CASE ResumeCurrentUser
  BY <1>19 DEF ResumeCurrentUser
<1>20. CASE PublishResume
  BY <1>20 DEF PublishResume
<1>21. CASE ResumeFailed
  BY <1>21 DEF ResumeFailed
<1>22. CASE Trampoline
  BY <1>22 DEF Trampoline
<1>23. CASE Redirect
  BY <1>23 DEF Redirect
<1>24. CASE SuspendFails
  BY <1>24 DEF SuspendFails
<1>25. CASE SetStateFails
  BY <1>25 DEF SetStateFails
<1>26. CASE NothingToRedirect
  BY <1>26 DEF NothingToRedirect
<1>27. CASE SendTimerSignal
  BY <1>27 DEF SendTimerSignal
<1>28. CASE LoseUserTls
  BY <1>28 DEF LoseUserTls
<1>29. CASE CpuIdle \/ Exited \/ UNCHANGED vars
  BY <1>29 DEF CpuIdle, Exited
<1> QED
  BY <1>1, <1>2, <1>3, <1>4, <1>5, <1>6, <1>7, <1>8, <1>9, <1>10, <1>11,
     <1>12, <1>13, <1>14, <1>15, <1>16, <1>17, <1>18, <1>19, <1>20, <1>21,
     <1>22, <1>23, <1>24, <1>25, <1>26, <1>27, <1>28, <1>29
     DEF Next, UserCode, HandlerCode, Kernel, Resume, TimerThread

(* Register contents.                                                      *)
LEMMA FrameStep == IInv /\ [Next]_vars => FrameInv'
<1> SUFFICES ASSUME IInv, [Next]_vars PROVE FrameInv'
  OBVIOUS
<1> USE DEF IInv, TypeOK, SlotInv, FrameInv, RedirectOnlyFromSpin, InUser
<1>1. CASE UserStep
  BY <1>1 DEF UserStep, Gpr
<1>2. CASE SyscallTrap
  BY <1>2 DEF SyscallTrap, UserTrap
<1>3. CASE FaultTrap
  BY <1>3 DEF FaultTrap, UserTrap
<1>4. CASE TlsWriteTrap
  BY <1>4 DEF TlsWriteTrap, UserTrap
<1>5. CASE RepairUserTlsLoad
  BY <1>5 DEF RepairUserTlsLoad
<1>6. CASE EnterGate
  BY <1>6 DEF EnterGate
<1>7. CASE TrapHandler
  BY <1>7 DEF TrapHandler, CurrentTls
<1>8. CASE TrapEntry
  BY <1>8 DEF TrapEntry
<1>9. CASE GateEntry
  BY <1>9 DEF GateEntry
<1>10. CASE TakeTimerSignal
  BY <1>10 DEF TakeTimerSignal
<1>11. CASE IgnoreTimerSignal
  BY <1>11 DEF IgnoreTimerSignal
<1>12. ASSUME NEW n \in Task, SwitchTo(n) PROVE FrameInv'
  BY <1>12 DEF SwitchTo, RestoreUserTls
<1>13. ASSUME NEW n \in Task, ExitTo(n) PROVE FrameInv'
  BY <1>13 DEF ExitTo, RestoreUserTls
<1>14. ASSUME NEW n \in Task, KernelThread(n) PROVE FrameInv'
  BY <1>14 DEF KernelThread
<1>15. ASSUME NEW c \in Task, NEW settls \in BOOLEAN, NEW v \in AnyTls,
              Clone(c, settls, v)
       PROVE FrameInv'
  BY <1>15 DEF Clone
<1>16. CASE SyscallDispatch
  BY <1>16 DEF SyscallDispatch
<1>17. CASE Exec
  BY <1>17 DEF Exec
<1>18. CASE DeliverLinuxSignal
  BY <1>18 DEF DeliverLinuxSignal
<1>19. CASE ResumeCurrentUser
  BY <1>19 DEF ResumeCurrentUser
<1>20. CASE PublishResume
  BY <1>20 DEF PublishResume
<1>21. CASE ResumeFailed
  BY <1>21 DEF ResumeFailed
<1>22. CASE Trampoline
  BY <1>22 DEF Trampoline
<1>23. CASE Redirect
  BY <1>23 DEF Redirect
<1>24. CASE SuspendFails
  BY <1>24 DEF SuspendFails
<1>25. CASE SetStateFails
  BY <1>25 DEF SetStateFails
<1>26. CASE NothingToRedirect
  BY <1>26 DEF NothingToRedirect
<1>27. CASE SendTimerSignal
  BY <1>27 DEF SendTimerSignal
<1>28. CASE LoseUserTls
  BY <1>28 DEF LoseUserTls
<1>29. CASE CpuIdle \/ Exited \/ UNCHANGED vars
  BY <1>29 DEF CpuIdle, Exited
<1> QED
  BY <1>1, <1>2, <1>3, <1>4, <1>5, <1>6, <1>7, <1>8, <1>9, <1>10, <1>11,
     <1>12, <1>13, <1>14, <1>15, <1>16, <1>17, <1>18, <1>19, <1>20, <1>21,
     <1>22, <1>23, <1>24, <1>25, <1>26, <1>27, <1>28, <1>29
     DEF Next, UserCode, HandlerCode, Kernel, Resume, TimerThread

(* TLS pointers.                                                           *)
LEMMA TlsStep == IInv /\ [Next]_vars => TlsInv'
<1> SUFFICES ASSUME IInv, [Next]_vars PROVE TlsInv'
  OBVIOUS
<1> USE DEF IInv, TypeOK, SlotInv, FrameInv, TlsInv, RedirectOnlyFromSpin, InUser
<1>1. CASE UserStep
  BY <1>1 DEF UserStep
<1>2. CASE SyscallTrap
  BY <1>2, TlsAssumption DEF SyscallTrap, UserTrap
<1>3. CASE FaultTrap
  BY <1>3, TlsAssumption DEF FaultTrap, UserTrap
<1>4. CASE TlsWriteTrap
  BY <1>4 DEF TlsWriteTrap, UserTrap
<1>5. CASE RepairUserTlsLoad
  BY <1>5 DEF RepairUserTlsLoad
<1>6. CASE EnterGate
  BY <1>6 DEF EnterGate
<1>7. CASE TrapHandler
  <2>1. tlsSet[cur] /\ trap.no # "tlswrite" => CurrentTls = saved[cur]
    BY <1>7, TlsAssumption DEF TrapHandler, CurrentTls
  <2>2. mode' = "entry" => IF trap'.no = "tlswrite"
                           THEN trapFrame'.tls = trap'.val
                           ELSE tlsSet'[cur'] => trapFrame'.tls = saved'[cur']
    BY <1>7, <2>1 DEF TrapHandler
  <2> QED
    BY <1>7, <2>2 DEF TrapHandler
<1>8. CASE TrapEntry
  <2>1. mode' = "kernel" /\ hw' = Host /\ trap'.val \notin Tls
    BY <1>8, TlsAssumption DEF TrapEntry, NoTrap
  <2>2. ASSUME NEW t \in Task, tlsSet'[t] PROVE saved'[t] \in Tls
    BY <1>8, <2>2 DEF TrapEntry
  <2> QED
    BY <2>1, <2>2
<1>9. CASE GateEntry
  BY <1>9 DEF GateEntry
<1>10. CASE TakeTimerSignal
  <2>1. CASE mode = "user"
    BY <1>10, <2>1, TlsAssumption DEF TakeTimerSignal
  <2>2. CASE mode # "user"
    BY <1>10, <2>2 DEF TakeTimerSignal
  <2> QED
    BY <2>1, <2>2
<1>11. CASE IgnoreTimerSignal
  BY <1>11 DEF IgnoreTimerSignal
<1>12. ASSUME NEW n \in Task, SwitchTo(n) PROVE TlsInv'
  BY <1>12 DEF SwitchTo, RestoreUserTls
<1>13. ASSUME NEW n \in Task, ExitTo(n) PROVE TlsInv'
  BY <1>13 DEF ExitTo, RestoreUserTls
<1>14. ASSUME NEW n \in Task, KernelThread(n) PROVE TlsInv'
  BY <1>14 DEF KernelThread
<1>15. ASSUME NEW c \in Task, NEW settls \in BOOLEAN, NEW v \in AnyTls,
              Clone(c, settls, v)
       PROVE TlsInv'
  BY <1>15 DEF Clone
<1>16. CASE SyscallDispatch
  BY <1>16 DEF SyscallDispatch
<1>17. CASE Exec
  BY <1>17 DEF Exec
<1>18. CASE DeliverLinuxSignal
  BY <1>18 DEF DeliverLinuxSignal
<1>19. CASE ResumeCurrentUser
  BY <1>19 DEF ResumeCurrentUser
<1>20. CASE PublishResume
  BY <1>20 DEF PublishResume
<1>21. CASE ResumeFailed
  BY <1>21 DEF ResumeFailed
<1>22. CASE Trampoline
  BY <1>22 DEF Trampoline
<1>23. CASE Redirect
  BY <1>23 DEF Redirect
<1>24. CASE SuspendFails
  BY <1>24 DEF SuspendFails
<1>25. CASE SetStateFails
  BY <1>25 DEF SetStateFails
<1>26. CASE NothingToRedirect
  BY <1>26 DEF NothingToRedirect
<1>27. CASE SendTimerSignal
  BY <1>27 DEF SendTimerSignal
<1>28. CASE LoseUserTls
  BY <1>28 DEF LoseUserTls
<1>29. CASE CpuIdle \/ Exited \/ UNCHANGED vars
  BY <1>29 DEF CpuIdle, Exited
<1> QED
  BY <1>1, <1>2, <1>3, <1>4, <1>5, <1>6, <1>7, <1>8, <1>9, <1>10, <1>11,
     <1>12, <1>13, <1>14, <1>15, <1>16, <1>17, <1>18, <1>19, <1>20, <1>21,
     <1>22, <1>23, <1>24, <1>25, <1>26, <1>27, <1>28, <1>29
     DEF Next, UserCode, HandlerCode, Kernel, Resume, TimerThread

LEMMA Inductive == Spec => []IInv
<1>1. IInv /\ [Next]_vars => IInv'
  BY TypeStep, ControlStep, SlotStep, FrameStep, TlsStep DEF IInv, Control
<1> QED
  BY InitIInv, <1>1, PTL DEF Spec

(* Every variable has its type, for any number of tasks and TLS values.    *)
THEOREM TypeCorrect == Spec => []TypeOK
<1>1. IInv => TypeOK
  BY DEF IInv
<1> QED
  BY Inductive, <1>1, PTL

(* The kernel and the handler never run with orlix_hosted_user_active set. *)
THEOREM UserActiveIsExact == Spec => []UserActiveOnlyInUserCode
<1>1. IInv => UserActiveOnlyInUserCode
  BY DEF IInv
<1> QED
  BY Inductive, <1>1, PTL

(* The timer thread never redirects a thread that does not wait for it.    *)
THEOREM RedirectIsInvited == Spec => []RedirectOnlyFromSpin
<1>1. IInv => RedirectOnlyFromSpin
  BY DEF IInv
<1> QED
  BY Inductive, <1>1, PTL

(* The only way for an unusable TLS into thread.user_tls is a clone that   *)
(* passes it; what a trap, the gate or __switch_to finds in TPIDR_EL0 gets *)
(* there only if it is usable.                                             *)
THEOREM TlsIsUsable == Spec => OddTlsOnlyFromClone
<1> DEFINE Keeps == \A t \in Task :
             saved'[t] \in {Host, BadTls} /\ saved'[t] # saved[t] => kind[t] = "free"
<1>1. ASSUME IInv, Next PROVE Keeps
  <2>0. /\ saved \in [Task -> AnyTls] /\ cur \in Task
        /\ \A v \in Tls \cup {NoTls} : v # Host /\ v # BadTls
    BY <1>1, TlsAssumption DEF IInv, TypeOK
  <2> USE <2>0
  <2>1. CASE UserCode
    BY <2>1 DEF UserCode, UserStep, SyscallTrap, FaultTrap, TlsWriteTrap,
                UserTrap, RepairUserTlsLoad, EnterGate
  <2>2. CASE HandlerCode
    <3>1. CASE TrapEntry
      BY <3>1 DEF TrapEntry
    <3>2. CASE GateEntry
      BY <3>2 DEF GateEntry
    <3>3. CASE TrapHandler
      BY <3>3 DEF TrapHandler
    <3> QED
      BY <2>2, <3>1, <3>2, <3>3 DEF HandlerCode, TakeTimerSignal, IgnoreTimerSignal
  <2>3. ASSUME NEW n \in Task, SwitchTo(n) \/ ExitTo(n) \/ KernelThread(n)
        PROVE  Keeps
    <3>1. CASE SwitchTo(n)
      <4>1. CASE kind[cur] = "user" /\ hw \in Tls
        BY <3>1, <4>1 DEF SwitchTo
      <4>2. CASE ~(kind[cur] = "user" /\ hw \in Tls)
        <5>1. UNCHANGED saved
          BY <3>1, <4>2 DEF SwitchTo
        <5> QED BY <5>1
      <4> QED BY <4>1, <4>2
    <3>2. CASE ExitTo(n)
      BY <3>2 DEF ExitTo, RestoreUserTls
    <3>3. CASE KernelThread(n)
      BY <3>3 DEF KernelThread
    <3> QED
      BY <2>3, <3>1, <3>2, <3>3
  <2>4. ASSUME NEW c \in Task, NEW settls \in BOOLEAN, NEW v \in AnyTls,
               Clone(c, settls, v)
        PROVE  Keeps
    BY <2>4 DEF Clone
  <2>5. CASE SyscallDispatch \/ Exec \/ DeliverLinuxSignal \/ CpuIdle
    <3>1. saved' = saved \/ saved' = [saved EXCEPT ![cur] = NoTls]
      BY <2>5 DEF SyscallDispatch, Exec, DeliverLinuxSignal, CpuIdle
    <3> QED BY <3>1
  <2>6. CASE Resume
    BY <2>6 DEF Resume, ResumeCurrentUser, PublishResume, ResumeFailed,
                Trampoline
  <2>7. CASE TimerThread
    BY <2>7 DEF TimerThread, Redirect, SuspendFails, SetStateFails,
                NothingToRedirect, SendTimerSignal
  <2>8. CASE LoseUserTls \/ Exited
    BY <2>8 DEF LoseUserTls, Exited
  <2> QED
    BY <1>1, <2>1, <2>2, <2>3, <2>4, <2>5, <2>6, <2>7, <2>8 DEF Next, Kernel
<1>2. IInv /\ [Next]_vars => [Keeps]_vars
  BY <1>1
<1> QED
  BY <1>2, Inductive, PTL DEF Spec, OddTlsOnlyFromClone

(* The kernel is entered on the stack of the current task.                 *)
THEOREM OwnStack == Spec => []EntersOnOwnStack
<1>1. IInv => EntersOnOwnStack
  BY DEF IInv
<1> QED
  BY Inductive, <1>1, PTL
=============================================================================
