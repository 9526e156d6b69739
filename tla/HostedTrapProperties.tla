------------------------ MODULE HostedTrapProperties ------------------------
(***************************************************************************)
(* What the user trap transport must guarantee.                            *)
(***************************************************************************)
EXTENDS HostedTrap

(* Where the registers of a task are while it is the current one.          *)
LiveGpr == CASE mode \in {"user", "gate", "trap", "tramp"} -> ureg.gpr
             [] mode = "entry" -> trapFrame.gpr
             [] mode \in {"resume", "spin"} -> resumeFrame.gpr
             [] OTHER -> regs[cur]

(* Where its TLS pointer is.  User code sees TPIDR_EL0, or, when Darwin    *)
(* lost it, what RepairUserTlsLoad puts back.                              *)
LiveTls == CASE mode \in {"user", "gate"} -> IF hw \in Tls THEN hw ELSE activeTls
             [] mode = "trap" -> IF trap.no = "tlswrite" /\ trap.val \in Tls
                                 THEN trap.val ELSE CurrentTls
             [] mode = "entry" -> IF trapFrame.tls \in Tls THEN trapFrame.tls
                                                           ELSE saved[cur]
             [] mode \in {"resume", "spin"} -> resumeFrame.tls
             [] mode = "tramp" -> ureg.x16
             [] OTHER -> saved[cur]

Asks(t) == \/ work[t] = "syscall"
           \/ /\ t = cur
              /\ \/ mode = "gate"
                 \/ mode \in {"trap", "entry"} /\ trap.no = "syscall"

absOn == IF mode = "user" THEN cur ELSE None
absAsked == {t \in Task : Asks(t)}
absGpr == [t \in Task |-> IF t = cur THEN LiveGpr ELSE regs[t]]
absTls == [t \in Task |-> IF ~tlsSet[t] THEN "unset"
                          ELSE IF t = cur THEN LiveTls ELSE saved[t]]

Abs == INSTANCE TaskExecution WITH
         on <- absOn, asked <- absAsked, gpr <- absGpr, tls <- absTls

(* Whatever the interleaving of traps, timer signals, redirects and        *)
(* context switches, every task computes with its own registers and its    *)
(* own TLS pointer (trap frames of trap.c, switch and resume of            *)
(* hosted_exec.c).                                                         *)
ImplementsTaskExecution == Abs!ASpec

(* orlix_hosted_user_active is set only while the hosted thread is between *)
(* its redirect to user code and the handler or gate that ends it: a fault *)
(* of kernel code is never delivered as a fault of user code               *)
(* (OrlixHostUserTrapShouldDeliverUserFault).                              *)
UserActiveOnlyInUserCode ==
  userActive => mode \in {"user", "tramp", "gate", "trap"}

(* The timer thread replaces the program counter of the hosted thread only *)
(* when it spins for that (OrlixHostUserResumeRedirect): never while it    *)
(* runs the kernel, the handler or user code.                              *)
RedirectOnlyFromSpin == pending => mode = "spin"

(* thread.user_tls becomes a value that cannot be used, such as the host's *)
(* TLS left in TPIDR_EL0 by a lost signal frame, only when a new task is   *)
(* cloned with it: no trap, gate or switch takes it for the TLS of a task  *)
(* (orlix_hosted_valid_user_tls; copy_thread stores what it is given).     *)
OddTlsOnlyFromClone ==
  [][\A t \in Task :
       saved'[t] \in {Host, BadTls} /\ saved'[t] # saved[t] => kind[t] = "free"]_vars

(* Out of the kernel, orlix_hosted_kernel_sp is the stack of the current   *)
(* task: whoever enters the kernel from user code enters it on that stack, *)
(* and the handler's _exit for a missing stack is unreachable.             *)
EntersOnOwnStack ==
  mode \notin {"kernel", "exited"} => kernelSp = cur

(* A task that is resumed reaches user code, or the process ends: the spin *)
(* of orlix_host_user_trap_resume does not last although its wakeups may   *)
(* be lost (the condition is signalled without the mutex).                 *)
ResumeReachesUser ==
  mode = "spin" ~> mode \in {"user", "tramp", "exited"}

(* A task that computes without trapping is interrupted by the timer,      *)
(* unless the hosted thread blocks the timer signal (see the violation     *)
(* run StaysPreemptible).                                                  *)
PreemptedWhenDeliverable ==
  (mode = "user" /\ ~masked) ~> (mode # "user" \/ masked)

-----------------------------------------------------------------------------
(*      The inductive invariant behind the safety properties               *)

InUser == {"user", "tramp", "gate", "trap"}

(* Only a user task is ever out of the kernel, and it left it without an   *)
(* open system call; tasks that never ran user code have a clean slot.     *)
SlotInv ==
  /\ mode \notin {"kernel", "exited"} => kind[cur] = "user"
  /\ mode # "kernel" => work[cur] \in Resumable
  /\ \A t \in Task : kind[t] # "user" => /\ work[t] = "none"
                                       /\ regs[t] = "fresh"
                                       /\ ~tlsSet[t]

(* Registers and frames are read only while they are live, and a resume    *)
(* frame is the saved state of the current task.                           *)
FrameInv ==
  /\ mode \in InUser => ureg.gpr \in Gpr
  /\ mode = "entry" => trapFrame.gpr \in Gpr
  /\ mode \in {"resume", "spin"} =>
       resumeFrame = [gpr |-> regs[cur], tls |-> saved[cur]]
  /\ mode = "tramp" => ureg = [gpr |-> regs[cur], x16 |-> saved[cur]]

(* A task's TLS is where the transport will look for it next: its thread   *)
(* struct, TPIDR_EL0 or active_user_tls as its substitute, a frame.        *)
TlsInv ==
  /\ \A t \in Task : tlsSet[t] =>
       \/ saved[t] \in Tls
       \/ t = cur /\ mode \in {"trap", "entry"} /\ trap.val \in Tls
  /\ mode \in InUser \cup {"resume", "spin"} => activeTls = saved[cur]
  /\ mode \in {"user", "gate", "trap"} => hw \in {saved[cur], Host}
  /\ mode \in {"resume", "spin"} /\ saved[cur] \notin Tls =>
       hw \in {saved[cur], Host}
  /\ mode = "kernel" /\ tlsSet[cur] => hw \in {saved[cur], Host}
  /\ mode = "entry" => hw = Host
  /\ trap.val \in Tls => trap.no = "tlswrite"
  /\ mode = "entry" => IF trap.no = "tlswrite" THEN trapFrame.tls = trap.val
                       ELSE tlsSet[cur] => trapFrame.tls = saved[cur]

(* Everything above, with the control part; it is inductive.               *)
IInv == /\ TypeOK
        /\ UserActiveOnlyInUserCode
        /\ RedirectOnlyFromSpin
        /\ EntersOnOwnStack
        /\ SlotInv
        /\ FrameInv
        /\ TlsInv

-----------------------------------------------------------------------------
(* hosted_exec.c:163-168 says that the kernel entry and return windows     *)
(* stay invisible to the timer transport.  Were it so, no timer signal     *)
(* would be handled in the return window, and user code would never start  *)
(* with the timer signal blocked.                                          *)
StaysPreemptible == mode = "user" => ~masked
=============================================================================
