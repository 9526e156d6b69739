------------------------ MODULE UserCallsProperties ------------------------
(***************************************************************************)
(* What the signal and clock code of the port promises its programs.       *)
(***************************************************************************)
EXTENDS UserCalls

(* The activations of the program: the frames on its stack, and what the   *)
(* registers hold.  A call that has not returned is still at its system    *)
(* call instruction, with the argument it was made with.                   *)
At == IF regs.sys THEN regs.pc - 1 ELSE regs.pc
Innermost ==
  [at |-> At,
   x0 |-> IF regs.sys THEN regs.orig ELSE regs.x0,
   mask |-> IF RestoreMask THEN savedMask ELSE blocked]

Answered == /\ regs.sys /\ regs.x0 \notin RestartCode
            /\ mode \in {"poll", "resched", "signal", "resume"}

Activation(f) == [at |-> f.pc, x0 |-> f.x0, mask |-> f.mask]
Suspended == [d \in 1..Depth |-> Activation(frames[d])]

absStack == Append(Suspended, Innermost)
absAnswer == IF Answered THEN regs.x0 ELSE "none"
Abstract == INSTANCE InterruptibleCalls WITH
  stack <- absStack, calling <- regs.sys, answer <- absAnswer

(* Signals leave the system calls of a program as InterruptibleCalls says: *)
(* each is answered once, is made again, or ends with EINTR, and a         *)
(* handler's return resumes what it interrupted with the value and the     *)
(* signal mask it had, although orlix_do_signal_or_restart runs several    *)
(* times on one set of registers, and x0 may happen to hold one of the     *)
(* restart codes.  A call by BRK is made again with its own argument; one  *)
(* through the gate is not (hosted_exec.c:651), and the answer is lost of  *)
(* a call whose result looks like a restart code as an int (signal.c:162). *)
ImplementsInterruptibleCalls == Abstract!Spec

(* A long result that looks like a request for restart_syscall would make  *)
(* one of a call that never asked for it; this excludes it.                *)
NoLongBlock == \A r \in LongResult : Low[r] # "ERESTART_RESTARTBLOCK"

(* restart_syscall goes on with the call that was interrupted at the same  *)
(* depth of handlers, never with one that a handler made in between: the   *)
(* task has one restart_block for all of them (signal.c:232).              *)
RestartsOwnCall ==
  (mode = "call" /\ regs.nr = "restart" /\ block # -1) => block = Depth

(* What makes these inductive.  The program and its handlers are at their  *)
(* own instructions, with the number of the call that they make there;     *)
(* in_syscall is set from a system call until the return to the user has   *)
(* looked at what it returned; the mask of rt_sigsuspend is taken back     *)
(* before that; and only the last call that asked for restart_syscall can  *)
(* be the one that restarts.  (syscall.c, signal.c.)                       *)
Site(d, pc, nr) ==
  /\ pc \in IF d = 1 THEN {0, 1} ELSE {2, 3, 4}
  /\ pc \in {0, 2} => nr # "sigreturn"
  /\ pc = 4 => nr = "sigreturn"
CallInv ==
  /\ TypeOK
  /\ \A d \in 1..Depth : Site(d, frames[d].pc, frames[d].nr)
  /\ Site(Depth + 1, At, regs.nr)
  /\ mode \in {"user", "resume"} => ~regs.sys
  /\ mode = "user" => ~RestoreMask
  /\ mode \in {"call", "woken"} => regs.sys /\ ~RestoreMask
  /\ mode = "blocked" => regs.sys /\ At # 4
  /\ mode = "woken" => At # 4
  /\ regs.sys => At \in {0, 2, 4} /\ (At = 4 => mode = "call")
  /\ regs.sys /\ mode \in {"poll", "resched", "signal"} =>
       /\ regs.x0 \in ReturnValue
       /\ regs.x0 = "ERESTART_RESTARTBLOCK" => block = Depth
  /\ At \in {0, 2} /\ regs.nr = "restart" => block \in {-1, Depth}

(* A signal that is not blocked reaches the program, also one that is sent *)
(* while the program only computes, or by the handler of a clock event.    *)
SignalsArrive ==
  \A s \in Sig : s \in Deliverable ~> s \notin Deliverable

(* A clock event that is due is handled and does not stay due, although no *)
(* interrupt announces it and the polls may come late (time.c:140-146).    *)
EventsAreHandled == Due ~> ~Due

(* A task that sleeps until a deadline wakes, although nothing but the     *)
(* idle loop runs.                                                         *)
SleepersWake == (mode = "blocked" /\ ~RestoreMask) ~> mode # "blocked"
=============================================================================
