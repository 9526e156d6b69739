-------------------------- MODULE UserCallsProofs --------------------------
(***************************************************************************)
(* Proofs about a task between its system calls and its signal handlers,   *)
(* for any signals, values and depth of handlers: the types, the one       *)
(* restart block, and that signals leave the calls as InterruptibleCalls   *)
(* says.                                                                   *)
(***************************************************************************)
EXTENDS UserCallsProperties, SequenceTheorems, TLAPS

USE CallAssumption, PeriodAssumption

-----------------------------------------------------------------------------
(* The inductive invariant.                                                *)
LEMMA InitCallInv == Init => CallInv
<1> SUFFICES ASSUME Init PROVE CallInv
  OBVIOUS
<1>1. ClockTypeOK
  BY DEF Init, ClockInit, ClockTypeOK
<1>2. regs \in Regs /\ frames \in Seq(SigFrame) /\ Depth = 0
  BY DEF Init, FirstRegs, Regs, Value, Depth
<1> QED
  BY <1>1, <1>2 DEF Init, FirstRegs, CallInv, TypeOK, Mode, Site, At, RestoreMask

(* The clock, whatever is done with it.                                    *)
LEMMA ClockSteps ==
  ASSUME ClockTypeOK,
         \/ UNCHANGED clockVars
         \/ SetNextEvent(Period)
         \/ Expire
         \/ SleepToDeadline
         \/ TimePasses
  PROVE  ClockTypeOK'
BY DEF ClockTypeOK, clockVars, SetNextEvent, Expire, Advance, Shutdown, SetPeriodic, Due,
       SleepToDeadline, TimePasses
-----------------------------------------------------------------------------
USE DEF Mode, Value, ReturnValue, RestartCode, Site, At, RestoreMask, Depth, maskVars,
        callVars, clockVars

(* The kernel moves on without touching what the program can see.          *)
LEMMA QuietKeeps ==
  ASSUME CallInv, UNCHANGED <<regs, frames, blocked, savedMask, block>>, ClockTypeOK',
         pending' \subseteq Sig, work' \subseteq {"resched", "notify"},
         \/ mode' = mode
         \/ mode = "user" /\ mode' \in {"poll", "resched"}
         \/ mode = "call" /\ mode' = "blocked" /\ regs.nr # "sigreturn"
         \/ mode = "blocked" /\ mode' = "woken" /\ ~RestoreMask
         \/ mode = "poll" /\ mode' = "resched"
         \/ mode = "resched" /\ mode' = "signal"
         \/ mode = "signal" /\ mode' = "resume" /\ ~regs.sys /\ ~RestoreMask
         \/ mode = "resume" /\ mode' = "resched"
  PROVE  CallInv'
BY DEF CallInv, TypeOK, Regs

LEMMA QuietSteps ==
  ASSUME CallInv,
         \/ TrapTimer \/ TrapFault \/ CallSleeps \/ Poll \/ IdlePoll \/ IdleSleep
         \/ OthersRun \/ Reschedule \/ NoSignalWork \/ ResumeWork \/ Again \/ ClockRuns
  PROVE  CallInv'
<1> USE DEF CallInv, TypeOK
<1>1. CASE TrapTimer \/ TrapFault
  BY <1>1, QuietKeeps DEF TrapTimer, TrapFault, ClockTypeOK
<1>2. CASE CallSleeps
  BY <1>2, QuietKeeps, ClockSteps DEF CallSleeps, Executes
<1>3. CASE Poll
  BY <1>3, QuietKeeps, ClockSteps DEF Poll, Expire
<1>4. CASE IdlePoll
  BY <1>4, QuietKeeps, ClockSteps DEF IdlePoll, Expire
<1>5. CASE IdleSleep
  BY <1>5, QuietKeeps, ClockSteps DEF IdleSleep
<1>6. CASE OthersRun
  BY <1>6, QuietKeeps, ClockSteps DEF OthersRun, OtherTasks
<1>7. CASE Reschedule
  <2>1. pending' \subseteq Sig /\ work' \subseteq {"resched", "notify"}
    <3>1. OtherTasks => pending' \subseteq Sig /\ work' \subseteq {"resched", "notify"}
      BY DEF OtherTasks
    <3> QED BY <1>7, <3>1 DEF Reschedule
  <2>2. ClockTypeOK' /\ UNCHANGED <<regs, frames, blocked, savedMask, block>>
    BY <1>7, ClockSteps DEF Reschedule
  <2> QED BY <1>7, <2>1, <2>2, QuietKeeps DEF Reschedule
<1>8. CASE NoSignalWork
  BY <1>8, QuietKeeps, ClockSteps DEF NoSignalWork, SignalWork
<1>9. CASE ResumeWork
  BY <1>9, QuietKeeps, ClockSteps DEF ResumeWork
<1>10. CASE Again
  BY <1>10, QuietKeeps, ClockSteps DEF Again
<1>11. CASE ClockRuns
  BY <1>11, QuietKeeps, ClockSteps DEF ClockRuns
<1> QED
  BY <1>1, <1>2, <1>3, <1>4, <1>5, <1>6, <1>7, <1>8, <1>9, <1>10, <1>11

(* The program, between its system calls.                                  *)
LEMMA ComputeKeeps == ASSUME CallInv, Compute PROVE CallInv'
<1> PICK v \in UserValue : regs' = [regs EXCEPT !.x0 = v]
  BY DEF Compute
<1>1. regs \in Regs /\ v \in Value
  BY DEF CallInv, TypeOK
<1>2. /\ regs' \in Regs /\ regs'.pc = regs.pc /\ regs'.sys = regs.sys /\ regs'.nr = regs.nr
  BY <1>1 DEF Regs
<1> QED
  BY <1>2, ClockSteps DEF CallInv, TypeOK, Compute

LEMMA GoToCallKeeps == ASSUME CallInv, GoToCall PROVE CallInv'
<1>1. regs \in Regs /\ regs.pc - 1 \in {0, 2}
  BY DEF CallInv, TypeOK, GoToCall
<1>2. PICK pc \in 0..5, x \in Value, nr \in {"work", "restart", "sigreturn"} :
      /\ pc = regs.pc - 1 /\ nr = "work"
      /\ x = IF regs.pc - 1 \in Gates THEN "number" ELSE "arg"
  BY <1>1
<1>3. regs' = [pc |-> pc, x0 |-> x, nr |-> nr, orig |-> regs.orig, sys |-> regs.sys]
  BY <1>1, <1>2 DEF Regs, GoToCall
<1>4. regs' \in Regs /\ regs'.pc = pc /\ regs'.sys = regs.sys /\ regs'.nr = nr
  BY <1>1, <1>3 DEF Regs
<1> QED
  BY <1>1, <1>2, <1>4, ClockSteps DEF CallInv, TypeOK, Regs, GoToCall

LEMMA HandlerReturnsKeeps == ASSUME CallInv, HandlerReturns PROVE CallInv'
<1>1. regs \in Regs
  BY DEF CallInv, TypeOK
<1>2. PICK pc \in 0..5, x \in Value, nr \in {"work", "restart", "sigreturn"} :
      pc = 4 /\ x = "arg" /\ nr = "sigreturn"
  OBVIOUS
<1>3. regs' = [pc |-> pc, x0 |-> x, nr |-> nr, orig |-> regs.orig, sys |-> regs.sys]
  BY <1>1, <1>2 DEF Regs, HandlerReturns
<1>4. regs' \in Regs /\ regs'.pc = pc /\ regs'.sys = regs.sys /\ regs'.nr = nr
  BY <1>1, <1>3 DEF Regs
<1> QED
  BY <1>1, <1>2, <1>4, ClockSteps DEF CallInv, TypeOK, Regs, HandlerReturns

LEMMA SyscallRegs ==
  ASSUME CallInv, TrapSyscall
  PROVE  /\ regs' \in Regs /\ regs'.pc = regs.pc + 1 /\ regs'.sys
         /\ regs'.nr = IF regs.pc \in Gates THEN "work" ELSE regs.nr
         /\ regs'.orig = IF regs.pc \in Gates THEN "arg" ELSE regs.x0
<1>1. regs \in Regs /\ regs.pc + 1 \in 0..5
  BY DEF CallInv, TypeOK, Regs, TrapSyscall
<1>2. PICK pc \in 0..5, x \in Value, nr \in {"work", "restart", "sigreturn"}, orig \in Value :
      /\ pc = regs.pc + 1
      /\ x = IF regs.pc \in Gates THEN "arg" ELSE regs.x0
      /\ nr = IF regs.pc \in Gates THEN "work" ELSE regs.nr
      /\ orig = IF regs.pc \in Gates THEN "arg" ELSE regs.x0
  BY <1>1 DEF Regs
<1>3. regs' = [pc |-> pc, x0 |-> x, nr |-> nr, orig |-> orig, sys |-> TRUE]
  <2>1. CASE regs.pc \in Gates
    BY <1>1, <1>2, <2>1 DEF TrapSyscall, ByGate, ByBrk, Regs
  <2>2. CASE regs.pc \notin Gates
    BY <1>1, <1>2, <2>2 DEF TrapSyscall, ByGate, ByBrk, Regs
  <2> QED BY <2>1, <2>2
<1> QED
  BY <1>2, <1>3 DEF Regs

LEMMA TrapSyscallKeeps == ASSUME CallInv, TrapSyscall PROVE CallInv'
<1> PICK pc : pc = regs.pc + 1
  OBVIOUS
<1>1. pc \in 0..5 /\ regs.pc = pc - 1 /\ ~regs.sys
  BY DEF CallInv, TypeOK, Regs, TrapSyscall
<1>3. /\ regs' \in Regs /\ regs'.pc = pc /\ regs'.sys
      /\ regs'.nr = regs.nr \/ (regs'.nr = "work" /\ regs.pc \in {0, 2})
  BY SyscallRegs
<1> QED
  BY <1>1, <1>3, ClockSteps DEF CallInv, TypeOK, Regs, TrapSyscall

(* The kernel's part of a call.                                            *)
LEMMA AnswerKeeps ==
  ASSUME CallInv, NEW v \in ReturnValue, regs' = [regs EXCEPT !.x0 = v], mode' = "poll",
         mode \in {"call", "woken", "blocked"}, regs.nr # "sigreturn",
         UNCHANGED <<frames, savedMask>>, blocked' \subseteq Sig, pending' \subseteq Sig,
         work' \subseteq {"resched", "notify"}, ClockTypeOK',
         IF v = "ERESTART_RESTARTBLOCK" THEN block' = Depth ELSE block' = block
  PROVE  CallInv'
<1>1. regs \in Regs /\ regs.sys /\ At # 4 /\ v \in Value /\ Depth \in 0..MaxFrames
  BY DEF CallInv, TypeOK
<1>2. /\ regs' \in Regs /\ regs'.x0 = v /\ regs'.pc = regs.pc /\ regs'.nr = regs.nr
      /\ regs'.sys /\ At' = At
  BY <1>1 DEF Regs
<1>3. TypeOK'
  BY <1>1, <1>2 DEF CallInv, TypeOK
<1> QED
  BY <1>1, <1>2, <1>3 DEF CallInv

LEMMA CallKeeps ==
  ASSUME CallInv,
         CallReturns \/ SetMask \/ CallSuspends \/ Wakes \/ SleepEnds \/ NoRestart
  PROVE  CallInv'
<1>1. /\ ClockTypeOK /\ blocked \subseteq Sig /\ pending \subseteq Sig
      /\ work \subseteq {"resched", "notify"}
      /\ mode \in {"blocked", "woken"} => regs.nr # "sigreturn"
  BY DEF CallInv, TypeOK, Regs
<1>2. CASE CallReturns
  <2>1. PICK v \in LongResult \cup {"ok"} : regs' = [regs EXCEPT !.x0 = v]
    BY <1>2 DEF CallReturns, Answer
  <2>2. v \in ReturnValue /\ v # "ERESTART_RESTARTBLOCK"
    BY ResultAssumption
  <2>3. /\ mode = "call" /\ regs.nr # "sigreturn" /\ mode' = "poll"
        /\ UNCHANGED <<frames, savedMask, blocked, block, clockVars>>
        /\ pending' \subseteq Sig /\ work' \subseteq {"resched", "notify"}
    BY <1>1, <1>2 DEF CallReturns, Executes, Answer
  <2>4. ClockTypeOK'
    BY <1>1, <2>3, ClockSteps
  <2> QED BY <1>1, <2>1, <2>2, <2>3, <2>4, AnswerKeeps
<1>3. CASE SetMask
  <2>1. ClockTypeOK' /\ blocked' \subseteq Sig
    BY <1>1, <1>3, ClockSteps DEF SetMask
  <2> QED BY <1>1, <1>3, <2>1, AnswerKeeps DEF SetMask, Answer
<1>4. CASE CallSuspends
  <2>1. ClockTypeOK' /\ blocked' \subseteq Sig /\ savedMask' \subseteq Sig
    BY <1>1, <1>4, ClockSteps DEF CallSuspends
  <2>2. TypeOK'
    BY <1>4, <2>1 DEF CallSuspends, CallInv, TypeOK
  <2> QED BY <1>4, <2>2 DEF CallSuspends, CallInv, TypeOK, Regs
<1>5. CASE Wakes
  <2>1. PICK c \in RestartCode :
          /\ regs' = [regs EXCEPT !.x0 = c]
          /\ block' = IF c = "ERESTART_RESTARTBLOCK" THEN Depth ELSE block
    BY <1>5 DEF Wakes, Answer
  <2>2. ClockTypeOK'
    BY <1>1, <1>5, ClockSteps DEF Wakes
  <2> QED BY <1>1, <1>5, <2>1, <2>2, AnswerKeeps DEF Wakes, Answer
<1>6. CASE SleepEnds
  <2>1. ClockTypeOK'
    BY <1>1, <1>6, ClockSteps DEF SleepEnds
  <2> QED BY <1>1, <1>6, <2>1, AnswerKeeps DEF SleepEnds, Answer
<1>7. CASE NoRestart
  <2>1. ClockTypeOK'
    BY <1>1, <1>7, ClockSteps DEF NoRestart
  <2> QED BY <1>1, <1>7, <2>1, AnswerKeeps DEF NoRestart, Answer
<1> QED
  BY <1>2, <1>3, <1>4, <1>5, <1>6, <1>7

(* rt_sigreturn.  There is a frame, for only handlers call it.             *)
LEMMA FrameTaken ==
  ASSUME CallInv, mode = "call", regs.nr = "sigreturn"
  PROVE  /\ Depth > 0 /\ At = 4 /\ frames[Depth] \in SigFrame
         /\ SubSeq(frames, 1, Depth - 1) \in Seq(SigFrame)
         /\ Len(SubSeq(frames, 1, Depth - 1)) = Depth - 1
         /\ \A d \in 1..Depth - 1 : SubSeq(frames, 1, Depth - 1)[d] = frames[d]
<1>1. Depth \in Nat /\ Depth > 0 /\ At = 4 /\ frames[Depth] \in SigFrame
  BY DEF CallInv, TypeOK, Regs
<1>2. \A d \in 1..Depth - 1 : frames[d] \in SigFrame
  BY DEF CallInv, TypeOK
<1> QED
  <2>0. Depth - 1 \in Int
    BY <1>1
  <2> PICK n \in Int : n = Depth - 1
    BY <2>0
  <2>1. \A d \in 1..n : frames[d] \in SigFrame
    BY <1>2
  <2>2. /\ SubSeq(frames, 1, n) \in Seq(SigFrame)
        /\ Len(SubSeq(frames, 1, n)) = IF 1 <= n THEN n - 1 + 1 ELSE 0
        /\ \A d \in 1..n - 1 + 1 : SubSeq(frames, 1, n)[d] = frames[1 + d - 1]
    BY <2>1, SubSeqProperties
  <2> QED BY <1>1, <2>2

LEMMA SigreturnKeeps == ASSUME CallInv, Sigreturn PROVE CallInv'
<1>1. /\ Depth > 0 /\ At = 4 /\ frames[Depth] \in SigFrame
      /\ frames' \in Seq(SigFrame) /\ Len(frames') = Depth - 1
      /\ \A d \in 1..Depth - 1 : frames'[d] = frames[d]
  BY FrameTaken DEF Sigreturn
<1> PICK f \in SigFrame : f = frames[Depth]
  BY <1>1
<1>2. /\ regs' = [pc |-> f.pc, x0 |-> f.x0, nr |-> f.nr, orig |-> regs.orig, sys |-> FALSE]
      /\ blocked' = f.mask
  BY DEF Sigreturn, Restored
<1>3. regs' \in Regs /\ ~regs'.sys /\ regs'.pc = f.pc /\ regs'.nr = f.nr /\ blocked' \subseteq Sig
  BY <1>2 DEF CallInv, TypeOK, Regs, SigFrame
<1>4. Site(Depth, f.pc, f.nr)
  BY <1>1 DEF CallInv
<1>5. TypeOK'
  <2>1. Depth \in Nat /\ Depth <= MaxFrames /\ ClockTypeOK'
    BY <1>1, ClockSteps DEF CallInv, TypeOK, Sigreturn
  <2>2. Depth' <= MaxFrames /\ block' \in -1..MaxFrames
    BY <1>1, <2>1 DEF Sigreturn, NoRestartBlock
  <2>3. UNCHANGED <<savedMask, pending, work>> /\ mode' = "poll"
    BY DEF Sigreturn
  <2> QED BY <1>1, <1>3, <2>1, <2>2, <2>3 DEF CallInv, TypeOK
<1>6. \A d \in 1..Depth' : Site(d, frames'[d].pc, frames'[d].nr)
  BY <1>1 DEF CallInv, TypeOK
<1>7. Site(Depth' + 1, At', regs'.nr)
  BY <1>1, <1>3, <1>4 DEF CallInv, TypeOK
<1> QED
  BY <1>3, <1>5, <1>6, <1>7 DEF CallInv, Sigreturn, NoRestartBlock

LEMMA EndsKeeps ==
  ASSUME CallInv, (\E s \in Sig : SetupFails(s)) \/ BadFrame
  PROVE  CallInv'
<1>1. ProgramEnds
  BY DEF SetupFails, BadFrame
<1>2. ClockTypeOK'
  BY <1>1, ClockSteps DEF ProgramEnds, CallInv, TypeOK
<1>3. regs' = FirstRegs /\ regs' \in Regs /\ frames' \in Seq(SigFrame) /\ Depth' = 0
  BY <1>1 DEF ProgramEnds, FirstRegs, Regs
<1> QED
  BY <1>1, <1>2, <1>3 DEF ProgramEnds, FirstRegs, CallInv, TypeOK
(* What orlix_do_signal_or_restart makes of the registers.                 *)
LEMMA RewoundFacts ==
  ASSUME CallInv, mode = "signal"
  PROVE  /\ Rewound \in Regs /\ ~Rewound.sys /\ Rewound.nr = regs.nr
         /\ Rewound.pc = IF Restarts THEN At ELSE regs.pc
         /\ Rewound.x0 = IF Restarts THEN regs.orig ELSE regs.x0
<1>1. regs \in Regs /\ (Restarts => regs.pc - 1 \in 0..5)
  BY DEF CallInv, TypeOK, Regs, Restarts
<1>2. CASE Restarts
  <2>1. Rewound = [regs EXCEPT !.sys = FALSE, !.x0 = regs.orig, !.pc = regs.pc - 1]
    BY <1>2 DEF Rewound
  <2>2. Rewound = [pc |-> regs.pc - 1, x0 |-> regs.orig, nr |-> regs.nr,
                   orig |-> regs.orig, sys |-> FALSE]
    BY <1>1, <2>1 DEF Regs
  <2> QED BY <1>1, <1>2, <2>2 DEF Regs, Restarts
<1>3. CASE ~Restarts
  <2>1. Rewound = [regs EXCEPT !.sys = FALSE]
    BY <1>3 DEF Rewound
  <2>2. Rewound = [pc |-> regs.pc, x0 |-> regs.x0, nr |-> regs.nr,
                   orig |-> regs.orig, sys |-> FALSE]
    BY <1>1, <2>1 DEF Regs
  <2> QED BY <1>1, <1>3, <2>2 DEF Regs
<1> QED
  BY <1>2, <1>3

LEMMA InterruptedFacts ==
  ASSUME CallInv, mode = "signal", NEW s \in Sig
  PROVE  LET r == Interrupted(s)
         IN /\ r \in Regs /\ ~r.sys /\ r.nr = regs.nr
            /\ IF Ends(s) THEN r.pc = regs.pc /\ r.x0 = "EINTR"
               ELSE r.pc = Rewound.pc /\ r.x0 = Rewound.x0
<1>1. regs \in Regs
  BY DEF CallInv, TypeOK
<1>2. CASE Ends(s)
  <2>1. Interrupted(s) = [pc |-> regs.pc, x0 |-> "EINTR", nr |-> regs.nr,
                          orig |-> regs.orig, sys |-> FALSE]
    BY <1>1, <1>2 DEF Interrupted, Regs
  <2> QED BY <1>1, <1>2, <2>1 DEF Regs
<1>3. CASE ~Ends(s)
  BY <1>3, RewoundFacts DEF Interrupted
<1> QED
  BY <1>2, <1>3

LEMMA NoSignalKeeps == ASSUME NoLongBlock, CallInv, NoSignal PROVE CallInv'
<1>1. mode = "signal"
  BY DEF NoSignal, SignalWork
<1>2. /\ Rewound \in Regs /\ ~Rewound.sys /\ Rewound.nr = regs.nr
      /\ Rewound.pc = IF Restarts THEN At ELSE regs.pc
  BY <1>1, RewoundFacts
<1> PICK r \in Regs : r = Rewound
  BY <1>2
<1>3. /\ regs' \in Regs /\ regs'.pc = r.pc /\ regs'.sys = r.sys
      /\ regs'.nr = IF Restarts /\ AsInt(regs.x0) = "ERESTART_RESTARTBLOCK"
                    THEN "restart" ELSE r.nr
  <2>1. r = [pc |-> r.pc, x0 |-> r.x0, nr |-> r.nr, orig |-> r.orig, sys |-> r.sys]
    BY DEF Regs
  <2>2. regs' = [pc |-> r.pc, x0 |-> r.x0, orig |-> r.orig, sys |-> r.sys,
                 nr |-> IF Restarts /\ AsInt(regs.x0) = "ERESTART_RESTARTBLOCK"
                        THEN "restart" ELSE r.nr]
    BY <2>1 DEF NoSignal
  <2> QED BY <2>1, <2>2 DEF Regs
<1>4. At' = At \/ (At' = At + 1 /\ regs.sys)
  BY <1>2, <1>3 DEF CallInv, TypeOK, Regs
<1>5. TypeOK'
  BY <1>3, ClockSteps DEF CallInv, TypeOK, NoSignal
<1>6. Site(Depth' + 1, At', regs'.nr)
  <2>1. Depth' = Depth /\ Site(Depth + 1, At, regs.nr)
    BY DEF CallInv, NoSignal
  <2>2. CASE regs.sys
    <3>1. At \in {0, 2} /\ regs.nr # "sigreturn" /\ regs'.nr # "sigreturn"
      BY <1>1, <1>2, <1>3, <2>1, <2>2 DEF CallInv
    <3> QED BY <1>4, <2>1, <3>1
  <2>3. CASE ~regs.sys
    BY <1>2, <1>3, <2>1, <2>3 DEF Restarts
  <2> QED BY <2>2, <2>3
<1>7. At' \in {0, 2} /\ regs'.nr = "restart" => block' \in {-1, Depth'}
  <2>1. AsInt(regs.x0) = "ERESTART_RESTARTBLOCK" => regs.x0 = "ERESTART_RESTARTBLOCK"
    BY DEF AsInt, NoLongBlock
  <2> QED BY <1>1, <1>2, <1>3, <1>4, <2>1 DEF CallInv, TypeOK, NoSignal, Restarts
<1> QED
  BY <1>1, <1>2, <1>3, <1>5, <1>6, <1>7 DEF CallInv, NoSignal

(* A frame that cannot be written: the call is over, or is made again.     *)
LEMMA SetupFaultsKeeps == ASSUME CallInv, NEW s \in Sig, SetupFaults(s) PROVE CallInv'
<1>1. mode = "signal" /\ Segv \in Sig
  BY DEF SetupFaults, SignalWork
<1>2. PICK r \in Regs : /\ r = Interrupted(s) /\ ~r.sys /\ r.nr = regs.nr
                        /\ r.pc = IF Restarts /\ ~Ends(s) THEN At ELSE regs.pc
  BY <1>1, InterruptedFacts, RewoundFacts DEF Ends
<1>3. regs' = r
  BY <1>2 DEF SetupFaults
<1>4. r.pc = At \/ (r.pc = At + 1 /\ At \in {0, 2} /\ regs.sys)
  BY <1>1, <1>2 DEF CallInv, TypeOK, Regs
<1>5. Site(Depth + 1, r.pc, r.nr)
  <2>1. Site(Depth + 1, At, r.nr)
    BY <1>2 DEF CallInv
  <2>2. CASE r.pc = At
    BY <2>1, <2>2
  <2>3. CASE r.pc = At + 1 /\ At \in {0, 2}
    BY <2>1, <2>3
  <2> QED BY <1>4, <2>2, <2>3
<1>6. TypeOK'
  BY <1>1, <1>3, ClockSteps DEF CallInv, TypeOK, SetupFaults
<1>7. r.pc \in {0, 2} /\ r.nr = "restart" => block \in {-1, Depth}
  BY <1>1, <1>2, <1>4 DEF CallInv
<1> QED
  BY <1>1, <1>2, <1>3, <1>5, <1>6, <1>7 DEF CallInv, SetupFaults

LEMMA DeliverSignalKeeps == ASSUME CallInv, NEW s \in Sig, DeliverSignal(s) PROVE CallInv'
<1>1. mode = "signal" /\ Depth \in Nat
  BY DEF DeliverSignal, SignalWork, CallInv, TypeOK
<1>2. PICK r \in Regs : /\ r = Interrupted(s) /\ ~r.sys /\ r.nr = regs.nr
                        /\ r.pc = IF Restarts /\ ~Ends(s) THEN At ELSE regs.pc
  BY <1>1, InterruptedFacts, RewoundFacts DEF Ends
<1>3. PICK f : f = [pc |-> r.pc, x0 |-> r.x0, nr |-> r.nr, mask |-> MaskToSave]
  OBVIOUS
<1>4. r.pc = At \/ (r.pc = At + 1 /\ At \in {0, 2} /\ regs.sys)
  BY <1>1, <1>2 DEF CallInv, TypeOK, Regs
<1>5. Site(Depth + 1, r.pc, r.nr)
  <2>1. Site(Depth + 1, At, r.nr)
    BY <1>2 DEF CallInv
  <2>2. CASE r.pc = At
    BY <2>1, <2>2
  <2>3. CASE r.pc = At + 1 /\ At \in {0, 2}
    BY <2>1, <2>3
  <2> QED BY <1>4, <2>2, <2>3
<1>6. f \in SigFrame
  BY <1>2, <1>3, <1>5 DEF CallInv, TypeOK, Regs, SigFrame, MaskToSave
<1>7. frames' = Append(frames, f)
  BY <1>2, <1>3 DEF DeliverSignal
<1>8. /\ frames' \in Seq(SigFrame) /\ Len(frames') = Depth + 1
      /\ frames'[Depth + 1] = f /\ \A d \in 1..Depth : frames'[d] = frames[d]
  BY <1>6, <1>7 DEF CallInv, TypeOK
<1>9. regs' = [pc |-> 3, x0 |-> s, nr |-> r.nr, orig |-> r.orig, sys |-> r.sys]
  BY <1>2 DEF DeliverSignal, Regs
<1>10. TypeOK'
  BY <1>2, <1>8, <1>9, ClockSteps DEF CallInv, TypeOK, DeliverSignal, Regs
<1>11. \A d \in 1..Depth' : Site(d, frames'[d].pc, frames'[d].nr)
  BY <1>1, <1>3, <1>5, <1>8 DEF CallInv
<1> QED
  BY <1>1, <1>2, <1>8, <1>9, <1>10, <1>11 DEF CallInv, DeliverSignal

LEMMA EnterUserKeeps == ASSUME CallInv, EnterUser PROVE CallInv'
<1>1. regs' = regs
  BY DEF CallInv, TypeOK, Regs, EnterUser
<1>2. TypeOK'
  BY <1>1, ClockSteps DEF CallInv, TypeOK, EnterUser
<1> QED
  BY <1>1, <1>2 DEF CallInv, EnterUser, UserWorkPending

LEMMA StepCallInv == ASSUME NoLongBlock, CallInv, [Next]_vars PROVE CallInv'
<1>1. CASE UNCHANGED vars
  BY <1>1, QuietKeeps DEF vars, CallInv, TypeOK, ClockTypeOK
<1>2. CASE Program \/ TrapTimer
  BY <1>2, QuietSteps, ComputeKeeps, GoToCallKeeps, HandlerReturnsKeeps, TrapSyscallKeeps
     DEF Program
<1>3. CASE LinuxCall
  BY <1>3, QuietSteps, CallKeeps, SigreturnKeeps, EndsKeeps DEF LinuxCall
<1>4. CASE Idle \/ OthersRun \/ ClockRuns
  BY <1>4, QuietSteps DEF Idle
<1>5. CASE ExitWork
  <2>1. CASE Poll \/ Reschedule \/ NoSignalWork \/ ResumeWork \/ Again
    BY <2>1, QuietSteps
  <2>2. CASE NoSignal
    BY <2>2, NoSignalKeeps
  <2>3. CASE EnterUser
    BY <2>3, EnterUserKeeps
  <2>4. CASE \E s \in Sig : DeliverSignal(s) \/ SetupFails(s) \/ SetupFaults(s)
    BY <2>4, DeliverSignalKeeps, EndsKeeps, SetupFaultsKeeps
  <2> QED BY <1>5, <2>1, <2>2, <2>3, <2>4 DEF ExitWork
<1> QED
  BY <1>1, <1>2, <1>3, <1>4, <1>5 DEF Next

(* For any number of signals and any depth of handlers, the registers, the *)
(* frames on the user stack and the restart block fit together as CallInv  *)
(* says (signal.c, syscall.c), if no long result looks like a request for  *)
(* restart_syscall (signal.c:162).                                         *)
THEOREM CallInvariant == ASSUME NoLongBlock PROVE Spec => []CallInv
<1>1. CallInv /\ [Next]_vars => CallInv'
  BY StepCallInv
<1> QED
  BY InitCallInv, <1>1, PTL DEF Spec

(* The types of the state, the saved frames and their masks included.      *)
THEOREM CallTypeCorrect == ASSUME NoLongBlock PROVE Spec => []TypeOK
<1>1. CallInv => TypeOK
  BY DEF CallInv
<1> QED
  BY CallInvariant, <1>1, PTL

(* The remainder that restart_syscall runs is always that of the call that *)
(* was interrupted where it is made, however handlers nest (signal.c:232). *)
THEOREM RestartIsOwn == ASSUME NoLongBlock PROVE Spec => []RestartsOwnCall
<1>1. CallInv => RestartsOwnCall
  BY DEF CallInv, RestartsOwnCall, TypeOK, Regs
<1> QED
  BY CallInvariant, <1>1, PTL
-----------------------------------------------------------------------------
(* The refinement.                                                         *)
Activations == [at : Int, x0 : Value, mask : SUBSET Sig]

LEMMA StackFacts ==
  ASSUME NEW b \in Seq(Activations), NEW top \in Activations
  PROVE  LET s == Append(b, top)
         IN /\ Len(s) = Len(b) + 1 /\ s[Len(s)] = top
            /\ SubSeq(s, 1, Len(s) - 1) = b
            /\ \A f \in Activations : [s EXCEPT ![Len(s)] = f] = Append(b, f)
<1> DEFINE s == Append(b, top)
<1>1. /\ Len(s) = Len(b) + 1 /\ s[Len(b) + 1] = top /\ \A i \in 1..Len(b) : s[i] = b[i]
      /\ s \in Seq(Activations) /\ Len(b) \in Nat
  OBVIOUS
<1> HIDE DEF s
<1>2. SubSeq(s, 1, Len(b)) = b
  <2>1. \A i \in 1..Len(b) : s[i] \in Activations
    BY <1>1
  <2>2. /\ SubSeq(s, 1, Len(b)) \in Seq(Activations) /\ Len(SubSeq(s, 1, Len(b))) = Len(b)
        /\ \A i \in 1..Len(b) : SubSeq(s, 1, Len(b))[i] = b[i]
    BY <1>1, <2>1, SubSeqProperties
  <2> QED BY <2>2, SeqEqual
<1>3. ASSUME NEW f \in Activations PROVE [s EXCEPT ![Len(b) + 1] = f] = Append(b, f)
  <2>1. [s EXCEPT ![Len(b) + 1] = f] \in Seq(Activations)
    BY <1>1, ExceptSeq
  <2>2. /\ Len([s EXCEPT ![Len(b) + 1] = f]) = Len(b) + 1
        /\ \A i \in 1..Len(b) + 1 :
             [s EXCEPT ![Len(b) + 1] = f][i] = IF i = Len(b) + 1 THEN f ELSE s[i]
    BY <1>1, ExceptSeq
  <2>3. /\ Append(b, f) \in Seq(Activations) /\ Len(Append(b, f)) = Len(b) + 1
        /\ \A i \in 1..Len(b) + 1 : Append(b, f)[i] = IF i = Len(b) + 1 THEN f ELSE s[i]
    BY <1>1
  <2> PICK t \in Seq(Activations), u \in Seq(Activations) :
         t = [s EXCEPT ![Len(b) + 1] = f] /\ u = Append(b, f)
    BY <2>1, <2>3
  <2>4. /\ Len(t) = Len(b) + 1 /\ \A i \in 1..Len(b) + 1 : t[i] = IF i = Len(b) + 1 THEN f ELSE s[i]
        /\ Len(u) = Len(b) + 1 /\ \A i \in 1..Len(b) + 1 : u[i] = IF i = Len(b) + 1 THEN f ELSE s[i]
    BY <2>2, <2>3
  <2>5. Len(t) = Len(u) /\ \A i \in 1..Len(t) : t[i] = u[i]
    BY <2>4
  <2>6. t = u
    BY ONLY <2>5, SeqEqual, t \in Seq(Activations), u \in Seq(Activations)
  <2> QED BY <2>6
<1> QED
  BY <1>1, <1>2, <1>3 DEF s

StackShaped ==
  /\ Innermost \in Activations /\ Suspended \in Seq(Activations) /\ Len(Suspended) = Depth
  /\ Abstract!Top = Innermost /\ Len(absStack) = Depth + 1
  /\ SubSeq(absStack, 1, Len(absStack) - 1) = Suspended
  /\ \A f \in Activations : Abstract!Resumed(f) = Append(Suspended, f)

LEMMA StackShape == CallInv => StackShaped
<1> SUFFICES ASSUME CallInv PROVE StackShaped
  OBVIOUS
<1>1. Innermost \in Activations
  BY DEF CallInv, TypeOK, Regs, Innermost, Activations
<1>2. \A d \in 1..Depth : Activation(frames[d]) \in Activations
  <2> SUFFICES ASSUME NEW d \in 1..Depth PROVE Activation(frames[d]) \in Activations
    OBVIOUS
  <2> PICK f \in SigFrame : f = frames[d]
    BY DEF CallInv, TypeOK
  <2> QED BY DEF SigFrame, Activation, Activations
<1>3. Suspended \in Seq(Activations) /\ Len(Suspended) = Depth
  <2>1. Depth \in Nat
    BY DEF CallInv, TypeOK
  <2> QED BY <1>2, <2>1 DEF Suspended
<1>4. PICK b \in Seq(Activations), top \in Activations : b = Suspended /\ top = Innermost
  BY <1>1, <1>3
<1>5. absStack = Append(b, top)
  BY <1>4 DEF absStack
<1> QED
  BY <1>1, <1>3, <1>4, <1>5, StackFacts DEF StackShaped, Abstract!Top, Abstract!Resumed

(* The program's own activations stay below the innermost one.             *)
LEMMA SameFrames ==
  ASSUME CallInv, CallInv', frames' = frames
  PROVE  /\ Innermost \in Activations /\ Innermost' \in Activations
         /\ Abstract!Top = Innermost /\ Abstract!Top' = Innermost'
         /\ Len(absStack') = Len(absStack)
         /\ absStack' = Abstract!Resumed(Innermost')
<1>1. Suspended' = Suspended
  BY DEF Suspended
<1>2. absStack' = Append(Suspended, Innermost')
  BY <1>1 DEF absStack
<1>3. StackShaped /\ StackShaped'
  BY StackShape, PTL
<1> QED
  BY <1>2, <1>3 DEF StackShaped
Same == UNCHANGED Abstract!vars

LEMMA StaysSame ==
  ASSUME frames' = frames, Innermost' = Innermost, regs'.sys = regs.sys, absAnswer' = absAnswer
  PROVE  Same
<1>1. absStack' = absStack
  BY DEF absStack, Suspended
<1> QED
  BY <1>1 DEF Same, Abstract!vars

(* Steps of the kernel that the program cannot see.                        *)
LEMMA QuietStutters ==
  ASSUME CallInv,
         \/ TrapTimer \/ TrapFault \/ CallSleeps \/ Poll \/ IdlePoll \/ IdleSleep
         \/ OthersRun \/ Reschedule \/ NoSignalWork \/ ResumeWork \/ Again \/ ClockRuns
  PROVE  Same
<1>1. UNCHANGED <<regs, frames, blocked, savedMask>>
  BY DEF TrapTimer, TrapFault, CallSleeps, Poll, IdlePoll, IdleSleep, OthersRun, Reschedule,
         NoSignalWork, ResumeWork, Again, ClockRuns
<1>2. Answered' <=> Answered
  BY <1>1 DEF CallInv, TypeOK, Answered, TrapTimer, TrapFault, CallSleeps, Executes, Poll,
         IdlePoll, IdleSleep, OthersRun, Reschedule, NoSignalWork, ResumeWork, Again, ClockRuns
<1> QED
  BY <1>1, <1>2, StaysSame DEF Innermost, absAnswer

LEMMA SuspendStutters == ASSUME CallInv, CallSuspends PROVE Same
<1>1. UNCHANGED <<regs, frames>> /\ mode = "call" /\ mode' = "blocked" /\ ~Answered /\ ~Answered'
  BY DEF CallSuspends, Answered
<1>2. Innermost' = Innermost
  BY <1>1 DEF CallInv, TypeOK, CallSuspends, Innermost, NoMask
<1> QED
  BY <1>1, <1>2, StaysSame DEF absAnswer

LEMMA WakesStutters == ASSUME CallInv, Wakes PROVE Same
<1>1. PICK c \in RestartCode : regs' = [regs EXCEPT !.x0 = c]
  BY DEF Wakes, Answer
<1>2. /\ UNCHANGED <<frames, blocked, savedMask>> /\ regs.sys /\ regs'.sys
      /\ regs'.pc = regs.pc /\ regs'.orig = regs.orig /\ regs'.x0 = c
  BY <1>1 DEF CallInv, TypeOK, Regs, Wakes
<1>3. ~Answered /\ ~Answered'
  BY <1>1, <1>2 DEF Answered, Wakes
<1> QED
  BY <1>2, <1>3, StaysSame DEF Innermost, absAnswer

LEMMA EnterUserStutters == ASSUME CallInv, EnterUser PROVE Same
<1>1. regs' = regs /\ ~regs.sys
  BY DEF CallInv, TypeOK, Regs, EnterUser
<1> QED
  BY <1>1, StaysSame DEF EnterUser, Innermost, Answered, absAnswer

(* The program computes, and makes a system call.                          *)
LEMMA ProgramRuns ==
  ASSUME CallInv, CallInv', Compute \/ GoToCall \/ HandlerReturns
  PROVE  Abstract!Run
<1>1. /\ frames' = frames /\ ~regs.sys /\ regs'.sys = regs.sys /\ regs.pc \in {1, 3}
      /\ UNCHANGED <<blocked, savedMask>>
  BY DEF CallInv, TypeOK, Regs, Compute, GoToCall, HandlerReturns
<1>2. absAnswer = "none" /\ absAnswer' = "none"
  BY <1>1 DEF Answered, absAnswer
<1>3. PICK f \in Activations : f = Innermost'
  BY <1>1, SameFrames
<1>4. f.mask = Innermost.mask /\ [f EXCEPT !.mask = Innermost.mask] = f
  BY <1>1, <1>3 DEF Innermost, Activations
<1>5. Innermost.at \in {1, 3} /\ f.at \in 0..4
  BY <1>1, <1>3 DEF CallInv, TypeOK, Regs, Innermost
<1>6. [Abstract!Top' EXCEPT !.mask = Abstract!Top.mask] = f
  BY <1>1, <1>3, <1>4, SameFrames
<1>7. /\ Abstract!Top.at \in {1, 3} /\ Abstract!Top'.at \in 0..4
      /\ Len(absStack') = Len(absStack) /\ absStack' = Abstract!Resumed(f)
  BY <1>1, <1>3, <1>5, SameFrames
<1> QED
  BY <1>1, <1>2, <1>6, <1>7 DEF Abstract!Run

LEMMA ProgramCalls == ASSUME CallInv, CallInv', TrapSyscall PROVE Abstract!Call
<1>1. /\ frames' = frames /\ ~regs.sys /\ regs'.sys /\ regs.pc \in {0, 2, 4}
      /\ regs'.pc = regs.pc + 1
      /\ regs'.orig = IF regs.pc \in Gates THEN "arg" ELSE regs.x0
      /\ UNCHANGED <<blocked, savedMask>> /\ mode' = "call"
  BY SyscallRegs DEF CallInv, TypeOK, Regs, TrapSyscall
<1>2. absAnswer = "none" /\ absAnswer' = "none"
  BY <1>1 DEF Answered, absAnswer
<1>3. PICK f \in Activations, top \in Activations : f = Innermost' /\ top = Innermost
  BY <1>1, SameFrames
<1>4. /\ f.at = top.at /\ f.mask = top.mask /\ top.at = regs.pc
      /\ f.x0 = IF top.at \in Gates THEN "arg" ELSE top.x0
  BY <1>1, <1>3 DEF CallInv, TypeOK, Regs, Innermost
<1>5. f = IF top.at \in Gates THEN [top EXCEPT !.x0 = "arg"] ELSE top
  BY <1>4 DEF Activations
<1> QED
  BY <1>1, <1>2, <1>3, <1>4, <1>5, SameFrames DEF Abstract!Call

(* The kernel answers: the call ended, or there is nothing to restart.     *)
LEMMA KernelReplies ==
  ASSUME CallInv, CallInv', CallReturns \/ SetMask \/ SleepEnds \/ NoRestart
  PROVE  Abstract!Reply
<1>1. PICK v \in {"ok", "EINTR"} \cup LongResult :
        regs' = [regs EXCEPT !.x0 = v] /\ mode' = "poll"
  BY DEF CallReturns, SetMask, SleepEnds, NoRestart, Answer
<1>2. /\ frames' = frames /\ regs.sys /\ mode \in {"call", "woken"} /\ At # 4
  BY DEF CallInv, TypeOK, Regs, CallReturns, SetMask, SleepEnds, NoRestart, Executes
<1>3. regs'.sys /\ regs'.pc = regs.pc /\ regs'.orig = regs.orig /\ regs'.x0 = v
  BY <1>1, <1>2 DEF CallInv, TypeOK, Regs
<1>4. absAnswer = "none" /\ absAnswer' = v
  BY <1>1, <1>2, <1>3, ResultAssumption DEF Answered, absAnswer
<1>5. PICK f \in Activations, top \in Activations : f = Innermost' /\ top = Innermost
  BY <1>2, SameFrames
<1>6. f.at = top.at /\ f.x0 = top.x0 /\ top.at # 4
  BY <1>2, <1>3, <1>5 DEF Innermost
<1>7. f = [top EXCEPT !.mask = f.mask]
  BY <1>6 DEF Activations
<1> QED
  BY <1>2, <1>3, <1>4, <1>5, <1>6, <1>7, SameFrames DEF Abstract!Reply
LEMMA KernelReturns == ASSUME CallInv, CallInv', Sigreturn PROVE Abstract!Sigreturn
<1>1. /\ Depth > 0 /\ Depth \in Nat /\ At = 4 /\ regs.sys /\ ~RestoreMask
      /\ mode = "call" /\ ~regs'.sys
      /\ frames' = SubSeq(frames, 1, Depth - 1) /\ Len(frames') = Depth - 1
      /\ \A d \in 1..Depth - 1 : frames'[d] = frames[d]
  BY FrameTaken DEF CallInv, TypeOK, Sigreturn, Restored
<1>2. PICK f : f = frames[Depth]
  OBVIOUS
<1>3. Innermost' = Activation(f)
  BY <1>1, <1>2 DEF Sigreturn, Restored, Innermost, Activation
<1>4. absAnswer = "none" /\ absAnswer' = "none"
  BY <1>1 DEF Answered, absAnswer
<1>5. StackShaped /\ StackShaped'
  BY StackShape, PTL
<1>6. absStack' = Suspended
  <2>1. /\ absStack' \in Seq(Activations) /\ Len(absStack') = Depth
        /\ absStack'[Depth] = Activation(f)
        /\ \A d \in 1..Depth - 1 : absStack'[d] = Suspended'[d]
    <3>1. PICK b \in Seq(Activations), top \in Activations :
            b = Suspended' /\ top = Innermost' /\ absStack' = Append(b, top)
      BY <1>5 DEF StackShaped, absStack
    <3>2. Len(b) = Depth - 1
      BY <1>1, <1>5, <3>1 DEF StackShaped
    <3> QED BY <1>1, <1>3, <3>1, <3>2
  <2>2. \A d \in 1..Depth - 1 : Suspended'[d] = Activation(frames[d])
    BY <1>1 DEF Suspended
  <2>3. \A d \in 1..Depth : Suspended[d] = Activation(frames[d])
    BY DEF Suspended
  <2>4. Suspended \in Seq(Activations) /\ Len(Suspended) = Depth
    BY <1>5 DEF StackShaped
  <2>5. \A d \in 1..Depth : absStack'[d] = Suspended[d]
    BY <1>1, <1>2, <2>1, <2>2, <2>3
  <2> QED BY <2>1, <2>4, <2>5, SeqEqual
<1>7. /\ Abstract!Top.at = 4 /\ Len(absStack) > 1
      /\ absStack' = SubSeq(absStack, 1, Len(absStack) - 1)
  <2>1. Abstract!Top = Innermost /\ Len(absStack) = Depth + 1
    BY <1>5 DEF StackShaped
  <2>2. SubSeq(absStack, 1, Len(absStack) - 1) = Suspended
    BY <1>5 DEF StackShaped
  <2> QED BY <1>1, <1>6, <2>1, <2>2 DEF Innermost
<1> QED
  BY <1>1, <1>4, <1>7 DEF Abstract!Sigreturn

(* A program that a signal ends, and the one that is started then.         *)
LEMMA KernelEnds ==
  ASSUME (\E s \in Sig : SetupFails(s)) \/ BadFrame
  PROVE  Abstract!ProgramEnds
<1>1. ProgramEnds
  BY DEF SetupFails, BadFrame
<1>2. ~regs'.sys /\ ~RestoreMask' /\ frames' = <<>> /\ regs'.sys = FALSE
  BY <1>1 DEF ProgramEnds, FirstRegs
<1>3. Suspended' = <<>> /\ Innermost' = [at |-> 1, x0 |-> "arg", mask |-> {}]
  BY <1>1, <1>2 DEF ProgramEnds, FirstRegs, Suspended, Innermost
<1>4. absStack' = Abstract!TheProgram
  BY <1>3 DEF absStack, Abstract!TheProgram
<1> QED
  BY <1>2, <1>4 DEF Abstract!ProgramEnds, absAnswer, Answered

(* What the registers say of the activation that a signal finds, when they *)
(* hold r in place of regs: past the call, or before it.                   *)
Leaves(r) == [at |-> r.pc, x0 |-> r.x0, mask |-> Innermost.mask]

LEMMA LeftFacts ==
  ASSUME CallInv, mode = "signal", NEW r \in Regs,
         \/ r.pc = Rewound.pc /\ r.x0 = Rewound.x0
         \/ Restarts /\ r.pc = regs.pc /\ r.x0 = "EINTR"
  PROVE  /\ Leaves(r) \in Activations /\ Leaves(r) \in Abstract!Left
         /\ ~regs.sys => Leaves(r) = Innermost
         /\ regs.sys => Abstract!Top.at # 4
<1>1. StackShaped
  BY StackShape
<1>0. Leaves(r) \in Activations
  BY <1>1 DEF StackShaped, Activations, Leaves, Regs
<1>2. PICK top \in Activations, a \in Activations :
        top = Innermost /\ top = Abstract!Top /\ a = Leaves(r)
  BY <1>0, <1>1 DEF StackShaped
<1>3. a.at = r.pc /\ a.x0 = r.x0 /\ a.mask = top.mask
  BY <1>2 DEF Leaves
<1>4. regs \in Regs /\ (regs.sys => top.at = regs.pc - 1 /\ top.at # 4 /\ top.x0 = regs.orig)
  BY <1>2 DEF CallInv, TypeOK, Innermost
<1>5. ASSUME NEW v \in Value, a.at = top.at + 1, a.x0 = v PROVE a = Abstract!After(v)
  BY <1>2, <1>3, <1>5 DEF Activations, Abstract!After
<1>6. CASE ~regs.sys
  <2>1. r.pc = regs.pc /\ r.x0 = regs.x0
    BY <1>6, RewoundFacts DEF Restarts
  <2>2. a.at = top.at /\ a.x0 = top.x0
    BY <1>2, <1>3, <1>6, <2>1 DEF Innermost
  <2>3. a = top
    BY <1>3, <2>2 DEF Activations
  <2> QED BY <1>2, <1>6, <2>3 DEF Abstract!Left
<1>7. CASE Restarts
  <2>1. regs.sys /\ (absAnswer = "none" \/ absAnswer \in LongResult)
    BY ResultAssumption, <1>7 DEF Restarts, AsInt, Answered, absAnswer
  <2>2. a = top \/ a = Abstract!After("EINTR")
    <3>1. CASE r.pc = Rewound.pc /\ r.x0 = Rewound.x0
      <4>1. a.at = top.at /\ a.x0 = top.x0
        BY <1>2, <1>3, <1>4, <1>7, <2>1, <3>1, RewoundFacts DEF Innermost
      <4> QED BY <1>3, <4>1 DEF Activations
    <3>2. CASE r.pc = regs.pc /\ r.x0 = "EINTR"
      <4>1. a.at = top.at + 1 /\ a.x0 = "EINTR" /\ "EINTR" \in Value
        BY <1>3, <1>4, <2>1, <3>2 DEF Regs
      <4> QED BY <1>5, <4>1
    <3> QED BY <1>7, <3>1, <3>2
  <2> QED BY <1>2, <1>4, <2>1, <2>2 DEF Abstract!Left, Abstract!Interrupted
<1>8. CASE regs.sys /\ ~Restarts
  <2>1. r.pc = regs.pc /\ r.x0 = regs.x0
    BY <1>8, RewoundFacts
  <2>2. absAnswer = regs.x0 /\ absAnswer # "none"
    BY ResultAssumption, <1>8 DEF Restarts, AsInt, Answered, absAnswer, CallInv
  <2>3. a.at = top.at + 1 /\ a.x0 = absAnswer /\ absAnswer \in Value
    BY <1>3, <1>4, <1>8, <2>1, <2>2 DEF Regs
  <2>4. a = Abstract!After(absAnswer)
    BY <1>5, <2>3
  <2> QED BY <1>2, <1>4, <1>8, <2>2, <2>4 DEF Abstract!Left
<1> QED
  BY <1>6, <1>7, <1>8

(* The registers are ready for the program and no handler runs: the call   *)
(* returned, ended or is made again, or there was none.                    *)
LEMMA GoesOn ==
  ASSUME CallInv, CallInv', mode = "signal", mode' = "resume", frames' = frames,
         NEW r \in Regs, regs'.pc = r.pc, regs'.x0 = r.x0, regs'.sys = FALSE,
         \/ r.pc = Rewound.pc /\ r.x0 = Rewound.x0
         \/ Restarts /\ r.pc = regs.pc /\ r.x0 = "EINTR",
         Innermost'.mask = Innermost.mask
  PROVE  Abstract!Return \/ Same
<1>1. absAnswer' = "none"
  BY DEF Answered, absAnswer
<1>2. Innermost' = Leaves(r)
  BY DEF Innermost, Leaves
<1>3. CASE regs.sys
  BY <1>1, <1>2, <1>3, LeftFacts, SameFrames DEF Abstract!Return
<1>4. CASE ~regs.sys
  <2>1. absAnswer = "none"
    BY <1>4 DEF Answered, absAnswer
  <2> QED BY <1>1, <1>2, <1>4, <2>1, LeftFacts, StaysSame DEF CallInv, TypeOK, Regs
<1> QED
  BY <1>3, <1>4

(* No signal after all, or only the mask of rt_sigsuspend is taken back.   *)
LEMMA KernelGoesOn ==
  ASSUME CallInv, CallInv', NoSignal
  PROVE  Abstract!Return \/ Same
<1>1. /\ mode = "signal" /\ mode' = "resume" /\ frames' = frames /\ regs \in Regs
      /\ savedMask' = NoMask /\ blocked' = IF RestoreMask THEN savedMask ELSE blocked
  BY DEF NoSignal, SignalWork, CallInv, TypeOK
<1>2. PICK r \in Regs : r = Rewound /\ ~r.sys
  BY <1>1, RewoundFacts
<1>3. regs'.pc = r.pc /\ regs'.x0 = r.x0 /\ regs'.sys = FALSE
  BY <1>1, <1>2 DEF NoSignal, Regs, CallInv, TypeOK
<1>4. Innermost'.mask = Innermost.mask
  BY <1>1 DEF Innermost
<1> QED
  BY <1>1, <1>2, <1>3, <1>4, GoesOn

(* A frame that cannot be written: SIGSEGV is delivered next.              *)
LEMMA KernelFaults ==
  ASSUME CallInv, CallInv', NEW s \in Sig, SetupFaults(s)
  PROVE  Abstract!Return \/ Same
<1>1. /\ mode = "signal" /\ mode' = "resume" /\ frames' = frames
      /\ UNCHANGED <<blocked, savedMask>>
  BY DEF SetupFaults, SignalWork
<1>2. PICK r \in Regs : /\ r = Interrupted(s) /\ ~r.sys
                        /\ IF Ends(s) THEN r.pc = regs.pc /\ r.x0 = "EINTR"
                           ELSE r.pc = Rewound.pc /\ r.x0 = Rewound.x0
  BY <1>1, InterruptedFacts
<1>3. regs' = r /\ r.sys = FALSE
  BY <1>2 DEF SetupFaults, Regs
<1>4. Innermost'.mask = Innermost.mask
  BY <1>1 DEF Innermost
<1>5. \/ r.pc = Rewound.pc /\ r.x0 = Rewound.x0
      \/ Restarts /\ r.pc = regs.pc /\ r.x0 = "EINTR"
  BY <1>2 DEF Ends
<1> QED
  BY <1>1, <1>3, <1>4, <1>5, GoesOn

(* A handler is put on top of what it interrupts, which its return will    *)
(* resume: past the call, past the call with EINTR, or before the call.    *)
LEMMA KernelHandles ==
  ASSUME CallInv, CallInv', NEW s \in Sig, DeliverSignal(s)
  PROVE  Abstract!Handle
<1>1. mode = "signal" /\ Depth \in Nat /\ regs \in Regs
  BY DEF DeliverSignal, SignalWork, CallInv, TypeOK
<1>2. PICK r \in Regs : /\ r = Interrupted(s) /\ ~r.sys
                        /\ IF Ends(s) THEN r.pc = regs.pc /\ r.x0 = "EINTR"
                           ELSE r.pc = Rewound.pc /\ r.x0 = Rewound.x0
  BY <1>1, InterruptedFacts
<1>3. PICK f : f = [pc |-> r.pc, x0 |-> r.x0, nr |-> r.nr, mask |-> MaskToSave]
  OBVIOUS
<1>4. /\ frames' = Append(frames, f) /\ regs' = [r EXCEPT !.pc = 3, !.x0 = s]
      /\ blocked' = blocked \cup {s} /\ savedMask' = NoMask
  BY <1>2, <1>3 DEF DeliverSignal
<1>5. regs'.pc = 3 /\ regs'.x0 = s /\ regs'.sys = FALSE
  BY <1>2, <1>4 DEF Regs
<1>6. Innermost' = [at |-> 3, x0 |-> s, mask |-> blocked \cup {s}]
  BY <1>4, <1>5 DEF Innermost
<1>7. absAnswer' = "none"
  BY <1>5 DEF Answered, absAnswer
<1>8. StackShaped /\ StackShaped'
  BY StackShape, PTL
<1>9. PICK a \in Activations : a = Activation(f) /\ Suspended' = Append(Suspended, a)
  <2>1. /\ frames \in Seq(SigFrame) /\ frames' \in Seq(SigFrame) /\ Len(frames') = Depth + 1
        /\ frames'[Depth + 1] = f /\ \A d \in 1..Depth : frames'[d] = frames[d]
    <3>1. frames \in Seq(SigFrame) /\ frames' \in Seq(SigFrame)
      BY DEF CallInv, TypeOK
    <3> QED BY <1>4, <3>1
  <2>2. f \in SigFrame
    BY <2>1
  <2>3. Activation(f) \in Activations
    BY <2>2 DEF SigFrame, Activation, Activations
  <2>4. PICK b \in Seq(Activations), c \in Seq(Activations) : b = Suspended /\ c = Suspended'
    BY <1>8 DEF StackShaped
  <2>5. Len(b) = Depth /\ Len(c) = Depth + 1
    BY <1>8, <2>1, <2>4 DEF StackShaped
  <2>6. /\ \A d \in 1..Depth : b[d] = Activation(frames[d])
        /\ \A d \in 1..Depth + 1 : c[d] = Activation(frames'[d])
    BY <2>1, <2>4 DEF Suspended
  <2>7. PICK a \in Activations : a = Activation(f)
    BY <2>3
  <2>8. \A d \in 1..Depth + 1 : c[d] = Append(b, a)[d]
    BY <1>1, <2>1, <2>5, <2>6, <2>7
  <2>9. c = Append(b, a)
    BY <1>1, <2>5, <2>8, SeqEqual
  <2> QED BY <2>4, <2>7, <2>9
<1>10. absStack' = Append(Abstract!Resumed(a), Innermost')
  <2>1. Abstract!Resumed(a) = Append(Suspended, a)
    BY <1>8 DEF StackShaped
  <2> QED BY <1>9, <2>1 DEF absStack
<1>11. a = Leaves(r)
  BY <1>3, <1>9 DEF Activation, MaskToSave, Innermost, Leaves
<1>12. a \in Abstract!Left
  <2>1. \/ r.pc = Rewound.pc /\ r.x0 = Rewound.x0
        \/ Restarts /\ r.pc = regs.pc /\ r.x0 = "EINTR"
    BY <1>2 DEF Ends
  <2> QED BY <1>1, <1>11, <2>1, LeftFacts
<1>13. Len(absStack') = Len(absStack) + 1 /\ Abstract!Top' = Innermost'
  <2>1. /\ Len(absStack') = Len(frames') + 1 /\ Len(absStack) = Depth + 1
        /\ Abstract!Top' = Innermost'
    BY <1>8 DEF StackShaped
  <2>2. Len(frames') = Depth + 1
    BY <1>4 DEF CallInv, TypeOK
  <2> QED BY <1>1, <2>1, <2>2
<1> QED
  BY <1>5, <1>6, <1>7, <1>10, <1>12, <1>13 DEF Abstract!Handle

LEMMA StepMaps ==
  ASSUME NoLongBlock, CallInv, [Next]_vars
  PROVE  [Abstract!Next]_(Abstract!vars)
<1>0. CallInv'
  BY StepCallInv
<1>1. Same => UNCHANGED Abstract!vars
  BY DEF Same
<1>2. CASE UNCHANGED vars
  BY <1>1, <1>2, StaysSame DEF vars, Innermost, Answered, absAnswer
<1>3. CASE Program \/ TrapTimer
  BY <1>0, <1>1, <1>3, QuietStutters, ProgramRuns, ProgramCalls DEF Program, Abstract!Next
<1>4. CASE LinuxCall
  <2>1. CASE CallReturns \/ SetMask \/ SleepEnds \/ NoRestart
    BY <1>0, <2>1, KernelReplies DEF Abstract!Next
  <2>2. CASE CallSleeps \/ CallSuspends \/ Wakes
    BY <1>1, <2>2, QuietStutters, SuspendStutters, WakesStutters
  <2>3. CASE Sigreturn \/ BadFrame
    BY <1>0, <2>3, KernelReturns, KernelEnds DEF Abstract!Next
  <2> QED BY <1>4, <2>1, <2>2, <2>3 DEF LinuxCall
<1>5. CASE Idle \/ OthersRun \/ ClockRuns
  BY <1>1, <1>5, QuietStutters DEF Idle
<1>6. CASE ExitWork
  <2>1. CASE Poll \/ Reschedule \/ NoSignalWork \/ ResumeWork \/ Again \/ EnterUser
    BY <1>1, <2>1, QuietStutters, EnterUserStutters
  <2>2. CASE NoSignal
    BY <1>0, <1>1, <2>2, KernelGoesOn DEF Abstract!Next
  <2>3. CASE \E s \in Sig : SetupFails(s) \/ SetupFaults(s)
    BY <1>0, <1>1, <2>3, KernelEnds, KernelFaults DEF Abstract!Next
  <2>4. CASE \E s \in Sig : DeliverSignal(s)
    BY <1>0, <2>4, KernelHandles DEF Abstract!Next
  <2> QED BY <1>6, <2>1, <2>2, <2>3, <2>4 DEF ExitWork
<1> QED
  BY <1>2, <1>3, <1>4, <1>5, <1>6 DEF Next

LEMMA InitMaps == Init => Abstract!Init
<1> SUFFICES ASSUME Init PROVE Abstract!Init
  OBVIOUS
<1>1. Suspended = <<>> /\ Innermost = [at |-> 1, x0 |-> "arg", mask |-> {}]
  BY DEF Init, FirstRegs, Suspended, Innermost
<1>2. absStack = Abstract!TheProgram
  BY <1>1 DEF absStack, Abstract!TheProgram
<1> QED
  BY <1>2 DEF Init, FirstRegs, Abstract!Init, absAnswer, Answered

(* Whatever signals arrive, and however handlers nest: a system call is    *)
(* answered once, made again, by BRK with its own argument, or ends with   *)
(* EINTR; only a long result may be thrown away; and what a handler        *)
(* interrupted goes on with its value and its mask.                        *)
(* (orlix_do_signal_or_restart, signal.c, and syscall.c.)                  *)
THEOREM CallsAreInterruptible == ASSUME NoLongBlock PROVE Spec => ImplementsInterruptibleCalls
<1>1. CallInv /\ [Next]_vars => [Abstract!Next]_(Abstract!vars)
  BY StepMaps
<1> QED
  BY InitMaps, <1>1, CallInvariant, PTL
     DEF Spec, ImplementsInterruptibleCalls, Abstract!Spec
=============================================================================
