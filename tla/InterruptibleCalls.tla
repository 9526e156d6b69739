------------------------- MODULE InterruptibleCalls -------------------------
(***************************************************************************)
(* What a program may rely on when signals interrupt its system calls: a   *)
(* call is answered once, or it is made again, or it ends with EINTR; the  *)
(* program never sees the kernel's own restart codes.  What a handler      *)
(* interrupts resumes where it was, with its value and its signal mask.    *)
(*                                                                         *)
(* Two things are weaker than in Linux.  The gate leaves the argument of a *)
(* call in the register that its number came in, so that the call is       *)
(* another one when it is made again; and a long result that looks like a  *)
(* restart code may be thrown away.                                        *)
(***************************************************************************)
EXTENDS Integers, Sequences

CONSTANTS Sig,
          Gates,      \* where calls are made through the gate
          LongResult  \* the results that look like a restart code

VARIABLES stack,    \* the program and its handlers, the innermost last
          calling,  \* the innermost one is in a system call
          answer    \* what the call returns, or "none" yet

vars == <<stack, calling, answer>>

Top == stack[Len(stack)]
Resumed(f) == [stack EXCEPT ![Len(stack)] = f]
After(v) == [Top EXCEPT !.at = @ + 1, !.x0 = v]

TheProgram == <<[at |-> 1, x0 |-> "arg", mask |-> {}]>>
Init == stack = TheProgram /\ calling = FALSE /\ answer = "none"

Run ==
  /\ ~calling /\ Top.at \in {1, 3}
  /\ UNCHANGED <<calling, answer>>
  /\ Len(stack') = Len(stack) /\ Top'.at \in 0..4
  /\ stack' = Resumed([Top' EXCEPT !.mask = Top.mask])

Call ==
  /\ ~calling /\ Top.at \in {0, 2, 4}
  /\ calling' = TRUE
  /\ stack' = Resumed(IF Top.at \in Gates THEN [Top EXCEPT !.x0 = "arg"] ELSE Top)
  /\ UNCHANGED answer

Reply ==
  /\ calling /\ answer = "none" /\ Top.at # 4
  /\ answer' \in {"ok", "EINTR"} \cup LongResult
  /\ stack' = Resumed([Top EXCEPT !.mask = Top'.mask])
  /\ UNCHANGED calling

(* What the kernel leaves of the innermost activation: it is past the      *)
(* call, with the answer, or with EINTR, or before a call to make again.   *)
Interrupted == answer \in LongResult \cup {"none"}
Left == IF ~calling THEN {Top}
        ELSE {f \in {Top, After("EINTR")} : Interrupted}
             \cup {After(v) : v \in {answer} \ {"none"}}

Return ==
  /\ calling /\ Top.at # 4
  /\ \E f \in Left : stack' = Resumed(f)
  /\ calling' = FALSE /\ answer' = "none"

Handle ==
  /\ Len(stack') = Len(stack) + 1
  /\ Top'.at = 3 /\ Top'.x0 \in Sig \cap Top'.mask
  /\ \E f \in Left : stack' = Append(Resumed(f), Top')
  /\ calling' = FALSE /\ answer' = "none"

Sigreturn ==
  /\ calling /\ Top.at = 4 /\ Len(stack) > 1
  /\ stack' = SubSeq(stack, 1, Len(stack) - 1)
  /\ calling' = FALSE
  /\ UNCHANGED answer

(* A signal without a handler, or one whose frame cannot be written.       *)
ProgramEnds == stack' = TheProgram /\ calling' = FALSE /\ answer' = "none"

Next == Run \/ Call \/ Reply \/ Return \/ Handle \/ Sigreturn \/ ProgramEnds

Spec == Init /\ [][Next]_vars
=============================================================================
