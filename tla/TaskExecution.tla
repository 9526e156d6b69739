--------------------------- MODULE TaskExecution ---------------------------
(***************************************************************************)
(* What hosted execution promises to a Linux task: a private register      *)
(* context and a private TLS pointer.  A task's registers are changed by   *)
(* the task itself while it runs, by the result of a system call it made,  *)
(* by the delivery of a signal, and by exec; never by the act of trapping, *)
(* being preempted, being switched out and being resumed.  Its TLS pointer *)
(* is the one its program set, or the one its creator gave it.             *)
(*                                                                         *)
(* HostedTrap implements this specification.                               *)
(***************************************************************************)
CONSTANTS Task,      \* Linux task slots
          Tls,       \* addresses inside the user aperture, usable as TLS
          None       \* "no task"

VARIABLES on,        \* the task whose user instructions execute now, or None
          asked,     \* the tasks that wait for the result of a system call
          gpr,       \* the register context of every task
          tls        \* the TLS pointer of every task whose program set one

aVars == <<on, asked, gpr, tls>>

(* A task's own computation leaves the token of that task in its registers *)
(* (so that contexts of two tasks cannot be confused unnoticed); the other *)
(* tokens say who else wrote them.                                         *)
Gpr == Task \cup {"ret", "handler", "fresh"}
Unset == "unset"

ATypeOK == /\ on \in Task \cup {None}
           /\ asked \in SUBSET Task
           /\ gpr \in [Task -> Gpr]
           /\ tls \in [Task -> Tls \cup {Unset}]

AInit == /\ on = None
         /\ asked = {}
         /\ gpr = [t \in Task |-> "fresh"]
         /\ tls = [t \in Task |-> Unset]

-----------------------------------------------------------------------------
(* The task executes one instruction of its own.                           *)
Compute(t) == /\ on = t
              /\ gpr' = [gpr EXCEPT ![t] = t]
              /\ UNCHANGED <<on, asked, tls>>

(* The task stops executing: preemption, a memory fault.                   *)
Stop(t) == /\ on = t
           /\ on' = None
           /\ UNCHANGED <<asked, gpr, tls>>

(* The task stops executing by a system call.                              *)
Ask(t) == /\ on = t
          /\ on' = None
          /\ asked' = asked \cup {t}
          /\ UNCHANGED <<gpr, tls>>

(* The task stops executing by a write of its TLS register.                *)
WriteTls(t, v) == /\ on = t
                  /\ on' = None
                  /\ tls' = [tls EXCEPT ![t] = v]
                  /\ UNCHANGED <<asked, gpr>>

Run(t) == /\ on = None
          /\ t \notin asked
          /\ on' = t
          /\ UNCHANGED <<asked, gpr, tls>>

(* Only a task that made a system call receives a result.                  *)
Result(t) == /\ on = None
             /\ t \in asked
             /\ gpr' = [gpr EXCEPT ![t] = "ret"]
             /\ asked' = asked \ {t}
             /\ UNCHANGED <<on, tls>>

Signal(t) == /\ on = None
             /\ t \notin asked
             /\ gpr' = [gpr EXCEPT ![t] = "handler"]
             /\ UNCHANGED <<on, asked, tls>>

(* A new program image, or a new life of the task slot: the registers are  *)
(* those of an entry point, and nothing is promised of the TLS pointer     *)
(* until the program sets one.                                             *)
NewImage(t) == /\ on = None
               /\ gpr' = [gpr EXCEPT ![t] = "fresh"]
               /\ tls' = [tls EXCEPT ![t] = Unset]
               /\ asked' = asked \ {t}
               /\ UNCHANGED on

(* A child has the registers of its parent, with 0 as result, and its      *)
(* parent's TLS pointer or the one its parent chose, of which nothing is   *)
(* promised if it is not usable.                                           *)
Child(p, c) == /\ on = None
               /\ p # c
               /\ p \in asked
               /\ c \notin asked
               /\ gpr' = [gpr EXCEPT ![c] = "ret"]
               /\ \E v \in Tls \cup {tls[p], Unset} : tls' = [tls EXCEPT ![c] = v]
               /\ UNCHANGED <<on, asked>>

ANext == \E t \in Task :
            \/ Compute(t) \/ Stop(t) \/ Ask(t)
            \/ \E v \in Tls : WriteTls(t, v)
            \/ Run(t) \/ Result(t) \/ Signal(t) \/ NewImage(t)
            \/ \E c \in Task : Child(t, c)

ASpec == AInit /\ [][ANext]_aVars
=============================================================================
