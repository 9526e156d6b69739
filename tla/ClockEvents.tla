---------------------------- MODULE ClockEvents ----------------------------
(***************************************************************************)
(* The clock event device of the port (arch/orlix/kernel/time.c).  No      *)
(* interrupt announces that its deadline has passed: the kernel polls it,  *)
(* after system calls, at the traps of the timer, when it gives up the     *)
(* processor and in the idle loop (idle.c).                                *)
(*                                                                         *)
(* Time is counted from the deadline: left is what is left until then, and *)
(* is negative when the deadline has passed.                               *)
(***************************************************************************)
EXTENDS Integers

CONSTANTS Period,    \* NSEC_PER_SEC / HZ
          Lateness   \* how late a poll is distinguished from later ones

ASSUME PeriodAssumption == Period \in Nat \ {0} /\ Lateness \in Nat

VARIABLES event,  \* "off", "oneshot" or "periodic": armed and periodic
          left    \* orlix_clockevent_deadline_ns, less the time of the host

clockVars == <<event, left>>

ClockTypeOK == /\ event \in {"off", "oneshot", "periodic"}
               /\ left \in (-Lateness)..Period

ClockInit == event = "off" /\ left = 0

(* orlix_timer_set_next_event, orlix_timer_set_periodic, and shutdown or   *)
(* the change to one-shot mode.                                            *)
SetNextEvent_Mutant(delta) == event' = event /\ left' = delta
SetNextEvent(delta) == event' = "oneshot" /\ left' = delta
SetPeriodic == event' = "periodic" /\ left' = Period
Shutdown == event' = "off" /\ left' = 0

Due == event # "off" /\ left <= 0

(* orlix_timer_poll before it calls the handler: a period that has passed  *)
(* as well is not made up for.                                             *)
Advance_Mutant ==
  IF event = "periodic" THEN left' = left + Period /\ UNCHANGED event ELSE Shutdown
Advance ==
  IF event = "periodic"
  THEN /\ left' = IF left + Period > 0 THEN left + Period ELSE Period
       /\ UNCHANGED event
  ELSE Shutdown

TimePasses ==
  /\ event # "off" /\ left > -Lateness
  /\ left' = left - 1
  /\ UNCHANGED event

(* orlix_host_thread_idle_until: the host thread sleeps to the deadline,   *)
(* or for a millisecond when there is none.                                *)
SleepToDeadline ==
  /\ left' = IF left > 0 THEN 0 ELSE left
  /\ UNCHANGED event
=============================================================================
