---------------------------- MODULE MCUserCalls ----------------------------
(* The instance of UserCalls that TLC checks: two signals, of which one    *)
(* restarts the calls it interrupts and the other is SIGSEGV; a program    *)
(* that may hold a restart code of the kernel in x0 by chance, and whose   *)
(* handlers call through the gate; and one long result.                    *)
EXTENDS UserCallsProperties

MCSig == {"a", "b"}
MCSaRestart == {"a"}
MCUserValue == {"ERESTARTSYS"}
MCMasks == {{"b"}}
MCGates == {2}
MCLongResult == {"offset"}
MCLow == [r \in MCLongResult |-> "ERESTARTSYS"]
=============================================================================
