---------------------------- MODULE MCHostedTrap ----------------------------
(* The boot task, one or two task slots and one or two TLS pointers.       *)
EXTENDS HostedTrapProperties, TLC

CONSTANTS idle, t1, t2, tls1, tls2

TwoTasks == {idle, t1, t2}
OneTask  == {idle, t1}
TwoTls   == {tls1, tls2}
OneTls   == {tls1}

(* For safety properties only.                                             *)
Symmetry == Permutations({t1, t2}) \cup Permutations(TwoTls)
=============================================================================
