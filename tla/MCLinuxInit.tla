---------------------------- MODULE MCLinuxInit ----------------------------
(* The instance of LinuxInit that TLC checks: commands that fit, that have *)
(* too many arguments, too long values, or that the kernel cuts, one that  *)
(* is not installed, and one that a command line of the caller replaces.   *)
EXTENDS LinuxInitProperties

Env(argv, env, uid) ==
  [argv |-> argv, env |-> env, cwd |-> "/work", uid |-> uid, gid |-> uid,
   ownLine |-> FALSE]

MCTypical == Env(<<"/bin/sh">>, <<"TERM">>, "0")
MCDescriptors ==
  {MCTypical,
   Env(<<"/bin/sh", "-c">>, <<>>, "1000"),
   Env(<<"/bin/sh", "-c", "x">>, <<"A", "B">>, "1000"),
   Env(<<"/bin/sh", "-c", "x", "y">>, <<>>, "1000"),
   Env(<<"sh", "long">>, <<"A">>, "0"),
   Env(<<"sh", "-c">>, <<"A", "B">>, "1000"),
   Env(<<"missing">>, <<"A">>, "0"),
   [Env(<<"sh">>, <<"A">>, "0") EXCEPT !.ownLine = TRUE]}
MCPrograms == {"/bin/sh", "sh"}
=============================================================================
