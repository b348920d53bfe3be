--------------------------- MODULE MCRegistration ---------------------------
(* Two machines (a node and its rebuild), the command of post-build.sh, the  *)
(* default one, and promotion alone.                                         *)
EXTENDS Registration

CONSTANTS m1, m2, none

MCMachines == {m1, m2}
MCCommands == {{"r", "R", "a", "p"}, {"r", "a", "p"}, {"p"}}
=============================================================================
