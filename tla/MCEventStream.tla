---------------------------- MODULE MCEventStream ----------------------------
(* The instance of Access and EventStream that TLC checks.                   *)
EXTENDS EventStream

CONSTANTS t1, t2

MCThreads == {t1, t2}
Symmetry == Permutations(MCThreads)
=============================================================================
