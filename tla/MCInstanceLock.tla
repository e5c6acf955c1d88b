--------------------------- MODULE MCInstanceLock ---------------------------
(***************************************************************************)
(* The program started by two processes, each any number of times.         *)
(***************************************************************************)
EXTENDS InstanceLock

CONSTANTS p1, p2

TwoProcesses == {p1, p2}
=============================================================================
