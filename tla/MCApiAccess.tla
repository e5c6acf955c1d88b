---------------------------- MODULE MCApiAccess ----------------------------
(***************************************************************************)
(* Two threads of the main program, which share its client.                *)
(***************************************************************************)
EXTENDS ApiAccess

TwoThreads == {"main loop", "order worker"}
OneClient  == {"executor's"}
Theirs     == [c \in Callers |-> "executor's"]
=============================================================================
