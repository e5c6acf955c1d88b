-------------------------------- MODULE Ages --------------------------------
(***************************************************************************)
(* How long ago something was, in steps of a clock, up to one step past    *)
(* the largest limit anyone compares it with: beyond that all is the same. *)
(***************************************************************************)
EXTENDS Integers

Older(age, limit) == IF age > limit THEN age ELSE age + 1
=============================================================================
