------------------------- MODULE MCPositionControl -------------------------
(***************************************************************************)
(* Small instances of PositionControl for TLC.                             *)
(***************************************************************************)
EXTENDS PositionControl, TLC

CONSTANTS stopLoss, takeProfit

TwoReasons == {stopLoss, takeProfit}
AlikeReasons == Permutations(TwoReasons)

\* The mishaps of the violation runs.
AvgDiffers == {"avg_differs"}
Calm       == {}
=============================================================================
