--------------------------- MODULE MCEntryPipeline ---------------------------
(***************************************************************************)
(* Small instances of EntryPipeline for TLC.                               *)
(***************************************************************************)
EXTENDS EntryPipeline

CONSTANTS pullback, trend, orb

ThreeTags == {pullback, trend, orb}
=============================================================================
