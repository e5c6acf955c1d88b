---------------------------- MODULE MCOrderSync ----------------------------
(***************************************************************************)
(* Small instances of OrderSync for TLC.                                   *)
(***************************************************************************)
EXTENDS OrderSync, TLC

CONSTANTS w1, w2, s1, b1, b2, x1, o1, o2

\* One thread, one stock, two BUY keys and a SELL key.
OneWorker  == {w1}
OneSymbol  == {s1}
ThreeKeys  == {b1, b2, x1}
TwoBuys    == {b1, b2}
OneOfEach  == {b1, x1}
OneBuy     == {b1}
SymbolOf   == [k \in Keys |-> s1]
AllW1      == [k \in Keys |-> w1]

\* Two threads on one stock: w1 buys, w2 sells and asks for the guard.
TwoWorkers == {w1, w2}
BuyerSeller == [k \in Keys |-> IF k \in BuyKeys THEN w1 ELSE w2]

TwoOrders   == {o1, o2}
AlikeOrders == Permutations(TwoOrders)
HeldNone    == [s \in Symbols |-> 0]
HeldTwo     == [s \in Symbols |-> 2]

\* The mishaps of each run.
AllButTable == Mishaps \ {"db_error", "foreign_probe"}
Unseen      == {"no_rows"}
FreshViews  == {"no_rows", "lost_reply", "db_error"}
Attended    == {"stale_holdings", "exception"}
SlowBroker  == AllButTable \ {"exception"}
=============================================================================
