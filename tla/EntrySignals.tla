---------------------------- MODULE EntrySignals ----------------------------
(***************************************************************************)
(* The entries of strategy/multiday_trend_atr.py: three strategies in this *)
(* order, of which the first to say anything decides; the pullback's may   *)
(* be left to its pipeline.  The position's rules are in PositionRules.    *)
(***************************************************************************)
EXTENDS Integers, FiniteSetsExt

Caps == [base : {0, 2}, opening : {0, 3}, atr : {0, 4}, hard : {0, 1}]

\* _resolve_breakout_cap_pct.
Cap(c) ==
    LET widest == Max({c.base, c.opening, c.atr})
    IN  IF c.hard > 0 /\ (widest = 0 \/ widest > c.hard) THEN c.hard ELSE widest
Extended(ext, c) == Cap(c) > 0 /\ ext > Cap(c)

\* The daily data: check_entry_conditions, _check_atr_validity and get_trend.
Daily == [atr : {0, 1}, spike : BOOLEAN, strong : BOOLEAN, above : BOOLEAN, breakout : BOOLEAN]
Breaks(d) == d.atr > 0 /\ ~d.spike /\ d.strong /\ d.above /\ d.breakout

\* _apply_shared_entry_guards: what an ORB entry is spared has been its own.
Guards == SUBSET {"opening", "extended", "gapped", "event"}
PassesGuards(found, by) == (IF by = "orb" THEN found \ {"extended", "gapped"} ELSE found) = {}

\* build_pullback_buy_signal, build_orb_buy_signal and the trend's own entry.
PullbackBuys(found) == PassesGuards(found, "pullback")
OrbBuys(found)      == PassesGuards(found, "orb")
TrendBuys(d, found) == Breaks(d) /\ PassesGuards(found, "trend")

\* Whether generate_signal buys, when nothing is held.
Decides(pullback, orb, d, deferred, found) ==
    CASE pullback = "blocked" -> FALSE
      [] pullback = "buy"     -> ~deferred /\ PullbackBuys(found)
      [] orb = "blocked"      -> FALSE
      [] orb = "buy"          -> OrbBuys(found)
      [] OTHER                -> TrendBuys(d, found)

SignalAnswers == {"none", "blocked", "buy"}
Found(guards, ext, c) == IF Extended(ext, c) THEN guards \cup {"extended"} ELSE guards \ {"extended"}
Outcomes ==
    {Decides(pullback, orb, d, deferred, Found(guards, ext, c)) :
        pullback \in SignalAnswers, orb \in SignalAnswers, deferred \in BOOLEAN, d \in Daily,
        guards \in Guards, ext \in {0, 2, 5}, c \in Caps}
=============================================================================
