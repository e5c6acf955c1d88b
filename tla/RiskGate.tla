------------------------------ MODULE RiskGate ------------------------------
(***************************************************************************)
(* engine/risk_manager.py: the kill switch and the daily loss limit that   *)
(* every order of every stock passes.  Profit and loss are in units of     *)
(* which MaxLoss make the daily limit; the starting capital is known.      *)
(***************************************************************************)
EXTENDS Integers

CONSTANT MaxLoss   \* daily_max_loss_percent of the starting capital

Risk == [killed : BOOLEAN, day : Int, pnl : Int, limited : BOOLEAN]

\* A new manager: the flag of the settings or the KILL_SWITCH file.
NewRisk(killed, today) == [killed |-> killed, day |-> today, pnl |-> 0, limited |-> FALSE]

\* _reset_daily_tracking, at the first check or record of a day.
Rollover(r, today) == IF r.day = today THEN r ELSE NewRisk(r.killed, today)

\* What check_order_allowed leaves behind, and what it answers then.
Checked(r, today, killFile) == LET s == Rollover(r, today) IN [s EXCEPT !.killed = @ \/ killFile]
Allowed(r, closing) == ~r.killed /\ (closing \/ ~r.limited)

\* record_trade_pnl.
Booked_Above(r, today, pnl) ==
    LET s == Rollover(r, today)
    IN [s EXCEPT !.pnl = @ + pnl, !.limited = @ \/ s.pnl + pnl < -MaxLoss]
Booked(r, today, pnl) ==
    LET s == Rollover(r, today)
    IN [s EXCEPT !.pnl = @ + pnl, !.limited = @ \/ s.pnl + pnl <= -MaxLoss]
=============================================================================
