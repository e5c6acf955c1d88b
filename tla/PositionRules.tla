--------------------------- MODULE PositionRules ---------------------------
(***************************************************************************)
(* When the executor sells: the stop, target and trailing stop of the      *)
(* strategy of strategy/multiday_trend_atr.py and engine/trading_state.py, *)
(* set from the price and the ATR of the entry, set again for every fill   *)
(* that changes the average, and mended when a position comes back from    *)
(* its file or from the account (engine/multiday_executor.py,              *)
(* engine/order_synchronizer.py, utils/position_store.py).  What orders do *)
(* to the position is in PositionControl; here each is one step.  Stops    *)
(* and targets are in hundredths of a won.                                 *)
(***************************************************************************)
EXTENDS EntrySignals

CONSTANTS
    Nothing,                            \* no position, no file
    Prices, Atrs,                       \* prices and ATRs (a bound)
    StopFactor, TakeFactor, TrailFactor,
    MaxLossPct, ActivationPct, GapPct,
    GapReference,                       \* GAP_REFERENCE
    MaxShares, LastDay                  \* bounds

\* What the constants are; Components assumes it of its settings.
RulesData ==
    /\ Prices \subseteq Nat \ {0} /\ Atrs \subseteq Nat
    /\ {StopFactor, TakeFactor, TrailFactor, MaxLossPct, ActivationPct, GapPct} \subseteq Nat
    /\ GapReference \in {"entry", "stop", "prev_close"}
    /\ MaxShares \in Nat /\ LastDay \in Nat \ {0}

VARIABLES
    pos,        \* MultidayPosition of the strategy
    posFile,    \* positions.json
    shares,     \* the account: number and average price
    day, opening,   \* the day and its opening price
    verdict,    \* the last signal, and its price and ATR; none once acted upon
    running

ruleVars == <<pos, posFile, shares, day, opening, verdict, running>>

Larger(x, y)  == IF x > y THEN x ELSE y
NoVerdict     == [says |-> "none", price |-> 0, atr |-> 0]

\* calculate_stop_loss, calculate_take_profit and calculate_trailing_stop.
StopLoss(e, atr)     == Max({100 * e - 100 * StopFactor * atr, e * (100 - MaxLossPct), 0})
TakeProfit(e, atr)   == 100 * (e + TakeFactor * atr)
TrailingStop(h, atr) == 100 * (h - TrailFactor * atr)

\* The ATR that _compute_entry_exit_prices goes by.
Resolved(e, atr) == IF atr > 0 THEN atr ELSE Larger(e \div 100, 1)

\* MultidayStrategy.open_position.
Opened(e, n, atr) ==
    LET a == Resolved(e, atr)
    IN  [entry |-> e, qty |-> n, atr |-> a, stop |-> StopLoss(e, a),
         take |-> TakeProfit(e, a), trail |-> StopLoss(e, a), high |-> e, date |-> day]

Mean(e, n, p, k) == (e * n + p * k) \div (n + k)

\* A later fill of the BUY.
Averaged(q, p, k) ==
    LET e == Mean(q.entry, q.qty, p, k)
        a == Resolved(e, q.atr)
    IN  [q EXCEPT !.entry = e, !.qty = @ + k, !.atr = a,
                  !.stop = StopLoss(e, a), !.take = TakeProfit(e, a),
                  !.trail = Larger(@, StopLoss(e, a)), !.high = Larger(@, p)]

\* _build_stored_position_from_holding.
FromHolding(now) ==
    LET e == shares.avg
    IN  [entry |-> e, qty |-> shares.qty, atr |-> Larger(e \div 100, 1), stop |-> 95 * e,
         take |-> 0, trail |-> 95 * e, high |-> Larger(e, now), date |-> day]

\* _apply_stop_loss_guard_to_stored_position.
Guarded_Off(q) == q
Guarded(q) ==
    LET least == StopLoss(q.entry, Resolved(q.entry, q.atr))
    IN  IF q.stop >= least THEN q
        ELSE [q EXCEPT !.stop = least, !.trail = Larger(@, least)]
-----------------------------------------------------------------------------
(***************************************************************************)
(* The exits.                                                              *)
(***************************************************************************)
Raised(q, p) ==
    IF p <= q.high THEN q
    ELSE [q EXCEPT !.high = p, !.trail = Larger(@, TrailingStop(p, q.atr))]

\* _resolve_gap_reference_price, in hundredths.
Reference(q, prevClose) ==
    CASE GapReference = "entry" -> 100 * q.entry
      [] GapReference = "stop"  -> q.stop
      [] OTHER                  -> 100 * prevClose

\* should_trigger_gap_protection, for a position of an earlier day.
GapDown(ref) == ref > 0 /\ 100 * (100 * opening - ref) < -GapPct * ref
Overnight(q) == q.date < day

Profitable(q, p) == 100 * (p - q.entry) >= ActivationPct * q.entry

\* check_exit_conditions; broken is detect_trend_reversal.
Exits(q, p, prevClose, broken) ==
    \/ Overnight(q) /\ GapDown(Reference(q, prevClose))
    \/ 100 * p <= q.stop
    \/ q.take > 0 /\ 100 * p >= q.take
    \/ Profitable(q, p) /\ q.trail > 0 /\ 100 * p <= q.trail
    \/ broken
-----------------------------------------------------------------------------
RulesInit ==
    /\ pos = Nothing /\ posFile = Nothing /\ shares = [qty |-> 0, avg |-> 0]
    /\ day = 1 /\ opening \in Prices
    /\ verdict = NoVerdict /\ running = FALSE

Keeps(q) == pos' = q /\ posFile' = q

\* restore_position_on_start, over synchronize_on_startup: the account's average
\* may be another than the file's, and then nothing is restored.
StartsHolding ==
    /\ ~running /\ running' = TRUE
    /\ verdict' = NoVerdict
    /\ \/ shares.qty = 0 /\ Keeps(Nothing)
       \/ /\ shares.qty > 0 /\ posFile = Nothing
          /\ \E now \in Prices : posFile' = FromHolding(now)
          /\ pos' = Guarded(posFile')
       \/ /\ shares.qty > 0 /\ posFile # Nothing
          /\ posFile' = [posFile EXCEPT !.qty = shares.qty, !.entry = shares.avg]
          /\ pos' = IF posFile.qty = shares.qty /\ posFile.entry # shares.avg
                    THEN Nothing ELSE Guarded(posFile')
    /\ UNCHANGED <<shares, day, opening>>

\* generate_signal at a price.
Evaluates ==
    /\ running /\ verdict.says # "BUY"
    /\ \E p \in Prices :
        \/ /\ pos # Nothing
           /\ pos' = Raised(pos, p)
           /\ \E prevClose \in Prices, broken \in BOOLEAN :
                 verdict' = [says |-> IF Exits(pos', p, prevClose, broken) THEN "SELL" ELSE "HOLD",
                             price |-> p, atr |-> pos.atr]
        \/ /\ pos = Nothing
           /\ \E atr \in Atrs, buys \in Outcomes :
                 verdict' = [says |-> IF buys THEN "BUY" ELSE "HOLD", price |-> p, atr |-> atr]
           /\ UNCHANGED pos
    /\ UNCHANGED <<posFile, shares, day, opening, running>>

\* The account buys shares one at a time, at prices of its own.
Adds(p) == [qty |-> shares.qty + 1, avg |-> Mean(shares.avg, shares.qty, p, 1)]

\* A BUY whose fills are reported: the first opens the position, each later one
\* changes its average.  More may fill than are reported.
BuysShares ==
    /\ running /\ verdict.says = "BUY" /\ shares.qty < MaxShares
    /\ \E p, more \in Prices, both, told \in BOOLEAN :
        LET one == Opened(p, 1, verdict.atr)
            acc == Adds(p)
        IN  /\ both => shares.qty + 2 <= MaxShares
            /\ shares' = IF both THEN [qty |-> acc.qty + 1, avg |-> Mean(acc.avg, acc.qty, more, 1)]
                         ELSE acc
            /\ Keeps(IF both /\ told THEN Averaged(one, more, 1) ELSE one)
    /\ verdict' = NoVerdict
    /\ UNCHANGED <<day, opening, running>>

\* A BUY that fails by a timeout or was cancelled: what the account holds is
\* taken over if it is seen, and is stray if it is not.
BuyBreaksOff ==
    /\ running /\ verdict.says = "BUY"
    /\ shares' \in {shares} \cup (IF shares.qty < MaxShares THEN {Adds(p) : p \in Prices} ELSE {})
    /\ \/ shares'.qty > 0 /\ Keeps(Opened(shares'.avg, shares'.qty, verdict.atr))
       \/ UNCHANGED <<pos, posFile>>
    /\ verdict' = NoVerdict
    /\ UNCHANGED <<day, opening, running>>

\* A SELL sells some of the shares, or finds that they were sold by hand.
SellsShares ==
    /\ running /\ verdict.says = "SELL"
    /\ \/ \E n \in 1 .. shares.qty :
            /\ shares' = IF n = shares.qty THEN [qty |-> 0, avg |-> 0]
                         ELSE [shares EXCEPT !.qty = @ - n]
            /\ Keeps(IF n >= pos.qty THEN Nothing ELSE [pos EXCEPT !.qty = @ - n])
       \/ shares' = [qty |-> 0, avg |-> 0] /\ Keeps(Nothing)
    /\ verdict' = NoVerdict
    /\ UNCHANGED <<day, opening, running>>

\* The broker's average is another than the fills', by its fees.
AverageMoves ==
    /\ shares.qty > 0 /\ shares.avg % 2 = 0    \* the bound: once
    /\ shares' = [shares EXCEPT !.avg = @ + 1]
    /\ UNCHANGED <<pos, posFile, day, opening, verdict, running>>

\* The process ends, with a save (_save_position_on_exit) or without.
EndsHolding ==
    /\ running /\ running' = FALSE
    /\ pos' = Nothing /\ posFile' \in {pos, posFile} /\ verdict' = NoVerdict
    /\ UNCHANGED <<shares, day, opening>>

NextDay ==
    /\ day < LastDay /\ day' = day + 1
    /\ opening' \in Prices
    /\ UNCHANGED <<pos, posFile, shares, verdict, running>>

RulesNext ==
    \/ StartsHolding \/ Evaluates \/ BuysShares \/ BuyBreaksOff \/ SellsShares
    \/ AverageMoves \/ EndsHolding \/ NextDay
-----------------------------------------------------------------------------
HeldPositions ==
    [entry : Nat, qty : 1 .. MaxShares, atr : Nat, stop : Nat, take : Nat, trail : Int,
     high : Nat, date : 1 .. LastDay]
RulesTypes ==
    /\ {pos, posFile} \subseteq HeldPositions \cup {Nothing}
    /\ shares \in [qty : 0 .. MaxShares, avg : Nat] /\ day \in 1 .. LastDay /\ opening \in Prices
    /\ verdict \in [says : {"none", "HOLD", "SELL", "BUY"}, price : Nat, atr : Nat]
    /\ running \in BOOLEAN

\* A position is never kept at a loss of MAX_LOSS_PCT or more: whatever fills,
\* averages, restarts and recoveries have made of its entry price, the stop has
\* followed (settings_real.py calls that loss absolute).
LossesAreCut ==
    pos # Nothing /\ verdict.says = "HOLD" =>
        100 * verdict.price > pos.entry * (100 - MaxLossPct)
=============================================================================
