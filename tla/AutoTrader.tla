----------------------------- MODULE AutoTrader -----------------------------
(***************************************************************************)
(* The polling trader of kis_auto_trader: every minute of the session it   *)
(* watches what it holds, sells at the stop or the target, and buys the    *)
(* stocks of its list that break out (main.py, trader/strategy.py,         *)
(* trader/risk_manager.py).  It keeps its positions in memory only, and    *)
(* takes an order for done once it is accepted (trader/broker_kis.py).     *)
(* The account and the exchange are external.  Stops and targets are in    *)
(* hundredths of a won.                                                    *)
(***************************************************************************)
EXTENDS Integers, Sequences, FiniteSets

CONSTANTS
    WatchList,                          \* a sequence of stocks
    Prices,                             \* prices (a bound)
    StopLossPct, TakeProfitPct,         \* settings.strategy
    RiskPerTradePct, MinOrderAmount, MaxPositions,
    Capital,                            \* total_eval of the account
    MaxShares,                          \* the account can pay (a bound)
    MaxStarts                           \* a bound

Codes  == {WatchList[i] : i \in DOMAIN WatchList}

\* What the constants are; Components assumes it of its settings.
TraderLimits ==
    /\ WatchList \in Seq(Codes)
    /\ Prices \subseteq Nat \ {0}
    /\ {StopLossPct, RiskPerTradePct, MinOrderAmount, Capital} \subseteq Int

VARIABLES
    watched,    \* RiskManager._positions: stock -> position
    phase,      \* off, idle, monitor, enter
    left,       \* the stocks still to visit: of the positions, or of the list
    shutdown,   \* shutdown_requested
    starts,
    hour,       \* closed, trading, late (open, but past the last entry)
    held,       \* the account
    buying, selling,    \* shares of the orders that are open
    astray      \* stocks whose holding may have escaped the program, and why
                \* is in Loses: a lost answer, a failed or early look, an expiry

autoVars == <<watched, phase, left, shutdown, starts, hour, held, buying, selling, astray>>

Quantity(c) == IF c \in DOMAIN watched THEN watched[c].qty ELSE 0

AutoInit ==
    /\ watched = <<>> /\ phase = "off" /\ left = <<>> /\ shutdown = FALSE /\ starts = 0
    /\ hour \in {"closed", "trading"}
    /\ held = [c \in Codes |-> 0] /\ buying = held /\ selling = held /\ astray = {}
-----------------------------------------------------------------------------
(***************************************************************************)
(* The risk manager.                                                       *)
(***************************************************************************)
StopLoss(e)   == e * (100 + StopLossPct)
TakeProfit(e) == e * (100 + TakeProfitPct)

\* calculate_position_size.
Size(e) ==
    LET risk == -e * StopLossPct
        some == IF risk <= 0 THEN 0 ELSE (Capital * RiskPerTradePct) \div risk
        most == IF e * some < MinOrderAmount THEN (MinOrderAmount \div e) + 1 ELSE some
    IN  IF risk <= 0 THEN 0 ELSE IF most < 1 THEN 1 ELSE most

Position(e, n) == [qty |-> n, entry |-> e, stop |-> StopLoss(e), take |-> TakeProfit(e)]

With(c, p) == [d \in DOMAIN watched \union {c} |-> IF d = c THEN p ELSE watched[d]]
Without(c) == [d \in DOMAIN watched \ {c} |-> watched[d]]

StopHit(c, p)   == 100 * p <= watched[c].stop
TargetHit(c, p) == 100 * p >= watched[c].take
Exits(c, p)     == StopHit(c, p) \/ TargetHit(c, p)

\* Broker: is_market_open and can_place_new_order.
IsMarketOpen     == hour # "closed"
CanPlaceNewOrder == IsMarketOpen /\ hour # "late"
CanOpenNew       == Cardinality(DOMAIN watched) < MaxPositions /\ CanPlaceNewOrder

\* What generate_signal asks of a chart: enough bars, an ATR, no excess of
\* volatility, a price at or above its mean, and one above yesterday's high.
Signs == {"bars", "atr", "calm", "trend", "breakout"}
EntryConditions(c, chart) == c \notin DOMAIN watched /\ CanOpenNew /\ chart = Signs
-----------------------------------------------------------------------------
(***************************************************************************)
(* Orders at the market: accepted, refused, or accepted with an answer     *)
(* that is lost, which place_buy_order and place_sell_order call a failure.*)
(***************************************************************************)
Answers == {"accepted", "refused", "lost"}

PlaceBuy(c, n, answer) ==
    /\ answer # "refused" => held[c] + buying[c] + n <= MaxShares
    /\ buying' = IF answer = "refused" THEN buying ELSE [buying EXCEPT ![c] = @ + n]

\* The account sells no more than it has and has not yet on offer.
PlaceSell(c, n, answer) ==
    /\ answer # "refused" => held[c] - selling[c] >= n
    /\ selling' = IF answer = "refused" THEN selling ELSE [selling EXCEPT ![c] = @ + n]

\* execute_stop_loss and execute_take_profit.
Sale_Forgets(c, answer) == watched' = Without(c)
Sale(c, answer) == watched' = IF answer = "accepted" THEN Without(c) ELSE watched

\* _execute_buy: the signal's price and the whole order are the position.
Purchase(c, p, answer) ==
    watched' = IF answer = "accepted" THEN With(c, Position(p, Size(p))) ELSE watched
-----------------------------------------------------------------------------
(***************************************************************************)
(* The loop.                                                               *)
(***************************************************************************)
\* sync_positions_from_broker.
Sync(avg) == watched' = [c \in {d \in Codes : held[d] > 0} |-> Position(avg, held[c])]

\* run_trading_loop up to its loop; the look at the account may fail.  A BUY
\* of an earlier run that is still open then is not seen.
Starts ==
    /\ phase = "off" /\ starts < MaxStarts
    /\ starts' = starts + 1 /\ shutdown' = FALSE /\ phase' = "idle" /\ left' = <<>>
    /\ \/ /\ \E avg \in Prices : Sync(avg)
          /\ astray' = {c \in Codes : buying[c] > 0}
       \/ /\ watched' = <<>>
          /\ astray' = {c \in Codes : buying[c] > 0 \/ held[c] > 0}
    /\ UNCHANGED <<hour, held, buying, selling>>

\* run_strategy begins: the positions of this moment, in some order.
Begins ==
    /\ phase = "idle" /\ ~shutdown /\ IsMarketOpen
    /\ \E s \in [1 .. Cardinality(DOMAIN watched) -> DOMAIN watched] :
          /\ \A i, j \in DOMAIN s : i < j => s[i] # s[j]
          /\ left' = s
    /\ phase' = "monitor"
    /\ UNCHANGED <<watched, shutdown, starts, hour, held, buying, selling, astray>>

\* monitor_positions, one stock; a price that fails is passed over.
Monitors ==
    /\ phase = "monitor" /\ left # <<>>
    /\ left' = Tail(left)
    /\ LET c == Head(left)
       IN  \/ UNCHANGED <<watched, selling>>
           \/ \E p \in Prices, answer \in Answers :
                 /\ Exits(c, p)
                 /\ PlaceSell(c, watched[c].qty, answer)
                 /\ Sale(c, answer)
    /\ UNCHANGED <<phase, shutdown, starts, hour, held, buying, astray>>

Turns ==
    /\ phase = "monitor" /\ left = <<>>
    /\ phase' = "enter" /\ left' = WatchList
    /\ UNCHANGED <<watched, shutdown, starts, hour, held, buying, selling, astray>>

\* run_strategy, one stock of the list.
Enters ==
    /\ phase = "enter" /\ left # <<>>
    /\ LET c == Head(left)
       IN  \/ /\ c \in DOMAIN watched
              /\ left' = Tail(left)
              /\ UNCHANGED <<watched, buying, astray>>
           \/ /\ c \notin DOMAIN watched /\ ~CanOpenNew
              /\ left' = <<>>
              /\ UNCHANGED <<watched, buying, astray>>
           \/ /\ c \notin DOMAIN watched /\ CanOpenNew
              /\ left' = Tail(left)
              /\ \/ UNCHANGED <<watched, buying, astray>>
                 \/ \E p \in Prices, answer \in Answers, chart \in SUBSET Signs :
                       /\ EntryConditions(c, chart) /\ Size(p) > 0
                       /\ PlaceBuy(c, Size(p), answer)
                       /\ Purchase(c, p, answer)
                       /\ astray' = IF answer = "lost" THEN astray \union {c} ELSE astray
    /\ UNCHANGED <<phase, shutdown, starts, hour, held, selling>>

\* The pass is over, or an error of the balance, the token or the hash key
\* ends it early.
Rests ==
    /\ phase = "enter"
    /\ phase' = "idle" /\ left' = <<>>
    /\ UNCHANGED <<watched, shutdown, starts, hour, held, buying, selling, astray>>

\* signal_handler; the loop looks at the flag only between two passes, while a
\* crash ends the process anywhere.
Stops ==
    /\ phase # "off" /\ ~shutdown
    /\ shutdown' = TRUE
    /\ UNCHANGED <<watched, phase, left, starts, hour, held, buying, selling, astray>>
Ends ==
    /\ phase # "off"
    /\ phase' = "off" /\ watched' = <<>> /\ left' = <<>>
    /\ UNCHANGED <<shutdown, starts, hour, held, buying, selling, astray>>
-----------------------------------------------------------------------------
(***************************************************************************)
(* The account and the exchange.                                           *)
(***************************************************************************)
Fills ==
    /\ \E c \in Codes :
          \/ /\ buying[c] > 0
             /\ buying' = [buying EXCEPT ![c] = @ - 1]
             /\ held' = [held EXCEPT ![c] = @ + 1]
             /\ UNCHANGED selling
          \/ /\ selling[c] > 0
             /\ selling' = [selling EXCEPT ![c] = @ - 1]
             /\ held' = [held EXCEPT ![c] = @ - 1]
             /\ UNCHANGED buying
    /\ UNCHANGED <<watched, phase, left, shutdown, starts, hour, astray>>

\* What is open at the close is cancelled.
Closes ==
    /\ hour # "closed" /\ hour' = "closed"
    /\ astray' = astray \union {c \in Codes : selling[c] > 0}
    /\ buying' = [c \in Codes |-> 0] /\ selling' = buying'
    /\ UNCHANGED <<watched, phase, left, shutdown, starts, held>>
HourPasses ==
    /\ \/ hour = "closed" /\ hour' = "trading"
       \/ hour = "trading" /\ hour' = "late"
    /\ UNCHANGED <<watched, phase, left, shutdown, starts, held, buying, selling, astray>>

AutoNext ==
    \/ Starts \/ Begins \/ Monitors \/ Turns \/ Enters \/ Rests \/ Stops \/ Ends
    \/ Fills \/ Closes \/ HourPasses
-----------------------------------------------------------------------------
AutoTypes ==
    /\ DOMAIN watched \subseteq Codes /\ \A c \in DOMAIN watched : watched[c].qty > 0
    /\ phase \in {"off", "idle", "monitor", "enter"}
    /\ \A c \in Codes : /\ {held[c], buying[c], selling[c]} \subseteq Nat
                        /\ selling[c] <= held[c]

(***************************************************************************)
(* Nothing the account holds or has on order, beyond what is on offer,     *)
(* goes unwatched by monitor_positions, whatever is refused or fills late, *)
(* except for a stock of which an answer was lost, an order was still open *)
(* at the start, the look at the account failed, or a sale expired.        *)
(***************************************************************************)
NothingIsForgotten ==
    phase # "off" =>
        \A c \in Codes : held[c] + buying[c] - selling[c] <= Quantity(c) \/ c \in astray
=============================================================================
