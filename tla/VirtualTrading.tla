--------------------------- MODULE VirtualTrading ---------------------------
(***************************************************************************)
(* The paper trading of cbt/: the executor asks the strategy of            *)
(* strategy/trend_atr.py for a signal once a minute, fills it against a    *)
(* virtual account that rewrites its file at every change, and keeps each  *)
(* finished trade in a store, from which cbt/metrics.py makes its report.  *)
(* Neither file is written atomically, and the strategy's position is not  *)
(* kept at all.                                                            *)
(***************************************************************************)
EXTENDS Integers, Sequences, FiniteSets, Functions

CONSTANTS
    NoPosition, Torn,   \* no position; a file that does not parse
    DayPrices, Atrs,    \* the prices and the ATRs (a bound)
    Initial,            \* CBT_INITIAL_CAPITAL
    Scale,              \* the commission is 1 / Scale of what is traded
    StopFactor,         \* ATR_MULTIPLIER_SL
    TakeFactor,         \* ATR_MULTIPLIER_TP
    MaxLossPct,         \* MAX_LOSS_PCT
    MaxTrades           \* the trades of an account, and of the store (a bound)

Opens     == [price : DayPrices, stop : Nat, take : Nat]
Positions == Opens \cup {NoPosition}
Accounts  == [cash : Int, realized : Int, wins : Nat, losses : Nat, pos : Positions]

\* What the constants are; Components assumes it of its settings.
TradingData ==
    /\ DayPrices \subseteq Nat \ {0} /\ Atrs \subseteq Nat
    /\ Initial \in Nat /\ Scale \in Nat \ {0}
    /\ {StopFactor, TakeFactor, MaxLossPct, MaxTrades} \subseteq Nat
    /\ NoPosition \notin Opens \cup Accounts /\ Torn \notin Accounts \cup {NoPosition}

VARIABLES
    virtual,    \* VirtualAccount; money is counted in Scale-ths
    held,       \* the strategy's position
    phase,      \* of the executor: down, idle, buying, selling or storing
    result,     \* what the sale under way made
    accountFile,
    store,      \* the store: what each trade made
    storage,    \* CBT_STORAGE_TYPE
    anew        \* the account began anew over the trades of another

tradingVars == <<virtual, held, phase, result, accountFile, store, storage, anew>>

\* What a share costs to buy, and what is left of it when it is sold.
Fee(p)     == p
Cost(p)    == p * Scale + Fee(p)
Yield(p)   == p * Scale - Fee(p)

Fresh == [cash |-> Initial * Scale, realized |-> 0, wins |-> 0, losses |-> 0, pos |-> NoPosition]
Total(a) == a.wins + a.losses
-----------------------------------------------------------------------------
(***************************************************************************)
(* TrendATRStrategy: what the indicators say of a day, and the signals.    *)
(***************************************************************************)
Days == [trend : {"UP", "DOWN", "SIDEWAYS"}, weak : BOOLEAN, spike : BOOLEAN,
         atr : Atrs, high : DayPrices]

StopLoss(p, d) ==
    LET byAtr == p - StopFactor * d.atr
        byLoss == (p * (100 - MaxLossPct)) \div 100
        higher == IF byAtr > byLoss THEN byAtr ELSE byLoss
    IN  IF higher > 0 THEN higher ELSE 0
TakeProfit(p, d) == p + TakeFactor * d.atr

Enters(p, d) ==
    d.atr > 0 /\ ~d.spike /\ ~d.weak /\ d.trend = "UP" /\ p > d.high
Exits(p) == p <= held.stop \/ p >= held.take

Signal(p, d) ==
    IF held # NoPosition THEN (IF Exits(p) THEN "SELL" ELSE "HOLD")
    ELSE IF Enters(p, d) THEN "BUY" ELSE "HOLD"

Opened(p, d) == [price |-> p, stop |-> StopLoss(p, d), take |-> TakeProfit(p, d)]
-----------------------------------------------------------------------------
(***************************************************************************)
(* The account: a purchase and a sale in memory.  (What an update of the   *)
(* price does, the unrealised profit and the trailing stop, nothing else   *)
(* reads.)                                                                 *)
(***************************************************************************)
Affordable(p) == virtual.pos = NoPosition /\ virtual.cash >= Cost(p)
Bought(a, bp) == [a EXCEPT !.cash = @ - Cost(bp.price), !.pos = bp]

NetPnl_OneFee(bp, p) == Yield(p) - bp.price * Scale
NetPnl(bp, p) == Yield(p) - Cost(bp.price)
Sold(a, p) ==
    LET pnl == NetPnl(a.pos, p)
    IN  [a EXCEPT !.cash = @ + Yield(p), !.realized = @ + pnl, !.pos = NoPosition,
                  !.wins = IF pnl > 0 THEN @ + 1 ELSE @,
                  !.losses = IF pnl > 0 THEN @ ELSE @ + 1]

\* An account of earlier runs, which the file may hold at the start.
Loaded(f) == IF f \in {NoPosition, Torn} THEN Fresh ELSE f
-----------------------------------------------------------------------------
TradingInit ==
    /\ virtual = Fresh /\ held = NoPosition /\ phase = "down" /\ result = 0
    /\ accountFile = NoPosition /\ store = <<>>
    /\ storage \in {"json", "sqlite"} /\ anew = FALSE

MoreTrades == store # Torn => Len(store) < MaxTrades    \* the bound

\* run_once on a BUY, if the risk manager lets it pass: the account changes and
\* its file is opened, which empties it.
Buys ==
    /\ phase = "idle" /\ Total(virtual) < MaxTrades /\ MoreTrades
    /\ \E p \in DayPrices, d \in Days :
        /\ Signal(p, d) = "BUY" /\ Affordable(p)
        /\ virtual' = Bought(virtual, Opened(p, d))
    /\ phase' = "buying" /\ accountFile' = Torn
    /\ UNCHANGED <<held, result, store, storage, anew>>

\* The file is written, and the strategy takes the position over.
BuySaved ==
    /\ phase = "buying" /\ phase' = "idle"
    /\ accountFile' = virtual /\ held' = virtual.pos
    /\ UNCHANGED <<virtual, result, store, storage, anew>>

\* run_once on a SELL.
Sells ==
    /\ phase = "idle" /\ virtual.pos # NoPosition
    /\ \E p \in DayPrices, d \in Days :
        /\ Signal(p, d) = "SELL" /\ virtual' = Sold(virtual, p)
        /\ result' = NetPnl(virtual.pos, p)
    /\ phase' = "selling" /\ accountFile' = Torn
    /\ UNCHANGED <<held, store, storage, anew>>
SellSaved ==
    /\ phase = "selling" /\ phase' = "storing" /\ accountFile' = virtual
    /\ UNCHANGED <<virtual, held, result, store, storage, anew>>

\* Writing the account's file fails: run_once reports the exception and goes on
\* with what is in memory, the strategy where it was.
SaveFails ==
    /\ phase \in {"buying", "selling"} /\ phase' = "idle"
    /\ UNCHANGED <<virtual, held, result, accountFile, store, storage, anew>>

\* add_trade_from_result, whose failure nobody looks at, and close_position.
Kept == IF store = Torn THEN Torn ELSE Append(store, result)
AddsTrade ==
    /\ phase = "storing" /\ phase' = "idle"
    /\ store' \in {Kept, store} /\ held' = NoPosition
    /\ UNCHANGED <<virtual, result, accountFile, storage, anew>>

\* The process ends: between two rounds, or in the middle of one, where the
\* list of trades may be cut off as well if it is a file of JSON.
Cut == IF phase = "storing" /\ storage = "json" THEN {store, Torn} ELSE {store}
Ends ==
    /\ phase # "down" /\ phase' = "down"
    /\ virtual' = Fresh /\ held' = NoPosition /\ result' = 0
    /\ store' \in Cut
    /\ UNCHANGED <<accountFile, storage, anew>>

\* VirtualAccount and TradeStore of the next process; the strategy starts bare.
Begins ==
    /\ phase = "down" /\ phase' = "idle"
    /\ virtual' = Loaded(accountFile)
    /\ anew' = (anew \/ accountFile = Torn)
    /\ UNCHANGED <<held, result, accountFile, store, storage>>

\* --mode reset, while no executor runs: the file is removed, and the trades
\* unless that fails.
Resets ==
    /\ phase = "down" /\ accountFile' = NoPosition
    /\ \/ store' = <<>> /\ anew' = FALSE
       \/ store' = store /\ anew' = TRUE
    /\ UNCHANGED <<virtual, held, phase, result, storage>>

TradingNext ==
    \/ Buys \/ BuySaved \/ Sells \/ SellSaved \/ SaveFails \/ AddsTrade
    \/ Ends \/ Begins \/ Resets
-----------------------------------------------------------------------------
(***************************************************************************)
(* CBTMetrics, of the trades that the store lists.                         *)
(***************************************************************************)
Sum(pnls)     == SumFunction(pnls)
Winners(pnls) == {i \in DOMAIN pnls : pnls[i] > 0}
Losers(pnls)  == {i \in DOMAIN pnls : pnls[i] < 0}

\* calculate_expectancy, times the number of trades: its rate of losses is that
\* of all trades that win nothing, its average loss that of those that lose.
Expectancy(pnls) ==
    LET won == Winners(pnls)  lost == Losers(pnls)
    IN  SumFunctionOnSet(pnls, won)
        + (IF lost = {} THEN 0
           ELSE ((Len(pnls) - Cardinality(won)) * SumFunctionOnSet(pnls, lost))
                    \div Cardinality(lost))

Equity(a)      == a.cash + (IF a.pos = NoPosition THEN 0 ELSE a.pos.price * Scale)
TotalReturn(a) == Equity(a) - Initial * Scale
-----------------------------------------------------------------------------
TradingTypes ==
    /\ virtual \in Accounts /\ Total(virtual) <= MaxTrades /\ held \in Positions
    /\ phase \in {"down", "idle", "buying", "selling", "storing"} /\ result \in Int
    /\ accountFile \in Accounts \cup {NoPosition, Torn}
    /\ store = Torn \/ store \in Seq(Int)
    /\ storage \in {"json", "sqlite"} /\ anew \in BOOLEAN

\* The virtual account neither makes nor loses money: its cash is what it began
\* with, and what its trades made, less the whole cost of what it holds, after
\* any crash, failed save or restart.
CashBalances ==
    virtual.cash = Initial * Scale + virtual.realized
                   - (IF virtual.pos = NoPosition THEN 0 ELSE Cost(virtual.pos.price))

\* The report takes the money from the account and the trades from the store.
\* A trade the account does not know is never in it.
Reported == phase \in {"idle", "buying"} /\ ~anew /\ store # Torn
ReportKnown == Reported => Len(store) <= Total(virtual)

\* If it has them all, its trades add up to what the account earned, with as many
\* winners.  Its expectancy is their mean, unless one made neither profit nor loss.
ReportAdds ==
    Reported
    => /\ Len(store) = Total(virtual)
          => /\ Sum(store) = virtual.realized
             /\ Cardinality(Winners(store)) = virtual.wins
             /\ virtual.pos = NoPosition => TotalReturn(virtual) = Sum(store)
       /\ 0 \notin Range(store) => Expectancy(store) = Sum(store)
BooksBalance == phase # "down" => CashBalances /\ ReportKnown /\ ReportAdds
=============================================================================
