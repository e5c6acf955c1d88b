---------------------------- MODULE DatabaseTrader ----------------------------
(***************************************************************************)
(* trading/trader.py: orders are sent first and then written, in one       *)
(* transaction, into the tables positions and trades, which also say       *)
(* whether a stock may be bought again.  The trader takes its mode from    *)
(* TRADING_MODE first, the repositories the one they read from             *)
(* EXECUTION_MODE first.  The broker's account is external.                *)
(***************************************************************************)
EXTENDS Integers, FiniteSets, Functions

CONSTANTS Symbols, Prices, Quantity,
          TradingModes, ExecutionModes,         \* the environment; "" is unset
          MaxOrders, MaxStarts, LastMinute      \* bounds

\* What the constants are; Components assumes it of its settings.
TablesData ==
    /\ IsFiniteSet(Symbols) /\ Quantity \in Nat \ {0} /\ Prices \subseteq Nat \ {0}
    /\ MaxStarts \in Nat \ {0}

VARIABLES
    mode, space,        \* the trader's mode; the repositories' namespace
    enabled,            \* DB_ENABLED
    rows, tradeRows,    \* the tables positions and trades
    snapshot,           \* namespace -> positions of its newest account snapshot
    pending,            \* an order that is not written yet
    shares,             \* the accounts
    unwritten,          \* shares of orders the caller was not told of as done
    kept,               \* no start so far without the tables, or with two modes
    minute, starts, sent

dbVars == <<mode, space, enabled, rows, tradeRows, snapshot, pending, shares, unwritten, kept,
            minute, starts, sent>>

Spaces == {"DRY_RUN", "PAPER", "REAL"}
Keys   == Symbols \X Spaces
NoRow  == [status |-> "none", price |-> 0, stop |-> 0]
None   == [side |-> "none"]

\* TradingMode of a name, with the modes of the enumeration.
Resolve(raw) ==
    CASE raw \in {"SIGNAL_ONLY", "CBT", "PAPER", "LIVE"} -> raw
      [] raw \in {"DRY_RUN", "DRYRUN"} -> "CBT"
      [] raw \in {"REAL", "PROD"} -> "LIVE"
      [] raw = "DEV" -> "PAPER"
      [] OTHER -> ""
ModeOf(t, e) == IF Resolve(t) # "" THEN Resolve(t)
                ELSE IF Resolve(e) # "" THEN Resolve(e) ELSE "PAPER"

\* _namespace_mode.
Namespace(m) == IF m = "LIVE" THEN "REAL"
                ELSE IF m \in {"CBT", "SIGNAL_ONLY"} THEN "DRY_RUN" ELSE "PAPER"

\* env.get_db_namespace_mode.
RepositorySpace(t, e) == IF e # "" THEN Namespace(Resolve(e))
                         ELSE IF t # "" THEN Namespace(Resolve(t)) ELSE "PAPER"

Own == Namespace(mode)

Set(t, e, on) ==
    /\ mode = ModeOf(t, e) /\ space = RepositorySpace(t, e) /\ enabled = on
    /\ kept = (on /\ Namespace(ModeOf(t, e)) = RepositorySpace(t, e))

DatabaseInit ==
    /\ \E t \in TradingModes, e \in ExecutionModes, on \in BOOLEAN : Set(t, e, on)
    /\ rows = [k \in Keys |-> NoRow] /\ tradeRows = {} /\ snapshot = [n \in Spaces |-> -1]
    /\ pending = None
    /\ shares = [k \in Keys |-> 0] /\ unwritten = [k \in Keys |-> 0]
    /\ minute = 0 /\ starts = 1 /\ sent = 0
-----------------------------------------------------------------------------
(***************************************************************************)
(* The repositories: they read and write their own namespace; where the    *)
(* database is off a query finds nothing and a command does nothing.       *)
(***************************************************************************)
OpenIn(n) == {s \in Symbols : enabled /\ rows[<<s, n>>].status = "OPEN"}
HasOpenPosition(s)   == s \in OpenIn(space)
GetOpenPositions     == OpenIn(space)

TradeKey(t) == <<t.side, t.symbol, t.price, t.minute, t.space>>

\* save_signal_only: the key has the moment in it and repeats in no case.
SaveSignalOnly(t) ==
    tradeRows' \in {tradeRows} \cup
        IF enabled THEN {tradeRows \cup {[t EXCEPT !.space = space]}} ELSE {}

(***************************************************************************)
(* get_daily_summary of the repositories' namespace, with the trades that  *)
(* get_trades_by_date lists.                                               *)
(***************************************************************************)
Profit(t) == IF t.side = "SELL" THEN (t.price - t.entry) * Quantity ELSE 0
DailySummary(n) ==
    LET listed == {t \in tradeRows : t.space = n}
        sales  == {t \in listed : t.side = "SELL"}
    IN  [buys |-> Cardinality(listed \ sales), sells |-> Cardinality(sales),
         pnl  |-> SumFunction([t \in sales |-> Profit(t)])]

\* transaction: both statements or neither; a key that is there is an error,
\* and without a database nothing is written and nothing fails.
Commits(t, taken) ==
    enabled => ~taken /\ \A o \in tradeRows : o.signal \/ TradeKey(o) # TradeKey(t)

Order(side, s, p, entry) ==
    [side |-> side, symbol |-> s, price |-> p, entry |-> entry, minute |-> minute,
     space |-> Own, signal |-> mode = "SIGNAL_ONLY", no |-> sent]

Moved(f, s, by) == [f EXCEPT ![<<s, Own>>] = @ + by]
-----------------------------------------------------------------------------
(***************************************************************************)
(* An order of each kind: it is only noted (SIGNAL_ONLY), only written     *)
(* (CBT), or placed and then written.  A refusal leaves all as it was; one *)
(* whose answer is lost counts as refused.                                 *)
(***************************************************************************)
Noted(order) == mode = "SIGNAL_ONLY" /\ SaveSignalOnly(order)
                /\ UNCHANGED <<pending, shares, unwritten>>
Virtual(order) == mode = "CBT" /\ pending' = order /\ UNCHANGED <<tradeRows, shares, unwritten>>
Places(order, by) ==
    /\ mode \in {"LIVE", "PAPER"} /\ shares[<<order.symbol, Own>>] + by >= 0
    /\ shares' = Moved(shares, order.symbol, by)
    /\ unwritten' = Moved(unwritten, order.symbol, by)
    /\ pending' \in {order, None}       \* accepted, or without an answer
    /\ UNCHANGED tradeRows

Sends(order, by) ==
    /\ pending = None /\ sent < MaxOrders /\ sent' = sent + 1
    /\ Noted(order) \/ Virtual(order) \/ Places(order, by)
    /\ UNCHANGED <<mode, space, enabled, rows, snapshot, kept, minute, starts>>

\* buy: never of a stock that has an open row.
Buy(s) == \E p \in Prices : ~HasOpenPosition(s) /\ Sends(Order("BUY", s, p, p), Quantity)

\* sell: the shares of the open row.
Sell(s) == \E p \in Prices :
              HasOpenPosition(s) /\ Sends(Order("SELL", s, p, rows[<<s, space>>].price), -Quantity)

\* What a written order was about is no longer astray.
CallerTold(s) == IF mode = "CBT" THEN UNCHANGED unwritten
           ELSE unwritten' = [unwritten EXCEPT ![<<s, Own>>] =
                                 @ - (IF pending.side = "BUY" THEN Quantity ELSE -Quantity)]

Writes(row, taken) ==
    \/ /\ Commits(pending, taken)
       /\ rows' = IF enabled THEN [rows EXCEPT ![<<pending.symbol, Own>>] = row] ELSE rows
       /\ tradeRows' = IF enabled THEN tradeRows \cup {pending} ELSE tradeRows
       /\ CallerTold(pending.symbol)
    \/ /\ enabled                       \* an error: rolled back
       /\ UNCHANGED <<rows, tradeRows, unwritten>>

Writing == /\ pending' = None
           /\ UNCHANGED <<mode, space, enabled, snapshot, shares, kept, minute, starts, sent>>

\* A plain INSERT: it fails where the stock has a row, closed ones included.
RecordBuy ==
    /\ pending.side = "BUY" /\ Writing
    /\ Writes([status |-> "OPEN", price |-> pending.price, stop |-> pending.price],
              rows[<<pending.symbol, Own>>].status # "none")

RecordSell_InTwo ==
    /\ pending.side = "SELL" /\ Writing
    /\ rows' = IF rows[<<pending.symbol, Own>>].status = "OPEN"
               THEN [rows EXCEPT ![<<pending.symbol, Own>>].status = "CLOSED"] ELSE rows
    /\ \/ tradeRows' = tradeRows \cup {pending} /\ CallerTold(pending.symbol)
       \/ UNCHANGED <<tradeRows, unwritten>>
RecordSell ==
    LET row == rows[<<pending.symbol, Own>>]
    IN  /\ pending.side = "SELL" /\ Writing
        /\ Writes([row EXCEPT !.status = IF @ = "OPEN" THEN "CLOSED" ELSE @], FALSE)

\* update_trailing_stop.
UpdateTrailingStop(s) ==
    /\ pending = None /\ HasOpenPosition(s)
    /\ \E p \in Prices : rows' = [rows EXCEPT ![<<s, space>>].stop = p]
    /\ UNCHANGED <<mode, space, enabled, tradeRows, snapshot, pending, shares, unwritten, kept,
                   minute, starts, sent>>

\* save_account_snapshot and what save stores.
Saved(count) == snapshot' = [snapshot EXCEPT ![space] = count]
SaveAccountSnapshot ==
    /\ pending = None /\ enabled
    /\ Saved(Cardinality(GetOpenPositions))
    /\ UNCHANGED <<mode, space, enabled, rows, tradeRows, pending, shares, unwritten, kept,
                   minute, starts, sent>>

\* The process ends, perhaps with an order it has not written, and another one
\* reads the environment again; restore_positions_from_db only lists.
Restarts ==
    /\ starts < MaxStarts /\ starts' = starts + 1
    /\ \E t \in TradingModes, e \in ExecutionModes, on \in BOOLEAN :
          /\ mode' = ModeOf(t, e) /\ space' = RepositorySpace(t, e) /\ enabled' = on
          /\ kept' = (kept /\ on /\ Namespace(ModeOf(t, e)) = RepositorySpace(t, e))
    /\ pending' = None
    /\ UNCHANGED <<rows, tradeRows, snapshot, shares, unwritten, minute, sent>>

MinutePasses ==
    /\ minute < LastMinute /\ minute' = minute + 1
    /\ UNCHANGED <<mode, space, enabled, rows, tradeRows, snapshot, pending, shares, unwritten,
                   kept, starts, sent>>

DatabaseNext ==
    \/ \E s \in Symbols : Buy(s) \/ Sell(s) \/ UpdateTrailingStop(s)
    \/ RecordBuy \/ RecordSell \/ SaveAccountSnapshot \/ Restarts \/ MinutePasses
-----------------------------------------------------------------------------
DatabaseTypes ==
    /\ space \in Spaces /\ Own \in Spaces /\ starts \in 1..MaxStarts
    /\ \A k \in Keys : rows[k].status \in {"none", "OPEN", "CLOSED"}

Written(k, side) == {t \in tradeRows : ~t.signal /\ t.side = side /\ <<t.symbol, t.space>> = k}
Earned(k) == IF rows[k].status # "CLOSED" THEN 0
             ELSE Quantity * ((CHOOSE t \in Written(k, "SELL") : TRUE).price - rows[k].price)

(***************************************************************************)
(* As long as the tables were there and every start had one mode, they     *)
(* agree with each other and with the account, whatever order failed, was  *)
(* lost or was cut off before it was written: an open row is a purchase    *)
(* that was not sold, a closed one a purchase and a sale at its price, and *)
(* the account holds the open rows and what the callers were not told of   *)
(* as done (trading/trader.py, the flow at the head of the file).          *)
(***************************************************************************)
RowsAgree ==
    \A k \in Keys :
        LET buys == Written(k, "BUY") sells == Written(k, "SELL") IN
        /\ Cardinality(buys) = (IF rows[k].status = "none" THEN 0 ELSE 1)
        /\ Cardinality(sells) = (IF rows[k].status = "CLOSED" THEN 1 ELSE 0)
        /\ \A t \in buys \cup sells : t.entry = rows[k].price
        /\ k[2] # "DRY_RUN" =>
               shares[k] = unwritten[k] + (IF rows[k].status = "OPEN" THEN Quantity ELSE 0)
SummariesAgree ==
    (\A t \in tradeRows : ~t.signal) =>
        \A n \in Spaces :
            DailySummary(n).pnl = SumFunction([s \in Symbols |-> Earned(<<s, n>>)])
TablesAgree == kept => RowsAgree /\ SummariesAgree
=============================================================================
