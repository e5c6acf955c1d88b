---------------------------- MODULE TradeRecords ----------------------------
(***************************************************************************)
(* What the database keeps of the trades: the executor stores each fill it *)
(* is told of (engine/multiday_executor.py, db/repository.py, db/mysql.py) *)
(* and the row of the position, and the daily report completes the table   *)
(* from the broker's day before it counts it (tools/daily_report.py,       *)
(* reporting/daily_report_service.py).  The two are processes of their own *)
(* and share nothing but the table.  One symbol, one mode.                 *)
(***************************************************************************)
EXTENDS Integers, FiniteSets

CONSTANTS
    Orders,      \* order numbers
    NoOrder,
    BuyQty       \* shares of a BUY

\* Components assumes it of its settings: ORDER_QUANTITY is 1 unless it is set to
\* more (with less the broker would take no order).
RecordsData == BuyQty \in Nat \ {0}

VARIABLES
    numbered,  \* the broker's rows carry a number of the execution
    stored,    \* how the executor stores: "repository", "plain" SQL
    orders,    \* the orders at the broker: side, quantity, executed, live
    account,   \* shares in the account there
    doing,     \* the executor: its step, order and fill
    holding,   \* shares the strategy holds
    position,  \* the status of its row of the table positions
    trades,    \* the rows of the table trades
    report     \* the report: its step, the broker's rows, what it counted

recordVars == <<numbered, stored, orders, account, doing, holding, position, trades, report>>

Sides == {"BUY", "SELL"}
NoFill == [qty |-> 0, when |-> 0]
Placed(o) == orders[o].side \in Sides
Idle == [step |-> "idle", order |-> NoOrder, fill |-> NoFill]
Down == [Idle EXCEPT !.step = "down"]
NoReport == [step |-> "none", seen |-> {}, sound |-> TRUE, asked |-> {}, counted |-> {}]

RecordsInit ==
    /\ numbered \in BOOLEAN /\ stored \in {"repository", "plain"}
    /\ orders = [o \in Orders |-> [side |-> "none", qty |-> 0, done |-> 0, live |-> FALSE]]
    /\ account = 0 /\ doing = Idle /\ holding = 0 /\ position = "CLOSED"
    /\ trades = {} /\ report = NoReport
-----------------------------------------------------------------------------
(* The broker.  It sells no share that the account does not have.          *)
Executes(o) ==
    /\ orders[o].live /\ orders[o].done < orders[o].qty
    /\ orders[o].side = "BUY" \/ account > 0
    /\ orders' = [orders EXCEPT ![o].done = @ + 1, ![o].live = orders[o].done + 1 < orders[o].qty]
    /\ account' = IF orders[o].side = "BUY" THEN account + 1 ELSE account - 1
    /\ UNCHANGED <<numbered, stored, doing, holding, position, trades, report>>

(* The executor.                                                           *)
\* execute_buy and execute_sell: a BUY without a position, a SELL of all of it.
Trades(o) ==
    /\ doing = Idle /\ ~Placed(o)
    /\ doing' = [doing EXCEPT !.step = "waits", !.order = o]
    /\ orders' = [orders EXCEPT ![o] =
          [side |-> IF holding = 0 THEN "BUY" ELSE "SELL",
           qty  |-> IF holding = 0 THEN BuyQty ELSE holding, done |-> 0, live |-> TRUE]]
    /\ UNCHANGED <<numbered, stored, account, holding, position, trades, report>>

\* The wait ends with the inquiry's row of the order, which has the time of the
\* order (0), or with a quantity that was inferred, which is stamped now (1; an
\* order is waited for once, so no two of its fills have that time); whether
\* the rest of the order was cancelled is the wait's affair (OrderSync).
Fills(o) == {[qty |-> orders[o].done, when |-> w] : w \in {0, 1}}
Waited(o) ==
    /\ doing.step = "waits" /\ doing.order = o
    /\ \E live \in {FALSE, orders[o].live} : orders' = [orders EXCEPT ![o].live = live]
    /\ \/ orders[o].done = 0 /\ doing' = Idle
       \/ orders[o].done > 0 /\ \E f \in Fills(o) : doing' = [step |-> "records", order |-> o, fill |-> f]
    /\ UNCHANGED <<numbered, stored, account, holding, position, trades, report>>

\* The key of a fill: the execution's number, or the time, price and quantity.
\* The plain SQL of a process without a repository has a key of its own.
FillKey(o, f) ==
    IF stored = "plain" THEN <<"plain", o, f.when, f.qty>>
    ELSE IF numbered /\ f.when = 0 THEN <<"executor", o, 0, 0>> ELSE <<"executor", o, f.when, f.qty>>
Row(o, qty, key, by) == [order |-> o, side |-> orders[o].side, qty |-> qty, key |-> key, by |-> by]

\* INSERT ... ON DUPLICATE KEY UPDATE of the key by itself.
With(row) == IF \E r \in trades : r.key = row.key THEN trades ELSE trades \cup {row}

\* A SELL's fills are cut to what the strategy holds.
Taken(o, f) == IF orders[o].side = "SELL" /\ f.qty > holding THEN [f EXCEPT !.qty = holding] ELSE f
Records ==
    /\ doing.step = "records"
    /\ LET o == doing.order
           f == Taken(o, doing.fill)
           row == Row(o, f.qty, FillKey(o, f), "executor")
       IN \/ /\ trades' = With(row)    \* a row that was there already applies nothing
             /\ doing' = IF trades' = trades /\ stored = "repository" THEN Idle
                         ELSE [doing EXCEPT !.step = "applies", !.fill = f]
          \/ /\ UNCHANGED trades   \* the database refuses: an error, or a line in the log
             /\ doing' = IF stored = "repository" THEN Idle ELSE [doing EXCEPT !.step = "applies", !.fill = f]
    /\ UNCHANGED <<numbered, stored, orders, account, holding, position, report>>

\* The position's row: written over and open, or closed.  With no answer from the
\* database it stays what it was, and a line is logged.
Upserted == "OPEN"
Closed == "CLOSED"
PositionFor(n) == {position, IF n = 0 THEN Closed ELSE Upserted}
Applies ==
    /\ doing.step = "applies" /\ doing' = Idle
    /\ holding' = IF orders[doing.order].side = "BUY" THEN holding + doing.fill.qty ELSE holding - doing.fill.qty
    /\ position' \in PositionFor(holding')
    /\ UNCHANGED <<numbered, stored, orders, account, trades, report>>

Crashes ==
    /\ doing.step # "down" /\ doing' = Down
    /\ UNCHANGED <<numbered, stored, orders, account, holding, position, trades, report>>

\* A start takes the account's word for the position and for its row; the fills
\* of before are not asked for.
Starts ==
    /\ doing = Down /\ doing' = Idle
    /\ holding' = account /\ position' \in PositionFor(account)
    /\ UNCHANGED <<numbered, stored, orders, account, trades, report>>
-----------------------------------------------------------------------------
(* The report of the day, a program of cron's.                             *)
\* reconcile_trades_from_broker asks several times and keeps the rows by their
\* numbers, or else by all they say: an order that went on executing between two
\* answers has two rows then.
Shown == {[order |-> o, qty |-> orders[o].done] : o \in {p \in Orders : orders[p].done > 0}}
Merged(old, new) ==
    IF numbered THEN new \cup {r \in old : \A n \in new : n.order # r.order} ELSE old \cup new
AsksBroker ==
    /\ report.step \in {"none", "asked", "built"}
    /\ \/ /\ report' = [report EXCEPT !.step = "asked",
                           !.seen = IF report.step = "asked" THEN Merged(@, Shown) ELSE Shown,
                           !.sound = TRUE, !.asked = {s.order : s \in Shown}, !.counted = {}]
       \/ /\ report.step # "asked"    \* no answer: the table is counted as it is
          /\ report' = [NoReport EXCEPT !.step = "completed", !.sound = FALSE]
    /\ UNCHANGED <<numbered, stored, orders, account, doing, holding, position, trades>>

\* save_execution_fill of each, unless a row of the table has its order and side.
Known(o) == \E r \in trades : r.order = o /\ r.side = orders[o].side
ReportKey(s) == IF numbered THEN <<"report", s.order, 0, 0>> ELSE <<"report", s.order, 0, s.qty>>
Completes ==
    /\ report.step = "asked" /\ report.seen # {}
    /\ \E s \in report.seen :
          /\ \/ Known(s.order) /\ UNCHANGED trades /\ report' = [report EXCEPT !.seen = @ \ {s}]
             \/ /\ ~Known(s.order) /\ trades' = With(Row(s.order, s.qty, ReportKey(s), "report"))
                /\ report' = [report EXCEPT !.seen = @ \ {s}]
             \/ \* the look for the order fails, and is taken for none
                /\ trades' = With(Row(s.order, s.qty, ReportKey(s), "report"))
                /\ report' = [report EXCEPT !.seen = @ \ {s}]
             \/ /\ UNCHANGED trades    \* the insertion fails: counted as an error
                /\ report' = [report EXCEPT !.seen = @ \ {s}, !.sound = FALSE]
    /\ UNCHANGED <<numbered, stored, orders, account, doing, holding, position>>
Completed ==
    /\ report.step = "asked" /\ report.seen = {}
    /\ report' = [report EXCEPT !.step = "completed"]
    /\ UNCHANGED <<numbered, stored, orders, account, doing, holding, position, trades>>

\* calculate_trade_metrics: of the rows of one execution, the executor's own
\* comes first; build_report counts those and keeps them in the daily summary.
\* As if each row of an order were an execution of its own.
ExecutionKey_ByRow(r) == <<r.side, r.order, r.key>>
ExecutionKey(r) == <<r.side, r.order>>
Preferred(r) == {q \in trades : ExecutionKey(q) = ExecutionKey(r) /\ (r.by = "report" => q.by = "executor")}
Countable(rows) ==
    /\ \A r \in trades : Cardinality({q \in rows : ExecutionKey(q) = ExecutionKey(r)}) = 1
    /\ \A r \in rows : r.by = "executor" \/ Preferred(r) = {}
Builds ==
    /\ report.step = "completed"
    /\ \E rows \in SUBSET trades : Countable(rows) /\ report' = [report EXCEPT !.step = "built", !.counted = rows]
    /\ UNCHANGED <<numbered, stored, orders, account, doing, holding, position, trades>>

RecordsNext ==
    \/ \E o \in Orders : Executes(o) \/ Trades(o) \/ Waited(o)
    \/ Records \/ Applies \/ Crashes \/ Starts
    \/ AsksBroker \/ Completes \/ Completed \/ Builds
-----------------------------------------------------------------------------
RecordsTypes ==
    /\ numbered \in BOOLEAN /\ stored \in {"repository", "plain"}
    /\ orders \in [Orders -> [side : Sides \cup {"none"}, qty : Nat, done : Nat, live : BOOLEAN]]
    /\ doing.step \in {"idle", "waits", "records", "applies", "down"} /\ doing.order \in Orders \cup {NoOrder}
    /\ account \in Nat /\ holding \in Nat /\ position \in {"OPEN", "CLOSED"}
    /\ \A r \in trades : r.order \in Orders /\ r.side \in Sides /\ r.qty \in Nat

\* A report that was built counts every order once, and never more of it than
\* was executed: whatever crashed before a fill was stored, however often it was
\* stored, by whom and under which key.  An order that the broker had told of,
\* and whose row could be written, is not missing.
ReportCountsOrdersOnce ==
    report.step = "built" =>
        \A o \in Orders :
            LET rows == {r \in report.counted : r.order = o}
            IN /\ Cardinality(rows) <= 1
               /\ \A r \in rows : r.qty <= orders[o].done
               /\ report.sound /\ o \in report.asked => rows # {}
=============================================================================
