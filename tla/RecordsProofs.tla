--------------------------- MODULE RecordsProofs ----------------------------
(***************************************************************************)
(* What the records of the trades keep, for all orders.  A row is of an    *)
(* order that was placed, has its side and no more shares than it has      *)
(* executed, and its key names the order: so a key that is taken already   *)
(* is of a row of the same order, and rows of one order have one execution *)
(* key, of which the report counts one.  Orders only go on executing, and  *)
(* rows are never deleted.                                                 *)
(***************************************************************************)
EXTENDS TradeRecords, DatabaseTrader, VirtualTrading, FiniteSetTheorems,
        WellFoundedInduction, TLAPS

OrderRecords == [side : Sides \cup {"none"}, qty : Int, done : Nat, live : BOOLEAN]
FillRecords  == [qty : Int, when : {0, 1}]
Doings == [step : {"idle", "waits", "records", "applies", "down"}, order : Orders \cup {NoOrder},
           fill : FillRecords]

OrdersSound ==
    /\ orders \in [Orders -> OrderRecords]
    /\ \A o \in Orders : ~Placed(o) => orders[o].done = 0 /\ ~orders[o].live

Told(o, qty) == o \in Orders /\ Placed(o) /\ qty \in Int /\ qty <= orders[o].done

DoingSound ==
    /\ account \in Int /\ holding \in Int
    /\ doing \in Doings
    /\ doing.step \in {"waits", "records", "applies"} => doing.order \in Orders /\ Placed(doing.order)
    /\ doing.step \in {"records", "applies"} => Told(doing.order, doing.fill.qty)

RowSound(r) == Told(r.order, r.qty) /\ r.side = orders[r.order].side /\ r.key[2] = r.order
RowsSound == \A r \in trades : RowSound(r)

HasRow(o) == \E r \in trades : r.order = o

Reports == [step : {"none", "asked", "completed", "built"},
            seen : SUBSET [order : Orders, qty : Int], sound : BOOLEAN,
            asked : SUBSET Orders, counted : SUBSET trades]
ReportSound ==
    /\ report \in Reports
    /\ \A s \in report.seen : Told(s.order, s.qty)
    /\ report.sound => \A o \in report.asked :
          CASE report.step = "asked"     -> HasRow(o) \/ \E s \in report.seen : s.order = o
            [] report.step = "completed" -> HasRow(o)
            [] report.step = "built"     -> \E r \in report.counted : r.order = o
            [] OTHER                     -> TRUE
    /\ report.step = "built" =>
          \A o \in Orders : Cardinality({r \in report.counted : r.order = o}) <= 1

RecordsInv == OrdersSound /\ DoingSound /\ RowsSound /\ ReportSound

LEMMA InitRecords == RecordsInit => RecordsInv
<1> SUFFICES ASSUME RecordsInit
             PROVE  RecordsInv
    OBVIOUS
<1>1. OrdersSound
    BY DEF RecordsInit, OrdersSound, OrderRecords
<1>2. DoingSound
    BY DEF RecordsInit, DoingSound, Doings, Idle, NoFill, FillRecords
<1>3. RowsSound /\ ReportSound
    BY DEF RecordsInit, RowsSound, ReportSound, Reports, NoReport
<1> QED
    BY <1>1, <1>2, <1>3 DEF RecordsInv

LEMMA RecordsCountOnce == RecordsInv => ReportCountsOrdersOnce
<1> SUFFICES ASSUME RecordsInv, report.step = "built", NEW o \in Orders
             PROVE  LET found == {r \in report.counted : r.order = o}
                    IN /\ Cardinality(found) <= 1
                       /\ \A r \in found : r.qty <= orders[o].done
                       /\ report.sound /\ o \in report.asked => found # {}
    BY DEF ReportCountsOrdersOnce
<1>1. report.counted \subseteq trades
    BY DEF RecordsInv, ReportSound, Reports
<1>2. \A r \in report.counted : r.qty <= orders[r.order].done
    BY <1>1 DEF RecordsInv, RowsSound, RowSound, Told
<1> QED
    BY <1>2 DEF RecordsInv, ReportSound

\* An order that goes on executing, and one that is placed.
LEMMA OrdersGrow ==
    ASSUME RecordsInv, OrdersSound', UNCHANGED <<trades, report>>,
           \A o \in Orders : Placed(o) => /\ orders'[o].side = orders[o].side
                                          /\ orders[o].done <= orders'[o].done
    PROVE  /\ \A o, qty : Told(o, qty) => Told(o, qty)'
           /\ RowsSound' /\ ReportSound'
<1>1. ASSUME NEW o, NEW qty, Told(o, qty)
      PROVE  Told(o, qty)'
    <2>1. /\ orders[o].done \in Nat /\ orders'[o].done \in Nat
          /\ orders[o].done <= orders'[o].done /\ qty \in Int /\ qty <= orders[o].done
        BY <1>1 DEF RecordsInv, OrdersSound, OrderRecords, Told
    <2> QED
        BY <1>1, <2>1 DEF Told, Placed
<1>2. RowsSound'
    BY <1>1 DEF RecordsInv, RowsSound, RowSound, Told
<1>3. ReportSound'
    BY <1>1 DEF RecordsInv, ReportSound, Reports, HasRow
<1> QED
    BY <1>1, <1>2, <1>3

LEMMA ExecutesKeeps == RecordsInv /\ (\E o \in Orders : Executes(o)) => RecordsInv'
<1> SUFFICES ASSUME RecordsInv, NEW o \in Orders, Executes(o)
             PROVE  RecordsInv'
    OBVIOUS
<1> DEFINE more == orders[o].done + 1
           live == more < orders[o].qty
           q == [orders[o] EXCEPT !.done = more, !.live = live]
<1>1. /\ orders[o] \in OrderRecords /\ more \in Nat /\ live \in BOOLEAN
      /\ more = orders[o].done + 1
    BY DEF RecordsInv, OrdersSound, OrderRecords
<1>2. orders' = [orders EXCEPT ![o] = q]
    BY DEF Executes
<1> HIDE DEF more, live
<1>3. q \in OrderRecords /\ q.done = orders[o].done + 1 /\ q.side = orders[o].side
    BY <1>1 DEF OrderRecords
<1> HIDE DEF q
<1>4. Placed(o) /\ OrdersSound'
    BY <1>1, <1>2, <1>3 DEF RecordsInv, OrdersSound, Placed, Executes
<1>5. \A p \in Orders : Placed(p) => /\ orders'[p].side = orders[p].side
                                     /\ orders[p].done <= orders'[p].done
    BY <1>1, <1>2, <1>3 DEF RecordsInv, OrdersSound, OrderRecords
<1>6. /\ UNCHANGED <<doing, holding, trades, report>> /\ account' \in Int
    BY DEF Executes, RecordsInv, DoingSound
<1>7. (\A p, qty : Told(p, qty) => Told(p, qty)') /\ RowsSound' /\ ReportSound'
    BY <1>4, <1>5, <1>6, OrdersGrow
<1>8. DoingSound'
    BY <1>5, <1>6, <1>7 DEF RecordsInv, DoingSound, Placed
<1> QED
    BY <1>4, <1>7, <1>8 DEF RecordsInv

LEMMA TradesKeeps == RecordsData /\ RecordsInv /\ (\E o \in Orders : Trades(o)) => RecordsInv'
<1> SUFFICES ASSUME RecordsData, RecordsInv, NEW o \in Orders, Trades(o)
             PROVE  RecordsInv'
    OBVIOUS
<1> DEFINE side == IF holding = 0 THEN "BUY" ELSE "SELL"
           qty  == IF holding = 0 THEN BuyQty ELSE holding
           q == [side |-> side, qty |-> qty, done |-> 0, live |-> TRUE]
<1>1. /\ orders' = [orders EXCEPT ![o] = q] /\ doing' = [doing EXCEPT !.step = "waits", !.order = o]
      /\ ~Placed(o) /\ UNCHANGED <<account, holding, trades, report>>
    BY DEF Trades
<1>2. q \in OrderRecords /\ q.side \in Sides
    BY DEF RecordsInv, DoingSound, RecordsData, OrderRecords, Sides
<1> HIDE DEF q
<1>3. OrdersSound' /\ Placed(o)'
    BY <1>1, <1>2 DEF RecordsInv, OrdersSound, Placed
<1>4. \A p \in Orders : Placed(p) => orders'[p] = orders[p] /\ orders[p].done \in Nat
    BY <1>1 DEF RecordsInv, OrdersSound, OrderRecords
<1>5. RowsSound' /\ ReportSound'
    BY <1>1, <1>3, <1>4, OrdersGrow
<1>6. doing' \in Doings /\ doing'.step = "waits" /\ doing'.order = o
    BY <1>1 DEF RecordsInv, DoingSound, Doings
<1>7. DoingSound'
    BY <1>1, <1>3, <1>6 DEF RecordsInv, DoingSound
<1> QED
    BY <1>3, <1>5, <1>7 DEF RecordsInv

LEMMA WaitedKeeps == RecordsInv /\ (\E o \in Orders : Waited(o)) => RecordsInv'
<1> SUFFICES ASSUME RecordsInv, NEW o \in Orders, Waited(o)
             PROVE  RecordsInv'
    OBVIOUS
<1>1. PICK live \in {FALSE, orders[o].live} : orders' = [orders EXCEPT ![o].live = live]
    BY DEF Waited
<1> DEFINE q == [orders[o] EXCEPT !.live = live]
<1>2. orders[o] \in OrderRecords /\ Placed(o)
    BY DEF Waited, RecordsInv, OrdersSound, DoingSound
<1>3. q \in OrderRecords /\ q.side = orders[o].side /\ q.done = orders[o].done
    BY <1>2 DEF OrderRecords
<1>4. orders' = [orders EXCEPT ![o] = q]
    BY <1>1
<1> HIDE DEF q
<1>5. /\ OrdersSound'
      /\ \A p \in Orders : orders'[p].side = orders[p].side /\ orders'[p].done = orders[p].done
      /\ \A p \in Orders : orders[p].done \in Nat
    BY <1>2, <1>3, <1>4 DEF RecordsInv, OrdersSound, Placed, OrderRecords
<1>6. UNCHANGED <<account, holding, trades, report>>
    BY DEF Waited
<1>7. (\A p, qty : Told(p, qty) => Told(p, qty)') /\ RowsSound' /\ ReportSound'
    BY <1>5, <1>6, OrdersGrow
<1>8. CASE doing' = Idle
    <2>1. doing' \in Doings /\ doing'.step = "idle"
        BY <1>8 DEF Idle, NoFill, Doings, FillRecords
    <2> QED
        BY <1>5, <1>6, <1>7, <2>1 DEF RecordsInv, DoingSound
<1>9. ASSUME NEW f \in Fills(o), doing' = [step |-> "records", order |-> o, fill |-> f]
      PROVE  RecordsInv'
    <2>1. f \in FillRecords /\ f.qty = orders[o].done
        BY <1>5 DEF Fills, FillRecords
    <2>2. doing' \in Doings /\ doing'.step = "records" /\ doing'.order = o /\ doing'.fill = f
        BY <1>9, <2>1 DEF Doings
    <2>3. Told(o, f.qty)
        BY <1>2, <1>5, <2>1 DEF Told
    <2>4. Placed(o)'
        BY <1>2, <1>5 DEF Placed
    <2> QED
        BY <1>5, <1>6, <1>7, <2>2, <2>3, <2>4 DEF RecordsInv, DoingSound
<1> QED
    BY <1>8, <1>9 DEF Waited

\* A row that goes in, or finds its key taken.
LEMMA WithKeeps ==
    ASSUME RecordsInv, NEW row, RowSound(row), trades' = With(row), UNCHANGED orders
    PROVE  /\ RowsSound' /\ trades \subseteq trades' /\ HasRow(row.order)'
<1>1. \A r \in trades' : RowSound(r)
    BY DEF RecordsInv, RowsSound, With
<1>2. HasRow(row.order)'
    <2>1. CASE \E r \in trades : r.key = row.key
        BY <2>1 DEF With, RecordsInv, RowsSound, RowSound, HasRow
    <2>2. CASE ~(\E r \in trades : r.key = row.key)
        BY <2>2 DEF With, HasRow
    <2> QED
        BY <2>1, <2>2
<1> QED
    BY <1>1, <1>2 DEF RowsSound, RowSound, Told, Placed, With

LEMMA RowsGrow ==
    ASSUME RecordsInv, UNCHANGED <<orders, report>>, trades \subseteq trades'
    PROVE  ReportSound'
BY DEF RecordsInv, ReportSound, Reports, HasRow, Told, Placed

LEMMA RecordsKeeps == RecordsInv /\ Records => RecordsInv'
<1> SUFFICES ASSUME RecordsInv, Records
             PROVE  RecordsInv'
    OBVIOUS
<1> DEFINE o == doing.order
           f == Taken(o, doing.fill)
           row == Row(o, f.qty, FillKey(o, f), "executor")
<1>1. /\ o \in Orders /\ Told(o, doing.fill.qty) /\ doing.fill \in FillRecords /\ holding \in Int
      /\ orders[o].done \in Nat
    BY DEF Records, RecordsInv, DoingSound, Doings, OrdersSound, OrderRecords
<1>2. f \in FillRecords /\ Told(o, f.qty)
    BY <1>1 DEF Taken, FillRecords, Told
<1>3. RowSound(row) /\ row.order = o
    BY <1>1, <1>2 DEF RowSound, Row, FillKey
<1>4. /\ trades' = With(row) \/ trades' = trades
      /\ doing' = Idle \/ doing' = [doing EXCEPT !.step = "applies", !.fill = f]
      /\ UNCHANGED <<orders, account, holding, report>>
    BY DEF Records
<1> HIDE DEF f, row
<1>5. RowsSound' /\ ReportSound'
    BY <1>3, <1>4, WithKeeps, RowsGrow DEF RecordsInv, RowsSound, RowSound, Told, Placed
<1>6. CASE doing' = Idle
    <2>1. doing' \in Doings /\ doing'.step = "idle"
        BY <1>6 DEF Idle, NoFill, Doings, FillRecords
    <2> QED
        BY <1>4, <1>5, <2>1 DEF RecordsInv, OrdersSound, DoingSound, Placed
<1>7. CASE doing' = [doing EXCEPT !.step = "applies", !.fill = f]
    <2>1. doing' \in Doings /\ doing'.step = "applies" /\ doing'.order = o /\ doing'.fill = f
        BY <1>2, <1>7 DEF RecordsInv, DoingSound, Doings
    <2> QED
        BY <1>1, <1>2, <1>4, <1>5, <2>1 DEF RecordsInv, OrdersSound, DoingSound, Placed, Told
<1> QED
    BY <1>4, <1>6, <1>7

\* The executor's other steps touch neither the orders nor the rows.
LEMMA ExecutorKeeps == RecordsInv /\ (Applies \/ Crashes \/ Starts) => RecordsInv'
<1> SUFFICES ASSUME RecordsInv, Applies \/ Crashes \/ Starts
             PROVE  RecordsInv'
    OBVIOUS
<1>1. UNCHANGED <<orders, account, trades, report>>
    BY DEF Applies, Crashes, Starts
<1>2. doing' \in {Idle, Down}
    BY DEF Applies, Crashes, Starts
<1>3. doing' \in Doings /\ doing'.step \in {"idle", "down"}
    BY <1>2 DEF Idle, Down, NoFill, Doings, FillRecords
<1>4. holding' \in Int
    BY DEF Applies, Crashes, Starts, RecordsInv, DoingSound, Doings, FillRecords
<1>5. OrdersSound' /\ RowsSound' /\ ReportSound'
    BY <1>1 DEF RecordsInv, OrdersSound, RowsSound, RowSound, ReportSound, Reports, HasRow, Told, Placed
<1> QED
    BY <1>1, <1>3, <1>4, <1>5 DEF RecordsInv, DoingSound

\* The report: what it asks, what it completes, what it counts.
LEMMA ReportTouchesNoOrder ==
    ASSUME RecordsInv, UNCHANGED <<numbered, stored, orders, account, doing, holding, position>>
    PROVE  OrdersSound' /\ DoingSound'
BY DEF RecordsInv, OrdersSound, DoingSound, Placed, Told

LEMMA AsksBrokerKeeps == RecordsInv /\ AsksBroker => RecordsInv'
<1> SUFFICES ASSUME RecordsInv, AsksBroker
             PROVE  RecordsInv'
    OBVIOUS
<1>1. OrdersSound' /\ DoingSound' /\ UNCHANGED <<orders, trades>>
    BY ReportTouchesNoOrder DEF AsksBroker
<1>2. RowsSound'
    BY <1>1 DEF RecordsInv, RowsSound, RowSound, Told, Placed
<1>3. CASE report' = [NoReport EXCEPT !.step = "completed", !.sound = FALSE]
    <2>1. /\ report' \in Reports' /\ report'.step = "completed" /\ report'.sound = FALSE
          /\ report'.seen = {}
        BY <1>3 DEF NoReport, Reports
    <2> QED
        BY <1>1, <1>2, <2>1 DEF RecordsInv, ReportSound
<1> DEFINE found == IF report.step = "asked" THEN Merged(report.seen, Shown) ELSE Shown
           asked == {s.order : s \in Shown}
<1>4. CASE report' = [report EXCEPT !.step = "asked", !.seen = found, !.sound = TRUE, !.asked = asked,
                             !.counted = {}]
    <2>1. /\ \A s \in Shown : s \in [order : Orders, qty : Int] /\ Told(s.order, s.qty)
          /\ asked \subseteq Orders
        BY DEF Shown, RecordsInv, OrdersSound, OrderRecords, Told
    <2>2. Shown \subseteq found /\ found \subseteq Shown \cup report.seen
        BY DEF Merged
    <2>3. \A s \in found : s \in [order : Orders, qty : Int] /\ Told(s.order, s.qty)
        BY <2>1, <2>2 DEF RecordsInv, ReportSound, Reports
    <2>4. \A p \in asked : \E s \in found : s.order = p
        BY <2>2
    <2> HIDE DEF found, asked
    <2>5. /\ report' \in Reports' /\ report'.step = "asked" /\ report'.seen = found
          /\ report'.asked = asked
        BY <1>4, <2>1, <2>3 DEF RecordsInv, ReportSound, Reports
    <2>6. ReportSound'
        BY <1>1, <2>3, <2>4, <2>5 DEF ReportSound, Told, Placed
    <2> QED
        BY <1>1, <1>2, <2>6 DEF RecordsInv
<1> QED
    BY <1>3, <1>4 DEF AsksBroker

LEMMA CompletesKeeps == RecordsInv /\ Completes => RecordsInv'
<1> SUFFICES ASSUME RecordsInv, Completes
             PROVE  RecordsInv'
    OBVIOUS
<1>1. OrdersSound' /\ DoingSound' /\ UNCHANGED orders /\ report.step = "asked"
    BY ReportTouchesNoOrder DEF Completes
<1>2. PICK s \in report.seen :
         \/ Known(s.order) /\ UNCHANGED trades /\ report' = [report EXCEPT !.seen = @ \ {s}]
         \/ /\ trades' = With(Row(s.order, s.qty, ReportKey(s), "report"))
            /\ report' = [report EXCEPT !.seen = @ \ {s}]
         \/ UNCHANGED trades /\ report' = [report EXCEPT !.seen = @ \ {s}, !.sound = FALSE]
    BY DEF Completes
<1> DEFINE row == Row(s.order, s.qty, ReportKey(s), "report")
           rest == report.seen \ {s}
<1>3. /\ s.order \in Orders /\ Told(s.order, s.qty) /\ rest \subseteq report.seen
      /\ report \in Reports
    BY DEF RecordsInv, ReportSound, Reports
<1>4. RowSound(row) /\ row.order = s.order
    BY <1>3 DEF RowSound, Row, ReportKey
<1> HIDE DEF row
<1>5. RowsSound' /\ trades \subseteq trades' /\ (trades' = With(row) => HasRow(s.order)')
    BY <1>1, <1>2, <1>4, WithKeeps DEF row, RecordsInv, RowsSound, RowSound, Told, Placed
<1>6. CASE report' = [report EXCEPT !.seen = rest, !.sound = FALSE]
    <2>1. /\ report' \in Reports' /\ report'.seen = rest /\ report'.sound = FALSE
          /\ report'.step = "asked"
        BY <1>1, <1>3, <1>5, <1>6 DEF Reports
    <2>2. ReportSound'
        BY <1>1, <1>3, <2>1 DEF RecordsInv, ReportSound, Told, Placed
    <2> QED
        BY <1>1, <1>5, <2>2 DEF RecordsInv
<1>7. CASE report' = [report EXCEPT !.seen = rest]
              /\ ((Known(s.order) /\ UNCHANGED trades) \/ trades' = With(row))
    <2>1. /\ report' \in Reports' /\ report'.seen = rest /\ report'.sound = report.sound
          /\ report'.step = "asked" /\ report'.asked = report.asked
        BY <1>1, <1>3, <1>5, <1>7 DEF Reports
    <2>2. HasRow(s.order)'
        BY <1>5, <1>7 DEF Known, HasRow
    <2>3. ASSUME report.sound, NEW p \in report.asked
          PROVE  HasRow(p)' \/ \E t \in rest : t.order = p
        <3>1. HasRow(p) \/ \E t \in report.seen : t.order = p
            BY <1>1, <2>3 DEF RecordsInv, ReportSound
        <3> QED
            BY <1>5, <2>2, <3>1 DEF HasRow
    <2>4. ReportSound'
        BY <1>1, <1>3, <2>1, <2>3 DEF RecordsInv, ReportSound, Told, Placed
    <2> QED
        BY <1>1, <1>5, <2>4 DEF RecordsInv
<1> QED
    BY <1>2, <1>6, <1>7 DEF row

LEMMA CompletedKeeps == RecordsInv /\ Completed => RecordsInv'
<1> SUFFICES ASSUME RecordsInv, Completed
             PROVE  RecordsInv'
    OBVIOUS
<1>1. OrdersSound' /\ DoingSound' /\ UNCHANGED <<orders, trades>> /\ report.seen = {}
    BY ReportTouchesNoOrder DEF Completed
<1>2. RowsSound'
    BY <1>1 DEF RecordsInv, RowsSound, RowSound, Told, Placed
<1>3. /\ report' \in Reports' /\ report'.step = "completed" /\ report'.seen = {}
      /\ report'.sound = report.sound /\ report'.asked = report.asked /\ report.step = "asked"
    BY <1>1 DEF Completed, RecordsInv, ReportSound, Reports
<1>4. ReportSound'
    BY <1>1, <1>3 DEF RecordsInv, ReportSound, HasRow
<1> QED
    BY <1>1, <1>2, <1>4 DEF RecordsInv

LEMMA BuildsKeeps == RecordsInv /\ Builds => RecordsInv'
<1> SUFFICES ASSUME RecordsInv, Builds
             PROVE  RecordsInv'
    OBVIOUS
<1>1. OrdersSound' /\ DoingSound' /\ UNCHANGED <<orders, trades>> /\ report.step = "completed"
    BY ReportTouchesNoOrder DEF Builds
<1>2. RowsSound'
    BY <1>1 DEF RecordsInv, RowsSound, RowSound, Told, Placed
<1>3. PICK found \in SUBSET trades : Countable(found) /\ report' = [report EXCEPT !.step = "built", !.counted = found]
    BY DEF Builds
<1>4. /\ report' \in Reports' /\ report'.step = "built" /\ report'.counted = found
      /\ report'.sound = report.sound /\ report'.asked = report.asked /\ report'.seen = report.seen
    BY <1>1, <1>3 DEF RecordsInv, ReportSound, Reports
<1>5. ASSUME NEW r \in trades
      PROVE  Cardinality({q \in found : q.order = r.order}) = 1
    <2>1. \A q \in found : q.order = r.order <=> ExecutionKey(q) = ExecutionKey(r)
        BY DEF ExecutionKey, RecordsInv, RowsSound, RowSound
    <2>2. {q \in found : q.order = r.order} = {q \in found : ExecutionKey(q) = ExecutionKey(r)}
        BY <2>1
    <2> QED
        BY <1>3, <2>2 DEF Countable
<1>6. ASSUME NEW o \in Orders
      PROVE  Cardinality({q \in found : q.order = o}) <= 1
    <2>1. CASE {q \in found : q.order = o} = {}
        BY <2>1, FS_EmptySet
    <2>2. CASE {q \in found : q.order = o} # {}
        BY <1>5, <2>2
    <2> QED
        BY <2>1, <2>2
<1>7. ASSUME report.sound, NEW o \in report.asked
      PROVE  \E q \in found : q.order = o
    <2>1. PICK r \in trades : r.order = o
        BY <1>1, <1>7 DEF RecordsInv, ReportSound, HasRow
    <2>2. Cardinality({q \in found : q.order = o}) = 1
        BY <1>5, <2>1
    <2>3. {q \in found : q.order = o} # {}
        BY <2>2, FS_EmptySet
    <2> QED
        BY <2>3
<1>8. ReportSound'
    BY <1>1, <1>4, <1>6, <1>7 DEF RecordsInv, ReportSound, Told, Placed
<1> QED
    BY <1>1, <1>2, <1>8 DEF RecordsInv

LEMMA StepRecords == RecordsData /\ RecordsInv /\ [RecordsNext]_recordVars => RecordsInv'
<1> SUFFICES ASSUME RecordsData, RecordsInv, [RecordsNext]_recordVars
             PROVE  RecordsInv'
    OBVIOUS
<1>1. CASE UNCHANGED recordVars
    BY <1>1 DEF recordVars, RecordsInv, OrdersSound, DoingSound, RowsSound, RowSound, ReportSound, Reports,
                HasRow, Told, Placed
<1> QED
    BY <1>1, ExecutesKeeps, TradesKeeps, WaitedKeeps, RecordsKeeps, ExecutorKeeps, AsksBrokerKeeps,
       CompletesKeeps, CompletedKeeps, BuildsKeeps DEF RecordsNext

(***************************************************************************)
(* The types of the records: no count is below zero.  The account has what *)
(* the broker sells of it, and the strategy what a fill takes from it.     *)
(***************************************************************************)
WholeNumbers ==
    /\ account \in Nat /\ holding \in Nat
    /\ \A o \in Orders : orders[o].qty \in Nat
    /\ doing.fill.qty \in Nat
    /\ doing.step = "applies" /\ orders[doing.order].side = "SELL" => doing.fill.qty <= holding
    /\ \A s \in report.seen : s.qty \in Nat
    /\ \A r \in trades : r.qty \in Nat

Flags == numbered \in BOOLEAN /\ stored \in {"repository", "plain"} /\ position \in {"OPEN", "CLOSED"}

LEMMA OrdersAreTyped ==
    ASSUME OrdersSound, WholeNumbers
    PROVE  orders \in [Orders -> [side : Sides \cup {"none"}, qty : Nat, done : Nat, live : BOOLEAN]]
<1>1. \A o \in Orders :
          orders[o] \in [side : Sides \cup {"none"}, qty : Nat, done : Nat, live : BOOLEAN]
    BY DEF OrdersSound, OrderRecords, WholeNumbers
<1> QED
    BY <1>1 DEF OrdersSound

LEMMA RecordsAreTyped == RecordsInv /\ WholeNumbers /\ Flags => RecordsTypes
<1> SUFFICES ASSUME RecordsInv, WholeNumbers, Flags
             PROVE  RecordsTypes
    OBVIOUS
<1>1. \A r \in trades : r.order \in Orders /\ r.side \in Sides /\ r.qty \in Nat
    BY DEF RecordsInv, RowsSound, RowSound, Told, Placed, WholeNumbers
<1>2. doing.step \in {"idle", "waits", "records", "applies", "down"} /\ doing.order \in Orders \cup {NoOrder}
    BY DEF RecordsInv, DoingSound, Doings
<1> QED
    BY <1>1, <1>2, OrdersAreTyped DEF RecordsTypes, RecordsInv, Flags, WholeNumbers

LEMMA InitWhole == RecordsInit => WholeNumbers /\ Flags
BY DEF RecordsInit, WholeNumbers, Flags, Idle, NoFill, NoReport

LEMMA ExecutesWhole ==
    RecordsInv /\ WholeNumbers /\ (\E o \in Orders : Executes(o)) => WholeNumbers'
<1> SUFFICES ASSUME RecordsInv, WholeNumbers, NEW o \in Orders, Executes(o)
             PROVE  WholeNumbers'
    OBVIOUS
<1>1. /\ \A p \in Orders : orders'[p].qty = orders[p].qty /\ orders'[p].side = orders[p].side
      /\ UNCHANGED <<doing, holding, trades, report>>
    BY DEF Executes, RecordsInv, OrdersSound, OrderRecords
<1>2. account' \in Nat
    BY DEF Executes, WholeNumbers
<1>3. doing.step = "applies" => doing.order \in Orders
    BY DEF RecordsInv, DoingSound
<1> QED
    BY <1>1, <1>2, <1>3 DEF WholeNumbers

LEMMA TradesWhole ==
    RecordsData /\ RecordsInv /\ WholeNumbers /\ (\E o \in Orders : Trades(o)) => WholeNumbers'
<1> SUFFICES ASSUME RecordsData, RecordsInv, WholeNumbers, NEW o \in Orders, Trades(o)
             PROVE  WholeNumbers'
    OBVIOUS
<1>1. /\ doing' = [doing EXCEPT !.step = "waits", !.order = o] /\ doing \in Doings
      /\ UNCHANGED <<account, holding, trades, report>>
    BY DEF Trades, RecordsInv, DoingSound
<1>2. doing'.step = "waits" /\ doing'.fill = doing.fill
    BY <1>1 DEF Doings
<1>3. \A p \in Orders : orders'[p].qty \in Nat
    BY DEF Trades, RecordsInv, OrdersSound, RecordsData, WholeNumbers
<1> QED
    BY <1>1, <1>2, <1>3 DEF WholeNumbers

LEMMA WaitedWhole ==
    RecordsInv /\ WholeNumbers /\ (\E o \in Orders : Waited(o)) => WholeNumbers'
<1> SUFFICES ASSUME RecordsInv, WholeNumbers, NEW o \in Orders, Waited(o)
             PROVE  WholeNumbers'
    OBVIOUS
<1>1. /\ \A p \in Orders : orders'[p].qty = orders[p].qty /\ orders[p].done \in Nat
      /\ UNCHANGED <<account, holding, trades, report>>
    BY DEF Waited, RecordsInv, OrdersSound, OrderRecords
<1>2. doing'.fill.qty \in Nat /\ doing'.step # "applies"
    <2>1. CASE doing' = Idle
        BY <2>1 DEF Idle, NoFill
    <2>2. ASSUME NEW f \in Fills(o), doing' = [step |-> "records", order |-> o, fill |-> f]
          PROVE  doing'.fill.qty \in Nat /\ doing'.step # "applies"
        BY <1>1, <2>2 DEF Fills
    <2> QED
        BY <2>1, <2>2 DEF Waited
<1> QED
    BY <1>1, <1>2 DEF WholeNumbers

LEMMA RecordsWhole == RecordsInv /\ WholeNumbers /\ Records => WholeNumbers'
<1> SUFFICES ASSUME RecordsInv, WholeNumbers, Records
             PROVE  WholeNumbers'
    OBVIOUS
<1> DEFINE o == doing.order
           f == Taken(o, doing.fill)
           row == Row(o, f.qty, FillKey(o, f), "executor")
<1>1. /\ trades' = With(row) \/ trades' = trades
      /\ doing' = Idle \/ doing' = [doing EXCEPT !.step = "applies", !.fill = f]
      /\ UNCHANGED <<orders, account, holding, report>>
    BY DEF Records
<1>2. doing \in Doings /\ doing.fill \in FillRecords
    BY DEF RecordsInv, DoingSound, Doings
<1>3. f.qty \in Nat /\ (orders[o].side = "SELL" => f.qty <= holding)
    BY <1>2 DEF Taken, FillRecords, WholeNumbers
<1>4. row.qty = f.qty
    BY DEF Row
<1> HIDE DEF f, row
<1>5. \A r \in trades' : r.qty \in Nat
    BY <1>1, <1>3, <1>4 DEF With, WholeNumbers
<1>6. CASE doing' = Idle
    <2>1. doing'.fill.qty \in Nat /\ doing'.step # "applies"
        BY <1>6 DEF Idle, NoFill
    <2> QED
        BY <1>1, <1>5, <2>1 DEF WholeNumbers
<1>7. CASE doing' = [doing EXCEPT !.step = "applies", !.fill = f]
    <2>1. doing'.order = o /\ doing'.fill = f
        BY <1>2, <1>7 DEF Doings
    <2> QED
        BY <1>1, <1>3, <1>5, <2>1 DEF WholeNumbers
<1> QED
    BY <1>1, <1>6, <1>7

LEMMA ExecutorWhole == RecordsInv /\ WholeNumbers /\ (Applies \/ Crashes \/ Starts) => WholeNumbers'
<1> SUFFICES ASSUME RecordsInv, WholeNumbers, Applies \/ Crashes \/ Starts
             PROVE  WholeNumbers'
    OBVIOUS
<1>1. doing' \in {Idle, Down} /\ UNCHANGED <<orders, account, trades, report>>
    BY DEF Applies, Crashes, Starts
<1>2. doing'.fill.qty \in Nat /\ doing'.step # "applies"
    BY <1>1 DEF Idle, Down, NoFill
<1>3. holding' \in Nat
    <2>1. CASE Applies
        <3>1. doing.order \in Orders /\ Placed(doing.order) /\ doing.step = "applies"
            BY <2>1 DEF Applies, RecordsInv, DoingSound
        <3>2. orders[doing.order].side = "BUY" \/ orders[doing.order].side = "SELL"
            BY <3>1 DEF Placed, Sides
        <3> QED
            BY <2>1, <3>1, <3>2 DEF Applies, WholeNumbers
    <2>2. CASE Crashes \/ Starts
        BY <2>2 DEF Crashes, Starts, WholeNumbers
    <2> QED
        BY <2>1, <2>2
<1> QED
    BY <1>1, <1>2, <1>3 DEF WholeNumbers

LEMMA ReportWhole ==
    RecordsInv /\ WholeNumbers /\ (AsksBroker \/ Completes \/ Completed \/ Builds) => WholeNumbers'
<1> SUFFICES ASSUME RecordsInv, WholeNumbers, AsksBroker \/ Completes \/ Completed \/ Builds
             PROVE  WholeNumbers'
    OBVIOUS
<1>1. UNCHANGED <<orders, account, doing, holding>> /\ report \in Reports
    BY DEF AsksBroker, Completes, Completed, Builds, RecordsInv, ReportSound
<1>2. \A s \in Shown : s.qty \in Nat
    BY DEF Shown, RecordsInv, OrdersSound, OrderRecords
<1>3. \A r \in trades' : r.qty \in Nat
    <2>1. CASE UNCHANGED trades
        BY <2>1 DEF WholeNumbers
    <2>2. ASSUME NEW s \in report.seen, trades' = With(Row(s.order, s.qty, ReportKey(s), "report"))
          PROVE  \A r \in trades' : r.qty \in Nat
        BY <2>2 DEF With, Row, WholeNumbers
    <2> QED
        BY <2>1, <2>2 DEF AsksBroker, Completes, Completed, Builds
<1>4. report'.seen \subseteq report.seen \cup Shown
    <2>1. CASE AsksBroker
        <3>1. CASE report' = [NoReport EXCEPT !.step = "completed", !.sound = FALSE]
            BY <3>1 DEF NoReport
        <3> DEFINE found == IF report.step = "asked" THEN Merged(report.seen, Shown) ELSE Shown
                   asked == {s.order : s \in Shown}
        <3>2. found \subseteq report.seen \cup Shown
            BY DEF Merged
        <3>3. CASE report' = [report EXCEPT !.step = "asked", !.seen = found, !.sound = TRUE,
                                            !.asked = asked, !.counted = {}]
            <4> HIDE DEF found, asked
            <4>1. report'.seen = found
                BY <1>1, <3>3 DEF Reports
            <4> QED
                BY <3>2, <4>1
        <3> QED
            BY <2>1, <3>1, <3>3 DEF AsksBroker
    <2>2. CASE Completes
        <3>1. PICK s \in report.seen :
                 \/ report' = [report EXCEPT !.seen = @ \ {s}]
                 \/ report' = [report EXCEPT !.seen = @ \ {s}, !.sound = FALSE]
            BY <2>2 DEF Completes
        <3> DEFINE rest == report.seen \ {s}
        <3>2. rest \subseteq report.seen
            OBVIOUS
        <3>3. \/ report' = [report EXCEPT !.seen = rest]
              \/ report' = [report EXCEPT !.seen = rest, !.sound = FALSE]
            BY <3>1
        <3> HIDE DEF rest
        <3>4. report'.seen = rest
            BY <1>1, <3>3 DEF Reports
        <3> QED
            BY <3>2, <3>4
    <2>3. CASE Completed \/ Builds
        BY <1>1, <2>3 DEF Completed, Builds, Reports
    <2> QED
        BY <2>1, <2>2, <2>3
<1>5. \A s \in report'.seen : s.qty \in Nat
    BY <1>2, <1>4 DEF WholeNumbers
<1> QED
    BY <1>1, <1>3, <1>5 DEF WholeNumbers

LEMMA StepWhole ==
    RecordsData /\ RecordsInv /\ WholeNumbers /\ Flags /\ [RecordsNext]_recordVars
        => WholeNumbers' /\ Flags'
<1> SUFFICES ASSUME RecordsData, RecordsInv, WholeNumbers, Flags, [RecordsNext]_recordVars
             PROVE  WholeNumbers' /\ Flags'
    OBVIOUS
<1>1. Flags'
    BY DEF Flags, RecordsNext, recordVars, Executes, Trades, Waited, Records, Applies, Crashes,
           Starts, AsksBroker, Completes, Completed, Builds, PositionFor, Upserted, Closed
<1>2. WholeNumbers'
    <2>1. CASE UNCHANGED recordVars
        BY <2>1 DEF recordVars, WholeNumbers
    <2> QED
        BY <2>1, ExecutesWhole, TradesWhole, WaitedWhole, RecordsWhole, ExecutorWhole, ReportWhole
        DEF RecordsNext
<1> QED
    BY <1>1, <1>2
-----------------------------------------------------------------------------
(***************************************************************************)
(* Sums over finite sets, which the community module Functions folds in an *)
(* order that nobody knows.  A property of finite sets is proved from      *)
(* its smaller subsets, since of finite sets some are always smallest.     *)
(***************************************************************************)
\* The element that a fold takes next, and the function that it computes of all the
\* subsets of a set.
One(s) == CHOOSE x \in s : TRUE
Adder(f, S, g) == g = [s \in SUBSET S |-> IF s = {} THEN 0 ELSE f[One(s)] + g[s \ {One(s)}]]

\* What holds of a finite set when it holds of the smaller ones holds of all.
LEMMA SetInduction ==
    ASSUME NEW S, IsFiniteSet(S), NEW G,
           \A T \in SUBSET S : (\A U \in SUBSET T : U # T => U \in G) => T \in G
    PROVE  S \in G
<1> SUFFICES ASSUME S \notin G PROVE FALSE
    OBVIOUS
<1> DEFINE bad == {T \in SUBSET S : T \notin G}
<1>1. bad \subseteq FiniteSubsetsOf(S) /\ bad # {}
    BY FS_FiniteSubsetsOfFinite
<1> HIDE DEF bad
<1>4. IsWellFoundedOn(StrictSubsetOrdering(S), FiniteSubsetsOf(S))
    BY FS_StrictSubsetOrderingWellFounded
<1>2. PICK T \in bad : \A U \in bad : ~ (<<U, T>> \in StrictSubsetOrdering(S))
    BY <1>1, <1>4, WFMin
<1> USE DEF bad
<1>3. \A U \in SUBSET T : U # T => U \in G
    BY <1>2 DEF StrictSubsetOrdering
<1> QED
    BY <1>3

\* A sum is what such a function says of it, whichever it is.
LEMMA SumIs ==
    ASSUME NEW f, NEW S
    PROVE  SumFunctionOnSet(f, S) = (CHOOSE g : Adder(f, S, g))[S]
BY DEF SumFunctionOnSet, FoldFunctionOnSet, MapThenFoldSet, Adder, One

\* Two functions that add up one function agree where both are defined.
LEMMA AddersAgree ==
    ASSUME NEW f, NEW S, IsFiniteSet(S), NEW T \in SUBSET S,
           NEW g, NEW h, Adder(f, S, g), Adder(f, T, h)
    PROVE  g[T] = h[T]
<1> DEFINE G == {U \in SUBSET T : g[U] = h[U]}
<1>1. ASSUME NEW V \in SUBSET T, \A W \in SUBSET V : W # V => W \in G
      PROVE  V \in G
    <2>1. /\ g[V] = IF V = {} THEN 0 ELSE f[One(V)] + g[V \ {One(V)}]
          /\ h[V] = IF V = {} THEN 0 ELSE f[One(V)] + h[V \ {One(V)}]
        BY DEF Adder
    <2>2. V # {} => One(V) \in V
        BY DEF One
    <2>3. V # {} => g[V \ {One(V)}] = h[V \ {One(V)}]
        BY <1>1, <2>2
    <2> QED
        BY <2>1, <2>3
<1>2. IsFiniteSet(T)
    BY FS_Subset
<1>3. T \in G
    <2> HIDE DEF G
    <2> QED
        BY <1>1, <1>2, SetInduction
<1> QED
    BY <1>3

LEMMA SumOfAdder ==
    ASSUME NEW f, NEW S, IsFiniteSet(S), NEW T \in SUBSET S,
           NEW g, Adder(f, S, g), NEW h, Adder(f, T, h)
    PROVE  SumFunctionOnSet(f, T) = g[T]
<1>1. Adder(f, T, CHOOSE x : Adder(f, T, x))
    OBVIOUS
<1> QED
    BY <1>1, SumIs, AddersAgree

\* There is such a function, so that a sum is what it says.
LEMMA AdderExists ==
    ASSUME NEW f, NEW S, IsFiniteSet(S)
    PROVE  \E g : Adder(f, S, g)
<1> DEFINE G == {U \in SUBSET S : \E g : Adder(f, U, g)}
<1>1. ASSUME NEW T \in SUBSET S, \A U \in SUBSET T : U # T => U \in G
      PROVE  T \in G
    <2> DEFINE k == [s \in SUBSET T |->
                        IF s = {} THEN 0 ELSE f[One(s)] + SumFunctionOnSet(f, s \ {One(s)})]
    <2>1. \A s \in SUBSET T : s # {} => One(s) \in s
        BY DEF One
    <2>2. ASSUME NEW s \in SUBSET T, s # {}
          PROVE  k[s \ {One(s)}] = SumFunctionOnSet(f, s \ {One(s)})
        <3> DEFINE u == s \ {One(s)}
        <3>1. u \in SUBSET T /\ u # T
            BY <2>1, <2>2
        <3>2. PICK g : Adder(f, u, g)
            BY <1>1, <3>1
        <3>3. IsFiniteSet(u) /\ u \in SUBSET u
            BY <3>1, FS_Subset
        <3>4. SumFunctionOnSet(f, u) = g[u]
            BY <3>2, <3>3, SumOfAdder
        <3>5. g[u] = IF u = {} THEN 0 ELSE f[One(u)] + g[u \ {One(u)}]
            BY <3>2, <3>3 DEF Adder
        <3>6. ASSUME u # {} PROVE SumFunctionOnSet(f, u \ {One(u)}) = g[u \ {One(u)}]
            <4>1. u \ {One(u)} \in SUBSET u /\ u \ {One(u)} # T
                BY <3>1
            <4>2. PICK h : Adder(f, u \ {One(u)}, h)
                BY <1>1, <3>1, <4>1
            <4> QED
                BY <3>2, <3>3, <4>1, <4>2, SumOfAdder
        <3>7. k[u] = IF u = {} THEN 0 ELSE f[One(u)] + SumFunctionOnSet(f, u \ {One(u)})
            BY <3>1
        <3> HIDE DEF k
        <3> QED
            BY <3>4, <3>5, <3>6, <3>7
    <2>3. \A s \in SUBSET T : k[s] = IF s = {} THEN 0 ELSE f[One(s)] + k[s \ {One(s)}]
        BY <2>2
    <2>4. Adder(f, T, k)
        <3>1. k = [s \in SUBSET T |-> k[s]]
            OBVIOUS
        <3> HIDE DEF k
        <3> QED
            BY <2>3, <3>1 DEF Adder
    <2> QED
        BY <2>4
<1>2. S \in G
    <2> HIDE DEF G
    <2> QED
        BY <1>1, SetInduction
<1> QED
    BY <1>2

\* A sum is nothing, or an element and the sum of the others.
LEMMA SumByOne ==
    ASSUME NEW f, NEW S, IsFiniteSet(S)
    PROVE  SumFunctionOnSet(f, S) =
               IF S = {} THEN 0 ELSE f[One(S)] + SumFunctionOnSet(f, S \ {One(S)})
<1>1. PICK g : Adder(f, S, g)
    BY AdderExists
<1>2. SumFunctionOnSet(f, S) = g[S]
    BY <1>1, SumOfAdder
<1>3. S \ {One(S)} \in SUBSET S /\ IsFiniteSet(S \ {One(S)})
    BY FS_Subset
<1>4. PICK h : Adder(f, S \ {One(S)}, h)
    BY <1>3, AdderExists
<1>5. SumFunctionOnSet(f, S \ {One(S)}) = g[S \ {One(S)}]
    BY <1>1, <1>3, <1>4, SumOfAdder
<1>6. S \in SUBSET S
    OBVIOUS
<1>7. g[S] = IF S = {} THEN 0 ELSE f[One(S)] + g[S \ {One(S)}]
    BY <1>1, <1>6 DEF Adder
<1> QED
    BY <1>2, <1>5, <1>7

\* It is a number, and takes its elements in any order.
LEMMA SumIsInt ==
    ASSUME NEW f, NEW S, IsFiniteSet(S), \A x \in S : f[x] \in Int
    PROVE  SumFunctionOnSet(f, S) \in Int
<1> DEFINE G == {U \in SUBSET S : SumFunctionOnSet(f, U) \in Int}
<1>1. ASSUME NEW T \in SUBSET S, \A U \in SUBSET T : U # T => U \in G
      PROVE  T \in G
    <2>1. IsFiniteSet(T) /\ (T # {} => One(T) \in T)
        BY FS_Subset DEF One
    <2>2. T # {} => SumFunctionOnSet(f, T \ {One(T)}) \in Int /\ f[One(T)] \in Int
        BY <1>1, <2>1
    <2>3. SumFunctionOnSet(f, T) =
              IF T = {} THEN 0 ELSE f[One(T)] + SumFunctionOnSet(f, T \ {One(T)})
        BY <2>1, SumByOne
    <2>4. SumFunctionOnSet(f, T) \in Int
        BY <2>2, <2>3
    <2> QED
        BY <2>4
<1>2. S \in G
    <2> HIDE DEF G
    <2> QED
        BY <1>1, SetInduction
<1> QED
    BY <1>2

LEMMA SumTakes ==
    ASSUME NEW f, NEW S, IsFiniteSet(S), \A x \in S : f[x] \in Int, NEW e \in S
    PROVE  SumFunctionOnSet(f, S) = f[e] + SumFunctionOnSet(f, S \ {e})
<1> DEFINE G == {U \in SUBSET S :
                    \A x \in U : SumFunctionOnSet(f, U) = f[x] + SumFunctionOnSet(f, U \ {x})}
<1>1. ASSUME NEW T \in SUBSET S, \A U \in SUBSET T : U # T => U \in G
      PROVE  T \in G
    <2> SUFFICES ASSUME NEW x \in T, x # One(T)
                 PROVE  SumFunctionOnSet(f, T) = f[x] + SumFunctionOnSet(f, T \ {x})
        <3>1. IsFiniteSet(T)
            BY FS_Subset
        <3> QED
            BY <3>1, SumByOne
    <2>1. IsFiniteSet(T) /\ One(T) \in T
        BY FS_Subset DEF One
    <2>2. PICK y \in T : y = One(T)
        BY <2>1
    <2> DEFINE rest == T \ {x, y}
    <2>3. T \ {x} \in SUBSET T /\ T \ {x} # T /\ T \ {y} \in SUBSET T /\ T \ {y} # T
        OBVIOUS
    <2>4. /\ (T \ {y}) \ {x} = rest /\ (T \ {x}) \ {y} = rest
          /\ x \in T \ {y} /\ y \in T \ {x} /\ rest \in SUBSET S
        BY <2>2
    <2> HIDE DEF rest
    <2>5. SumFunctionOnSet(f, T) = f[y] + SumFunctionOnSet(f, T \ {y})
        BY <2>1, <2>2, SumByOne
    <2>6. /\ SumFunctionOnSet(f, T \ {y}) = f[x] + SumFunctionOnSet(f, rest)
          /\ SumFunctionOnSet(f, T \ {x}) = f[y] + SumFunctionOnSet(f, rest)
        BY <1>1, <2>3, <2>4
    <2>7. SumFunctionOnSet(f, rest) \in Int /\ f[x] \in Int /\ f[y] \in Int
        BY <2>4, FS_Subset, SumIsInt
    <2> HIDE DEF G
    <2> QED
        BY <2>5, <2>6, <2>7
<1>2. S \in G
    <2> HIDE DEF G
    <2> QED
        BY <1>1, SetInduction
<1> QED
    BY <1>2

LEMMA SumAdds ==
    ASSUME NEW f, NEW S, IsFiniteSet(S), \A x \in S : f[x] \in Int,
           NEW e, e \notin S, f[e] \in Int
    PROVE  SumFunctionOnSet(f, S \cup {e}) = f[e] + SumFunctionOnSet(f, S)
<1>1. IsFiniteSet(S \cup {e}) /\ (S \cup {e}) \ {e} = S
    BY FS_AddElement
<1> QED
    BY <1>1, SumTakes

LEMMA SumNone == ASSUME NEW f PROVE SumFunctionOnSet(f, {}) = 0
BY SumByOne, FS_EmptySet

\* Equal functions have equal sums, and two sets without a common element the
\* sum of both.
LEMMA SumsEqual ==
    ASSUME NEW f, NEW g, NEW S, IsFiniteSet(S), \A x \in S : f[x] = g[x]
    PROVE  SumFunctionOnSet(f, S) = SumFunctionOnSet(g, S)
<1> DEFINE G == {U \in SUBSET S : SumFunctionOnSet(f, U) = SumFunctionOnSet(g, U)}
<1>1. ASSUME NEW T \in SUBSET S, \A U \in SUBSET T : U # T => U \in G
      PROVE  T \in G
    <2>1. IsFiniteSet(T) /\ (T # {} => One(T) \in T)
        BY FS_Subset DEF One
    <2>2. T # {} => /\ SumFunctionOnSet(f, T \ {One(T)}) = SumFunctionOnSet(g, T \ {One(T)})
                    /\ f[One(T)] = g[One(T)]
        BY <1>1, <2>1
    <2> QED
        BY <2>1, <2>2, SumByOne
<1>2. S \in G
    <2> HIDE DEF G
    <2> QED
        BY <1>1, SetInduction
<1> QED
    BY <1>2

LEMMA SumJoins ==
    ASSUME NEW f, NEW S, IsFiniteSet(S), NEW R, IsFiniteSet(R), S \cap R = {},
           \A x \in S \cup R : f[x] \in Int
    PROVE  SumFunctionOnSet(f, S \cup R) = SumFunctionOnSet(f, S) + SumFunctionOnSet(f, R)
<1> DEFINE G == {U \in SUBSET S : SumFunctionOnSet(f, U \cup R)
                                      = SumFunctionOnSet(f, U) + SumFunctionOnSet(f, R)}
<1>1. ASSUME NEW T \in SUBSET S, \A U \in SUBSET T : U # T => U \in G
      PROVE  T \in G
    <2>1. IsFiniteSet(T) /\ SumFunctionOnSet(f, R) \in Int
        BY FS_Subset, SumIsInt
    <2>2. CASE T = {}
        <3>1. SumFunctionOnSet(f, T) = 0 /\ T \cup R = R
            BY <2>2, SumNone
        <3> QED
            BY <2>1, <3>1
    <2>3. CASE T # {}
        <3>1. PICK x \in T : TRUE
            BY <2>3
        <3> DEFINE U == T \ {x}
        <3>2. SumFunctionOnSet(f, U \cup R) = SumFunctionOnSet(f, U) + SumFunctionOnSet(f, R)
            BY <1>1
        <3>3. SumFunctionOnSet(f, T) = f[x] + SumFunctionOnSet(f, U)
            BY <2>1, SumTakes
        <3>4. IsFiniteSet(T \cup R) /\ x \in T \cup R /\ (T \cup R) \ {x} = U \cup R
            BY <2>1, FS_Union
        <3>5. SumFunctionOnSet(f, T \cup R) = f[x] + SumFunctionOnSet(f, U \cup R)
            BY <3>4, SumTakes
        <3>6. IsFiniteSet(U) /\ f[x] \in Int
            BY <2>1, FS_Subset
        <3>7. SumFunctionOnSet(f, U) \in Int
            BY <3>6, SumIsInt
        <3> QED
            BY <2>1, <3>2, <3>3, <3>5, <3>6, <3>7
    <2> QED
        BY <2>2, <2>3
<1>2. S \in G
    <2> HIDE DEF G
    <2> QED
        BY <1>1, SetInduction
<1> QED
    BY <1>2
-----------------------------------------------------------------------------
(***************************************************************************)
(* The tables of the database trader.  As long as a start had the tables   *)
(* and one mode, a row is the one purchase of its stock that was written,  *)
(* a closed one its one sale too; an order that is not written yet finds   *)
(* its row as its sending saw it, because no other order goes out before   *)
(* it is, and a restart forgets it.                                        *)
(***************************************************************************)
RowRecords == [status : {"none", "OPEN", "CLOSED"}, price : Prices \cup {0}, stop : Prices \cup {0}]
OrderRows  == [side : {"BUY", "SELL"}, symbol : Symbols, price : Prices, entry : Prices \cup {0},
               minute : Nat, space : Spaces, signal : BOOLEAN, no : Nat]

TablesTyped ==
    /\ enabled \in BOOLEAN /\ kept \in BOOLEAN /\ space \in Spaces
    /\ minute \in Nat /\ sent \in Nat
    /\ rows \in [Keys -> RowRecords] /\ tradeRows \subseteq OrderRows
    /\ shares \in [Keys -> Int] /\ unwritten \in [Keys -> Int]
    /\ pending # None => pending \in OrderRows

\* The rows that are written of a key: none, or one at the price of its row.
OneAt(k, side) == \E t \in tradeRows : Written(k, side) = {t} /\ t.entry = rows[k].price
RowTold(k) ==
    /\ IF rows[k].status = "none" THEN Written(k, "BUY") = {} ELSE OneAt(k, "BUY")
    /\ IF rows[k].status = "CLOSED" THEN OneAt(k, "SELL") ELSE Written(k, "SELL") = {}
    /\ k[2] # "DRY_RUN" =>
           shares[k] = unwritten[k] + (IF rows[k].status = "OPEN" THEN Quantity ELSE 0)

\* The order that is not written yet is of the mode, and a sale of an open row.
PendingTold ==
    pending # None =>
        /\ pending.space = Own /\ ~pending.signal
        /\ pending.side = "BUY" => pending.entry = pending.price
        /\ pending.side = "SELL" =>
               /\ rows[<<pending.symbol, Own>>].status = "OPEN"
               /\ pending.entry = rows[<<pending.symbol, Own>>].price

TablesInv ==
    /\ TablesTyped
    /\ kept => /\ enabled /\ space = Own
               /\ PendingTold /\ \A k \in Keys : RowTold(k)

LEMMA SpacesAre ==
    /\ \A m : Namespace(m) \in Spaces
    /\ \A t, e : RepositorySpace(t, e) \in Spaces
    /\ Own \in Spaces
BY DEF Namespace, RepositorySpace, Own, Spaces

LEMMA InitTables == TablesData /\ DatabaseInit => TablesInv
<1> SUFFICES ASSUME TablesData, DatabaseInit
             PROVE  TablesInv
    OBVIOUS
<1>1. PICK t \in TradingModes, e \in ExecutionModes, on \in BOOLEAN : Set(t, e, on)
    BY DEF DatabaseInit
<1>2. TablesTyped
    BY <1>1, SpacesAre DEF DatabaseInit, Set, TablesTyped, NoRow, RowRecords
<1>3. kept => enabled /\ space = Own
    BY <1>1 DEF Set, Own
<1>4. \A k \in Keys : RowTold(k)
    BY DEF DatabaseInit, RowTold, Written, NoRow
<1> QED
    BY <1>2, <1>3, <1>4 DEF DatabaseInit, TablesInv, PendingTold

\* What is only noted is no row of any order.
LEMMA NotedAside ==
    ASSUME TablesInv, NEW t \in OrderRows, t.signal, SaveSignalOnly(t)
    PROVE  /\ tradeRows' \subseteq OrderRows
           /\ \A k, side : Written(k, side)' = Written(k, side)
<1> DEFINE noted == [t EXCEPT !.space = space]
<1>1. noted \in OrderRows /\ noted.signal
    BY DEF OrderRows, TablesInv, TablesTyped
<1>2. tradeRows' \in {tradeRows, tradeRows \cup {noted}}
    BY DEF SaveSignalOnly
<1> HIDE DEF noted
<1> QED
    BY <1>1, <1>2 DEF TablesInv, TablesTyped, Written

\* An order that is sent moves its shares, and what the caller was not told.
LEMMA SendsKeeps ==
    ASSUME TablesData, TablesInv,
           NEW side \in {"BUY", "SELL"}, NEW s \in Symbols, NEW p \in Prices,
           NEW entry \in Prices \cup {0}, NEW by \in Int,
           Sends(Order(side, s, p, entry), by),
           side = "BUY" => entry = p,
           kept /\ side = "SELL" => /\ rows[<<s, Own>>].status = "OPEN"
                                   /\ entry = rows[<<s, Own>>].price
    PROVE  TablesInv'
<1> DEFINE order == Order(side, s, p, entry)
<1>1. /\ order \in OrderRows /\ order.space = Own /\ order.side = side /\ order.symbol = s
      /\ order.price = p /\ order.entry = entry /\ order.signal = (mode = "SIGNAL_ONLY")
    BY SpacesAre DEF Order, OrderRows, TablesInv, TablesTyped
<1>2. /\ UNCHANGED <<mode, space, enabled, rows, kept, minute, Own>> /\ sent' \in Nat
      /\ pending = None
      /\ Noted(order) \/ Virtual(order) \/ Places(order, by)
    BY DEF Sends, TablesInv, TablesTyped, Own
<1> HIDE DEF order
<1>3. CASE Noted(order)
    <2>1. /\ tradeRows' \subseteq OrderRows /\ \A k, sd : Written(k, sd)' = Written(k, sd)
          /\ tradeRows \subseteq tradeRows' /\ UNCHANGED <<pending, shares, unwritten>>
        BY <1>1, <1>3, NotedAside DEF Noted, SaveSignalOnly
    <2>2. ASSUME NEW k \in Keys, RowTold(k) PROVE RowTold(k)'
        BY <1>2, <2>1, <2>2 DEF RowTold, OneAt
    <2> QED
        BY <1>2, <2>1, <2>2 DEF TablesInv, TablesTyped, PendingTold
<1>4. pending' # None => pending' = order /\ ~order.signal
    BY <1>1, <1>2 DEF Noted, Virtual, Places
<1>5. CASE Virtual(order)
    <2>1. UNCHANGED <<tradeRows, shares, unwritten>>
        BY <1>5 DEF Virtual
    <2>2. ASSUME NEW k \in Keys, RowTold(k) PROVE RowTold(k)'
        BY <1>2, <2>1, <2>2 DEF RowTold, OneAt, Written
    <2> QED
        BY <1>1, <1>2, <1>4, <2>1, <2>2 DEF TablesInv, TablesTyped, PendingTold
<1>6. CASE Places(order, by)
    <2> DEFINE own == <<s, Own>>
    <2>1. own \in Keys /\ tradeRows' = tradeRows
        BY <1>6, SpacesAre DEF Places, Keys
    <2>2. /\ shares' = [shares EXCEPT ![own] = @ + by]
          /\ unwritten' = [unwritten EXCEPT ![own] = @ + by]
        BY <1>1, <1>6 DEF Places, Moved
    <2> HIDE DEF own
    <2>3. shares' \in [Keys -> Int] /\ unwritten' \in [Keys -> Int]
        BY <2>1, <2>2 DEF TablesInv, TablesTyped
    <2>4. ASSUME NEW k \in Keys PROVE shares'[k] - unwritten'[k] = shares[k] - unwritten[k]
        BY <2>1, <2>2 DEF TablesInv, TablesTyped
    <2>5. ASSUME NEW k \in Keys, RowTold(k) PROVE RowTold(k)'
        <3>1. Quantity \in Int
            BY DEF TablesData
        <3> QED
            BY <1>2, <2>1, <2>3, <2>4, <2>5, <3>1 DEF RowTold, OneAt, Written, TablesInv, TablesTyped
    <2> QED
        BY <1>1, <1>2, <1>4, <2>1, <2>3, <2>5 DEF TablesInv, TablesTyped, PendingTold
<1> QED
    BY <1>2, <1>3, <1>5, <1>6

\* Writing an order tells the caller of its shares, where the mode has an account.
LEMMA TellsCaller ==
    ASSUME TablesData, TablesInv, pending # None, CallerTold(pending.symbol)
    PROVE  /\ unwritten' \in [Keys -> Int]
           /\ \A k \in Keys : k # <<pending.symbol, Own>> => unwritten'[k] = unwritten[k]
           /\ Own # "DRY_RUN" =>
                  unwritten'[<<pending.symbol, Own>>] =
                      unwritten[<<pending.symbol, Own>>]
                          - (IF pending.side = "BUY" THEN Quantity ELSE -Quantity)
<1> DEFINE own == <<pending.symbol, Own>>
           by  == IF pending.side = "BUY" THEN Quantity ELSE -Quantity
<1>1. own \in Keys /\ by \in Int /\ unwritten \in [Keys -> Int]
    BY SpacesAre DEF TablesInv, TablesTyped, OrderRows, Keys, TablesData
<1>2. CASE mode = "CBT"
    <2>1. unwritten' = unwritten /\ Own = "DRY_RUN"
        BY <1>2 DEF CallerTold, Own, Namespace
    <2> QED
        BY <1>1, <2>1
<1>3. CASE mode # "CBT"
    <2>1. unwritten' = [unwritten EXCEPT ![own] = @ - by]
        BY <1>3 DEF CallerTold
    <2> HIDE DEF own, by
    <2>2. /\ unwritten' \in [Keys -> Int] /\ unwritten'[own] = unwritten[own] - by
          /\ \A k \in Keys : k # own => unwritten'[k] = unwritten[k]
        BY <1>1, <2>1
    <2> QED
        BY <2>2 DEF own, by
<1> QED
    BY <1>2, <1>3

\* A written order that is committed is a row of its key, and of no other.
LEMMA WritesKeeps ==
    ASSUME TablesData, TablesInv, pending # None, Writing,
           NEW row \in RowRecords, NEW taken, Writes(row, taken),
           pending.side \in {"BUY", "SELL"},
           kept /\ ~taken =>
               LET own == <<pending.symbol, Own>> IN
               IF pending.side = "BUY"
               THEN /\ rows[own].status = "none"
                    /\ row.status = "OPEN" /\ row.price = pending.price
               ELSE row.status = "CLOSED" /\ row.price = rows[own].price
    PROVE  TablesInv'
<1>0. PICK own \in Keys : own = <<pending.symbol, Own>>
    BY SpacesAre DEF TablesInv, TablesTyped, OrderRows, Keys
<1>1. /\ UNCHANGED <<mode, space, enabled, shares, kept, minute, sent, Own>>
      /\ pending' = None
    BY DEF Writing, Own
<1>2. /\ own \in Keys /\ pending \in OrderRows /\ rows \in [Keys -> RowRecords]
      /\ own[2] = Own
    BY <1>0, SpacesAre DEF TablesInv, TablesTyped
<1>3. CASE UNCHANGED <<rows, tradeRows, unwritten>>
    <2>1. ASSUME NEW k \in Keys, RowTold(k) PROVE RowTold(k)'
        BY <1>1, <1>3, <2>1 DEF RowTold, OneAt, Written
    <2> QED
        BY <1>1, <1>3, <2>1 DEF TablesInv, TablesTyped, PendingTold
<1>4. CASE /\ Commits(pending, taken) /\ CallerTold(pending.symbol)
           /\ rows' = IF enabled THEN [rows EXCEPT ![own] = row] ELSE rows
           /\ tradeRows' = IF enabled THEN tradeRows \cup {pending} ELSE tradeRows
    <2>1. /\ unwritten' \in [Keys -> Int]
          /\ \A k \in Keys : k # own => unwritten'[k] = unwritten[k]
          /\ Own # "DRY_RUN" => unwritten'[own] = unwritten[own]
                                    - (IF pending.side = "BUY" THEN Quantity ELSE -Quantity)
        BY <1>0, <1>4, TellsCaller
    <2>2. TablesTyped'
        BY <1>1, <1>2, <1>4, <2>1 DEF TablesInv, TablesTyped
    <2>3. SUFFICES ASSUME kept PROVE \A k \in Keys : RowTold(k)'
        BY <1>1, <2>2 DEF TablesInv, PendingTold
    <2>4. /\ rows' = [rows EXCEPT ![own] = row] /\ tradeRows' = tradeRows \cup {pending}
          /\ ~taken /\ ~pending.signal /\ pending.space = Own
          /\ \A k \in Keys : RowTold(k)
        BY <1>4, <2>3 DEF TablesInv, Commits, PendingTold
    <2>5. ASSUME NEW k, NEW side
          PROVE  Written(k, side)' = Written(k, side) \cup
                     (IF k = own /\ side = pending.side THEN {pending} ELSE {})
        BY <1>0, <2>4 DEF Written
    <2>6. ASSUME NEW k \in Keys, k # own PROVE RowTold(k)'
        <3>1. rows'[k] = rows[k] /\ unwritten'[k] = unwritten[k] /\ shares' = shares
            BY <1>1, <1>2, <2>1, <2>4, <2>6
        <3>2. \A side : Written(k, side)' = Written(k, side)
            BY <2>5, <2>6
        <3>3. tradeRows \subseteq tradeRows'
            BY <2>4
        <3> QED
            BY <2>4, <3>1, <3>2, <3>3 DEF RowTold, OneAt
    <2>7. rows'[own] = row /\ pending \in tradeRows' /\ tradeRows \subseteq tradeRows'
        BY <1>2, <2>4
    <2>8. CASE pending.side = "BUY"
        <3>1. rows[own].status = "none" /\ row.status = "OPEN" /\ row.price = pending.price
            BY <1>0, <2>3, <2>4, <2>8
        <3>2. Written(own, "BUY") = {} /\ Written(own, "SELL") = {}
            BY <1>2, <2>4, <3>1 DEF RowTold
        <3>3. Written(own, "BUY")' = {pending} /\ Written(own, "SELL")' = {}
            BY <2>5, <2>8, <3>2
        <3>4. pending.entry = pending.price
            BY <2>3, <2>8 DEF TablesInv, PendingTold
        <3>5. OneAt(own, "BUY")'
            BY <2>7, <3>1, <3>3, <3>4 DEF OneAt
        <3>6. Own # "DRY_RUN" => shares'[own] = unwritten'[own] + Quantity
            BY <1>1, <1>2, <2>1, <2>4, <2>8, <3>1 DEF RowTold, TablesInv, TablesTyped, TablesData
        <3>7. RowTold(own)'
            BY <1>2, <2>7, <3>1, <3>3, <3>5, <3>6 DEF RowTold
        <3> QED
            BY <2>6, <3>7
    <2>9. CASE pending.side = "SELL"
        <3>1. /\ rows[own].status = "OPEN" /\ row.status = "CLOSED"
              /\ row.price = rows[own].price /\ pending.entry = rows[own].price
            BY <1>0, <2>3, <2>4, <2>9 DEF TablesInv, PendingTold
        <3>2. OneAt(own, "BUY") /\ Written(own, "SELL") = {}
            BY <1>2, <2>4, <3>1 DEF RowTold
        <3>3. Written(own, "BUY")' = Written(own, "BUY") /\ Written(own, "SELL")' = {pending}
            BY <2>5, <2>9, <3>2
        <3>4. OneAt(own, "BUY")' /\ OneAt(own, "SELL")'
            BY <2>7, <3>1, <3>2, <3>3 DEF OneAt
        <3>5. Own # "DRY_RUN" => shares'[own] = unwritten'[own]
            BY <1>1, <1>2, <2>1, <2>4, <2>9, <3>1 DEF RowTold, TablesInv, TablesTyped, TablesData
        <3>6. RowTold(own)'
            <4>1. unwritten'[own] \in Int
                BY <1>2, <2>1
            <4> QED
                BY <1>2, <2>7, <3>1, <3>4, <3>5, <4>1 DEF RowTold
        <3> QED
            BY <2>6, <3>6
    <2> QED
        BY <2>8, <2>9
<1> QED
    BY <1>0, <1>3, <1>4 DEF Writes

\* Rows and the orders that are written the same, and nothing pending.
LEMMA TablesRest ==
    ASSUME TablesInv, UNCHANGED <<tradeRows, shares, unwritten>>, sent' \in Nat, minute' \in Nat,
           rows' \in [Keys -> RowRecords],
           \A k \in Keys : rows'[k].status = rows[k].status /\ rows'[k].price = rows[k].price,
           enabled' \in BOOLEAN, kept' \in BOOLEAN, space' \in Spaces,
           kept' => kept /\ enabled' /\ space' = Own',
           pending' = None \/ UNCHANGED <<pending, Own>>
    PROVE  TablesInv'
<1>1. ASSUME NEW k \in Keys, RowTold(k) PROVE RowTold(k)'
    BY <1>1 DEF RowTold, OneAt, Written
<1>2. TablesTyped'
    BY DEF TablesInv, TablesTyped
<1>3. pending' # None => pending \in OrderRows
    BY DEF TablesInv, TablesTyped
<1>4. pending' # None => <<pending.symbol, Own>> \in Keys
    BY <1>3, SpacesAre DEF OrderRows, Keys
<1>5. kept' => PendingTold'
    BY <1>4 DEF TablesInv, PendingTold
<1> QED
    BY <1>1, <1>2, <1>5 DEF TablesInv

LEMMA TrailsKeeps ==
    ASSUME TablesData, TablesInv, NEW s \in Symbols, UpdateTrailingStop(s)
    PROVE  TablesInv'
<1>0. PICK own \in Keys : own = <<s, space>>
    BY DEF TablesInv, TablesTyped, Keys
<1>1. PICK p \in Prices : rows' = [rows EXCEPT ![own].stop = p]
    BY <1>0 DEF UpdateTrailingStop
<1>2. /\ UNCHANGED <<tradeRows, shares, unwritten, mode, space, enabled, kept, minute, sent, pending>>
      /\ Own' = Own
    BY DEF UpdateTrailingStop, Own
<1>3. rows \in [Keys -> RowRecords] /\ rows[own] \in RowRecords
    BY <1>0 DEF TablesInv, TablesTyped
<1>4. rows' = [rows EXCEPT ![own] = [rows[own] EXCEPT !.stop = p]]
    BY <1>1
<1>5. /\ [rows[own] EXCEPT !.stop = p] \in RowRecords
      /\ [rows[own] EXCEPT !.stop = p].status = rows[own].status
      /\ [rows[own] EXCEPT !.stop = p].price = rows[own].price
    BY <1>3 DEF RowRecords
<1>6. /\ rows' \in [Keys -> RowRecords]
      /\ \A k \in Keys : rows'[k].status = rows[k].status /\ rows'[k].price = rows[k].price
    BY <1>3, <1>4, <1>5
<1>7. enabled \in BOOLEAN /\ kept \in BOOLEAN /\ space \in Spaces /\ minute \in Nat /\ sent \in Nat
    BY DEF TablesInv, TablesTyped
<1>8. kept => enabled /\ space = Own
    BY DEF TablesInv
<1> QED
    BY <1>2, <1>6, <1>7, <1>8, TablesRest

\* A start whose modes agree reads the namespace that the trader writes.
LEMMA RestartsKeeps ==
    ASSUME TablesInv, Restarts
    PROVE  TablesInv'
<1>1. PICK t \in TradingModes, e \in ExecutionModes, on \in BOOLEAN :
          /\ mode' = ModeOf(t, e) /\ space' = RepositorySpace(t, e) /\ enabled' = on
          /\ kept' = (kept /\ on /\ Namespace(ModeOf(t, e)) = RepositorySpace(t, e))
    BY DEF Restarts
<1>2. Own' = Namespace(mode')
    BY DEF Own
<1>3. /\ UNCHANGED <<rows, tradeRows, shares, unwritten, minute, sent>> /\ pending' = None
      /\ rows \in [Keys -> RowRecords] /\ minute \in Nat /\ sent \in Nat
    BY DEF Restarts, TablesInv, TablesTyped
<1>4. space' \in Spaces /\ enabled' \in BOOLEAN /\ kept' \in BOOLEAN
    BY <1>1, SpacesAre
<1>5. kept' => kept /\ enabled' /\ space' = Own'
    BY <1>1, <1>2
<1> QED
    BY <1>3, <1>4, <1>5, TablesRest

LEMMA StepTables == TablesData /\ TablesInv /\ [DatabaseNext]_dbVars => TablesInv'
<1> SUFFICES ASSUME TablesData, TablesInv, [DatabaseNext]_dbVars
             PROVE  TablesInv'
    OBVIOUS
<1>1. ASSUME NEW s \in Symbols, Buy(s) PROVE TablesInv'
    <2>1. PICK p \in Prices : Sends(Order("BUY", s, p, p), Quantity)
        BY <1>1 DEF Buy
    <2> QED
        BY <2>1, SendsKeeps DEF TablesData
<1>2. ASSUME NEW s \in Symbols, Sell(s) PROVE TablesInv'
    <2>1. PICK p \in Prices : /\ Sends(Order("SELL", s, p, rows[<<s, space>>].price), -Quantity)
                              /\ HasOpenPosition(s)
        BY <1>2 DEF Sell
    <2>2. <<s, space>> \in Keys
        BY DEF TablesInv, TablesTyped, Keys
    <2>3. rows[<<s, space>>].price \in Prices \cup {0}
        BY <2>2 DEF TablesInv, TablesTyped, RowRecords
    <2>4. rows[<<s, space>>].status = "OPEN"
        BY <2>1 DEF HasOpenPosition, OpenIn
    <2>5. kept => space = Own
        BY DEF TablesInv
    <2> DEFINE entry == rows[<<s, space>>].price
    <2>6. kept => rows[<<s, Own>>].status = "OPEN" /\ entry = rows[<<s, Own>>].price
        BY <2>4, <2>5
    <2>7. -Quantity \in Int
        BY DEF TablesData
    <2> HIDE DEF entry
    <2> QED
        BY <2>1, <2>3, <2>6, <2>7, SendsKeeps DEF entry
<1>3. ASSUME NEW s \in Symbols, UpdateTrailingStop(s) PROVE TablesInv'
    BY <1>3, TrailsKeeps
<1>4. CASE RecordBuy
    <2> DEFINE row == [status |-> "OPEN", price |-> pending.price, stop |-> pending.price]
               taken == rows[<<pending.symbol, Own>>].status # "none"
    <2>1. pending.side = "BUY" /\ Writing /\ Writes(row, taken) /\ pending # None
        BY <1>4 DEF RecordBuy, None
    <2>2. row \in RowRecords /\ row.status = "OPEN" /\ row.price = pending.price
        BY <2>1 DEF RowRecords, TablesInv, TablesTyped, OrderRows
    <2>3. ~taken => rows[<<pending.symbol, Own>>].status = "none"
        OBVIOUS
    <2> HIDE DEF row, taken
    <2> QED
        BY <2>1, <2>2, <2>3, WritesKeeps
<1>5. CASE RecordSell
    <2> DEFINE old == rows[<<pending.symbol, Own>>]
               row == [old EXCEPT !.status = IF old.status = "OPEN" THEN "CLOSED" ELSE old.status]
    <2>1. pending.side = "SELL" /\ Writing /\ pending # None
        BY <1>5 DEF RecordSell, None
    <2>2. Writes(row, FALSE)
        BY <1>5 DEF RecordSell
    <2>3. <<pending.symbol, Own>> \in Keys
        BY <2>1, SpacesAre DEF TablesInv, TablesTyped, OrderRows, Keys
    <2>4. old \in RowRecords
        BY <2>3 DEF TablesInv, TablesTyped
    <2>5. kept => old.status = "OPEN"
        BY <2>1 DEF TablesInv, PendingTold
    <2> HIDE DEF old
    <2>6. row \in RowRecords /\ (kept => row.status = "CLOSED") /\ row.price = old.price
        BY <2>4, <2>5 DEF RowRecords
    <2> HIDE DEF row
    <2> QED
        BY <2>1, <2>6, <2>2, WritesKeeps DEF old
<1>6. CASE Restarts
    BY <1>6, RestartsKeeps
<1>7. CASE SaveAccountSnapshot \/ MinutePasses \/ UNCHANGED dbVars
    <2>1. /\ UNCHANGED <<rows, tradeRows, shares, unwritten, mode, space, enabled, kept, sent,
                         pending, Own>>
          /\ minute' \in Nat /\ sent' \in Nat
        BY <1>7 DEF SaveAccountSnapshot, MinutePasses, dbVars, Own, TablesInv, TablesTyped
    <2>2. /\ enabled \in BOOLEAN /\ kept \in BOOLEAN /\ space \in Spaces
          /\ rows \in [Keys -> RowRecords] /\ (kept => enabled /\ space = Own)
        BY DEF TablesInv, TablesTyped
    <2> QED
        BY <2>1, <2>2, TablesRest
<1> QED
    BY <1>1, <1>2, <1>3, <1>4, <1>5, <1>6, <1>7 DEF DatabaseNext

\* The types of the model follow, but for the number of starts, which is bounded.
LEMMA InitDatabaseTypes == TablesData /\ DatabaseInit => DatabaseTypes
<1> SUFFICES ASSUME TablesData, DatabaseInit
             PROVE  DatabaseTypes
    OBVIOUS
<1>1. TablesTyped
    BY InitTables DEF TablesInv
<1>2. starts \in 1 .. MaxStarts
    BY DEF DatabaseInit, TablesData
<1>3. \A k \in Keys : rows[k].status \in {"none", "OPEN", "CLOSED"}
    BY <1>1 DEF TablesTyped, RowRecords
<1> QED
    BY <1>1, <1>2, <1>3, SpacesAre DEF DatabaseTypes, TablesTyped

LEMMA StepDatabaseTypes ==
    TablesData /\ TablesInv /\ DatabaseTypes /\ [DatabaseNext]_dbVars => DatabaseTypes'
<1> SUFFICES ASSUME TablesData, TablesInv, DatabaseTypes, [DatabaseNext]_dbVars
             PROVE  DatabaseTypes'
    OBVIOUS
<1>1. TablesTyped'
    BY StepTables DEF TablesInv
<1>2. starts' \in 1 .. MaxStarts
    <2>1. CASE Restarts
        BY <2>1 DEF Restarts, DatabaseTypes, TablesData
    <2>2. CASE UNCHANGED starts
        BY <2>2 DEF DatabaseTypes
    <2> QED
        BY <2>1, <2>2 DEF DatabaseNext, dbVars, Buy, Sell, Sends, UpdateTrailingStop, RecordBuy,
                          RecordSell, Writing, SaveAccountSnapshot, MinutePasses
<1>3. Own' \in Spaces
    BY DEF Own, Namespace, Spaces
<1>4. \A k \in Keys : rows'[k].status \in {"none", "OPEN", "CLOSED"}
    BY <1>1 DEF TablesTyped, RowRecords
<1> QED
    BY <1>1, <1>2, <1>3, <1>4 DEF DatabaseTypes, TablesTyped

\* The counts of the rows are those of the written orders.
LEMMA TablesAgreeOnRows == TablesInv /\ kept => RowsAgree
<1> SUFFICES ASSUME TablesInv, kept, NEW k \in Keys
             PROVE  /\ Cardinality(Written(k, "BUY")) = (IF rows[k].status = "none" THEN 0 ELSE 1)
                    /\ Cardinality(Written(k, "SELL")) = (IF rows[k].status = "CLOSED" THEN 1 ELSE 0)
                    /\ \A t \in Written(k, "BUY") \cup Written(k, "SELL") : t.entry = rows[k].price
                    /\ k[2] # "DRY_RUN" =>
                           shares[k] = unwritten[k] + (IF rows[k].status = "OPEN" THEN Quantity ELSE 0)
    BY DEF RowsAgree
<1>1. RowTold(k)
    BY DEF TablesInv
<1>2. ASSUME NEW side, OneAt(k, side)
      PROVE  Cardinality(Written(k, side)) = 1 /\ \A t \in Written(k, side) : t.entry = rows[k].price
    BY <1>2, FS_Singleton DEF OneAt
<1>3. ASSUME NEW side, Written(k, side) = {} PROVE Cardinality(Written(k, side)) = 0
    BY <1>3, FS_EmptySet
<1> QED
    BY <1>1, <1>2, <1>3 DEF RowTold

\* The sales of some stocks that a namespace lists.
SalesOf(Z, n) == {t \in tradeRows : t.space = n /\ t.side = "SELL" /\ t.symbol \in Z}

LEMMA PricesAreWhole ==
    ASSUME TablesData
    PROVE  Quantity \in Int /\ \A p \in Prices \cup {0} : p \in Int
BY DEF TablesData

\* What a stock earned by the tables is the profit of its one sale.
LEMMA SaleEarns ==
    ASSUME TablesData, TablesInv, kept, \A t \in tradeRows : ~t.signal,
           NEW n \in Spaces, NEW s \in Symbols
    PROVE  /\ Earned(<<s, n>>) \in Int
           /\ \/ SalesOf({s}, n) = {} /\ Earned(<<s, n>>) = 0
              \/ \E t \in tradeRows : SalesOf({s}, n) = {t} /\ Profit(t) = Earned(<<s, n>>)
<1>1. PICK k \in Keys : k = <<s, n>>
    BY DEF Keys
<1>2. SalesOf({s}, n) = Written(k, "SELL")
    <2>1. \A t \in tradeRows : <<t.symbol, t.space>> = k <=> t.symbol = s /\ t.space = n
        BY <1>1
    <2> QED
        BY <2>1 DEF SalesOf, Written
<1>3. RowTold(k)
    BY DEF TablesInv
<1>4. CASE rows[k].status # "CLOSED"
    BY <1>1, <1>2, <1>3, <1>4 DEF RowTold, Earned
<1>5. CASE rows[k].status = "CLOSED"
    <2>1. PICK t \in tradeRows : Written(k, "SELL") = {t} /\ t.entry = rows[k].price
        BY <1>3, <1>5 DEF RowTold, OneAt
    <2>2. t.side = "SELL" /\ t.price \in Int /\ rows[k].price \in Int /\ Quantity \in Int
        <3>1. t.side = "SELL" /\ t \in OrderRows /\ rows[k] \in RowRecords
            BY <2>1 DEF Written, TablesInv, TablesTyped
        <3>2. t.price \in Prices /\ rows[k].price \in Prices \cup {0}
            BY <3>1 DEF OrderRows, RowRecords
        <3> QED
            BY <3>1, <3>2, PricesAreWhole
    <2>3. Earned(k) = Quantity * (t.price - rows[k].price)
        BY <1>5, <2>1 DEF Earned
    <2>4. Profit(t) = (t.price - rows[k].price) * Quantity
        BY <2>1, <2>2 DEF Profit
    <2>5. Earned(k) \in Int /\ Profit(t) = Earned(k)
        BY <2>2, <2>3, <2>4
    <2> QED
        BY <1>1, <1>2, <2>1, <2>5
<1> QED
    BY <1>4, <1>5

\* A summary adds the profits sale by sale, the tables stock by stock.
LEMMA SummariesAdd == TablesData /\ TablesInv /\ kept => SummariesAgree
<1> SUFFICES ASSUME TablesData, TablesInv, kept, \A t \in tradeRows : ~t.signal, NEW n \in Spaces
             PROVE  DailySummary(n).pnl = SumFunction([s \in Symbols |-> Earned(<<s, n>>)])
    BY DEF SummariesAgree
<1> DEFINE all == SalesOf(Symbols, n)
           made == [t \in all |-> Profit(t)]
           earned == [s \in Symbols |-> Earned(<<s, n>>)]
           AddUp(Z) == /\ IsFiniteSet(SalesOf(Z, n))
                      /\ SumFunctionOnSet(made, SalesOf(Z, n)) = SumFunctionOnSet(earned, Z)
           G == {Z \in SUBSET Symbols : AddUp(Z)}
<1>1. \A t \in all : made[t] \in Int
    <2>1. all \subseteq OrderRows
        BY DEF SalesOf, TablesInv, TablesTyped
    <2>2. \A t \in all : t.price \in Prices /\ t.entry \in Prices \cup {0}
        BY <2>1 DEF OrderRows
    <2> HIDE DEF all
    <2>3. \A t \in all : t.price \in Int /\ t.entry \in Int /\ Quantity \in Int
        BY <2>2, PricesAreWhole
    <2> QED
        BY <2>3 DEF Profit
<1>2. \A s \in Symbols : earned[s] \in Int
    BY SaleEarns
<1>3. ASSUME NEW Z \in SUBSET Symbols, \A U \in SUBSET Z : U # Z => U \in G
      PROVE  Z \in G
    <2>1. CASE Z = {}
        <3>1. SalesOf(Z, n) = {}
            BY <2>1 DEF SalesOf
        <3> QED
            BY <2>1, <3>1, SumNone, FS_EmptySet
    <2>2. ASSUME NEW s \in Z PROVE AddUp(Z)
        <3> DEFINE U == Z \ {s}
        <3>1. AddUp(U)
            BY <1>3
        <3>2. IsFiniteSet(Z) /\ \A z \in Z : earned[z] \in Int
            BY <1>2, FS_Subset DEF TablesData
        <3> HIDE DEF earned, made
        <3>3. SumFunctionOnSet(earned, Z) = earned[s] + SumFunctionOnSet(earned, U)
            BY <3>2, SumTakes
        <3>4. SalesOf(Z, n) = SalesOf(U, n) \cup SalesOf({s}, n) /\ SalesOf(Z, n) \subseteq all
            BY DEF SalesOf
        <3>5. SumFunctionOnSet(earned, U) \in Int
            BY <3>2, FS_Subset, SumIsInt
        <3>6. earned[s] = Earned(<<s, n>>)
            BY DEF earned
        <3>7. ASSUME SalesOf({s}, n) = {}, Earned(<<s, n>>) = 0 PROVE AddUp(Z)
            <4>1. SalesOf(Z, n) = SalesOf(U, n)
                BY <3>4, <3>7
            <4>2. SumFunctionOnSet(earned, Z) = SumFunctionOnSet(earned, U)
                BY <3>3, <3>5, <3>6, <3>7
            <4> HIDE DEF U
            <4> QED
                BY <3>1, <4>1, <4>2
        <3>8. ASSUME NEW t \in tradeRows, SalesOf({s}, n) = {t}, Profit(t) = Earned(<<s, n>>)
              PROVE  AddUp(Z)
            <4>1. t \in all /\ t \notin SalesOf(U, n) /\ SalesOf(Z, n) = SalesOf(U, n) \cup {t}
                BY <3>4, <3>8 DEF SalesOf
            <4>2. made[t] = earned[s]
                BY <3>6, <3>8, <4>1 DEF made
            <4>3. /\ IsFiniteSet(SalesOf(U, n)) /\ IsFiniteSet(SalesOf(Z, n))
                  /\ \A u \in SalesOf(U, n) : made[u] \in Int
                <5>1. IsFiniteSet(SalesOf(U, n)) /\ SalesOf(U, n) \subseteq all
                    BY <3>1, <3>4
                <5>2. IsFiniteSet(SalesOf(U, n) \cup {t})
                    BY <5>1, FS_AddElement
                <5> QED
                    BY <1>1, <4>1, <5>1, <5>2
            <4>4. made[t] \in Int
                BY <1>1, <4>1
            <4>5. SumFunctionOnSet(made, SalesOf(Z, n))
                    = made[t] + SumFunctionOnSet(made, SalesOf(U, n))
                BY <4>1, <4>3, <4>4, SumAdds
            <4> QED
                BY <3>1, <3>3, <4>2, <4>3, <4>5
        <3> QED
            BY <3>7, <3>8, SaleEarns
    <2> QED
        BY <2>1, <2>2
<1>4. AddUp(Symbols)
    <2> HIDE DEF AddUp
    <2>1. Symbols \in G
        <3> HIDE DEF G
        <3> QED
            BY <1>3, SetInduction DEF TablesData
    <2> QED
        BY <2>1
<1>5. /\ DailySummary(n).pnl = SumFunctionOnSet(made, DOMAIN made)
      /\ DOMAIN made = all /\ DOMAIN earned = Symbols
    <2>1. {t \in {t \in tradeRows : t.space = n} : t.side = "SELL"} = all
        BY DEF SalesOf, TablesInv, TablesTyped, OrderRows
    <2> QED
        BY <2>1 DEF DailySummary, SumFunction
<1>6. SumFunction(earned) = SumFunctionOnSet(made, all)
    <2> HIDE DEF made, earned, all
    <2> QED
        BY <1>4, <1>5 DEF all, SumFunction
<1> QED
    BY <1>5, <1>6

LEMMA TablesInvAgrees == TablesData /\ TablesInv => TablesAgree
BY TablesAgreeOnRows, SummariesAdd DEF TablesAgree
-----------------------------------------------------------------------------
(***************************************************************************)
(* The virtual account.  What is in memory balances, and so does a file    *)
(* that can be read; the store has no more trades than the account that    *)
(* is in memory, or that the next process reads, and one fewer from a sale *)
(* to its storing.                                                         *)
(***************************************************************************)
Balances(a) ==
    a.cash = Initial * Scale + a.realized - (IF a.pos = NoPosition THEN 0 ELSE Cost(a.pos.price))
Readable(f) == f # NoPosition /\ f # Torn

BalancesInv ==
    /\ virtual \in Accounts /\ Balances(virtual)
    /\ Readable(accountFile) => accountFile \in Accounts /\ Balances(accountFile)

Counted ==
    /\ phase # "down" => Len(store) <= Total(virtual)
    /\ phase \in {"selling", "storing"} => Len(store) < Total(virtual)
    /\ accountFile = NoPosition => Len(store) = 0
    /\ Readable(accountFile) => Len(store) <= Total(accountFile)
CountsInv ==
    /\ store # Torn => store \in Seq(Int)
    /\ result \in Int
    /\ phase = "storing" => accountFile = virtual
    /\ ~anew /\ store # Torn => Counted

VirtualInv == BalancesInv /\ CountsInv

\* Prices, costs and yields are whole numbers of Scale-ths.
LEMMA MoneyIsWhole ==
    ASSUME TradingData
    PROVE  /\ \A p \in DayPrices : p \in Nat /\ Cost(p) \in Int /\ Yield(p) \in Int
           /\ Initial * Scale \in Int
BY DEF TradingData, Cost, Yield, Fee

\* A position that is opened is one, and has its price.
LEMMA OpenedIs ==
    ASSUME TradingData, NEW p \in DayPrices, NEW d \in Days
    PROVE  Opened(p, d) \in Opens /\ Opened(p, d).price = p
<1>1. p \in Nat /\ d.atr \in Nat /\ {StopFactor, TakeFactor, MaxLossPct} \subseteq Nat
    BY DEF TradingData, Days
<1>2. p * (100 - MaxLossPct) \in Int /\ StopFactor * d.atr \in Nat /\ TakeFactor * d.atr \in Nat
    BY <1>1
<1> DEFINE share == p * (100 - MaxLossPct)
           back  == StopFactor * d.atr
           on    == TakeFactor * d.atr
<1>3. StopLoss(p, d) = LET higher == IF p - back > share \div 100 THEN p - back ELSE share \div 100
                       IN  IF higher > 0 THEN higher ELSE 0
    BY DEF StopLoss
<1>4. TakeProfit(p, d) = p + on
    BY DEF TakeProfit
<1> HIDE DEF share, back, on
<1>5. share \div 100 \in Int
    BY <1>2 DEF share
<1>6. StopLoss(p, d) \in Nat /\ TakeProfit(p, d) \in Nat
    BY <1>1, <1>2, <1>3, <1>4, <1>5 DEF back, on
<1> QED
    BY <1>6 DEF Opened, Opens

LEMMA InitVirtual == TradingData /\ TradingInit => VirtualInv
<1> SUFFICES ASSUME TradingData, TradingInit
             PROVE  VirtualInv
    OBVIOUS
<1>1. Initial * Scale \in Int
    BY MoneyIsWhole
<1>2. BalancesInv
    BY <1>1 DEF TradingInit, Fresh, BalancesInv, Balances, Accounts, Positions, Readable
<1>3. CountsInv
    <2>1. /\ phase = "down" /\ store = <<>> /\ result = 0
          /\ accountFile = NoPosition
        BY DEF TradingInit
    <2>2. store \in Seq(Int) /\ Len(store) = 0
        BY <2>1
    <2> QED
        BY <2>1, <2>2 DEF CountsInv, Counted, Readable
<1> QED
    BY <1>2, <1>3 DEF VirtualInv

\* Money changes hands in a purchase and in a sale, and nowhere else.
LEMMA BalancesBuys ==
    ASSUME TradingData, BalancesInv, Buys
    PROVE  BalancesInv'
<1>1. PICK bp \in Opens : virtual' = Bought(virtual, bp) /\ virtual.pos = NoPosition
    BY OpenedIs DEF Buys, Affordable
<1>2. Cost(bp.price) \in Int /\ Initial * Scale \in Int /\ bp # NoPosition /\ bp \in Positions
    BY MoneyIsWhole DEF TradingData, Opens, Positions
<1> DEFINE cost == Cost(bp.price)
<1>3. virtual' = [virtual EXCEPT !.cash = @ - cost, !.pos = bp]
    BY <1>1 DEF Bought
<1> HIDE DEF cost
<1>4. /\ virtual' \in Accounts /\ virtual'.cash = virtual.cash - cost
      /\ virtual'.realized = virtual.realized /\ virtual'.pos = bp
    <2>1. cost \in Int /\ virtual \in Accounts /\ bp \in Positions
        BY <1>2 DEF cost, BalancesInv
    <2>2. virtual.cash - cost \in Int
        BY <2>1 DEF Accounts
    <2> QED
        BY <1>3, <2>1, <2>2 DEF Accounts
<1>5. Balances(virtual')
    BY <1>1, <1>2, <1>4 DEF BalancesInv, Balances, Accounts, cost
<1>6. accountFile' = Torn
    BY DEF Buys
<1> QED
    BY <1>4, <1>5, <1>6 DEF BalancesInv, Readable

LEMMA BalancesSells ==
    ASSUME TradingData, BalancesInv, Sells
    PROVE  /\ BalancesInv' /\ result' \in Int
           /\ Total(virtual') = Total(virtual) + 1 /\ Total(virtual) \in Nat
           /\ virtual'.realized = virtual.realized + result'
           /\ virtual'.wins = virtual.wins + (IF result' > 0 THEN 1 ELSE 0)
<1>1. PICK p \in DayPrices, d \in Days :
          /\ virtual' = Sold(virtual, p) /\ virtual.pos # NoPosition
          /\ result' = NetPnl(virtual.pos, p)
    BY DEF Sells
<1> DEFINE cost == Cost(virtual.pos.price)
           pnl  == NetPnl(virtual.pos, p)
<1>2. cost \in Int /\ Yield(p) \in Int /\ Initial * Scale \in Int
    BY <1>1, MoneyIsWhole DEF BalancesInv, Accounts, Positions, Opens
<1>3. pnl = Yield(p) - cost
    BY DEF NetPnl
<1>4. /\ virtual' \in Accounts /\ virtual'.cash = virtual.cash + Yield(p)
      /\ virtual'.realized = virtual.realized + pnl /\ virtual'.pos = NoPosition
      /\ virtual'.wins + virtual'.losses = virtual.wins + virtual.losses + 1
      /\ virtual'.wins = virtual.wins + (IF pnl > 0 THEN 1 ELSE 0)
    <2>1. pnl \in Int
        BY <1>2, <1>3
    <2>2. virtual' = [virtual EXCEPT !.cash = @ + Yield(p), !.realized = @ + pnl, !.pos = NoPosition,
                                     !.wins = IF pnl > 0 THEN @ + 1 ELSE @,
                                     !.losses = IF pnl > 0 THEN @ ELSE @ + 1]
        BY <1>1 DEF Sold
    <2> DEFINE got  == Yield(p)
               won  == IF pnl > 0 THEN virtual.wins + 1 ELSE virtual.wins
               lost == IF pnl > 0 THEN virtual.losses ELSE virtual.losses + 1
    <2>3. virtual \in Accounts /\ got \in Int /\ NoPosition \in Positions
        BY <1>2 DEF BalancesInv, Positions
    <2>4. /\ won \in Nat /\ lost \in Nat /\ won + lost = virtual.wins + virtual.losses + 1
          /\ won = virtual.wins + (IF pnl > 0 THEN 1 ELSE 0)
        BY <2>1, <2>3 DEF Accounts
    <2>5. virtual' = [virtual EXCEPT !.cash = @ + got, !.realized = @ + pnl, !.pos = NoPosition,
                                     !.wins = won, !.losses = lost]
        BY <2>2
    <2> HIDE DEF pnl, cost, got, won, lost
    <2>7. virtual.cash + got \in Int /\ virtual.realized + pnl \in Int
        BY <2>1, <2>3 DEF Accounts
    <2>6. /\ virtual' \in Accounts /\ virtual'.cash = virtual.cash + got
          /\ virtual'.realized = virtual.realized + pnl /\ virtual'.pos = NoPosition
          /\ virtual'.wins = won /\ virtual'.losses = lost
        BY <2>3, <2>4, <2>5, <2>7 DEF Accounts
    <2> QED
        BY <2>4, <2>6 DEF got
<1> HIDE DEF pnl
<1>5. Balances(virtual')
    BY <1>1, <1>2, <1>3, <1>4 DEF BalancesInv, Balances, Accounts
<1>6. accountFile' = Torn
    BY DEF Sells
<1>7. result' \in Int /\ result' = pnl
    BY <1>1, <1>2, <1>3 DEF pnl
<1> QED
    BY <1>4, <1>5, <1>6, <1>7 DEF BalancesInv, Readable, Total, Accounts

\* An account that a process begins with balances: it is read, or it is fresh.
LEMMA LoadedBalances ==
    ASSUME TradingData, BalancesInv
    PROVE  /\ Loaded(accountFile) \in Accounts /\ Balances(Loaded(accountFile))
           /\ Fresh \in Accounts /\ Balances(Fresh) /\ Total(Fresh) = 0
<1>1. Initial * Scale \in Int
    BY MoneyIsWhole
<1>2. Fresh \in Accounts /\ Balances(Fresh) /\ Total(Fresh) = 0
    BY <1>1 DEF Fresh, Accounts, Positions, Balances, Total
<1> QED
    BY <1>2 DEF Loaded, BalancesInv, Readable

LEMMA StepBalances == TradingData /\ BalancesInv /\ [TradingNext]_tradingVars => BalancesInv'
<1> SUFFICES ASSUME TradingData, BalancesInv, [TradingNext]_tradingVars
             PROVE  BalancesInv'
    OBVIOUS
<1>1. CASE BuySaved \/ SellSaved
    BY <1>1 DEF BuySaved, SellSaved, BalancesInv
<1>2. CASE SaveFails \/ AddsTrade \/ UNCHANGED tradingVars
    BY <1>2 DEF SaveFails, AddsTrade, tradingVars, BalancesInv
<1>3. CASE Ends \/ Begins
    BY <1>3, LoadedBalances DEF Ends, Begins, BalancesInv
<1>4. CASE Resets
    BY <1>4 DEF Resets, BalancesInv, Readable
<1> QED
    BY <1>1, <1>2, <1>3, <1>4, BalancesBuys, BalancesSells DEF TradingNext

\* A trade is stored only after the account, with it, was written.
LEMMA StepVirtual == TradingData /\ VirtualInv /\ [TradingNext]_tradingVars => VirtualInv'
<1> SUFFICES ASSUME TradingData, VirtualInv, [TradingNext]_tradingVars
             PROVE  CountsInv'
    BY StepBalances DEF VirtualInv
<1>1. /\ virtual \in Accounts /\ Total(virtual) \in Nat /\ Readable(virtual)
      /\ NoPosition # Torn
    BY DEF VirtualInv, BalancesInv, Accounts, Total, TradingData, Readable
<1>2. store # Torn => Len(store) \in Nat
    BY DEF VirtualInv, CountsInv
<1>3. CASE Buys
    <2>1. Total(virtual') = Total(virtual)
        BY <1>1, <1>3 DEF Buys, Bought, Total, Accounts
    <2> QED
        BY <1>1, <1>3, <2>1 DEF Buys, VirtualInv, CountsInv, Counted, Readable
<1>4. CASE Sells
    BY <1>1, <1>2, <1>4, BalancesSells DEF Sells, VirtualInv, CountsInv, Counted, Readable
<1>5. CASE BuySaved \/ SellSaved \/ SaveFails \/ UNCHANGED tradingVars
    <2>1. /\ UNCHANGED <<virtual, store, result>>
          /\ \/ UNCHANGED <<phase, accountFile>>
             \/ /\ phase \in {"buying", "selling"} /\ phase' = "idle"
                /\ accountFile' = accountFile \/ accountFile' = virtual
             \/ /\ phase = "selling" /\ phase' = "storing" /\ accountFile' = virtual
        BY <1>5 DEF BuySaved, SellSaved, SaveFails, tradingVars
    <2>2. anew' = anew
        BY <1>5 DEF BuySaved, SellSaved, SaveFails, tradingVars
    <2>3. ASSUME store # Torn, Counted PROVE Counted'
        BY <1>1, <1>2, <2>1, <2>3 DEF Counted, Readable
    <2>4. (store # Torn => store \in Seq(Int)) /\ result \in Int /\ (phase = "storing" => accountFile = virtual)
        BY DEF VirtualInv, CountsInv
    <2>5. /\ (store' # Torn => store' \in Seq(Int)) /\ result' \in Int
          /\ (phase' = "storing" => accountFile' = virtual')
        BY <2>1, <2>4
    <2>6. store' = store
        BY <2>1
    <2> QED
        BY <2>2, <2>3, <2>5, <2>6, Zenon DEF VirtualInv, CountsInv
<1>6. CASE AddsTrade
    <2>1. store # Torn => Kept \in Seq(Int) /\ Len(Kept) = Len(store) + 1
        BY DEF Kept, VirtualInv, CountsInv
    <2>2. store = Torn => Kept = Torn
        BY DEF Kept
    <2>3. /\ phase = "storing" /\ phase' = "idle"
          /\ store' = Kept \/ store' = store
          /\ UNCHANGED <<virtual, result, accountFile>>
        BY <1>6 DEF AddsTrade
    <2>4. anew' = anew
        BY <1>6 DEF AddsTrade
    <2>5. /\ store # Torn => store \in Seq(Int)
          /\ result \in Int /\ accountFile = virtual
        BY <2>3 DEF VirtualInv, CountsInv
    <2>6. store' # Torn => store # Torn /\ store' \in Seq(Int)
        BY <2>1, <2>2, <2>3, <2>5
    <2>7. ASSUME store' # Torn, Counted PROVE Counted'
        <3>1. Len(store') = Len(store) \/ Len(store') = Len(store) + 1
            BY <2>1, <2>2, <2>3, <2>7
        <3> QED
            BY <1>1, <1>2, <2>2, <2>3, <2>5, <2>6, <2>7, <3>1 DEF Counted, Readable
    <2>8. result' \in Int /\ accountFile' = virtual'
        BY <2>3, <2>5
    <2> QED
        BY <2>4, <2>6, <2>7, <2>8, Zenon DEF VirtualInv, CountsInv
<1>7. CASE Ends
    <2>1. /\ phase' = "down" /\ result' = 0 /\ UNCHANGED accountFile
          /\ store' = store \/ store' = Torn
        BY <1>7 DEF Ends, Cut
    <2>2. anew' = anew
        BY <1>7 DEF Ends
    <2>3. ASSUME store' # Torn, Counted PROVE Counted'
        BY <2>1, <2>3 DEF Counted, Readable
    <2>4. /\ store' # Torn => store # Torn /\ store' \in Seq(Int)
          /\ result' \in Int /\ phase' # "storing"
        BY <2>1 DEF VirtualInv, CountsInv
    <2> QED
        BY <2>2, <2>3, <2>4, Zenon DEF VirtualInv, CountsInv
<1>8. CASE Begins
    <2>1. Readable(accountFile) => Loaded(accountFile) = accountFile
        BY DEF Readable, Loaded
    <2>2. accountFile = NoPosition => Total(Loaded(accountFile)) = 0
        BY LoadedBalances DEF Loaded, VirtualInv
    <2>3. /\ phase' = "idle" /\ virtual' = Loaded(accountFile)
          /\ UNCHANGED <<result, accountFile, store>>
        BY <1>8 DEF Begins
    <2>4. ~anew' => ~anew /\ accountFile # Torn
        BY <1>8, Zenon DEF Begins
    <2>5. ASSUME store # Torn, Counted, accountFile # Torn PROVE Counted'
        BY <1>2, <2>1, <2>2, <2>3, <2>5 DEF Counted, Readable
    <2>6. /\ (store' # Torn => store' \in Seq(Int)) /\ result' \in Int /\ phase' # "storing" /\ store' = store
        BY <2>3 DEF VirtualInv, CountsInv
    <2> QED
        BY <2>4, <2>5, <2>6, Zenon DEF VirtualInv, CountsInv
<1>9. CASE Resets
    <2>1. /\ phase = "down" /\ phase' = "down" /\ accountFile' = NoPosition /\ UNCHANGED result
          /\ store' = <<>> \/ store' = store
        BY <1>9 DEF Resets
    <2>2. ~anew' => store' = <<>>
        BY <1>9, Zenon DEF Resets
    <2>3. <<>> \in Seq(Int) /\ Len(<<>>) = 0
        OBVIOUS
    <2>4. store' = <<>> => Counted'
        BY <2>1, <2>3 DEF Counted, Readable
    <2>5. (store' # Torn => store' \in Seq(Int)) /\ result' \in Int /\ phase' # "storing"
        BY <2>1, <2>3 DEF VirtualInv, CountsInv
    <2> QED
        BY <2>2, <2>4, <2>5, Zenon DEF VirtualInv, CountsInv
<1> QED
    BY <1>3, <1>4, <1>5, <1>6, <1>7, <1>8, <1>9 DEF TradingNext

\* The account balances, and the report has no trade it does not know.
LEMMA VirtualBalances ==
    ASSUME VirtualInv
    PROVE  CashBalances /\ ReportKnown
BY DEF VirtualInv, BalancesInv, Balances, CashBalances, CountsInv, Counted, ReportKnown, Reported
-----------------------------------------------------------------------------
(***************************************************************************)
(* What the report makes of a list of trades, and of one more.             *)
(***************************************************************************)
LEMMA TradesAreFinite ==
    ASSUME NEW s \in Seq(Int)
    PROVE  /\ DOMAIN s = 1..Len(s) /\ IsFiniteSet(DOMAIN s) /\ Cardinality(DOMAIN s) = Len(s)
           /\ \A i \in DOMAIN s : s[i] \in Int
           /\ IsFiniteSet(Winners(s)) /\ Cardinality(Winners(s)) \in Nat
           /\ IsFiniteSet(Losers(s)) /\ Cardinality(Losers(s)) \in Nat
           /\ Sum(s) \in Int
<1>1. Len(s) \in Nat /\ DOMAIN s = 1..Len(s) /\ \A i \in DOMAIN s : s[i] \in Int
    OBVIOUS
<1>2. IsFiniteSet(1..Len(s)) /\ Cardinality(1..Len(s)) = Len(s)
    <2>1. /\ IsFiniteSet(1..Len(s))
          /\ Cardinality(1..Len(s)) = IF 1 > Len(s) THEN 0 ELSE Len(s) - 1 + 1
        BY <1>1, FS_Interval
    <2>2. Len(s) = IF 1 > Len(s) THEN 0 ELSE Len(s) - 1 + 1
        BY <1>1
    <2> QED
        BY <2>1, <2>2
<1>3. Winners(s) \subseteq DOMAIN s /\ Losers(s) \subseteq DOMAIN s
    BY DEF Winners, Losers
<1>4. IsFiniteSet(Winners(s)) /\ IsFiniteSet(Losers(s))
    BY <1>1, <1>2, <1>3, FS_Subset
<1>5. Sum(s) \in Int
    BY <1>1, <1>2, SumIsInt DEF Sum, SumFunction
<1> QED
    BY <1>1, <1>2, <1>4, <1>5, FS_CardinalityType

LEMMA NoTrades == Sum(<<>>) = 0 /\ Cardinality(Winners(<<>>)) = 0
<1>1. DOMAIN <<>> = {}
    OBVIOUS
<1>2. Winners(<<>>) = {}
    BY <1>1 DEF Winners
<1> QED
    BY <1>1, <1>2, SumNone, FS_EmptySet DEF Sum, SumFunction

LEMMA OneMoreTrade ==
    ASSUME NEW s \in Seq(Int), NEW pnl \in Int
    PROVE  /\ Sum(Append(s, pnl)) = Sum(s) + pnl
           /\ Cardinality(Winners(Append(s, pnl)))
                = Cardinality(Winners(s)) + (IF pnl > 0 THEN 1 ELSE 0)
<1> DEFINE t == Append(s, pnl)
           n == Len(s) + 1
<1>1. /\ t \in Seq(Int) /\ DOMAIN t = DOMAIN s \cup {n} /\ n \notin DOMAIN s
      /\ t[n] = pnl /\ \A i \in DOMAIN s : t[i] = s[i] /\ t[i] \in Int
    <2>1. t \in Seq(Int) /\ Len(t) = n /\ Len(s) \in Nat
        OBVIOUS
    <2>2. DOMAIN t = 1..n /\ DOMAIN s = 1..Len(s)
        BY <2>1
    <2>3. 1..n = 1..Len(s) \cup {n} /\ n \notin 1..Len(s)
        BY <2>1
    <2>4. t[n] = pnl /\ \A i \in 1..Len(s) : t[i] = s[i] /\ s[i] \in Int
        OBVIOUS
    <2> QED
        BY <2>1, <2>2, <2>3, <2>4
<1> HIDE DEF t, n
<1>2. IsFiniteSet(DOMAIN s) /\ IsFiniteSet(Winners(s)) /\ Sum(s) \in Int
    BY TradesAreFinite
<1>3. Sum(t) = Sum(s) + pnl
    <2>1. SumFunctionOnSet(t, DOMAIN s) = Sum(s)
        BY <1>1, <1>2, SumsEqual DEF Sum, SumFunction
    <2>2. t[n] \in Int
        BY <1>1
    <2>3. SumFunctionOnSet(t, DOMAIN s \cup {n}) = t[n] + SumFunctionOnSet(t, DOMAIN s)
        BY <1>1, <1>2, <2>2, SumAdds
    <2>4. Sum(t) = SumFunctionOnSet(t, DOMAIN s \cup {n})
        BY <1>1 DEF Sum, SumFunction
    <2> QED
        BY <1>1, <1>2, <2>1, <2>3, <2>4
<1>4. Winners(t) = IF pnl > 0 THEN Winners(s) \cup {n} ELSE Winners(s)
    BY <1>1 DEF Winners
<1>5. n \notin Winners(s)
    BY <1>1 DEF Winners
<1>6. Cardinality(Winners(t)) = Cardinality(Winners(s)) + (IF pnl > 0 THEN 1 ELSE 0)
    <2>1. Cardinality(Winners(s) \cup {n}) = Cardinality(Winners(s)) + 1
        BY <1>2, <1>5, FS_AddElement
    <2>2. Cardinality(Winners(s)) \in Nat
        BY TradesAreFinite
    <2> QED
        BY <1>4, <2>1, <2>2
<1> QED
    BY <1>3, <1>6 DEF t

LEMMA WholeQuotient ==
    ASSUME NEW k \in Nat \ {0}, NEW x \in Int
    PROVE  (k * x) \div k = x
OBVIOUS

\* Where every trade wins or loses, the rate of losses is that of the losers.
LEMMA ExpectancyAdds ==
    ASSUME NEW s \in Seq(Int), 0 \notin Range(s)
    PROVE  Expectancy(s) = Sum(s)
<1> DEFINE won == Winners(s)
           lost == Losers(s)
<1>1. /\ won \cup lost = DOMAIN s /\ won \cap lost = {}
      /\ \A i \in won \cup lost : s[i] \in Int
    <2>1. \A i \in DOMAIN s : s[i] \in Int /\ s[i] # 0
        BY DEF Range
    <2>2. \A i \in DOMAIN s : (i \in won <=> s[i] > 0) /\ (i \in lost <=> s[i] < 0)
        BY DEF Winners, Losers
    <2>3. won \subseteq DOMAIN s /\ lost \subseteq DOMAIN s
        BY DEF Winners, Losers
    <2> HIDE DEF won, lost
    <2>4. \A i \in DOMAIN s : (i \in won \/ i \in lost) /\ ~(i \in won /\ i \in lost)
        BY <2>1, <2>2
    <2> QED
        BY <2>1, <2>3, <2>4
<1>2. /\ IsFiniteSet(won) /\ IsFiniteSet(lost) /\ Cardinality(won \cup lost) = Len(s)
      /\ Cardinality(won) \in Nat /\ Cardinality(lost) \in Nat /\ Len(s) \in Nat
    BY <1>1, TradesAreFinite
<1> HIDE DEF won, lost
<1>3. Len(s) = Cardinality(won) + Cardinality(lost)
    <2>1. Cardinality(won \cap lost) = 0
        BY <1>1, FS_EmptySet
    <2>2. Cardinality(won \cup lost) = Cardinality(won) + Cardinality(lost) - Cardinality(won \cap lost)
        BY <1>2, FS_Union
    <2> QED
        BY <1>2, <2>1, <2>2
<1> DEFINE gain == SumFunctionOnSet(s, won)
           loss == SumFunctionOnSet(s, lost)
           rest == Len(s) - Cardinality(won)
<1>4. Sum(s) = gain + loss /\ gain \in Int /\ loss \in Int
    <2>1. gain \in Int /\ loss \in Int
        BY <1>1, <1>2, SumIsInt
    <2>2. SumFunctionOnSet(s, won \cup lost) = gain + loss
        BY <1>1, <1>2, SumJoins
    <2> QED
        BY <1>1, <2>1, <2>2 DEF Sum, SumFunction
<1>5. Expectancy(s) = gain + (IF lost = {} THEN 0 ELSE (rest * loss) \div Cardinality(lost))
    BY DEF Expectancy, won, lost
<1>6. rest = Cardinality(lost)
    BY <1>2, <1>3
<1>7. CASE lost = {}
    <2>1. loss = 0
        BY <1>7, SumNone
    <2> HIDE DEF gain, loss, rest
    <2> QED
        BY <1>4, <1>5, <1>7, <2>1
<1>8. CASE lost # {}
    <2>1. Cardinality(lost) \in Nat \ {0}
        BY <1>2, <1>8, FS_EmptySet
    <2> HIDE DEF gain, loss, rest
    <2>2. (rest * loss) \div Cardinality(lost) = loss
        BY <1>4, <1>6, <2>1, WholeQuotient
    <2> QED
        BY <1>4, <1>5, <1>8, <2>2
<1> QED
    BY <1>7, <1>8

\* If the store has every trade of an account, they add up to what it earned; from
\* a sale to its storing, with the sale.
Adds(a, pnl, won) == Sum(store) + pnl = a.realized /\ Cardinality(Winners(store)) + won = a.wins
Tallies(a) == Len(store) = Total(a) => Adds(a, 0, 0)
Won(pnl) == IF pnl > 0 THEN 1 ELSE 0
Tallied ==
    /\ Readable(accountFile) => Tallies(accountFile)
    /\ phase \in {"idle", "buying"} => Tallies(virtual)
    /\ phase \in {"selling", "storing"} =>
           (Len(store) + 1 = Total(virtual) => Adds(virtual, result, Won(result)))
AddsInv == ~anew /\ store # Torn => Tallied

BooksInv == VirtualInv /\ AddsInv

LEMMA InitAdds == TradingData /\ TradingInit => AddsInv
BY NoTrades DEF TradingInit, AddsInv, Tallied, Readable, TradingData

\* What a step starts from, in numbers.
LEMMA NumbersOf ==
    ASSUME VirtualInv, store # Torn
    PROVE  /\ store \in Seq(Int) /\ Len(store) \in Nat /\ Sum(store) \in Int
           /\ Cardinality(Winners(store)) \in Nat
           /\ Total(virtual) \in Nat /\ virtual.realized \in Int /\ virtual.wins \in Nat
BY TradesAreFinite DEF VirtualInv, BalancesInv, CountsInv, Accounts, Total

LEMMA TallySells ==
    ASSUME TradingData, VirtualInv, Sells, store # Torn, Tallied
    PROVE  Tallied'
<1>1. /\ phase = "idle" /\ phase' = "selling" /\ accountFile' = Torn /\ UNCHANGED store
    BY DEF Sells
<1>2. /\ result' \in Int /\ Total(virtual') = Total(virtual) + 1
      /\ virtual'.realized = virtual.realized + result'
      /\ virtual'.wins = virtual.wins + Won(result')
    BY BalancesSells DEF VirtualInv, Won
<1>3. Won(result') \in Nat
    BY <1>2 DEF Won
<1>4. Len(store) + 1 = Total(virtual') =>
          /\ Sum(store) + result' = virtual'.realized
          /\ Cardinality(Winners(store)) + Won(result') = virtual'.wins
    BY <1>1, <1>2, <1>3, NumbersOf DEF Tallied, Tallies, Adds
<1> QED
    BY <1>1, <1>4 DEF Tallied, Adds, Readable

LEMMA TallyAddsTrade ==
    ASSUME TradingData, VirtualInv, AddsTrade, store # Torn, Counted, Tallied
    PROVE  Tallied'
<1>1. /\ phase = "storing" /\ phase' = "idle" /\ accountFile = virtual
      /\ store' \in {Append(store, result), store}
      /\ UNCHANGED <<virtual, accountFile, result>>
    BY DEF AddsTrade, VirtualInv, CountsInv, Kept
<1>2. Len(store) < Total(virtual) /\ result \in Int
    BY <1>1 DEF VirtualInv, CountsInv, Counted
<1>3. CASE store' = store
    <2>1. Len(store) # Total(virtual)
        BY <1>2, NumbersOf
    <2> QED
        BY <1>1, <1>3, <2>1 DEF Tallied, Tallies
<1>4. CASE store' = Append(store, result)
    <2>1. /\ Len(store') = Len(store) + 1
          /\ Sum(store') = Sum(store) + result
          /\ Cardinality(Winners(store')) = Cardinality(Winners(store)) + Won(result)
        <3>1. store \in Seq(Int)
            BY NumbersOf
        <3> QED
            BY <1>2, <1>4, <3>1, OneMoreTrade DEF Won
    <2>2. Won(result) \in Nat
        BY DEF Won
    <2>3. Len(store') = Total(virtual) =>
              /\ Sum(store') + 0 = virtual.realized
              /\ Cardinality(Winners(store')) + 0 = virtual.wins
        <3>1. Len(store) + 1 = Total(virtual) =>
                  /\ Sum(store) + result = virtual.realized
                  /\ Cardinality(Winners(store)) + Won(result) = virtual.wins
            BY <1>1 DEF Tallied, Adds
        <3>2. /\ Sum(store) \in Int /\ Cardinality(Winners(store)) \in Nat
              /\ Len(store) \in Nat /\ Total(virtual) \in Nat
            BY NumbersOf
        <3> QED
            BY <1>2, <2>1, <2>2, <3>1, <3>2
    <2> QED
        BY <1>1, <2>3 DEF Tallied, Tallies, Adds
<1> QED
    BY <1>1, <1>3, <1>4

LEMMA TallyBegins ==
    ASSUME TradingData, VirtualInv, Begins, store # Torn, Counted, accountFile # Torn, Tallied
    PROVE  Tallied'
<1>1. /\ phase' = "idle" /\ virtual' = Loaded(accountFile)
      /\ UNCHANGED <<accountFile, store, result>>
    BY DEF Begins
<1>2. CASE accountFile = NoPosition
    <2>1. store \in Seq(Int) /\ Len(store) = 0
        BY <1>2 DEF VirtualInv, CountsInv, Counted
    <2>2. store = <<>>
        BY <2>1
    <2>3. virtual'.realized = 0 /\ virtual'.wins = 0
        BY <1>1, <1>2 DEF Loaded, Fresh
    <2>4. Adds(virtual, 0, 0)'
        BY <1>1, <2>2, <2>3, NoTrades DEF Adds
    <2> QED
        BY <1>1, <1>2, <2>4 DEF Tallied, Tallies, Readable
<1>3. CASE accountFile # NoPosition
    <2>1. virtual' = accountFile /\ Readable(accountFile)
        BY <1>1, <1>3 DEF Loaded, Readable
    <2> QED
        BY <1>1, <2>1 DEF Tallied, Tallies, Adds, Readable
<1> QED
    BY <1>2, <1>3

LEMMA StepAdds == TradingData /\ BooksInv /\ [TradingNext]_tradingVars => AddsInv'
<1> SUFFICES ASSUME TradingData, BooksInv, [TradingNext]_tradingVars
             PROVE  AddsInv'
    OBVIOUS
<1>1. VirtualInv /\ Readable(virtual)
    BY DEF BooksInv, VirtualInv, BalancesInv, TradingData, Readable, Accounts
<1>2. ASSUME Buys, store # Torn, Tallied PROVE Tallied' /\ store' = store
    <2>1. /\ phase = "idle" /\ phase' = "buying" /\ accountFile' = Torn /\ UNCHANGED <<store, result>>
        BY <1>2 DEF Buys
    <2>2. /\ virtual'.realized = virtual.realized /\ Total(virtual') = Total(virtual)
          /\ virtual'.wins = virtual.wins
        BY <1>1, <1>2 DEF Buys, Bought, VirtualInv, BalancesInv, Accounts, Total
    <2>3. Tallies(virtual)
        BY <1>2, <2>1 DEF Tallied
    <2>4. Tallies(virtual)'
        BY <2>1, <2>2, <2>3 DEF Tallies, Adds
    <2> QED
        BY <2>1, <2>4 DEF Tallied, Readable
<1>3. ASSUME BuySaved \/ SellSaved \/ SaveFails \/ UNCHANGED tradingVars, store # Torn, Counted,
             Tallied
      PROVE  Tallied' /\ store' = store
    <2>1. /\ UNCHANGED <<virtual, store, result>>
          /\ \/ UNCHANGED <<phase, accountFile>>
             \/ phase = "buying" /\ phase' = "idle" /\ accountFile' \in {accountFile, virtual}
             \/ phase = "selling" /\ phase' = "idle" /\ UNCHANGED accountFile
             \/ phase = "selling" /\ phase' = "storing" /\ accountFile' = virtual
        BY <1>3 DEF BuySaved, SellSaved, SaveFails, tradingVars
    <2>2. phase = "selling" => Len(store) # Total(virtual)
        BY <1>1, <1>3, NumbersOf DEF Counted
    <2> QED
        BY <2>1, <2>2, <1>3 DEF Tallied, Tallies, Adds, Readable
<1>4. ASSUME Ends, store' # Torn, Tallied PROVE Tallied' /\ store' = store
    <2>1. phase' = "down" /\ UNCHANGED accountFile /\ store' = store
        BY <1>4 DEF Ends, Cut
    <2> QED
        BY <1>4, <2>1 DEF Tallied, Tallies, Adds
<1>5. ASSUME Resets PROVE Tallied'
    <2>1. phase' = "down" /\ accountFile' = NoPosition
        BY <1>5 DEF Resets
    <2> QED
        BY <2>1 DEF Tallied, Readable
<1>6. \/ Buys \/ Sells \/ AddsTrade \/ Ends \/ Begins \/ Resets
      \/ BuySaved \/ SellSaved \/ SaveFails \/ UNCHANGED tradingVars
    BY DEF TradingNext
<1>7. ~Resets => (store' # Torn => store # Torn) /\ (~anew' => ~anew)
    <2>1. Begins => store' = store /\ (~anew' => ~anew)
        BY Zenon DEF Begins
    <2>2. AddsTrade \/ Ends => (store' # Torn => store # Torn) /\ anew' = anew
        BY Zenon DEF AddsTrade, Kept, Ends, Cut
    <2>3. Buys \/ Sells \/ BuySaved \/ SellSaved \/ SaveFails \/ UNCHANGED tradingVars
              => store' = store /\ anew' = anew
        BY Zenon DEF Buys, Sells, BuySaved, SellSaved, SaveFails, tradingVars
    <2>4. store' = store => (store' # Torn => store # Torn)
        BY Zenon
    <2>5. anew' = anew => (~anew' => ~anew)
        BY Zenon
    <2> QED
        BY <1>6, <2>1, <2>2, <2>3, <2>4, <2>5, Zenon
<1>8. ~anew /\ store # Torn => Counted /\ Tallied
    BY <1>1, Zenon DEF BooksInv, AddsInv, VirtualInv, CountsInv
<1>9. ASSUME ~anew', store' # Torn PROVE Tallied'
    <2>1. CASE Resets
        BY <2>1, <1>5
    <2>2. ~Resets => store # Torn /\ Counted /\ Tallied
        BY <1>7, <1>8, <1>9, Zenon
    <2>3. Begins => accountFile # Torn
        BY <1>9, Zenon DEF Begins
    <2> QED
        BY <1>1, <1>2, <1>3, <1>4, <1>5, <1>6, <1>9, <2>2, <2>3, TallySells, TallyAddsTrade, TallyBegins,
           Zenon
<1> QED
    BY <1>9, Zenon DEF AddsInv

LEMMA InitBooks == TradingData /\ TradingInit => BooksInv
BY InitVirtual, InitAdds DEF BooksInv

LEMMA StepBooks == TradingData /\ BooksInv /\ [TradingNext]_tradingVars => BooksInv'
BY StepVirtual, StepAdds DEF BooksInv

\* The types of the model: an account with a position has room for its trade.
Room(a) == Total(a) <= MaxTrades /\ (a.pos # NoPosition => Total(a) < MaxTrades)
AccountsHaveRoom == Room(virtual) /\ (Readable(accountFile) => Room(accountFile))
ProgramTyped ==
    /\ held \in Positions /\ phase \in {"down", "idle", "buying", "selling", "storing"}
    /\ storage \in {"json", "sqlite"} /\ anew \in BOOLEAN

LEMMA TradingIsTyped == BooksInv /\ AccountsHaveRoom /\ ProgramTyped => TradingTypes
BY DEF BooksInv, VirtualInv, BalancesInv, CountsInv, Readable, AccountsHaveRoom, Room,
       ProgramTyped, TradingTypes

LEMMA FreshHasRoom == TradingData => Room(Fresh)
BY DEF TradingData, Room, Fresh, Total

LEMMA InitTradingTypes == TradingData /\ TradingInit => AccountsHaveRoom /\ ProgramTyped
BY FreshHasRoom DEF TradingInit, AccountsHaveRoom, ProgramTyped, Readable, Positions

LEMMA RoomStays ==
    TradingData /\ BooksInv /\ AccountsHaveRoom /\ [TradingNext]_tradingVars => AccountsHaveRoom'
<1> SUFFICES ASSUME TradingData, BooksInv, AccountsHaveRoom, [TradingNext]_tradingVars
             PROVE  AccountsHaveRoom'
    OBVIOUS
<1>1. virtual \in Accounts /\ Total(virtual) \in Nat /\ MaxTrades \in Nat
    BY DEF BooksInv, VirtualInv, BalancesInv, Accounts, Total, TradingData
<1>2. CASE Buys
    <2>1. /\ Total(virtual') = Total(virtual) /\ Total(virtual) < MaxTrades
          /\ accountFile' = Torn
        BY <1>1, <1>2 DEF Buys, Bought, Total, Accounts
    <2> QED
        BY <1>1, <2>1 DEF AccountsHaveRoom, Room, Readable, Total
<1>3. CASE Sells
    <2>1. Total(virtual') = Total(virtual) + 1
        BY <1>3, BalancesSells DEF BooksInv, VirtualInv
    <2>2. virtual'.pos = NoPosition /\ accountFile' = Torn /\ virtual.pos # NoPosition
        BY <1>1, <1>3 DEF Sells, Sold, Accounts
    <2>3. Total(virtual) < MaxTrades
        BY <2>2 DEF AccountsHaveRoom, Room
    <2> QED
        BY <1>1, <2>1, <2>2, <2>3 DEF AccountsHaveRoom, Room, Readable, Total
<1>4. CASE BuySaved \/ SellSaved \/ SaveFails \/ AddsTrade \/ UNCHANGED tradingVars
    BY <1>4 DEF BuySaved, SellSaved, SaveFails, AddsTrade, tradingVars, AccountsHaveRoom, Room,
                Readable, Total
<1>5. CASE Ends \/ Begins
    <2>1. virtual' \in {Fresh, Loaded(accountFile)} /\ UNCHANGED accountFile
        BY <1>5 DEF Ends, Begins
    <2>2. Room(Loaded(accountFile)) /\ Room(Fresh)
        BY FreshHasRoom DEF Loaded, AccountsHaveRoom, Readable
    <2> QED
        BY <2>1, <2>2 DEF AccountsHaveRoom, Room, Readable, Total
<1>6. CASE Resets
    BY <1>6 DEF Resets, AccountsHaveRoom, Room, Readable, Total
<1> QED
    BY <1>2, <1>3, <1>4, <1>5, <1>6 DEF TradingNext

LEMMA StepTradingTypes ==
    TradingData /\ BooksInv /\ AccountsHaveRoom /\ ProgramTyped /\ [TradingNext]_tradingVars
        => AccountsHaveRoom' /\ ProgramTyped'
<1> SUFFICES ASSUME TradingData, BooksInv, AccountsHaveRoom, ProgramTyped,
                    [TradingNext]_tradingVars
             PROVE  ProgramTyped'
    BY RoomStays
<1>1. phase' \in {"down", "idle", "buying", "selling", "storing"}
    BY DEF ProgramTyped, TradingNext, tradingVars, Buys, BuySaved, Sells, SellSaved, SaveFails,
           AddsTrade, Ends, Begins, Resets
<1>2. held' \in Positions
    <2>1. virtual.pos \in Positions
        BY DEF BooksInv, VirtualInv, BalancesInv, Accounts
    <2> QED
        BY <2>1 DEF ProgramTyped, Positions, TradingNext, tradingVars, Buys, BuySaved, Sells,
                    SellSaved, SaveFails, AddsTrade, Ends, Begins, Resets
<1>3. storage' = storage /\ anew' \in BOOLEAN
    BY DEF ProgramTyped, TradingNext, tradingVars, Buys, BuySaved, Sells, SellSaved, SaveFails,
           AddsTrade, Ends, Begins, Resets
<1> QED
    BY <1>1, <1>2, <1>3 DEF ProgramTyped

\* The account balances, and the report has no trade it does not know and adds up.
LEMMA BooksBalanceThen == TradingData /\ BooksInv => BooksBalance
<1> SUFFICES ASSUME TradingData, BooksInv, phase # "down"
             PROVE  CashBalances /\ ReportKnown /\ ReportAdds
    BY DEF BooksBalance
<1>1. CashBalances /\ ReportKnown
    BY VirtualBalances DEF BooksInv
<1>2. ASSUME Reported
      PROVE  /\ Len(store) = Total(virtual)
                => /\ Sum(store) = virtual.realized
                   /\ Cardinality(Winners(store)) = virtual.wins
                   /\ virtual.pos = NoPosition => TotalReturn(virtual) = Sum(store)
             /\ 0 \notin Range(store) => Expectancy(store) = Sum(store)
    <2>1. store # Torn /\ Tallies(virtual)
        BY <1>2 DEF Reported, BooksInv, AddsInv, Tallied
    <2>2. /\ store \in Seq(Int) /\ Sum(store) \in Int /\ Cardinality(Winners(store)) \in Nat
          /\ virtual.realized \in Int
        BY <2>1, NumbersOf DEF BooksInv
    <2>3. virtual.pos = NoPosition => TotalReturn(virtual) = virtual.realized
        BY <1>1, <2>2, MoneyIsWhole DEF CashBalances, TotalReturn, Equity
    <2>4. Len(store) = Total(virtual)
              => Sum(store) = virtual.realized /\ Cardinality(Winners(store)) = virtual.wins
        BY <2>1, <2>2 DEF Tallies, Adds
    <2> QED
        BY <2>2, <2>3, <2>4, ExpectancyAdds
<1> QED
    BY <1>1, <1>2 DEF ReportAdds
=============================================================================
