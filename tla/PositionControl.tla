--------------------------- MODULE PositionControl ---------------------------
(***************************************************************************)
(* engine/multiday_executor.py, class MultidayExecutor, with the position  *)
(* file of utils/position_store.py and the start-up reconciliation of      *)
(* engine/order_synchronizer.py (PositionResynchronizer): what one         *)
(* executor believes it holds of its stock, what it has written down, and  *)
(* what the account really holds, through orders, exits that must wait,    *)
(* stops, crashes and restarts, in the modes that trade (PAPER, REAL).     *)
(*                                                                         *)
(* The main loop is sequential: a handler's steps after an order's result  *)
(* touch only this executor's state, so they are one action, and a crash   *)
(* between two of them is a crash before the action or after it.  The      *)
(* threaded pipeline, which adds a second buyer, is off, as it is by       *)
(* default; EntryPipeline shows what it changes.  OrderSync                *)
(* is seen through its results: a BUY report counts no share that was not  *)
(* bought (NoPhantomFills there), it may count too few (ReportsAreActual), *)
(* and a row that is not settled blocks the next BUY (NoSecondOpenBuy).    *)
(*                                                                         *)
(* A definition with an underscore in its name is the one it precedes with *)
(* a mistake in it, which shows that a property depends on the code.       *)
(***************************************************************************)
EXTENDS Integers

CONSTANTS
    Reasons,    \* exit reasons: (exit_reason, reason_code) pairs
    None,       \* no position, no pending exit, no reason
    OrderQty,   \* shares a BUY asks for
    MaxOrders,  \* how many orders are sent (a bound)
    MaxStops,   \* how often the process stops or crashes (a bound)
    Env         \* what may go wrong around the executor, a subset of Mishaps

(***************************************************************************)
(*   start_api_error the holdings cannot be read at the start              *)
(*   short_report    a result reports fewer shares than were executed      *)
(*   avg_differs     the account's average price is not the recorded one   *)
(*   uncancelled     a timed-out BUY is left at the broker                 *)
(*   no_answer       the holdings cannot be read after a failed BUY        *)
(*   old_holdings    they are read from a snapshot up to 30 seconds old    *)
(*   record_error    the database refuses the record of a fill             *)
(*   forgotten       the clean-up closes the row of a BUY still live       *)
(*   retry_unblocks  the multi-symbol loop retries a failed reconciliation *)
(***************************************************************************)
Mishaps == {"start_api_error", "short_report", "avg_differs", "uncancelled",
            "no_answer", "old_holdings", "record_error", "forgotten",
            "retry_unblocks"}

ASSUME NumbersAssumption ==
    /\ OrderQty \in Nat \ {0}
    /\ MaxOrders \in Nat
    /\ MaxStops \in Nat
    /\ Env \subseteq Mishaps

VARIABLES
    held,       \* shares the account holds
    strayBuy,   \* shares still to be bought by orders nobody waits for
    straySell,  \* shares still to be sold by such orders
    row,        \* order_state has an unfinished BUY row: the guard says no
    phase,      \* "down", "idle", or waiting for an order: "buying", "selling"
    order,      \* the order waited for: shares open, shares executed, its reason
    pos,        \* strategy.position
    file,       \* the stored position
    pending,    \* _pending_exit_state
    fpending,   \* the stored pending_exit
    entry,      \* may a BUY be sent: "allowed", "blocked", or "sticky"
    resting,    \* the exit whose backoff runs, no other tried since (history)
    misled,     \* a mishap hides shares until a start finds them (history)
    orders,     \* orders sent so far
    stops       \* stops and crashes so far

account == <<held, strayBuy, straySell>>
memory  == <<pos, pending, entry>>
stored  == <<file, fpending>>
counts  == <<orders, stops>>
history == <<resting, misled>>
vars    == <<held, strayBuy, straySell, row, phase, order, pos, file, pending,
             fpending, entry, resting, misled, orders, stops>>

Phases   == {"down", "idle", "buying", "selling"}
NoOrder  == [rest |-> 0, done |-> 0, why |-> None]

\* A position: its shares, where its stop and target come from (the entry's
\* ATR, or rebuilt at a start), and whether its price is the account's average.
Terms    == {"entry", "rebuilt"}
Prices   == {"theirs", "ours"}
Position == [qty : Nat \ {0}, terms : Terms, price : Prices]
Bought(n, price) == [qty |-> n, terms |-> "entry", price |-> price]
Rebuilt(n)       == [qty |-> n, terms |-> "rebuilt", price |-> "theirs"]

\* A pending exit: its retry key and whether next_retry_at is still ahead.
Pending  == [why : Reasons, wait : {"yes", "no"}]
Waits(p) == p # None /\ p.wait = "yes"
Over(p)  == IF p = None THEN None ELSE [p EXCEPT !.wait = "no"]

ASSUME NoneAssumption ==
    None \notin Reasons /\ None \notin Position /\ None \notin Pending
-----------------------------------------------------------------------------
\* save_position keeps the stored pending exit; what is pending is saved too.
Save(p) ==
    /\ file' = p
    /\ fpending' = IF pending # None THEN pending ELSE fpending

\* clear_position drops the stored pending exit with the position.
ClearFile ==
    /\ file' = None
    /\ fpending' = None

\* _save_position_on_exit.
SaveOnExit == IF pos # None THEN Save(pos) ELSE ClearFile

Init ==
    /\ held = 0 /\ strayBuy = 0 /\ straySell = 0
    /\ row = FALSE
    /\ phase = "down"
    /\ order = NoOrder
    /\ pos = None /\ file = None
    /\ pending = None /\ fpending = None
    /\ entry = "allowed"
    /\ resting = None /\ misled = FALSE
    /\ orders = 0 /\ stops = 0
-----------------------------------------------------------------------------
(***************************************************************************)
(* The start: the constructor loads the pending exit and drops one that is *)
(* too old; the clean-up may close old BUY rows; then the account's        *)
(* holdings are reconciled with the stored position.                       *)
(***************************************************************************)
CleanUp ==
    \/ UNCHANGED row
    \/ /\ row
       /\ strayBuy = 0 \/ "forgotten" \in Env
       /\ row' = FALSE

Loaded == {fpending, None}

\* Both copies of the pending exit, after a restoring start or a dropping one.
KeepPending(p) == pending' = p /\ fpending' = p
DropPending    == KeepPending(None)
LoadPending(p) == KeepPending(p) /\ resting' = IF p = fpending THEN resting ELSE None

StartUnanswered ==
    /\ "start_api_error" \in Env
    /\ entry' = "sticky"
    /\ DropPending
    /\ resting' = None
    /\ UNCHANGED <<pos, file, misled>>

\* A reconciled start knows every share, but for a live order without a row.
Knows == misled' = (strayBuy > 0 /\ ~row')

NothingHeld ==
    /\ held = 0 /\ Knows
    /\ file' = None
    /\ pos' = None
    /\ DropPending
    /\ resting' = None
    /\ UNCHANGED entry

\* The position the reconciliation stores: the account's shares and price.
Reconciled_Forgets == Rebuilt(held)
Reconciled ==
    IF file = None THEN Rebuilt(held)
    ELSE [file EXCEPT !.qty = held, !.price = "theirs"]

Restore ==
    /\ held > 0 /\ Knows
    /\ (file # None /\ file.qty = held) => file.price = "theirs"
    /\ \E p \in Loaded : LoadPending(p)
    /\ file' = Reconciled
    /\ pos' = Reconciled
    /\ UNCHANGED entry

\* AVG_ADJUSTED is stored, but no branch of restore_position_on_start knows it.
AdjustAverage ==
    /\ held > 0 /\ misled' = TRUE
    /\ file # None /\ file.qty = held /\ file.price = "ours"
    /\ \E p \in Loaded : LoadPending(p)
    /\ file' = Reconciled
    /\ UNCHANGED <<pos, entry>>

Start ==
    /\ phase = "down"
    /\ phase' = "idle"
    /\ CleanUp
    /\ StartUnanswered \/ NothingHeld \/ Restore \/ AdjustAverage
    /\ UNCHANGED <<account, order, counts>>

\* retry_entry_unblock_via_resync: the same reconciliation, which unblocks
\* the entry and leaves the strategy as it is.
RetryUnblock ==
    /\ "retry_unblocks" \in Env
    /\ phase = "idle" /\ entry = "sticky"
    /\ entry' = "allowed" /\ misled' = TRUE
    /\ IF held = 0 THEN ClearFile ELSE file' = Reconciled /\ UNCHANGED fpending
    /\ UNCHANGED <<account, row, phase, order, pos, pending, resting, counts>>

\* set_entry_control, which a sticky block withstands.
SetEntryControl ==
    /\ phase = "idle" /\ entry # "sticky"
    /\ entry' \in {"allowed", "blocked"}
    /\ UNCHANGED <<account, row, phase, order, pos, pending, stored, history, counts>>
-----------------------------------------------------------------------------
(***************************************************************************)
(* The entry: execute_buy.  The write-ahead row stands from the sending of *)
(* the order to a final result; PARTIAL is not one.                        *)
(***************************************************************************)
StartBuy ==
    /\ phase = "idle" /\ orders < MaxOrders
    /\ entry = "allowed"
    /\ pos = None
    /\ ~row
    /\ phase' = "buying"
    /\ order' = [rest |-> OrderQty, done |-> 0, why |-> None]
    /\ row' = TRUE
    /\ orders' = orders + 1
    /\ UNCHANGED <<account, memory, stored, history, stops>>

\* The broker executes a share of the order waited for, or of a stray one.
FillBuy ==
    /\ phase = "buying" /\ order.rest > 0
    /\ order' = [order EXCEPT !.rest = @ - 1, !.done = @ + 1]
    /\ held' = held + 1
    /\ UNCHANGED <<strayBuy, straySell, row, phase, memory, stored, history, counts>>

FillStrayBuy ==
    /\ strayBuy > 0
    /\ strayBuy' = strayBuy - 1
    /\ held' = held + 1
    /\ UNCHANGED <<straySell, row, phase, order, memory, stored, history, counts>>

FillStraySell ==
    /\ straySell > 0 /\ held > 0
    /\ straySell' = straySell - 1
    /\ held' = held - 1
    /\ UNCHANGED <<strayBuy, row, phase, order, memory, stored, history, counts>>

\* Orders left at the broker end with the trading day.
StraysEnd ==
    /\ strayBuy + straySell > 0
    /\ strayBuy' = 0 /\ straySell' = 0
    /\ UNCHANGED <<held, row, phase, order, memory, stored, history, counts>>

Reports == {n \in 1 .. order.done : n = order.done \/ "short_report" \in Env}
Full(n) == order.rest = 0 /\ n = order.done

\* A result with shares: FILLED, or PARTIAL, whose remainder may stay live.
BuyReported(n) ==
    /\ phase = "buying" /\ n \in Reports
    /\ phase' = "idle" /\ order' = NoOrder
    /\ row' = ~Full(n)
    /\ strayBuy' \in {strayBuy, strayBuy + order.rest}
    /\ \/ \E price \in Prices :
             /\ price = "theirs" \/ "avg_differs" \in Env
             /\ pos' = Bought(n, price)
             /\ Save(Bought(n, price))
             /\ UNCHANGED misled
       \/ "record_error" \in Env /\ misled' = TRUE /\ UNCHANGED <<pos, stored>>
    /\ UNCHANGED <<held, straySell, pending, entry, resting, counts>>

\* A result without shares.  After a time-out or a cancellation the account
\* is asked, and shares found there become the position.
Seen == {held} \cup (IF "old_holdings" \in Env THEN 1 .. OrderQty ELSE {})
             \cup (IF "no_answer" \in Env THEN {0} ELSE {})

BuyReconciles_Not(n) == UNCHANGED <<pos, stored>>
BuyReconciles(n) ==
    IF n > 0 THEN pos' = Bought(n, "theirs") /\ Save(Bought(n, "theirs"))
             ELSE UNCHANGED <<pos, stored>>

BuyRejected ==
    /\ phase = "buying" /\ order.done = 0
    /\ phase' = "idle" /\ order' = NoOrder
    /\ row' = FALSE
    /\ UNCHANGED <<account, memory, stored, history, counts>>

BuyEnds ==
    /\ phase = "buying"
    /\ phase' = "idle" /\ order' = NoOrder
    /\ row' = FALSE
    /\ strayBuy' \in {strayBuy} \cup
           IF "uncancelled" \in Env THEN {strayBuy + order.rest} ELSE {}
    /\ \E n \in Seen :
          /\ BuyReconciles(n)
          /\ misled' = (misled \/ n # held \/ strayBuy' # strayBuy)
    /\ UNCHANGED <<held, straySell, pending, entry, resting, counts>>
-----------------------------------------------------------------------------
(***************************************************************************)
(* The exit: _execute_exit_with_pending_control and execute_sell.          *)
(***************************************************************************)
\* _should_attempt_exit_order lets the exit through; another reason than the
\* pending one releases it.
Attempts(r) == (pending # None /\ pending.why = r) => pending.wait = "no"

StartSell(r) ==
    /\ phase = "idle" /\ orders < MaxOrders
    /\ pos # None
    /\ Attempts(r)
    /\ IF pending # None /\ pending.why # r
       THEN DropPending
       ELSE UNCHANGED <<pending, fpending>>
    /\ phase' = "selling"
    /\ order' = [rest |-> pos.qty, done |-> 0, why |-> r]
    /\ resting' = IF resting = r THEN resting ELSE None
    /\ orders' = orders + 1
    /\ UNCHANGED <<account, row, pos, file, entry, misled, stops>>

\* The retry is due but the market is closed: it is put off once more.
PutOff ==
    /\ phase = "idle" /\ pos # None
    /\ pending # None /\ pending.wait = "no"
    /\ KeepPending([pending EXCEPT !.wait = "yes"])
    /\ resting' = pending.why
    /\ UNCHANGED <<account, row, phase, order, pos, file, entry, misled, counts>>

FillSell ==
    /\ phase = "selling" /\ order.rest > 0 /\ held > 0
    /\ order' = [order EXCEPT !.rest = @ - 1, !.done = @ + 1]
    /\ held' = held - 1
    /\ UNCHANGED <<strayBuy, straySell, row, phase, memory, stored, history, counts>>

\* The result is in; the shares still open are cancelled, or stay live.
EndSell(rests) ==
    /\ phase = "selling"
    /\ phase' = "idle" /\ order' = NoOrder
    /\ straySell' \in {straySell, straySell + rests}
    /\ UNCHANGED <<held, strayBuy, row, entry, misled, counts>>

SellClosed_KeepsPending == pos' = None /\ ClearFile /\ UNCHANGED pending
SellClosed == pos' = None /\ ClearFile /\ pending' = None

SellReduced_Unsaved(n) ==
    /\ pos' = [pos EXCEPT !.qty = @ - n]
    /\ UNCHANGED <<pending, stored>>
SellReduced(n) ==
    LET left == [pos EXCEPT !.qty = @ - n]
    IN  pos' = left /\ Save(left) /\ UNCHANGED pending

Closes_Late(n) == n > pos.qty
Closes(n) == n >= pos.qty

SellReported(n) ==
    /\ EndSell(order.rest) /\ n \in Reports
    /\ \/ IF Closes(n)
          THEN SellClosed /\ resting' = None
          ELSE SellReduced(n) /\ UNCHANGED resting
       \/ "record_error" \in Env /\ UNCHANGED <<pos, pending, stored, resting>>

\* The broker takes no orders now: the exit becomes a pending one.
Activate_Unsaved(p) == pending' = p /\ UNCHANGED fpending
Activate(p) == KeepPending(p)

SellUnavailable ==
    /\ EndSell(0) /\ order.done = 0
    /\ Activate([why |-> order.why, wait |-> "yes"])
    /\ resting' = order.why
    /\ UNCHANGED <<pos, file>>

SellRejected ==
    /\ EndSell(0) /\ order.done = 0
    /\ UNCHANGED <<pos, pending, stored, resting>>

\* A time-out, a cancellation or "no holdings" asks the account once more:
\* _auto_reconcile_stale_position_after_sell_failure.  An account without the
\* stock looks like one that did not answer (_account_has_holding).
HasHolding == IF held > 0 THEN "yes" ELSE "unknown"

SellFails ==
    /\ EndSell(order.rest)
    /\ IF HasHolding = "no"
       THEN SellClosed /\ resting' = None
       ELSE UNCHANGED <<pos, pending, stored, resting>>

\* next_retry_at passes.
BackoffEnds ==
    /\ Waits(pending) \/ Waits(fpending)
    /\ pending' = Over(pending)
    /\ fpending' = Over(fpending)
    /\ resting' = None
    /\ UNCHANGED <<account, row, phase, order, pos, file, entry, misled, counts>>
-----------------------------------------------------------------------------
(***************************************************************************)
(* The end of the process, also while it waits for an order, which then    *)
(* stays at the broker: a signal or the loop's end saves the position, a   *)
(* crash does not.                                                         *)
(***************************************************************************)
Leave ==
    /\ phase # "down" /\ stops < MaxStops
    /\ stops' = stops + 1
    /\ phase' = "down" /\ order' = NoOrder
    /\ strayBuy'  = IF phase = "buying"  THEN strayBuy + order.rest  ELSE strayBuy
    /\ straySell' = IF phase = "selling" THEN straySell + order.rest ELSE straySell
    /\ pos' = None /\ pending' = None /\ entry' = "allowed"
    /\ UNCHANGED <<held, row, misled, orders>>

Stop ==
    /\ Leave /\ SaveOnExit
    /\ resting' = IF pos = None THEN None ELSE resting
Crash == Leave /\ UNCHANGED <<stored, resting>>

Next ==
    \/ Start \/ RetryUnblock \/ SetEntryControl
    \/ StartBuy \/ FillBuy \/ FillStrayBuy \/ FillStraySell \/ StraysEnd
    \/ \E n \in 1 .. OrderQty : BuyReported(n)
    \/ BuyRejected \/ BuyEnds
    \/ \E r \in Reasons : StartSell(r)
    \/ PutOff \/ FillSell
    \/ \E n \in 1 .. order.done : SellReported(n)
    \/ SellUnavailable \/ SellRejected \/ SellFails \/ BackoffEnds
    \/ Stop \/ Crash

Spec == Init /\ [][Next]_vars
-----------------------------------------------------------------------------
PositionOrNone == Position \cup {None}
PendingOrNone  == Pending \cup {None}

\* Every variable has its type; a position that is kept has a share to sell.
TypeOK ==
    /\ held \in Nat /\ strayBuy \in Nat /\ straySell \in Nat
    /\ row \in BOOLEAN
    /\ phase \in Phases
    /\ order \in [rest : Nat, done : Nat, why : Reasons \cup {None}]
    /\ pos \in PositionOrNone /\ file \in PositionOrNone
    /\ pending \in PendingOrNone /\ fpending \in PendingOrNone
    /\ entry \in {"allowed", "blocked", "sticky"}
    /\ resting \in Reasons \cup {None}
    /\ misled \in BOOLEAN
    /\ orders \in Nat /\ stops \in Nat

\* An executor that would send a BUY now, because it has no position, the
\* guard is clear and entries are allowed, has no share in the account and no
\* order of its own still buying: the entry never adds to shares it does not
\* know of (the checks of execute_buy against the outcome of its own orders,
\* of its restarts and of the clean-up), until a mishap that Next marks misled,
\* and again after the next start that reconciles.
NoBlindEntry ==
    (phase = "idle" /\ entry = "allowed" /\ pos = None /\ ~row /\ ~misled)
        => held = 0 /\ strayBuy = 0

\* Whenever the process may crash, the file has the position and the pending
\* exit that the process has, unless the start could not reconcile them.
FileIsCurrent ==
    (phase # "down" /\ entry # "sticky" /\ ~misled)
        => file = pos /\ fpending = pending

\* A pending exit is always that of a position: one that outlived its
\* position would put off the first exit of the next one.
PendingBelongs == (pending # None /\ ~misled) => pos # None

\* The stored position, and with it the stop and target fixed at the entry,
\* leaves the file only with the shares: sold by the order just reported or
\* found to be gone.  (The stop of an executor whose start could not read the
\* account is the exception: it erases the file it did not load.)
StoredTermsLast ==
    [][file # None =>
        \/ file' # None /\ file'.terms = file.terms
        \/ held = 0
        \/ phase = "selling" /\ order.done >= file.qty
        \/ entry = "sticky" \/ misled]_vars

\* An exit the market refused is not tried again, for the same reason, before
\* its backoff is over, across crashes and restarts (unless another reason has
\* been tried in between, a start dropped the pending exit, or a stop without
\* a position erased it).
BackoffHolds ==
    [][(phase = "idle" /\ phase' = "selling") => order'.why # resting]_vars

\* A start that lets entries through has given the strategy every share the
\* account holds (restore_position_on_start: compare, resolve, restore).
RestoresHoldings ==
    [][(phase = "down" /\ phase' = "idle" /\ entry' = "allowed") =>
        IF held = 0 THEN pos' = None ELSE pos' # None /\ pos'.qty = held]_vars

\* A sell whose result is a failure although it sold the last share clears the
\* position (_auto_reconcile_stale_position_after_sell_failure).
SoldIsNoticed ==
    [][(phase = "selling" /\ phase' = "idle" /\ order.done > 0 /\ held = 0)
        => pos' = None]_vars
=============================================================================
