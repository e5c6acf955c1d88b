---------------------------- MODULE TradingLoop ----------------------------
(***************************************************************************)
(* The main loop over several stocks (run_trade of                         *)
(* deprecated/legacy_main_multiday.py): the universe of the day, one       *)
(* executor a stock, which of them may enter, one turn of each in an       *)
(* iteration, the shared risk manager, stops, crashes and restarts.  The   *)
(* order of the turns is left open.  What a turn decides is any signal its *)
(* strategy may give; an order ends with its turn (a late fill is the      *)
(* matter of OrderSync and PositionControl).                               *)
(***************************************************************************)
EXTENDS RiskGate, Universe

CONSTANTS LastDay, MaxStarts    \* bounds

\* What the constants are; Components assumes it of its settings.
LoopData == FixedStocks \in Seq(Symbols) /\ {UniverseSize, LastDay, MaxStarts} \subseteq Nat

VARIABLES
    day,        \* the calendar day
    starts,     \* starts of the program so far
    alive,      \* the program runs
    killFile,   \* the operator's KILL_SWITCH file
    account,    \* stocks with shares in the account
    file,       \* stocks with a saved position
    held,       \* stocks whose strategy has a position
    executors,  \* stocks with an executor
    active,     \* run_symbols
    sticky,     \* stocks whose reconciliation failed: no entry
    today,      \* current_trade_date and todays_universe
    cache,      \* the universe's cache file
    risk,       \* the shared risk manager
    policy,     \* of the runtime state machine for this iteration
    holdings,   \* runtime_holdings
    cutoff,     \* capacity_cutoff_symbols
    todo,       \* executors that have not had their turn in this iteration
    order,      \* the order of the turn: its stock, its side, whether it is filled
    booked      \* history: what was booked today, and whether it reached the limit

world    == <<day, killFile, cache, booked>>
program  == <<starts, alive, executors, active, sticky, today>>
iteration == <<policy, holdings, cutoff, todo>>
stock    == <<account, file, held>>
loopVars == <<world, program, iteration, stock, risk, order>>

NoOrder  == [sym |-> "none", side |-> "none", filled |-> FALSE]
Idle     == [entries |-> FALSE, run |-> FALSE]
Policies == {Idle, [entries |-> FALSE, run |-> TRUE], [entries |-> TRUE, run |-> TRUE]}
NoPnl    == [sum |-> 0, hit |-> FALSE]

LoopInit ==
    /\ day = 0 /\ starts = 0 /\ alive = FALSE /\ killFile = FALSE
    /\ account \in SUBSET Symbols /\ file = {} /\ held = {}
    /\ executors = {} /\ active = {} /\ sticky = {}
    /\ today = NoCache /\ cache = NoCache
    /\ risk = NewRisk(FALSE, 0)
    /\ policy = Idle /\ holdings = {} /\ cutoff = {} /\ todo = {}
    /\ order = NoOrder
    /\ booked = NoPnl

\* restore_position_on_start of each stock: what the account holds, or a block.
Restore(restored, answers) ==
    IF answers
    THEN /\ held' = held \cup (restored \cap account)
         /\ file' = (file \ restored) \cup (restored \cap account)
         /\ sticky' = sticky \ restored
    ELSE /\ sticky' = sticky \cup restored
         /\ UNCHANGED <<held, file>>

\* _refresh_daily_universe and the executors of stocks not seen before.
Refresh(answers) ==
    \E u \in TodaysUniverse(cache, day) :
       LET h   == HoldingsOf(account, answers, file)
           new == (h \cup (ToSet(u.list) \ h)) \ executors
       IN  /\ cache' = u
           /\ today' = [u EXCEPT !.day = day]
           /\ active' = h \cup ToSet(u.list)
           /\ executors' = executors \cup new
           /\ Restore(new \cap (h \cup file), answers)

Start ==
    /\ ~alive /\ starts < MaxStarts
    /\ starts' = starts + 1
    /\ \E answers \in BOOLEAN : Refresh(answers)
    /\ alive' = (active' # {})
    /\ risk' = NewRisk(killFile, day)
    /\ booked' = NoPnl
    /\ UNCHANGED <<day, killFile, iteration, account, order>>

\* The end of the program: what only its memory knew is gone.
Gone(saved) ==
    /\ alive' = FALSE
    /\ file' = saved
    /\ held' = {} /\ executors' = {} /\ active' = {} /\ sticky' = {}
    /\ policy' = Idle /\ holdings' = {} /\ cutoff' = {} /\ todo' = {}
    /\ order' = NoOrder
    /\ UNCHANGED <<world, starts, today, account>>

\* The finally of run_trade: every executor saves or clears its file.
SavedOnExit == (file \ executors) \cup held
Exit  == Gone(SavedOnExit)
Stop  == alive /\ order = NoOrder /\ Exit /\ UNCHANGED risk
Crash == alive /\ Gone(file) /\ UNCHANGED risk

\* runtime_holdings, after a refresh or a turn.
Count_Early == holdings' = held \cap active'
Count == holdings' = held' \cap active'

\* An iteration: a new day's universe, the policy of the runtime state machine
\* (nothing once the kill switch is on), the holdings and the capacity.
Begin ==
    /\ alive /\ todo = {} /\ order = NoOrder
    /\ IF today.day # day
       THEN \E answers \in BOOLEAN : Refresh(answers)
       ELSE UNCHANGED <<cache, today, active, executors, held, file, sticky>>
    /\ policy' \in (IF risk.killed THEN {Idle} ELSE Policies)
    /\ Count
    /\ cutoff' = CutOff(today'.list, holdings')
    /\ todo' = active'
    /\ UNCHANGED <<day, killFile, booked, starts, alive, account, risk, order>>

\* The chain of entry controls before a turn.
MayEnter(s) ==
    /\ s \notin sticky' /\ policy.entries
    /\ s \notin holdings
    /\ Cardinality(holdings) < MaxPositions
    /\ s \notin cutoff
    /\ s \in EntryCandidates(today.list, holdings)

\* retry_entry_unblock_via_resync: a reconciliation that goes through lifts the
\* block, whatever it found.
RetryUnblock(s) ==
    IF s \in sticky /\ policy.entries THEN sticky' \in {sticky, sticky \ {s}} ELSE UNCHANGED sticky

\* A turn without an order: not due, no signal, market closed, an error.
Pass(s) ==
    /\ RetryUnblock(s)
    /\ todo' = todo \ {s}
    /\ UNCHANGED <<world, starts, alive, executors, active, today, policy, cutoff, stock, risk, order>>
    /\ Count

\* execute_buy and execute_sell up to the order; a kill switch seen there ends
\* the program, a loss limit the turn.
Trade(s, side) ==
    LET closing == side = "SELL"
        r == Checked(risk, day, killFile)
    IN  /\ policy.run
        /\ (side = "SELL") = (s \in held)
        /\ IF r.killed THEN Exit /\ risk' = r
           ELSE /\ RetryUnblock(s)
                /\ ~closing => MayEnter(s)
                /\ risk' = r
                /\ todo' = todo \ {s}
                /\ order' = IF Allowed(r, closing) THEN [sym |-> s, side |-> side, filled |-> FALSE] ELSE NoOrder
                /\ UNCHANGED <<world, starts, alive, executors, active, today, policy, holdings, cutoff, stock>>

Turn ==
    /\ alive /\ order = NoOrder
    /\ \E s \in todo : \/ Pass(s)
                       \/ \E side \in {"BUY", "SELL"} : Trade(s, side)

\* The broker fills the order.
Fill ==
    /\ order # NoOrder /\ ~order.filled
    /\ order' = [order EXCEPT !.filled = TRUE]
    /\ account' = IF order.side = "BUY" THEN account \cup {order.sym} ELSE account \ {order.sym}
    /\ UNCHANGED <<world, program, iteration, file, held, risk>>

\* The order's result, saved and booked; an order not filled has failed.  The
\* day's sum is kept near the limit, a bound of the model.
Result ==
    /\ order # NoOrder
    /\ order' = NoOrder
    /\ IF ~order.filled THEN UNCHANGED <<file, held, risk, booked>>
       ELSE IF order.side = "BUY"
       THEN /\ held' = held \cup {order.sym} /\ file' = file \cup {order.sym}
            /\ UNCHANGED <<risk, booked>>
       ELSE /\ held' = held \ {order.sym} /\ file' = file \ {order.sym}
            /\ \E pnl \in {-1, 1} :
                  /\ booked.sum + pnl \in -MaxLoss - 1 .. 1
                  /\ risk' = Booked(risk, day, pnl)
                  /\ booked' = [sum |-> booked.sum + pnl,
                                hit |-> booked.hit \/ booked.sum + pnl <= -MaxLoss]
    /\ UNCHANGED <<day, killFile, cache, program, policy, cutoff, todo, account>>
    /\ Count

Midnight ==
    /\ day < LastDay
    /\ day' = day + 1
    /\ booked' = NoPnl
    /\ UNCHANGED <<killFile, cache, program, iteration, stock, risk, order>>

KillByFile ==
    /\ ~killFile /\ killFile' = TRUE
    /\ UNCHANGED <<day, cache, booked, program, iteration, stock, risk, order>>

LoopNext ==
    \/ Start \/ Stop \/ Crash \/ Begin \/ Turn \/ Fill \/ Result \/ Midnight \/ KillByFile

-----------------------------------------------------------------------------
LoopTypes ==
    /\ day \in 0 .. LastDay /\ starts \in 0 .. MaxStarts
    /\ {alive, killFile} \subseteq BOOLEAN
    /\ \A v \in {account, file, held, executors, active, sticky, holdings, cutoff, todo} : v \subseteq Symbols
    /\ held \subseteq executors /\ active \subseteq executors
    /\ {today.list, cache.list} \subseteq Lists \cup {Fallback}
    /\ risk \in Risk /\ policy \in Policies
    /\ order = NoOrder \/ order \in [sym : Symbols, side : {"BUY", "SELL"}, filled : BOOLEAN]

\* A stock whose strategy holds shares is among those the loop gives a turn,
\* through every change of the day's universe, whatever the account answers.
HeldIsWatched == alive => held \subseteq active

\* A BUY goes out only for a stock of the day's ranking that nobody holds, while
\* fewer stocks are held than may be, and not before the next day once the
\* losses booked since midnight, by this run of the program, reach the limit;
\* nothing goes out once the kill switch is on.
OrdersWithinLimits ==
    order = NoOrder /\ order' # NoOrder
        => /\ ~risk'.killed
           /\ order'.side = "BUY" =>
                 /\ order'.sym \in ToSet(today.list) \ held
                 /\ Cardinality(held) < MaxPositions
                 /\ ~booked.hit

\* A day has one universe, before and after every restart.
OneUniverseADay == today'.day = today.day => today'.list = today.list
=============================================================================
