---------------------------- MODULE EntryChecks ----------------------------
(***************************************************************************)
(* What an entry of one stock is checked against between its signal and    *)
(* its order (execute_buy of engine/multiday_executor.py): for the         *)
(* pullback strategy, if the settings ask for it, the holdings of the      *)
(* account, kept by a thread (RiskSnapshotThread) and read again when they *)
(* are too old; and then a quote that is fetched again.  The guard against *)
(* a second order is the matter of OrderSync, the queue and the position   *)
(* that of EntryPipeline, the regime that of MarketRegime, the caches the  *)
(* holdings come from that of ApiAccess; like the cash of the account and  *)
(* the caps on the price, each of the others may refuse any order here.    *)
(***************************************************************************)
EXTENDS Ages

CONSTANTS
    QuoteLife,      \* QUOTE_MAX_AGE_SEC
    HoldingsLife,   \* HOLDINGS_SNAPSHOT_TTL_SEC
    CallTime,       \* the longest call for the holdings
    AnswerLife,     \* how old what it finds in a cache may be (AccountIsRecent of ApiAccess)
    OrderTime       \* the longest time from the check of the holdings to the order

\* What the constants are; Components assumes it of its settings.
CheckLimits == {QuoteLife, HoldingsLife, CallTime, AnswerLife, OrderTime} \subseteq Nat

VARIABLES
    mode,      \* REAL, or PAPER
    feed,      \* the provider of quotes: ws, or rest, for which, as without
               \* ENABLE_STALE_QUOTE_GUARD, no quote is too old
    tick,      \* the last tick of the feed: its age, and whether the socket is up
    checks,    \* off without ENABLE_RISK_SNAPSHOT_THREAD (the default); with it thread,
               \* and light if ORDER_FINAL_VALIDATION_MODE is light besides
    account,   \* whether it holds the stock, and how long ago the broker could last
               \* answer that it does (TRUE) and that it does not (FALSE)
    store,     \* the holdings snapshot of AccountRiskStore
    reads,     \* the calls for the holdings under way, by thread
    entry      \* the entry: where it is, its strategy, and the time since its check

checkVars == <<mode, feed, tick, checks, account, store, reads, entry>>

Readers == {"thread", "order"}
NoRead  == [on |-> FALSE, age |-> 0]
Absent  == [known |-> FALSE, has |-> FALSE, age |-> HoldingsLife + 1]
NoEntry == [at |-> "none", by |-> "trend", since |-> 0]

\* The oldest holdings by which an order is judged, and the oldest they get.
JudgedAge  == IF HoldingsLife > CallTime THEN HoldingsLife ELSE CallTime
LongestAge == AnswerLife + JudgedAge + OrderTime

ChecksInit ==
    /\ mode \in {"REAL", "PAPER"} /\ feed \in {"ws", "rest"}
    /\ checks \in {"off", "thread", "light"}
    /\ tick = [age |-> QuoteLife + 1, up |-> FALSE]
    /\ account = [held |-> FALSE, last |-> [h \in BOOLEAN |-> IF h THEN LongestAge + 1 ELSE 0]]
    /\ store = Absent /\ reads = [r \in Readers |-> NoRead] /\ entry = NoEntry

\* _apply_stale_quote_guard: of the websocket's own ticks only, while it is up.
StaleQuote == feed = "ws" /\ ~(tick.up /\ tick.age <= QuoteLife)

\* prepare_market_context and evaluate_signal_from_context.
Evaluate ==
    /\ entry = NoEntry /\ ~StaleQuote
    /\ \E by \in {"trend", "pullback"} : entry' = [NoEntry EXCEPT !.at = "signal", !.by = by]
    /\ UNCHANGED <<mode, feed, tick, checks, account, store, reads>>

\* get_holdings_risk_snapshot_state; in PAPER an old one will do.
Usable(s) == s.known /\ (s.age <= HoldingsLife \/ mode = "PAPER")

\* refresh_holdings_risk_snapshot_sync: the snapshot has the time of the call,
\* and what get_holdings answers may have been in a cache before.
Ask(r) ==
    /\ ~reads[r].on
    /\ reads' = [reads EXCEPT ![r] = [on |-> TRUE, age |-> 0]]
Answer(h, r) == [known |-> TRUE, has |-> h, age |-> reads[r].age]
Possible(h, r) == account.last[h] <= reads[r].age + AnswerLife
Answers_Now(r) == {[Answer(h, r) EXCEPT !.age = 0] : h \in {g \in BOOLEAN : Possible(g, r)}}
Answers(r) == {Answer(h, r) : h \in {g \in BOOLEAN : Possible(g, r)}}
Done(r) == reads' = [reads EXCEPT ![r] = NoRead]

\* _run_cycle of the thread: when the snapshot is old.
ThreadAsks ==
    /\ checks # "off" /\ ~(store.known /\ store.age <= HoldingsLife)
    /\ Ask("thread")
    /\ UNCHANGED <<mode, feed, tick, checks, account, store, entry>>
ThreadAnswers ==
    /\ reads["thread"].on /\ Done("thread")
    /\ store' \in Answers("thread") \cup {store}
    /\ UNCHANGED <<mode, feed, tick, checks, account, entry>>

\* _run_order_final_validation; without any snapshot a REAL order is refused.
Checked == entry' = [entry EXCEPT !.at = "checked"]
Judge(s) == IF (s.known /\ s.has) \/ (~s.known /\ mode = "REAL") THEN entry' = NoEntry ELSE Checked
Validate ==
    /\ entry.at = "signal"
    /\ IF entry.by = "trend" \/ checks # "light" THEN Checked /\ UNCHANGED <<store, reads>>
       ELSE IF reads["order"].on
       THEN /\ Done("order")
            /\ \/ \E s \in Answers("order") : store' = s /\ Judge(s)
               \/ store' = store /\ Judge(Absent)
       ELSE IF Usable(store) THEN Judge(store) /\ UNCHANGED <<store, reads>>
       ELSE Ask("order") /\ UNCHANGED <<store, entry>>
    /\ UNCHANGED <<mode, feed, tick, checks, account>>

\* The rest of execute_buy: the cash, the hours and the regime, the quote once
\* more with its guard, and the order, each of which may end it.
Quoted ==
    /\ entry.at = "checked"
    /\ entry' \in {NoEntry} \cup (IF StaleQuote THEN {} ELSE {[entry EXCEPT !.at = "quoted"]})
    /\ UNCHANGED <<mode, feed, tick, checks, account, store, reads>>
Send ==
    /\ entry.at = "quoted" /\ entry' \in {NoEntry, [entry EXCEPT !.at = "sent"]}
    /\ UNCHANGED <<mode, feed, tick, checks, account, store, reads>>

\* The account comes to hold the stock, or not to.
Holds(h) == account' = [held |-> h, last |-> [account.last EXCEPT ![h] = 0]]

\* The order fills, or does not.
Outcome ==
    /\ entry.at = "sent" /\ entry' = NoEntry
    /\ Holds(TRUE) \/ UNCHANGED account
    /\ UNCHANGED <<mode, feed, tick, checks, store, reads>>

\* The account changes by other hands; an answer without the array of holdings
\* is one of no holdings to get_holdings; ticks arrive, the socket comes and goes.
Elsewhere ==
    /\ Holds(~account.held)
    /\ UNCHANGED <<mode, feed, tick, checks, store, reads, entry>>
AnswersWithout ==
    /\ account' = [account EXCEPT !.last[FALSE] = 0]
    /\ UNCHANGED <<mode, feed, tick, checks, store, reads, entry>>
Quotes ==
    /\ feed = "ws"
    /\ tick' \in {[age |-> 0, up |-> TRUE], [tick EXCEPT !.up = FALSE], [tick EXCEPT !.up = TRUE]}
    /\ UNCHANGED <<mode, feed, checks, account, store, reads, entry>>

\* Time passes, but no call lasts longer than CallTime, and an entry that has
\* been checked is sent or ended within OrderTime.
OnItsWay == entry.at \in {"checked", "quoted"}
Passes ==
    /\ OnItsWay => entry.since < OrderTime
    /\ \A r \in Readers : reads[r].on => reads[r].age < CallTime
    /\ tick' = [tick EXCEPT !.age = Older(@, QuoteLife)]
    /\ store' = [store EXCEPT !.age = Older(@, HoldingsLife)]
    /\ reads' = [r \in Readers |-> IF reads[r].on THEN [reads[r] EXCEPT !.age = @ + 1] ELSE NoRead]
    /\ account' = [account EXCEPT !.last = [h \in BOOLEAN |->
                       IF h = account.held THEN 0 ELSE Older(account.last[h], LongestAge)]]
    /\ entry' = IF OnItsWay THEN [entry EXCEPT !.since = @ + 1] ELSE entry
    /\ UNCHANGED <<mode, feed, checks>>

ChecksNext ==
    \/ Passes \/ Evaluate \/ ThreadAsks \/ ThreadAnswers \/ Validate \/ Quoted \/ Send
    \/ Outcome \/ Elsewhere \/ AnswersWithout \/ Quotes
-----------------------------------------------------------------------------
ChecksTypes ==
    /\ mode \in {"REAL", "PAPER"} /\ feed \in {"ws", "rest"} /\ checks \in {"off", "thread", "light"}
    /\ tick \in [age : 0 .. QuoteLife + 1, up : BOOLEAN]
    /\ account \in [held : BOOLEAN, last : [BOOLEAN -> 0 .. LongestAge + 1]]
    /\ store \in [known : BOOLEAN, has : BOOLEAN, age : 0 .. JudgedAge + 1]
    /\ reads \in [Readers -> [on : BOOLEAN, age : 0 .. CallTime]]
    /\ entry \in [at : {"none", "signal", "checked", "quoted", "sent"}, by : {"trend", "pullback"},
                  since : 0 .. OrderTime]

\* With the validation on, a pullback BUY in REAL goes out only if the broker had
\* reason to say that the account holds none of the stock, no longer ago than an
\* answer is kept in the caches of the calls, and the snapshot lives or a call
\* lasts, and the order takes after its check: whoever read the account, however
\* often it changed meanwhile, and however old the signal is.
EntryKnowsAccount ==
    entry.at = "quoted" /\ entry'.at = "sent" /\ entry.by = "pullback"
        /\ mode = "REAL" /\ checks = "light"
        => account.last[FALSE] <= AnswerLife + JudgedAge + entry.since
=============================================================================
