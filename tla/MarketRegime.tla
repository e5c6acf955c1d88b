---------------------------- MODULE MarketRegime ----------------------------
(***************************************************************************)
(* The market regime (utils/market_regime.py): a snapshot GOOD, NEUTRAL or *)
(* BAD, built by a thread of its own (engine/market_regime_worker.py) that *)
(* the main loop watches and replaces, or by the main loop itself.  Ages   *)
(* count iterations of the main loop and stop one past the largest limit.  *)
(***************************************************************************)
EXTENDS Ages

CONSTANTS
    StaleAfter,      \* age after which a snapshot is stale
    Expires,         \* age after which the main loop builds another
    ContextLife,     \* age after which the daily context is built again
    StallAfter,      \* age of the heartbeat of a worker that is stalled
    ErrorStreak,     \* failures in a row after which a worker is replaced
    MaxBackoff

\* What the constants are; Components assumes it of its settings.
RegimeLimits ==
    /\ {StaleAfter, Expires, ContextLife, ErrorStreak, MaxBackoff} \subseteq Nat
    /\ StallAfter \in Nat \ {0}

VARIABLES
    trend,       \* what the daily prices before today say
    background,  \* ENABLE_MARKET_REGIME_REFRESH_THREAD
    worker,      \* the thread the main loop refers to, and what it published
    restarts,    \* the last backoff of restarts in a row, and what is left of it
    shared       \* shared_market_regime_snapshot, given to every executor

regimeVars == <<trend, background, worker, restarts, shared>>

Regimes    == {"GOOD", "NEUTRAL", "BAD"}
Nothing    == [regime |-> "none", age |-> StaleAfter + 1]
NoContext  == [regime |-> "none", today |-> FALSE, age |-> ContextLife + 1]
NewWorker  == [alive |-> TRUE, hung |-> FALSE, streak |-> 0, beat |-> 0,
               context |-> NoContext, snap |-> Nothing]

RegimeInit ==
    /\ trend \in Regimes /\ background \in BOOLEAN
    /\ worker = NewWorker /\ shared = Nothing
    /\ restarts = [backoff |-> 0, wait |-> 0]

Fresh(context) == context.today /\ context.age <= ContextLife

\* The context a cycle goes on with, if it gets one.
Context_OldIfFails(fetched) ==
    IF Fresh(worker.context) \/ ~fetched
    THEN worker.context ELSE [regime |-> trend, today |-> TRUE, age |-> 0]
Context(fetched) ==
    IF Fresh(worker.context) THEN worker.context
    ELSE IF fetched THEN [regime |-> trend, today |-> TRUE, age |-> 0] ELSE NoContext

\* apply_intraday_guard: a drop since the open, in the first minutes of a day.
Guarded(regime, drop) == [regime |-> IF drop THEN "BAD" ELSE regime, age |-> 0]

\* _run_cycle: a failure of the daily prices or of the guard leaves what was
\* published before; a call to the broker may also never come back.
Cycle ==
    /\ background /\ worker.alive /\ ~worker.hung
    /\ \E fetched, guards, drop \in BOOLEAN :
          LET context == Context(fetched)
          IN  worker' = IF context.regime # "none" /\ guards
                        THEN [worker EXCEPT !.context = context, !.beat = 0, !.streak = 0,
                                            !.snap = Guarded(context.regime, drop)]
                        ELSE [worker EXCEPT !.beat = 0,
                                            !.streak = IF @ < ErrorStreak THEN @ + 1 ELSE @]
    /\ UNCHANGED <<trend, background, restarts, shared>>

Hang ==
    /\ background /\ worker.alive /\ ~worker.hung
    /\ worker' \in {[worker EXCEPT !.hung = TRUE, !.beat = 0], [worker EXCEPT !.alive = FALSE]}
    /\ UNCHANGED <<trend, background, restarts, shared>>

\* _maybe_restart_market_regime_worker: each restart in a row doubles the backoff.
MustRestart_DeadOnly(w) == ~w.alive \/ w.streak >= ErrorStreak
MustRestart(w) == ~w.alive \/ w.beat >= StallAfter \/ w.streak >= ErrorStreak
Doubled(b) == IF b = 0 THEN 1 ELSE 2 * b
Backoff(b) == IF Doubled(b) < MaxBackoff THEN Doubled(b) ELSE MaxBackoff
Supervise(w, wait) ==
    IF ~MustRestart(w)
    THEN worker' = w /\ restarts' = [backoff |-> 0, wait |-> 0]
    ELSE IF wait > 0
    THEN worker' = w /\ restarts' = [restarts EXCEPT !.wait = wait]
    ELSE LET next == Backoff(restarts.backoff)
         IN  worker' = NewWorker /\ restarts' = [backoff |-> next, wait |-> next]

AgedSnap(s) == [s EXCEPT !.age = Older(@, StaleAfter)]
Aged(w) == [w EXCEPT !.beat = Older(@, StallAfter), !.snap = AgedSnap(@),
                     !.context.age = Older(@, ContextLife)]

\* One iteration of the main loop, some time after the last.  wanted: entries are
\* open and a slot is free.  A worker without a snapshot leaves the last one in
\* use; the main loop builds its own once the last one has expired.
Observe(wanted) ==
    IF background
    THEN /\ Supervise(Aged(worker), IF restarts.wait = 0 THEN 0 ELSE restarts.wait - 1)
         /\ shared' = IF wanted /\ worker'.snap.regime # "none"
                      THEN worker'.snap ELSE AgedSnap(shared)
    ELSE /\ UNCHANGED <<worker, restarts>>
         /\ \E built, drop \in BOOLEAN :
               shared' = IF wanted /\ built /\ shared.age >= Expires
                         THEN Guarded(trend, drop) ELSE AgedSnap(shared)

Observes == \E wanted \in BOOLEAN : Observe(wanted) /\ UNCHANGED <<trend, background>>

\* A night: what was built before it is stale when the market opens.
Night ==
    /\ trend' \in Regimes
    /\ worker' = [worker EXCEPT !.context.today = FALSE, !.context.age = ContextLife + 1,
                                !.snap.age = StaleAfter + 1]
    /\ shared' = [shared EXCEPT !.age = StaleAfter + 1]
    /\ UNCHANGED <<background, restarts>>

\* _apply_market_regime_guard, which fails closed: the staleness is that of the
\* moment, not of the snapshot's making.
RegimeBlocks(s) == s.age > StaleAfter \/ s.regime = "BAD"

RegimeNext == Cycle \/ Hang \/ Observes \/ Night
-----------------------------------------------------------------------------
RegimeTypes ==
    /\ trend \in Regimes /\ background \in BOOLEAN
    /\ worker \in [alive : BOOLEAN, hung : BOOLEAN, streak : 0 .. ErrorStreak, beat : 0 .. StallAfter + 1,
                   context : [regime : Regimes \cup {"none"}, today : BOOLEAN, age : 0 .. ContextLife + 1],
                   snap : [regime : Regimes \cup {"none"}, age : 0 .. StaleAfter + 1]]
    /\ restarts \in [backoff : 0 .. MaxBackoff, wait : 0 .. MaxBackoff]
    /\ shared \in [regime : Regimes \cup {"none"}, age : 0 .. StaleAfter + 1]

\* A BUY that the regime lets through sees the regime of today's daily prices:
\* neither a worker that keeps failing, nor its replacement, nor a night leaves
\* the main loop with an older one.
RegimeIsTodays == ~RegimeBlocks(shared) => shared.regime = trend

\* A worker that hangs or dies is replaced before its heartbeat is as old as a
\* stall, however often that happens, if no backoff is longer than a stall.
NoWorkerStaysHung == background => worker.beat < StallAfter
=============================================================================
