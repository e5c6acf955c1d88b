---------------------------- MODULE FeedControl ----------------------------
(***************************************************************************)
(* The data feed of the main loop over the sessions of a day: each         *)
(* iteration of run_trade (deprecated/legacy_main_multiday.py) reads the   *)
(* session and the feed's state, lets the runtime state machine decide,    *)
(* starts or stops the WebSocket subscription, picks the source of the     *)
(* bars and runs the strategy on a bar it has not seen.  The listener      *)
(* threads go on by themselves.                                            *)
(***************************************************************************)
EXTENDS RuntimeState, MarketFeed

CONSTANT LastMinute   \* the clock's bound

\* What Components assumes of its settings: a time is a number, and the program
\* leaves the feed for longer than a listener that it stops then can hang (by
\* default the evening and the night against 90 seconds).
Wanted(session) == Policy(session, "NORMAL").ws
LeavesFeed(t) ==
    /\ ~Wanted(SessionAt(t))
    /\ \E b \in 1 .. t : /\ Wanted(SessionAt(b - 1))
                        /\ \A u \in b .. t : SessionAt(u) = SessionAt(t)
FeedTimes ==
    /\ {LastMinute, RecvTimeout, MaxAttempts, StableFor, Grace, MinNormal} \subseteq Nat
    /\ \A s, t \in 0 .. LastMinute :
          s <= t /\ LeavesFeed(s) /\ Wanted(SessionAt(t)) => t - s > RecvTimeout

VARIABLES
    now,       \* minutes since midnight of the first day
    stop,      \* the kill switch
    handle,    \* ws_stop is set: the loop holds a subscription
    source,    \* active_feed_name of the last iteration
    gate,      \* SymbolBarGate: the last minute the strategy ran on
    outage     \* history: the last time an evaluation saw no healthy feed in session

mainVars == <<now, stop, handle, source, gate, outage>>
controlVars     == <<mainVars, rtVars, feedVars>>

ControlInit ==
    /\ now = 0
    /\ stop = FALSE
    /\ handle = FALSE
    /\ source = "rest"
    /\ gate = Never
    /\ outage = 0
    /\ RuntimeInit(0)
    /\ FeedInit

\* _ensure_ws_subscription and _stop_ws_subscription; the variant asks whether the
\* socket is up instead of whether it has subscribed.
Subscription_WhenDown(wanted) ==
    IF wanted /\ ~connected THEN handle' = TRUE /\ Subscribe
    ELSE IF ~wanted /\ handle THEN handle' = FALSE /\ StopFeed(now)
    ELSE UNCHANGED <<handle, feedVars>>
Subscription(wanted) ==
    IF wanted /\ ~handle THEN handle' = TRUE /\ Subscribe
    ELSE IF ~wanted /\ handle THEN handle' = FALSE /\ StopFeed(now)
    ELSE UNCHANGED <<handle, feedVars>>

\* _resolve_effective_feed_mode: the policy's feed, if its thread is alive.
Effective(policy, session) ==
    IF policy.feed = "ws" /\ session \in {"IN_SESSION", "AUCTION_GUARD"} /\ connected
    THEN "ws" ELSE "rest"

\* The bar an iteration offers: the provider's last completed one, or the
\* minute that is over.
Offered(feed) == IF feed = "ws" THEN bar ELSE now - 1

\* SymbolBarGate.should_run
ShouldRun_Any(b) == b # Never
ShouldRun(b) == b # Never /\ (gate = Never \/ b > gate)

Iterate ==
    LET session == SessionAt(now)
        policy  == Policy(session, overlay')
        offered == Offered(source')
    IN  /\ Evaluate(session, Status, now, 0, stop)
        /\ Subscription(policy.ws)
        /\ source' = Effective(policy, session)
        /\ gate' = IF policy.run /\ ShouldRun(offered) THEN offered ELSE gate
        /\ outage' = IF session = "IN_SESSION" /\ IsHealthy(Status, now) THEN outage ELSE now
        /\ UNCHANGED <<now, stop>>

Kill ==
    /\ ~stop /\ stop' = TRUE
    /\ UNCHANGED <<now, handle, source, gate, outage, rtVars, feedVars>>

\* The clock.  The loop's sleeps are shorter than its sessions: it sees each
\* one it must act on before the clock leaves it.
Minute ==
    /\ now < LastMinute
    /\ InTime(now)
    /\ SessionAt(now + 1) # SessionAt(now) => seen = SessionAt(now)
    /\ now' = now + 1
    /\ UNCHANGED <<stop, handle, source, gate, outage, rtVars, feedVars>>

Listen ==
    /\ \E t \in Threads : \/ RunBegins(t)
                          \/ Connect(t)
                          \/ Fail(t, now)
                          \/ Retry(t)
                          \/ \E m \in {now - 1, now} : Receive(t, now, m)
    /\ UNCHANGED <<mainVars, rtVars>>

ControlNext == Iterate \/ Kill \/ Minute \/ Listen
-----------------------------------------------------------------------------
Times == -1 .. LastMinute \cup {Never}

FeedTypes ==
    /\ now \in 0 .. LastMinute /\ outage \in 0 .. LastMinute
    /\ {stop, handle, running, connected, reentered} \subseteq BOOLEAN
    /\ source \in {"ws", "rest"} /\ overlay \in Overlays /\ seen \in Sessions \cup {"NONE"}
    /\ thread \in [Threads -> {"none", "start", "connect", "listen", "retry"}]
    /\ attempt \in [Threads -> 0 .. MaxAttempts]
    /\ {changed, healthy, last, forming, bar, gate, quitting, recent.last} \subseteq Times

\* The three-second join does not wait for a thread that hangs in recv for up
\* to 90 seconds, and a new thread sets the shared flag again: that two
\* listeners never feed one aggregator is owed to the policies alone, which
\* leave the subscription on through a whole day and off for longer than that.
OneListener == Cardinality(Alive) <= 1

\* The feed is trusted again only after the whole stable period, in session,
\* without an evaluation that saw it silent or gone, and RequiredBars bars.
RecoveryIsEarned ==
    overlay = "DEGRADED_FEED" /\ overlay' = "NORMAL"
        => /\ now - outage >= StableFor
           /\ now - changed >= MinDegraded
           /\ recent'.run >= RequiredBars

\* In session the strategy never runs on a WebSocket feed that has been silent
\* for longer than Stale, outside the grace after a start or a recovery.
TrustedFeedIsFresh ==
    source' = "ws" /\ seen' = "IN_SESSION" /\ (Iterate \/ source # "ws")
        => \/ ~IsStale(Status, now)
           \/ now < Grace \/ now - changed' < MinNormal

\* The strategy runs once for a minute, in order, when the minute is over,
\* through every switch between the two sources.
BarsRunOnce ==
    gate' # gate => gate' < now /\ (gate = Never \/ gate' > gate)
=============================================================================
