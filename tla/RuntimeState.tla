---------------------------- MODULE RuntimeState ----------------------------
(***************************************************************************)
(* engine/runtime_state_machine.py: what the program may do in an          *)
(* iteration of the main loop, from the session, the state of the          *)
(* WebSocket feed and the kill switch.  The program has a WebSocket        *)
(* provider (without one nothing is ever stale and all data is REST).      *)
(***************************************************************************)
EXTENDS MarketHours

CONSTANTS
    DefaultFeed,   \* data_feed_default: "ws" or "rest"
    RecoverPolicy, \* ws_recover_policy: "auto" or "next_session"
    AuctionExit,   \* allow_exit_in_auction
    OffsessionWs,  \* offsession_ws_enabled
    Grace, Stale, MinNormal, MinDegraded, StableFor, \* in minutes
    RequiredBars   \* ws_recover_required_bars

VARIABLES
    overlay,   \* "NORMAL", "DEGRADED_FEED" or "EMERGENCY_STOP"
    changed,   \* when the overlay last changed
    seen,      \* the session of the last evaluation
    healthy,   \* since when the feed is healthy in session, or Never
    recent,    \* last bar noted while healthy, and how many before it follow each other
    reentered  \* a session began since the feed degraded

rtVars == <<overlay, changed, seen, healthy, recent, reentered>>

Overlays == {"NORMAL", "DEGRADED_FEED", "EMERGENCY_STOP"}
NoBars   == [last |-> Never, run |-> 0]

RuntimeInit(start) ==
    /\ overlay = "NORMAL"
    /\ changed = start
    /\ seen = "NONE"
    /\ healthy = Never
    /\ recent = NoBars
    /\ reentered = FALSE

\* A feed status is [connected, last (message), bar (last completed)].
\* A message that never came is infinitely old.
IsStale(status, now)  == status.last = Never \/ now - status.last > Stale
IsHealthy(status, now) == status.connected /\ ~IsStale(status, now)

\* _append_ws_bar_ts: only a later bar counts; one minute later extends the run.
Noted(bars, bar) ==
    CASE bar = Never \/ (bars.last # Never /\ bar <= bars.last) -> bars
      [] bars.last = Never                                      -> [last |-> bar, run |-> 1]
      [] OTHER -> [last |-> bar, run |-> IF bar = bars.last + 1 THEN bars.run + 1 ELSE 1]

\* A reset that keeps the bars of before an outage.
HealthySince_Kept(session, status, now) ==
    IF session # "IN_SESSION" THEN Never
    ELSE IF healthy = Never /\ IsHealthy(status, now) THEN now ELSE healthy
HealthySince(session, status, now) ==
    IF session # "IN_SESSION" \/ ~IsHealthy(status, now) THEN Never
    ELSE IF healthy = Never THEN now ELSE healthy

NotedBars(session, status, now) ==
    IF session # "IN_SESSION" \/ ~IsHealthy(status, now) THEN NoBars
    ELSE Noted(recent, status.bar)

\* _is_ws_recover_stable
IsStable(session, status, now) ==
    LET since == HealthySince(session, status, now)
    IN since # Never /\ now - since >= StableFor
         /\ NotedBars(session, status, now).run >= RequiredBars

Reentered(session) ==
    \/ reentered
    \/ overlay = "DEGRADED_FEED" /\ seen \notin {"NONE", "IN_SESSION"} /\ session = "IN_SESSION"

\* A connection that says nothing taken for a live one.
Degrades_WhenGone(session, status, now, start) ==
    /\ overlay = "NORMAL" /\ session = "IN_SESSION"
    /\ now - start >= Grace /\ IsStale(status, now) /\ ~status.connected
    /\ now - changed >= MinNormal
Degrades(session, status, now, start) ==
    /\ overlay = "NORMAL" /\ session = "IN_SESSION"
    /\ now - start >= Grace /\ IsStale(status, now)
    /\ now - changed >= MinNormal

Recovers(session, status, now) ==
    /\ overlay = "DEGRADED_FEED" /\ session = "IN_SESSION"
    /\ now - changed >= MinDegraded /\ IsStable(session, status, now)
    /\ RecoverPolicy = "auto" \/ Reentered(session)

NextOverlay(session, status, now, start, stop) ==
    CASE overlay = "EMERGENCY_STOP" \/ stop                  -> "EMERGENCY_STOP"
      [] Degrades(session, status, now, start) /\ ~stop      -> "DEGRADED_FEED"
      [] Recovers(session, status, now) /\ ~stop             -> "NORMAL"
      [] OTHER                                               -> overlay

\* evaluate(): every field the evaluation leaves behind.
Evaluate(session, status, now, start, stop) ==
    LET o == NextOverlay(session, status, now, start, stop) IN
    /\ overlay' = o
    /\ changed' = IF o = overlay THEN changed ELSE now
    /\ seen' = session
    /\ healthy' = HealthySince(session, status, now)
    /\ recent' = NotedBars(session, status, now)
    /\ reentered' = IF RecoverPolicy = "next_session" /\ o # overlay /\ o # "EMERGENCY_STOP"
                    THEN FALSE ELSE Reentered(session)

\* The policy of a decision: entries and exits allowed, strategy run, feed, WS on.
Quiet == [entries |-> FALSE, exits |-> FALSE, run |-> FALSE, feed |-> "rest", ws |-> FALSE]

Policy(session, o) ==
    CASE o = "EMERGENCY_STOP"                       -> Quiet
      [] session \in {"OFF_SESSION", "POSTCLOSE"}
         /\ o # "EMERGENCY_STOP"                    -> [Quiet EXCEPT !.ws = OffsessionWs]
      [] session = "PREOPEN_WARMUP"
         /\ o # "EMERGENCY_STOP"                    -> [Quiet EXCEPT !.ws = DefaultFeed = "ws"]
      [] OTHER ->
            [entries |-> session = "IN_SESSION",
             exits   |-> session = "IN_SESSION" \/ AuctionExit,
             run     |-> session = "IN_SESSION" \/ AuctionExit,
             feed    |-> IF o = "NORMAL" THEN DefaultFeed ELSE "rest",
             ws      |-> TRUE]
=============================================================================
