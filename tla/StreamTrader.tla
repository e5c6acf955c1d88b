---------------------------- MODULE StreamTrader ----------------------------
(***************************************************************************)
(* The streaming trader of kis_websocket_trader: it subscribes to the      *)
(* stocks of universe.json, follows their prices, and takes each through   *)
(* WAIT, ENTERED and EXITED once (strategy.py), between reconnections of   *)
(* its stream (websocket_client.py), the end of the day and a signal       *)
(* (main.py).  It sends messages, never an order.  The coroutines of one   *)
(* event loop interleave only where they await.  The service at the other  *)
(* end of the stream is external.                                          *)
(***************************************************************************)
EXTENDS Integers, FiniteSets

CONSTANTS
    Watchable, Items,               \* stocks, and what the file may say of one
    TickPrices,                     \* a bound
    Shapes,                     \* the messages' shapes: fields between | and ^
    EntryStart, EntryEnd, CloseTime,
    MaxReconnects,              \* WS_MAX_RECONNECT_ATTEMPTS
    LastMinute                  \* a bound

\* The file names a number of stocks; Components assumes it of its settings.
StreamData == IsFiniteSet(Watchable) /\ MaxReconnects \in Nat

VARIABLES
    universe,   \* universe.json: a function on some stocks, or none
    minute,
    up,         \* TradingController._is_running
    running,    \* KISWebSocketClient._is_running
    stage,      \* of main: new, connecting, receiving, backoff, closing, done
    timer,      \* the task of _time_check_loop
    attempts,   \* _reconnect_count
    pending, subscribed,    \* _pending_subscribe, _subscribed_codes
    wire,       \* what the service sends on the connection of this moment
    allowed,    \* entry_allowed
    state,      \* the positions: WAIT, ENTERED or EXITED
    counts,     \* _stats
    reports     \* closing messages

streamVars == <<universe, minute, up, running, stage, timer, attempts, pending,
                subscribed, wire, allowed, state, counts, reports>>

StreamInit ==
    /\ universe \in UNION {[S -> Items] : S \in SUBSET Watchable}
    /\ minute = 0 /\ up = FALSE /\ running = FALSE /\ stage = "new" /\ timer = FALSE
    /\ attempts = 0 /\ pending = {} /\ subscribed = {} /\ wire = {} /\ allowed = TRUE
    /\ state = <<>> /\ counts = [entry |-> 0, stop |-> 0, take |-> 0] /\ reports = 0
-----------------------------------------------------------------------------
(***************************************************************************)
(* The strategy.                                                           *)
(***************************************************************************)
\* StockPosition.__post_init__, and load_universe_from_json, which passes over
\* an item that it refuses; a stop or a target on the wrong side of the entry
\* price is only warned of.
Legal(i) == i.entry > 0 /\ i.stop > 0 /\ i.take > 0
Loaded   == {c \in DOMAIN universe : Legal(universe[c])}

IsEntryAllowed == EntryStart <= minute /\ minute <= EntryEnd
IsCloseTime    == minute >= CloseTime
UpdateEntryPermission == allowed' = IsEntryAllowed

Breaks(c, p)  == state[c] = "WAIT" /\ IsEntryAllowed /\ p >= universe[c].entry
StopReached(c, p) == state[c] = "ENTERED" /\ p <= universe[c].stop
Targets(c, p) == state[c] = "ENTERED" /\ p > universe[c].stop /\ p >= universe[c].take

\* _handle_entry_signal, _handle_stop_loss_signal, _handle_take_profit_signal.
EntersStock(c) == state' = [state EXCEPT ![c] = "ENTERED"]
ExitsStock_ToWait(c) == state' = [state EXCEPT ![c] = "WAIT"]
ExitsStock(c)  == state' = [state EXCEPT ![c] = "EXITED"]
Counts(kind) == counts' = [counts EXCEPT ![kind] = @ + 1]

\* check_signal and on_price_update.
PriceUpdate(c, p) ==
    /\ UpdateEntryPermission
    /\ IF c \notin DOMAIN state THEN UNCHANGED <<state, counts>>
       ELSE \/ Breaks(c, p) /\ EntersStock(c) /\ Counts("entry")
            \/ StopReached(c, p) /\ ExitsStock(c) /\ Counts("stop")
            \/ Targets(c, p) /\ ExitsStock(c) /\ Counts("take")
            \/ /\ ~Breaks(c, p) /\ ~StopReached(c, p) /\ ~Targets(c, p)
               /\ UNCHANGED <<state, counts>>
-----------------------------------------------------------------------------
(***************************************************************************)
(* The stream.                                                             *)
(***************************************************************************)
\* subscribe.
Subscribes(S) == pending' = pending \union (S \ subscribed)

\* _subscribe_pending: a request that fails counts as one that arrived, and a
\* stock of an earlier connection is not asked for again.
SubscribePending ==
    /\ \E sent \in SUBSET pending : wire' = sent
    /\ subscribed' = subscribed \union pending
    /\ pending' = {}

\* _parse_message.
Parses(shape, c) == shape.bars >= 13 /\ shape.carets >= 13 /\ c \in subscribed

\* connect, when the approval key and the connection are obtained.
Connects == attempts' = 0 /\ stage' = "receiving" /\ SubscribePending
FailsToConnect(n) ==
    attempts' = n /\ stage' = "backoff" /\ wire' = {} /\ UNCHANGED <<pending, subscribed>>

FirstConnects ==
    /\ stage = "connecting"
    /\ Connects \/ FailsToConnect(attempts)
    /\ UNCHANGED <<universe, minute, up, running, timer, allowed, state, counts, reports>>

\* _reconnect, one attempt after its wait.
Reconnects ==
    /\ stage = "backoff" /\ running /\ attempts < MaxReconnects
    /\ Connects \/ FailsToConnect(attempts + 1)
    /\ UNCHANGED <<universe, minute, up, running, timer, allowed, state, counts, reports>>

\* It gives up, or sees after its wait that it was stopped.
GivesUp ==
    /\ stage = "backoff" /\ (~running \/ attempts = MaxReconnects)
    /\ stage' = "closing" /\ running' = FALSE
    /\ UNCHANGED <<universe, minute, up, timer, attempts, pending, subscribed, wire,
                   allowed, state, counts, reports>>

\* _handle_message, in run: one more message is served after a stop.
Receives ==
    /\ stage = "receiving"
    /\ \E c \in wire, p \in TickPrices, shape \in Shapes :
          IF Parses(shape, c) THEN PriceUpdate(c, p) ELSE UNCHANGED <<allowed, state, counts>>
    /\ stage' = IF running THEN "receiving" ELSE "closing"
    /\ UNCHANGED <<universe, minute, up, running, timer, attempts, pending, subscribed,
                   wire, reports>>

\* Silence for three pings, an error, or a close by the service.
Drops ==
    /\ stage = "receiving"
    /\ stage' \in {"backoff", "closing"} /\ wire' = {}
    /\ running' = (running /\ stage' = "backoff")
    /\ UNCHANGED <<universe, minute, up, timer, attempts, pending, subscribed, allowed,
                   state, counts, reports>>
-----------------------------------------------------------------------------
(***************************************************************************)
(* The controller.                                                         *)
(***************************************************************************)
LoadUniverse == state' = [c \in Loaded |-> "WAIT"]

\* start: with nothing to watch it returns, without a word.
StreamStarts ==
    /\ stage = "new" /\ up' = TRUE
    /\ LoadUniverse
    /\ IF Loaded = {} THEN stage' = "done" /\ UNCHANGED <<pending, timer, running>>
       ELSE /\ stage' = "connecting" /\ timer' = TRUE /\ running' = TRUE
            /\ Subscribes(Loaded)
    /\ UNCHANGED <<universe, minute, attempts, subscribed, wire, allowed, counts, reports>>

\* stop: only the first one speaks.
Stop ==
    /\ up' = FALSE
    /\ running' = (running /\ ~up)
    /\ reports' = IF up THEN reports + 1 ELSE reports

\* _time_check_loop, once a minute.
ChecksTime ==
    /\ timer
    /\ IF up THEN UpdateEntryPermission /\ timer' = ~IsCloseTime
             ELSE timer' = FALSE /\ UNCHANGED allowed
    /\ IF up /\ IsCloseTime THEN Stop ELSE UNCHANGED <<up, running, reports>>
    /\ UNCHANGED <<universe, minute, stage, attempts, pending, subscribed, wire, state, counts>>

\* The end of run: start goes on to cancel the task and to stop.
StreamEnds ==
    /\ stage = "closing"
    /\ stage' = "done" /\ timer' = FALSE /\ Stop
    /\ UNCHANGED <<universe, minute, attempts, pending, subscribed, wire, allowed, state, counts>>

\* signal_handler.
Signalled ==
    /\ stage \notin {"new", "done"} /\ (up \/ running)
    /\ up' = FALSE /\ running' = FALSE
    /\ UNCHANGED <<universe, minute, stage, timer, attempts, pending, subscribed, wire,
                   allowed, state, counts, reports>>

MinutePasses ==
    /\ minute < LastMinute /\ minute' = minute + 1
    /\ UNCHANGED <<universe, up, running, stage, timer, attempts, pending, subscribed, wire,
                   allowed, state, counts, reports>>

StreamNext ==
    \/ StreamStarts \/ FirstConnects \/ Reconnects \/ GivesUp \/ Receives \/ Drops
    \/ ChecksTime \/ StreamEnds \/ Signalled \/ MinutePasses
-----------------------------------------------------------------------------
StreamTypes ==
    /\ stage \in {"new", "connecting", "receiving", "backoff", "closing", "done"}
    /\ {up, running, timer, allowed} \subseteq BOOLEAN
    /\ attempts \in 0 .. MaxReconnects
    /\ {pending, subscribed, wire} \subseteq SUBSET Watchable
    /\ \A c \in DOMAIN state : state[c] \in {"WAIT", "ENTERED", "EXITED"}

In(S) == Cardinality({c \in DOMAIN state : state[c] \in S})

(***************************************************************************)
(* However the stream breaks and whoever stops the program, the closing    *)
(* report's counts are those of the stocks, each entered once and left     *)
(* once, and it is sent at most once.  A connection that brings any price  *)
(* brings those of every stock entered, whose stops hang on them: a stock  *)
(* is never lost singly.  (A connection after the first brings none.)      *)
(***************************************************************************)
ReportTellsTheDay ==
    /\ counts.entry = In({"ENTERED", "EXITED"})
    /\ counts.stop + counts.take = In({"EXITED"})
    /\ reports <= 1
    /\ wire # {} => \A c \in DOMAIN state : state[c] = "ENTERED" => c \in wire
=============================================================================
