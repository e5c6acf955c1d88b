----------------------------- MODULE MarketFeed -----------------------------
(***************************************************************************)
(* The WebSocket market data of one stock (adapters/kis_ws): the client    *)
(* with its reconnections, the provider with its thread, its messages and  *)
(* its one-minute bars.  One client object serves every thread the         *)
(* provider ever starts, and its _running flag is the only way to stop one.*)
(***************************************************************************)
EXTENDS MarketHours, FiniteSets

CONSTANTS
    Threads,      \* listener threads that may be alive at once
    MaxAttempts,  \* max_reconnect_attempts
    RecvTimeout   \* minutes until a silent socket is given up (90 seconds)

VARIABLES
    thread,    \* place of each thread: none, start, connect, listen, retry
    attempt,   \* reconnections of each thread's run
    running,   \* KISWSClient._running
    quitting,  \* since when running is FALSE
    connected, \* _ws_running and not _ws_failed
    last,      \* time of the last message
    forming,   \* minute of the aggregator's current bar
    bar        \* minute of the last completed bar

feedVars == <<thread, attempt, running, quitting, connected, last, forming, bar>>
conVars  == <<attempt, running, quitting, connected>>
barVars  == <<last, forming, bar>>

Alive == {t \in Threads : thread[t] # "none"}

FeedInit ==
    /\ thread = [t \in Threads |-> "none"]
    /\ attempt = [t \in Threads |-> 0]
    /\ running = FALSE
    /\ quitting = Never
    /\ connected = FALSE
    /\ last = Never /\ forming = Never /\ bar = Never

Status == [connected |-> connected, last |-> last, bar |-> bar]

\* subscribe_bars, after a stop or before the first start: a new thread,
\* whatever the one before is doing.
Subscribe ==
    /\ \E t \in Threads \ Alive : thread' = [thread EXCEPT ![t] = "start"]
    /\ UNCHANGED <<conVars, barVars>>

\* stop(): the flag, and a join of three seconds that may end before the thread.
StopFeed(now) ==
    /\ running' = FALSE
    /\ quitting' = IF running THEN now ELSE quitting
    /\ UNCHANGED <<thread, attempt, connected, barVars>>

\* _run_ws and run() begin: the flag is set for every thread there is.
RunBegins(t) ==
    /\ thread[t] = "start"
    /\ thread' = [thread EXCEPT ![t] = "connect"]
    /\ attempt' = [attempt EXCEPT ![t] = 0]
    /\ running' = TRUE
    /\ quitting' = Never
    /\ connected' = TRUE
    /\ UNCHANGED barVars

\* The thread leaves _run_ws; its finally writes _ws_running for all.
Ends(t) ==
    /\ thread' = [thread EXCEPT ![t] = "none"]
    /\ connected' = FALSE

\* The approval key, the connection and the subscriptions have gone through.
Connect(t) ==
    /\ thread[t] = "connect"
    /\ thread' = [thread EXCEPT ![t] = "listen"]
    /\ UNCHANGED <<conVars, barVars>>

\* A request, the connection or the socket fails, or says nothing for RecvTimeout.
Fail_Endless(t, now) ==
    /\ thread[t] \in {"connect", "listen"}
    /\ attempt' = [attempt EXCEPT ![t] = @ + 1]
    /\ thread' = [thread EXCEPT ![t] = "retry"]
    /\ UNCHANGED <<running, quitting, connected, barVars>>
Fail(t, now) ==
    /\ thread[t] \in {"connect", "listen"}
    /\ IF attempt[t] < MaxAttempts
       THEN /\ attempt' = [attempt EXCEPT ![t] = @ + 1]
            /\ thread' = [thread EXCEPT ![t] = "retry"]
            /\ UNCHANGED <<running, quitting, connected>>
       ELSE /\ running' = FALSE
            /\ quitting' = IF running THEN now ELSE quitting
            /\ Ends(t)
            /\ UNCHANGED attempt
    /\ UNCHANGED barVars

\* After the backoff: again, if the client still runs.
Retry(t) ==
    /\ thread[t] = "retry"
    /\ IF running
       THEN thread' = [thread EXCEPT ![t] = "connect"] /\ UNCHANGED connected
       ELSE Ends(t)
    /\ UNCHANGED <<attempt, running, quitting, barVars>>

\* add_tick: a tick of another minute completes the bar that was forming.
Aggregate_Early(minute) ==
    /\ forming' = minute
    /\ bar' = minute
Aggregate(minute) ==
    /\ forming' = minute
    /\ bar' = IF forming \in {Never, minute} THEN bar ELSE forming

\* A tick of this minute, or of the one before that is late, arrives.  One
\* listener hears them in order.  A stopped client returns after it.
Receive(t, now, minute) ==
    /\ thread[t] = "listen"
    /\ minute \in {now - 1, now}
    /\ forming # Never /\ Cardinality(Alive) = 1 => minute >= forming
    /\ last' = now
    /\ Aggregate(minute)
    /\ IF running
       THEN UNCHANGED <<thread, connected>>
       ELSE Ends(t)
    /\ UNCHANGED <<attempt, running, quitting>>

\* A started thread begins at once; one of a stopped client is out of its recv
\* or its backoff in time.
InTime(now) ==
    /\ \A t \in Threads : thread[t] # "start"
    /\ ~running /\ Alive # {} => now - quitting < RecvTimeout
=============================================================================
