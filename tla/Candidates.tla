----------------------------- MODULE Candidates -----------------------------
(***************************************************************************)
(* The setups of the pullback strategy for one stock, from the daily data  *)
(* to the order: DailyRefreshThread keeps the data, the setup worker arms  *)
(* a candidate, the timing worker makes an intent of it, the order worker  *)
(* acts on the intent, the health monitor removes what has expired and     *)
(* degrades the pipeline, and the persistence thread writes snapshots that *)
(* the next process starts from (engine/pullback_pipeline_workers.py,      *)
(* pullback_pipeline_stores.py, strategy_pipeline_health.py and            *)
(* strategy_pipeline_persistence.py).  The queue between timing and order  *)
(* worker and their threads' ends are the matter of EntryPipeline.         *)
(***************************************************************************)
EXTENDS Integers

CONSTANTS
    NoSetup,
    SetupLife,     \* the life of a candidate
    DataLife,      \* DAILY_CONTEXT_STALE_SEC
    SnapshotLife,  \* PIPELINE_CANDIDATE_MAX_RECOVER_AGE_SEC
    EntryTime,     \* the longest time from the precheck of an intent to its order
    Session,       \* the part of a day in which the market is open
    DayLength,
    LastTime       \* the clock stops there (a bound)

\* What the constants are; Components assumes it of its settings.  A candidate
\* lives for twice the refresh period, by default two minutes, and so, with the
\* minutes its order may take, not from one session into the next
\* (_setup_expiry_at of pullback_rebreakout.py).
SetupTimes ==
    /\ {SetupLife, DataLife, SnapshotLife, EntryTime, LastTime} \subseteq Nat
    /\ Session \in Nat /\ DayLength \in Nat \ {0}
    /\ SetupLife + EntryTime + Session <= DayLength

VARIABLES
    clock,
    refreshing,  \* ENABLE_PULLBACK_DAILY_REFRESH_THREAD
    daily,       \* the stock's context in DailyContextStore
    quoteAt,     \* when the cached quote was received
    armed,       \* the candidate in ArmedCandidateStore
    looking,     \* the candidate and the time of the quote the timing worker took
    waiting,     \* the setup of the intent, in the queue or with the order worker
    buying,      \* how far the order worker is with it, and the time since its precheck
    busy,        \* the stock is held, or a BUY of it is unfinished
    degraded,    \* DegradedModeController
    file,        \* the candidate snapshot on disk
    kept,        \* the process's RecoveryResult
    life         \* the process: down, booted, and up once the pipeline runs

data      == <<daily, quoteAt>>
entries   == <<looking, waiting, buying>>
disk      == <<file, kept>>
setupVars == <<clock, refreshing, data, armed, entries, busy, degraded, disk, life>>

Day(t)    == t \div DayLength
InSession == clock % DayLength < Session
Never     == 0 - 1
NoDaily   == [at |-> Never, day |-> Never]
Setup     == [made : 0 .. LastTime, data : 0 .. LastTime]
Nobody    == [setup |-> NoSetup, quote |-> Never]
Expiry(s) == s.made + SetupLife
NotYet    == [at |-> "queue", since |-> 0]

SetupInit ==
    /\ clock = 0 /\ refreshing \in BOOLEAN
    /\ daily = NoDaily /\ quoteAt = Never /\ armed = NoSetup
    /\ looking = Nobody /\ waiting = NoSetup /\ buying = NotYet
    /\ busy = FALSE /\ degraded = FALSE
    /\ file = [at |-> Never, setup |-> NoSetup]
    /\ kept = NoSetup /\ life = "down"
-----------------------------------------------------------------------------
(***************************************************************************)
(* The data.  Their versions are not kept: any candidate may turn out to   *)
(* be of another version than the data the executor has now.               *)
(***************************************************************************)
\* DailyRefreshThread: the latest bar may still be that of the day before.
Refresh ==
    /\ life = "up" /\ refreshing
    /\ \E day \in {Day(clock), Day(clock) - 1} : daily' = [at |-> clock, day |-> day]
    /\ UNCHANGED <<clock, refreshing, quoteAt, armed, entries, busy, degraded, disk, life>>

\* A quote, of the feed or of the main loop.
QuoteArrives ==
    /\ life = "up" /\ quoteAt' = clock
    /\ UNCHANGED <<clock, refreshing, daily, armed, entries, busy, degraded, disk, life>>

\* get_validated
Valid == daily.day = Day(clock) /\ clock - daily.at <= DataLife

\* _run_cycle of the setup worker: it arms a candidate, or disarms the last
\* one: for want of usable data or because the strategy sees no setup.
Armable  == quoteAt # Never /\ (refreshing => Valid) /\ InSession /\ ~busy
NewSetup == [made |-> clock, data |-> IF refreshing THEN daily.at ELSE clock]
Arms ==
    /\ life = "up" /\ ~degraded
    /\ Armable /\ armed' = NewSetup
    /\ UNCHANGED <<clock, refreshing, data, entries, busy, degraded, disk, life>>
Disarms ==
    /\ life = "up" /\ ~degraded /\ armed # NoSetup /\ armed' = NoSetup
    /\ UNCHANGED <<clock, refreshing, data, entries, busy, degraded, disk, life>>
-----------------------------------------------------------------------------
(***************************************************************************)
(* The entry.                                                              *)
(***************************************************************************)
\* A pass of the timing worker; in the degraded mode it looks at nothing.
Takes ==
    /\ life = "up" /\ looking = Nobody /\ armed # NoSetup
    /\ quoteAt # Never /\ ~busy /\ ~degraded
    /\ looking' = [setup |-> armed, quote |-> quoteAt]
    /\ UNCHANGED <<clock, refreshing, data, armed, waiting, buying, busy, degraded, disk, life>>

\* confirm_timing goes by the time of the quote; a candidate that is obsolete
\* disarms whatever is armed by now.
Obsolete == Expiry(looking.setup) <= looking.quote \/ ~InSession
Admits == ~degraded /\ waiting = NoSetup
Judges ==
    /\ looking # Nobody /\ looking' = Nobody
    /\ \/ armed' = NoSetup /\ UNCHANGED waiting
       \/ UNCHANGED <<armed, waiting>>
       \/ ~Obsolete /\ Admits /\ waiting' = looking.setup /\ UNCHANGED armed
    /\ UNCHANGED <<clock, refreshing, data, buying, busy, degraded, disk, life>>

\* _common_precheck: the only look at the candidate's expiry.
Refused_AtAnyAge(s) == busy
Refused(s) == Expiry(s) <= clock \/ busy
Prechecks ==
    /\ waiting # NoSetup /\ buying = NotYet /\ ~Refused(waiting)
    /\ buying' = [at |-> "prechecked", since |-> 0]
    /\ UNCHANGED <<clock, refreshing, data, armed, looking, waiting, busy, degraded, disk, life>>

\* _execute_pullback_entry_intent: a quote and the daily data are fetched, and
\* the strategy is asked once more, in session, as if there were no candidate.
EvaluatesAgain ==
    /\ buying.at = "prechecked" /\ InSession /\ ~busy
    /\ buying' = [buying EXCEPT !.at = "evaluated"]
    /\ UNCHANGED <<clock, refreshing, data, armed, looking, waiting, busy, degraded, disk, life>>

\* execute_buy, whose own checks are the matter of EntryChecks and OrderSync.
Orders ==
    /\ buying.at = "evaluated" /\ buying' = [at |-> "ordered", since |-> 0]
    /\ UNCHANGED <<clock, refreshing, data, armed, looking, waiting, busy, degraded, disk, life>>

\* Whatever comes of the intent, its candidate is disarmed in the end.
Completes ==
    /\ waiting # NoSetup /\ waiting' = NoSetup /\ buying' = NotYet /\ armed' = NoSetup
    /\ busy' \in {busy, busy \/ buying.at = "ordered"}
    /\ UNCHANGED <<clock, refreshing, data, looking, degraded, disk, life>>

\* The main loop buys and sells as well, and the broker finishes orders.
BusyChanges ==
    /\ busy' = ~busy
    /\ UNCHANGED <<clock, refreshing, data, armed, entries, degraded, disk, life>>

\* The health monitor: a worker that stalls degrades the pipeline for a time;
\* now and then cleanup_threaded_pipeline_state pops what has expired.
Degrades == degraded' \in BOOLEAN
Cleans   == armed # NoSetup /\ Expiry(armed) <= clock /\ armed' = NoSetup
Monitors ==
    /\ life = "up" /\ Degrades
    /\ Cleans \/ UNCHANGED armed
    /\ UNCHANGED <<clock, refreshing, data, entries, busy, disk, life>>
-----------------------------------------------------------------------------
(***************************************************************************)
(* The snapshots, the end of a process and the start of the next.          *)
(***************************************************************************)
Snapshot == [at |-> clock, setup |-> armed]
Saves ==
    /\ life = "up" /\ file' = Snapshot
    /\ UNCHANGED <<clock, refreshing, data, armed, entries, busy, degraded, kept, life>>

\* A crash, or an orderly end.
Ends ==
    /\ life # "down" /\ life' = "down"
    /\ daily' = NoDaily /\ quoteAt' = Never /\ armed' = NoSetup
    /\ looking' = Nobody /\ waiting' = NoSetup /\ buying' = NotYet
    /\ degraded' = FALSE /\ kept' = NoSetup
    /\ UNCHANGED <<clock, refreshing, busy, file>>

\* load_recovery_state, once in a process.
Recoverable(s) ==
    /\ s # NoSetup
    /\ Day(file.at) = Day(clock) /\ Day(s.made) = Day(clock)
    /\ Expiry(s) > clock /\ clock - file.at <= SnapshotLife
    /\ ~busy
Recovery == IF Recoverable(file.setup) THEN file.setup ELSE NoSetup
Boots ==
    /\ life = "down" /\ life' = "booted"
    /\ kept' = Recovery
    /\ UNCHANGED <<clock, refreshing, data, armed, entries, busy, degraded, file>>

\* The stock's executor starts its pipeline with what was recovered at the
\* boot: at once, or days later when the stock joins the universe.
Starts ==
    /\ life = "booted" /\ life' = "up"
    /\ armed' = kept    \* _apply_persisted_pipeline_recovery
    /\ quoteAt' \in {Never, clock}
    /\ UNCHANGED <<clock, refreshing, daily, entries, busy, degraded, disk>>

\* From its precheck an intent is ordered or dropped within EntryTime.
Underway == buying.at \in {"prechecked", "evaluated"}
Ticks ==
    /\ clock < LastTime /\ clock' = clock + 1
    /\ IF Underway THEN /\ buying.since < EntryTime
                        /\ buying' = [buying EXCEPT !.since = @ + 1]
       ELSE UNCHANGED buying
    /\ UNCHANGED <<refreshing, data, armed, looking, waiting, busy, degraded, disk, life>>

SetupNext ==
    \/ Refresh \/ QuoteArrives \/ Arms \/ Disarms
    \/ Takes \/ Judges \/ Prechecks \/ EvaluatesAgain \/ Orders \/ Completes \/ BusyChanges \/ Monitors
    \/ Saves \/ Ends \/ Boots \/ Starts \/ Ticks
-----------------------------------------------------------------------------
SetupTypes ==
    /\ clock \in 0 .. LastTime /\ refreshing \in BOOLEAN
    /\ daily \in [at : Never .. LastTime, day : Never .. Day(LastTime)]
    /\ quoteAt \in Never .. LastTime
    /\ {armed, looking.setup, waiting, file.setup, kept} \subseteq Setup \cup {NoSetup}
    /\ buying \in [at : {"queue", "prechecked", "evaluated", "ordered"}, since : 0 .. EntryTime]
    /\ {busy, degraded} \subseteq BOOLEAN
    /\ life \in {"down", "booted", "up"}

\* A pullback BUY is placed on a setup that was alive when its order began, that
\* is, not after its expiry by more than EntryTime, that was made today, and from
\* data not too old for it: whatever quote confirmed it, however long its intent
\* waited and whichever process armed it.
BuysOnCurrentSetup ==
    buying.at = "evaluated" /\ buying'.at = "ordered"
        => /\ clock < Expiry(waiting) + buying.since /\ Day(waiting.made) = Day(clock)
           /\ waiting.made - waiting.data <= DataLife
=============================================================================
