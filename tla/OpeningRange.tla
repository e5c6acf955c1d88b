---------------------------- MODULE OpeningRange ----------------------------
(***************************************************************************)
(* The opening-range breakout (strategy/opening_range_breakout.py) is      *)
(* decided twice: evaluate for an executor without a pipeline, and, in a   *)
(* pipeline, evaluate_setup_candidate by the setup worker, confirm_timing  *)
(* by the timing worker and both once more by the order worker             *)
(* (engine/strategy_pipeline_registry.py,                                  *)
(* engine/pullback_pipeline_workers.py).  Time is in minutes since the     *)
(* open, prices are steps around the range.                                *)
(***************************************************************************)
EXTENDS Integers, Sequences, SequencesExt, FiniteSetsExt

CONSTANTS
    NoCandidate,         \* no candidate
    Levels, QuotePrices, \* prices of the bars, and of the quotes (a bound)
    RangeBars,      \* ORB_OPENING_RANGE_MINUTES
    EntryStart,     \* ORB_ENTRY_START_MINUTES, or the opening guard's
    Cutoff,         \* ORB_ENTRY_CUTOFF_MINUTES
    StaleAfter,     \* the age at which the last bar is stale
    TimingBars,     \* how many bars the timing worker fetches
    Extension, Band, Recent,    \* ORB_MAX_EXTENSION, ORB_REARM_BAND, lookback
    LastMinute      \* bound

\* What the constants are; Components assumes it of its settings.
RangeData ==
    /\ Levels \subseteq Nat /\ QuotePrices \subseteq Nat
    /\ {RangeBars, TimingBars, Recent} \subseteq Nat \ {0}
    /\ {EntryStart, Cutoff, StaleAfter, Extension, Band, LastMinute} \subseteq Nat

VARIABLES
    minute,
    bars,       \* completed one-minute bars since the open, of this process
    quote,      \* the latest price and its minute
    ready,      \* the stream is connected
    obstacle,   \* what the day, the account or the market has against an entry
    setup,      \* the candidate in the store: Nobody, or its high and expiry
    intent,     \* an intent waits in the queue
    order       \* what the order worker made of the last one

rangeVars == <<minute, bars, quote, ready, obstacle, setup, intent, order>>

\* Which check each obstacle meets: prices of the day before, trend and ADX are
\* "daily"; the opening gap is "gap"; a regime that is BAD and not stale "regime".
Obstacles == {"none", "position", "pending", "phase", "regime", "daily", "gap"}
MetBySetup  == Obstacles \ {"none"}
MetByTiming == {"position", "pending", "phase"}

OpensAt  == Max({RangeBars, EntryStart})
ClosesAt  == Max({Cutoff, OpensAt})
InWindow == minute >= OpensAt /\ minute <= ClosesAt

Oldest(n, s) == SubSeq(s, 1, IF n < Len(s) THEN n ELSE Len(s))
Newest(n, s) == SubSeq(s, IF n < Len(s) THEN Len(s) - n + 1 ELSE 1, Len(s))

\* The high of the first bars there are, whatever minutes they are of.
RangeHigh == Max({b.high : b \in ToSet(Oldest(RangeBars, bars))})

\* _resolve_intraday_source_state, of the bars that were fetched.
FreshBars(s, now) ==
    ready /\ Len(s) >= RangeBars /\ now - s[Len(s)].at <= StaleAfter

\* _compute_vwap with volumes alike and no lows below the close.
BelowVwap(s) ==
    LET Turnover[i \in 0 .. Len(s)] ==
            IF i = 0 THEN 0 ELSE Turnover[i - 1] + s[i].high + s[i].close
    IN  Len(s) > 0 /\ quote.price * 2 * Len(s) < Turnover[Len(s)]

\* A breakout is fresh while one of the last closes is near the range.
FreshBreakout(high, s) ==
    \E b \in ToSet(Newest(Recent, s)) : b.close <= high + Band

BreaksOut(high, s) ==
    /\ quote.price > high
    /\ quote.price <= high + Extension
    /\ FreshBreakout(high, s)
    /\ ~BelowVwap(s)
-----------------------------------------------------------------------------
\* evaluate: needs no stream, and bars of any age.
Inline ==
    /\ obstacle \notin MetBySetup
    /\ Len(bars) >= RangeBars
    /\ InWindow
    /\ BreaksOut(RangeHigh, bars)

\* evaluate_setup_candidate.
SetsUp == obstacle \notin MetBySetup /\ FreshBars(bars, minute) /\ InWindow
Candidate == [high |-> RangeHigh, expires |-> ClosesAt]

\* confirm_timing, of a candidate and the bars at hand, at a time.
InTime(c, s, now) == c.expires > now /\ obstacle \notin MetByTiming /\ FreshBars(s, now)
Confirms_Anyhow(c, s, now) == InTime(c, s, now) /\ quote.price > c.high
Confirms(c, s, now) == InTime(c, s, now) /\ BreaksOut(c.high, s)
-----------------------------------------------------------------------------
RangeInit ==
    /\ minute = 0 /\ bars = <<>> /\ quote \in [price : QuotePrices, at : {0}] /\ ready = TRUE
    /\ obstacle = "none" /\ setup = NoCandidate /\ intent = FALSE /\ order = "none"

Bars == {b \in [at : {minute}, high : Levels, close : Levels] : b.close <= b.high}

\* A minute: a bar completes if there was a trade and the stream was up.
MinutePasses ==
    /\ minute < LastMinute /\ minute' = minute + 1
    /\ bars' \in {bars} \cup (IF ready THEN {Append(bars, b) : b \in Bars} ELSE {})
    /\ quote' \in {quote} \cup [price : QuotePrices, at : {minute'}]
    /\ order' = "none"
    /\ UNCHANGED <<ready, obstacle, setup, intent>>

MarketChanges ==
    /\ obstacle' \in Obstacles /\ ready' \in BOOLEAN
    /\ obstacle = "none" \/ obstacle' = "none"
    /\ order' = "none"
    /\ UNCHANGED <<minute, bars, quote, setup, intent>>

\* The setup worker, _process_shadow_strategy_setup, through its adapter.
SetupOf == IF SetsUp THEN Candidate ELSE NoCandidate
SetupRuns ==
    /\ setup' = SetupOf
    /\ UNCHANGED <<minute, bars, quote, ready, obstacle, intent, order>>

\* The timing worker, _process_shadow_strategy_timing: at the time of the quote,
\* and on the few bars that were fetched for the pullback strategy.
TimingOf(c) == Confirms(c, Newest(TimingBars, bars), quote.at)
TimingRuns ==
    /\ setup # NoCandidate /\ ~intent /\ TimingOf(setup)
    /\ intent' = TRUE
    /\ UNCHANGED <<minute, bars, quote, ready, obstacle, setup, order>>

\* The order worker decides anew, on all the bars: _execute_orb_entry_intent.
OrderRuns ==
    /\ intent /\ intent' = FALSE
    /\ order' = IF SetsUp /\ Confirms(Candidate, bars, minute) THEN "sent" ELSE "refused"
    /\ UNCHANGED <<minute, bars, quote, ready, obstacle, setup>>

\* A restart: bars, candidates and intents are gone.
BarsAreLost ==
    /\ bars # <<>> /\ bars' = <<>> /\ setup' = NoCandidate /\ intent' = FALSE /\ order' = "none"
    /\ UNCHANGED <<minute, quote, ready, obstacle>>

RangeNext ==
    \/ MinutePasses \/ MarketChanges \/ SetupRuns \/ TimingRuns \/ OrderRuns \/ BarsAreLost
-----------------------------------------------------------------------------
RangeTypes ==
    /\ minute \in 0 .. LastMinute /\ quote \in [price : QuotePrices, at : 0 .. LastMinute] /\ ready \in BOOLEAN
    /\ obstacle \in Obstacles /\ intent \in BOOLEAN
    /\ bars \in Seq([at : 0 .. LastMinute, high : Levels, close : Levels])
    /\ setup \in [high : Levels, expires : Nat] \cup {NoCandidate}
    /\ order \in {"none", "sent", "refused"}

\* The two ways to decide agree: what the pipeline orders, having looked at the
\* breakout three times in different minutes and on different bars, evaluate
\* would buy in the minute of the order.
PathsAgree == order = "sent" => Inline
=============================================================================
