------------------------------ MODULE Universe ------------------------------
(***************************************************************************)
(* universe/universe_service.py: which stocks are bought today, ranked,    *)
(* kept in a cache file for the day, and which stocks are held.            *)
(***************************************************************************)
EXTENDS Integers, FiniteSets, Sequences, SequencesExt

CONSTANTS
    Symbols,
    UniverseSize,
    MaxPositions,
    FixedStocks    \* stocks of the yaml file, a sequence

Lists == UNION {{l \in [1 .. n -> Symbols] : IsInjective(l)} : n \in 0 .. UniverseSize}

HoldingsOf_Account(account, answers, files) == IF answers THEN account ELSE {}
\* The balance of the account, if it answers, and the position files.
HoldingsOf(account, answers, files) == (IF answers THEN account ELSE {}) \cup files

Cached(cache, day) == cache.day = day
NoCache == [day |-> -1, list |-> <<>>]

Fallback_Whole == FixedStocks
\* A selection that fails is replaced by the fixed stocks.
Fallback == SubSeq(FixedStocks, 1, IF Len(FixedStocks) < UniverseSize
                                   THEN Len(FixedStocks) ELSE UniverseSize)

\* get_or_create_todays_universe: the cache of the day, or what the selector
\* chooses now, saved either way.
TodaysUniverse_Unsaved(cache, day) ==
    IF Cached(cache, day) THEN {cache}
    ELSE {[day |-> day, list |-> l] : l \in Lists} \cup {[day |-> -1, list |-> Fallback]}
TodaysUniverse(cache, day) ==
    IF Cached(cache, day) THEN {cache}
    ELSE {[day |-> day, list |-> l] : l \in Lists \cup {Fallback}}

Capacity(holdings) ==
    IF Cardinality(holdings) < MaxPositions THEN MaxPositions - Cardinality(holdings) ELSE 0

\* compute_entry_candidates: the places of the ranking whose stock nobody holds.
Unheld(universe, holdings) == {i \in DOMAIN universe : universe[i] \notin holdings}

\* limit_entry_candidates, the first of those, and the stocks it cuts off.
EntryCandidates(universe, holdings) ==
    LET places  == Unheld(universe, holdings)
        rank(i) == Cardinality({j \in places : j < i})
    IN  {universe[i] : i \in {j \in places : rank(j) < Capacity(holdings)}}
CutOff(universe, holdings) ==
    {universe[i] : i \in Unheld(universe, holdings)} \ EntryCandidates(universe, holdings)
=============================================================================
