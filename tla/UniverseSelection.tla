-------------------------- MODULE UniverseSelection --------------------------
(***************************************************************************)
(* universe/universe_selector.py: the choice of the day's stocks from what *)
(* the market shows (trade value, filters, volatility, trend), with places *)
(* reserved for stocks and for ETFs, the cache it is read back from during *)
(* the session, and the fixed list it falls back to.  What the service     *)
(* does with the list is in Universe.  The market and the broker's answers *)
(* are external.                                                           *)
(***************************************************************************)
EXTENDS Integers, SequencesExt

CONSTANTS
    Codes, Etfs, Listing,           \* what lists may hold; ETFs; the market's stocks
    Quotes,                         \* what the market may show of a stock
    Seed, Candidates, Stocks,       \* the lists of codes: index, yaml, fixed
    Configs,                        \* the settings of universe.yaml
    MaxStocks, VolumeTopN, MarketScanSize, StockQuota, EtfQuota,
    Opening, Closing, FinalMinute, FinalDate    \* the last two are bounds

\* What the constants are; Components assumes it of its settings.  The loader of
\* the seed drops what it has twice.
SelectionData ==
    /\ IsFiniteSet(Codes)
    /\ {Seed, Candidates, Stocks, Listing} \subseteq Seq(Codes)
    /\ IsInjective(Seed) /\ IsInjective(Listing)
    /\ {MaxStocks, VolumeTopN, MarketScanSize, StockQuota, EtfQuota} \subseteq Nat
    /\ {FinalMinute, FinalDate} \subseteq Nat
    /\ \A q \in Quotes : {q.value, q.score} \subseteq Int

VARIABLES
    config, market,     \* UniverseSelectionConfig; code -> quote
    date, minute,
    cacheFile,          \* universe_cache.json
    selected            \* what select has just returned, and whence

selectionVars == <<config, market, date, minute, cacheFile, selected>>

Quoted   == ToSet(Listing)    \* what is no code has no quote
NoList   == <<>>
NoAnswer == [list |-> NoList, from |-> "none", pool |-> {}]
SelectionInit ==
    /\ config \in Configs /\ market \in [Quoted -> Quotes]
    /\ date = 0 /\ minute = 0
    /\ cacheFile = [day |-> -1, list |-> NoList, base |-> "none", opened |-> FALSE, saved |-> 0]
    /\ selected = NoAnswer
-----------------------------------------------------------------------------
(***************************************************************************)
(* Lists, without SelectSeq and SortSeq, of which the proofs know nothing. *)
(***************************************************************************)
First(s, n)  == SubSeq(s, 1, IF n < Len(s) THEN n ELSE Len(s))
Most(x, y)   == IF x > y THEN x ELSE y
Least(x, y)  == IF x < y THEN x ELSE y

\* What s has at the places D, by their rank.
Arranged(s, D, rank) == [i \in 1 .. Cardinality(D) |-> s[CHOOSE p \in D : rank[p] = i]]
InOrder(s, D)    == Arranged(s, D, [p \in D |-> Cardinality({q \in D : q <= p})])
Among(s, S)      == InOrder(s, {p \in DOMAIN s : s[p] \in S})
Deduped(s)       == InOrder(s, {p \in DOMAIN s : \A q \in 1 .. p - 1 : s[q] # s[p]})
\* The highest key first, equals in their order.
SortedBy(s, key) ==
    Arranged(s, DOMAIN s, [p \in DOMAIN s |->
        Cardinality({q \in DOMAIN s : \/ key[s[q]] > key[s[p]]
                                      \/ key[s[q]] = key[s[p]] /\ q <= p})])

\* _finalize; it raises where this is empty.
Finalized(s) == First(Among(Deduped(s), Quoted), MaxStocks)

Value == [c \in DOMAIN market |-> market[c].value]
Score == [c \in DOMAIN market |-> market[c].score]
-----------------------------------------------------------------------------
(***************************************************************************)
(* The filters.                                                            *)
(***************************************************************************)
PassesSafetyFilters(c) == market[c].safe
\* _atr_ratio_pct_from_df: no ratio of a short history; else it is within bounds.
Fits(c) == market[c].atr = "within"
Safe    == {c \in Quoted : PassesSafetyFilters(c)}
Fitting == {c \in Quoted : Fits(c)}

\* get_market_top_by_trade_value, when the server has it.
TopByTradeValue(n) == First(SortedBy(Listing, Value), n)

LoadMarketCodes(ranks) == IF ranks THEN TopByTradeValue(MarketScanSize) ELSE Seed

PoolForVolumeScan(ranks) ==
    IF config.mode = "market" THEN LoadMarketCodes(ranks)
    ELSE IF Candidates # <<>> THEN Deduped(Candidates)
    ELSE IF Stocks # <<>> THEN Deduped(Stocks)
    ELSE Seed

\* What the ranking call brings, which has to be enough.
Ranking(limit) ==
    Among(TopByTradeValue(Least(Most(5 * limit, 5 * MaxStocks), Most(MarketScanSize, limit))), Safe)
RankingServes(limit, ranks) ==
    /\ config.mode = "market" /\ ranks
    /\ Len(Ranking(limit)) >=
          Least(Most(limit, 1), Least(Most(MaxStocks, 1), Most(Len(PoolForVolumeScan(ranks)), 1)))

\* The stocks one by one; a call that fails leaves its stock out.
Seen(limit, ranks) ==
    First(PoolForVolumeScan(ranks), Most(MarketScanSize, Most(5 * limit, 5 * MaxStocks)))
Scanned(limit, ranks, down) == SortedBy(Among(Seen(limit, ranks), Safe \ down), Value)

\* _select_volume_top.
VolumeTop(n, ranks, down) ==
    LET limit == Most(n, 1)
    IN  First(IF RankingServes(limit, ranks) THEN Ranking(limit) ELSE Scanned(limit, ranks, down),
              limit)

Stage1Limit == Most(VolumeTopN, MaxStocks)
Stage1(ranks, down) == VolumeTop(Stage1Limit, ranks, down)

AtrPool(ranks, down) ==
    IF config.mode = "kospi200" THEN Seed
    ELSE IF config.mode \in {"volume_top", "market"} THEN Stage1(ranks, down)
    ELSE Deduped(IF Candidates # <<>> THEN Candidates ELSE Stocks)

\* _select_atr_filter_from_pool.
AtrFilter(ranks, down) ==
    First(Among(AtrPool(ranks, down), Fitting \ down), MaxStocks)

\* _apply_asset_type_quota: a place for so many stocks and so many ETFs, the
\* rest by rank.
Quota_ByRank(ranked) == First(ranked, MaxStocks)
Quota(ranked) ==
    LET total    == IF MaxStocks <= 0 THEN StockQuota + EtfQuota ELSE MaxStocks
        etfs     == Among(ranked, Etfs)
        stocks   == Among(ranked, Codes \ Etfs)
        reserved == ToSet(First(stocks, StockQuota)) \cup ToSet(First(etfs, EtfQuota))
        others   == Among(ranked, Codes \ reserved)
        chosen   == reserved \cup ToSet(First(others, Most(total - Cardinality(reserved), 0)))
    IN  IF StockQuota = 0 /\ EtfQuota = 0 THEN First(ranked, MaxStocks)
        ELSE First(Among(ranked, chosen), total)

\* _select_combined: the bars of a stock that cannot be had end it.
Combined(ranks, down) ==
    LET first == Stage1(ranks, down)
    IN  IF ToSet(first) \cap down # {} THEN NoList
        ELSE Quota(SortedBy(Among(first, Fitting), Score))
-----------------------------------------------------------------------------
(***************************************************************************)
(* The cache and the choice.                                               *)
(***************************************************************************)
IsMarketHours == Opening <= minute /\ minute < Closing
CacheOfToday  == cacheFile.day = date

\* What is left of a method's name before its first underscore.
Base(method) == CASE method = "volume_top" -> "volume" [] method = "atr_filter" -> "atr"
                  [] OTHER -> method

\* _cache_refresh_reason, other than none.
RefreshDue ==
    /\ config.refresh # "never" /\ config.method # "fixed"
    /\ \/ config.refresh = "restart"
       \/ config.refresh = "market_open" /\ ~cacheFile.opened
       \/ config.refresh = "interval" /\ minute > cacheFile.saved

SavesCache(list, base, opened) ==
    cacheFile' = [day |-> date, list |-> list, base |-> base, opened |-> opened, saved |-> minute]

Chosen(ranks, down) ==
    CASE config.method = "fixed"      -> First(Stocks, MaxStocks)
      [] config.method = "volume_top" -> VolumeTop(VolumeTopN, ranks, down)
      [] config.method = "atr_filter" -> AtrFilter(ranks, down)
      [] OTHER                        -> Combined(ranks, down)

\* _fallback_fixed_or_raise.
FallsBack ==
    LET list == Finalized(First(Stocks, MaxStocks))
    IN  IF config.fallback /\ list # NoList /\ ~config.halts
        THEN /\ SavesCache(list, "fixed", FALSE)
             /\ selected' = [list |-> list, from |-> "fixed", pool |-> {}]
        ELSE /\ UNCHANGED cacheFile
             /\ selected' = [list |-> NoList, from |-> "error", pool |-> {}]

\* What there is to choose from.
Pool(ranks, down) == ToSet(Seen(Most(Stage1Limit, 1), ranks)) \cap (Safe \ down)

\* _select_and_cache.
SelectAndCache(opened) ==
    \E ranks \in BOOLEAN, down \in SUBSET Quoted :
        \E list \in {Finalized(Chosen(ranks, down))} :
            IF list = NoList THEN FallsBack
            ELSE /\ SavesCache(list, Base(config.method), opened)
                 /\ selected' = [list |-> list, from |-> "market", pool |-> Pool(ranks, down)]

\* select.
Selects ==
    /\ IF ~IsMarketHours THEN SelectAndCache(FALSE)
       ELSE IF ~CacheOfToday \/ cacheFile.base # config.method \/ RefreshDue
            THEN SelectAndCache(TRUE)
       ELSE /\ selected' = [list |-> cacheFile.list, from |-> "cache", pool |-> {}]
            /\ UNCHANGED cacheFile
    /\ UNCHANGED <<config, market, date, minute>>

\* Meanwhile the market may show something else of a stock.
TimePasses ==
    /\ \/ minute < FinalMinute /\ minute' = minute + 1 /\ UNCHANGED date
       \/ minute = FinalMinute /\ date < FinalDate /\ date' = date + 1 /\ minute' = 0
    /\ \E c \in Quoted, q \in Quotes : market' = [market EXCEPT ![c] = q]
    /\ selected' = NoAnswer
    /\ UNCHANGED <<config, cacheFile>>

SelectionNext == Selects \/ TimePasses
-----------------------------------------------------------------------------
SelectionTypes ==
    /\ config \in Configs /\ market \in [Quoted -> Quotes]
    /\ date \in 0 .. FinalDate /\ minute \in 0 .. FinalMinute
    /\ {selected.list, cacheFile.list} \subseteq Seq(Quoted)
    /\ cacheFile.list = NoList <=> cacheFile.day = -1

\* The stocks of a set than which fewer than n others of it have the trade value.
Leaders(within, n) ==
    {c \in within : Cardinality({d \in within \ {c} : market[d].value >= market[c].value}) < n}

Kept(K, quota, within) ==
    Cardinality(ToSet(selected.list) \cap K) >= Least(quota, Cardinality(within \cap K))

(***************************************************************************)
(* A list chosen by the combined method holds no stock twice and no more   *)
(* of them than it may, each passing the filters, and as many stocks and   *)
(* as many ETFs as are reserved for each, or all there are of a kind       *)
(* among the volume_top_n stocks of the highest trade value, whichever way *)
(* the market was looked at and whatever calls failed (the quotas of       *)
(* universe.yaml, which fit into the list).                                *)
(***************************************************************************)
QuotasAreKept ==
    selected.from = "market" /\ config.method = "combined" =>
        LET within == Leaders(selected.pool, Most(Stage1Limit, 1)) \cap Fitting
        IN  /\ IsInjective(selected.list) /\ Len(selected.list) <= MaxStocks
            /\ ToSet(selected.list) \subseteq Safe \cap Fitting
            /\ Kept(Etfs, EtfQuota, within)
            /\ Kept(Codes \ Etfs, StockQuota, within)
=============================================================================
