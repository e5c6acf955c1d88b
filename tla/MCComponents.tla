---------------------------- MODULE MCComponents ----------------------------
(***************************************************************************)
(* The settings under which the parts of Components are checked: small     *)
(* days, few stocks and few prices.                                        *)
(***************************************************************************)
EXTENDS Components, TLC

CONSTANTS e1, e2, e3, e4, t1, t2    \* model values: stocks, and threads, which are alike

AlikeThreads == Permutations({t1, t2})

FourQuotes == {[value |-> 2, safe |-> TRUE, atr |-> "within", score |-> 1],
               [value |-> 1, safe |-> TRUE, atr |-> "within", score |-> 2],
               [value |-> 3, safe |-> FALSE, atr |-> "within", score |-> 2],
               [value |-> 3, safe |-> TRUE, atr |-> "beyond", score |-> 2]}
Settings(method, mode, refresh, halts) ==
    [method |-> method, mode |-> mode, refresh |-> refresh, fallback |-> TRUE, halts |-> halts]
FourConfigs == {Settings("combined", "market", "never", FALSE),
                Settings("volume_top", "yaml", "interval", FALSE),
                Settings("atr_filter", "kospi200", "market_open", TRUE),
                Settings("fixed", "yaml", "restart", FALSE)}

\* A short day of the feed, warm-up, session with an auction, post and off, and
\* the beginning of the next.
FeedValues ==
    [Threads |-> {t1, t2}, DayLength |-> 9, MarketOpen |-> 1, MarketClose |-> 5,
     SessionClose |-> 6, PreopenMin |-> 1, PostcloseMin |-> 1, Windows |-> {<<4, 5>>},
     ClosedDays |-> {}, DefaultFeed |-> "ws", RecoverPolicy |-> "auto", AuctionExit |-> TRUE,
     OffsessionWs |-> FALSE, Grace |-> 1, Stale |-> 1, MinNormal |-> 1, MinDegraded |-> 2,
     StableFor |-> 1, RequiredBars |-> 2, MaxAttempts |-> 1, RecvTimeout |-> 2, LastMinute |-> 9]

\* Two stocks, of which one may be bought on a day and one be held.
LoopValues ==
    [Symbols |-> {e1, e2}, UniverseSize |-> 1, MaxPositions |-> 1, FixedStocks |-> <<e2, e1>>,
     MaxLoss |-> 1, LastDay |-> 1, MaxStarts |-> 2]

RegimeValues ==
    [StaleAfter |-> 2, Expires |-> 1, ContextLife |-> 2, StallAfter |-> 3, ErrorStreak |-> 2,
     MaxBackoff |-> 3]

ChecksValues ==
    [QuoteLife |-> 1, HoldingsLife |-> 2, CallTime |-> 1, AnswerLife |-> 2, OrderTime |-> 1]

\* Two threads, each with a client of its own, which goes by the thread's name.
ApiValues ==
    [Callers |-> {t1, t2}, Clients |-> {t1, t2}, Api |-> (t1 :> t1 @@ t2 :> t2),
     Life |-> 2, Retries |-> 1]

SetupValues ==
    [SetupLife |-> 1, DataLife |-> 1, SnapshotLife |-> 1, EntryTime |-> 1, Session |-> 1,
     DayLength |-> 3, LastTime |-> 4]

VirtualValues ==
    [DayPrices |-> {90, 100, 110}, Atrs |-> {2, 10}, Initial |-> 120, Scale |-> 100, StopFactor |-> 2,
     TakeFactor |-> 1, MaxLossPct |-> 5, MaxTrades |-> 2]

\* A BUY and a SELL of one share.
RecordsValues ==
    [Orders |-> {1, 2}, NoOrder |-> 0, BuyQty |-> 1]

\* A BUY that may be executed in part.
PartialValues ==
    [Orders |-> {1}, NoOrder |-> 0, BuyQty |-> 2]

ModesValues ==
    [ExecutionModes |-> {"", "CBT", "PAPER", "DEV", "REAL", "LIVE", "PROD"},
     TradingModes |-> {"", "PAPER", "REAL", "CBT", "LIVE", "PROD"}]

RulesValues ==
    [Prices |-> {96, 104}, Atrs |-> {1, 4}, StopFactor |-> 2, TakeFactor |-> 3, TrailFactor |-> 2,
     MaxLossPct |-> 3, ActivationPct |-> 1, GapPct |-> 2, GapReference |-> "entry",
     MaxShares |-> 2, LastDay |-> 2]

RangeValues ==
    [Levels |-> {1, 2}, QuotePrices |-> {1, 2, 3}, RangeBars |-> 2, EntryStart |-> 1, Cutoff |-> 4,
     StaleAfter |-> 1, TimingBars |-> 2, Extension |-> 1, Band |-> 0, Recent |-> 1,
     LastMinute |-> 4]

AutoValues ==
    [WatchList |-> <<e1, e2>>, Prices |-> {100, 106}, StopLossPct |-> -3, TakeProfitPct |-> 5,
     RiskPerTradePct |-> 1, MinOrderAmount |-> 90, MaxPositions |-> 1, Capital |-> 300,
     MaxShares |-> 2, MaxStarts |-> 2]

StreamValues ==
    [Watchable |-> {e1, e2},
     Items |-> {[entry |-> 2, stop |-> 1, take |-> 3], [entry |-> 2, stop |-> 2, take |-> 1],
                [entry |-> 2, stop |-> 0, take |-> 3]},
     TickPrices |-> {1, 2, 3},
     Shapes |-> {[bars |-> 4, carets |-> 46], [bars |-> 46, carets |-> 1], [bars |-> 13, carets |-> 13]},
     EntryStart |-> 1, EntryEnd |-> 2, CloseTime |-> 3, MaxReconnects |-> 2, LastMinute |-> 4]

\* Three stocks, of which one is an ETF, and what is no code among the candidates.
SelectionValues ==
    [Codes |-> {e1, e2, e3, e4}, Etfs |-> {e3}, Listing |-> <<e1, e2, e3>>, Quotes |-> FourQuotes,
     Seed |-> <<e3, e1>>, Candidates |-> <<e4, e2, e3>>, Stocks |-> <<e3, e4, e1>>,
     Configs |-> FourConfigs, MaxStocks |-> 2, VolumeTopN |-> 3, MarketScanSize |-> 3,
     StockQuota |-> 1, EtfQuota |-> 1, MarketOpen |-> 1, MarketClose |-> 2, LastMinute |-> 1,
     LastDay |-> 1]

TablesValues ==
    [Symbols |-> {e1}, Prices |-> {1, 2}, Quantity |-> 2,
     TradingModes |-> {"", "SIGNAL_ONLY", "PAPER", "REAL"},
     ExecutionModes |-> {"", "DRY_RUN", "REAL"}, MaxOrders |-> 3, MaxStarts |-> 2, LastMinute |-> 1]

=============================================================================
