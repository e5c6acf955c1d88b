----------------------------- MODULE Components -----------------------------
(***************************************************************************)
(* The components that share no state with each other but files and the    *)
(* broker, side by side: a behaviour is one of one of them, which part     *)
(* names, and its variables are the first of s1, s2, ...; those it has no  *)
(* use for stay NoValue.  Each part has a record of settings, its          *)
(* constants.  Parts are instances of the modules that prove what they     *)
(* keep, where there is one; ComponentsProofs rests on those.              *)
(***************************************************************************)
EXTENDS Integers, Sequences

CONSTANTS
    NoValue, Torn,    \* no value, and a file cut short
    FeedSettings, LoopSettings, RegimeSettings, ChecksSettings, ApiSettings, SetupSettings,
    VirtualSettings, RecordsSettings, PartialSettings, ModesSettings, RulesSettings, RangeSettings,
    AutoSettings, StreamSettings, SelectionSettings, TablesSettings

VARIABLES
    part,
    s1, s2, s3, s4, s5, s6, s7, s8, s9, s10, s11, s12, s13,
    s14, s15, s16, s17, s18, s19, s20

\* The variables from one on, and that they have no use.
From20 == <<s20>>
From19 == <<s19, From20>>
From18 == <<s18, From19>>
From17 == <<s17, From18>>
From16 == <<s16, From17>>
From15 == <<s15, From16>>
From14 == <<s14, From15>>
From13 == <<s13, From14>>
From12 == <<s12, From13>>
From11 == <<s11, From12>>
From10 == <<s10, From11>>
From9 == <<s9, From10>>
From8 == <<s8, From9>>
From7 == <<s7, From8>>
From6 == <<s6, From7>>
Unused20 == s20 = NoValue
Unused19 == s19 = NoValue /\ Unused20
Unused18 == s18 = NoValue /\ Unused19
Unused17 == s17 = NoValue /\ Unused18
Unused16 == s16 = NoValue /\ Unused17
Unused15 == s15 = NoValue /\ Unused16
Unused14 == s14 = NoValue /\ Unused15
Unused13 == s13 = NoValue /\ Unused14
Unused12 == s12 = NoValue /\ Unused13
Unused11 == s11 = NoValue /\ Unused12
Unused10 == s10 = NoValue /\ Unused11
Unused9 == s9 = NoValue /\ Unused10
Unused8 == s8 = NoValue /\ Unused9
Unused7 == s7 = NoValue /\ Unused8
Unused6 == s6 = NoValue /\ Unused7
partVars == <<part, s1, s2, s3, s4, s5, From6>>
-----------------------------------------------------------------------------
\* The main loop: its stocks and their selection, its feed, the regime and the
\* mode of its orders.
MainLoop == INSTANCE MainLoopProofs WITH
    overlay <- s1, changed <- s2, seen <- s3, healthy <- s4, recent <- s5, reentered <- s6,
    thread <- s7, attempt <- s8, running <- s9, quitting <- s10, connected <- s11, last <- s12,
    forming <- s13, bar <- s14, now <- s15, stop <- s16, handle <- s17, source <- s18, gate <- s19,
    outage <- s20, Threads <- FeedSettings.Threads, DayLength <- FeedSettings.DayLength,
    MarketOpen <- FeedSettings.MarketOpen, MarketClose <- FeedSettings.MarketClose,
    SessionClose <- FeedSettings.SessionClose, PreopenMin <- FeedSettings.PreopenMin,
    PostcloseMin <- FeedSettings.PostcloseMin, Windows <- FeedSettings.Windows,
    ClosedDays <- FeedSettings.ClosedDays, DefaultFeed <- FeedSettings.DefaultFeed,
    RecoverPolicy <- FeedSettings.RecoverPolicy, AuctionExit <- FeedSettings.AuctionExit,
    OffsessionWs <- FeedSettings.OffsessionWs, Grace <- FeedSettings.Grace,
    Stale <- FeedSettings.Stale, MinNormal <- FeedSettings.MinNormal,
    MinDegraded <- FeedSettings.MinDegraded, StableFor <- FeedSettings.StableFor,
    RequiredBars <- FeedSettings.RequiredBars, MaxAttempts <- FeedSettings.MaxAttempts,
    RecvTimeout <- FeedSettings.RecvTimeout, LastMinute <- FeedSettings.LastMinute,
    day <- s1, starts <- s2, alive <- s3, killFile <- s4, account <- s5, file <- s6, held <- s7,
    executors <- s8, active <- s9, sticky <- s10, today <- s11, cache <- s12, risk <- s13,
    policy <- s14, holdings <- s15, cutoff <- s16, todo <- s17, order <- s18, booked <- s19,
    Symbols <- LoopSettings.Symbols, UniverseSize <- LoopSettings.UniverseSize,
    MaxPositions <- LoopSettings.MaxPositions, FixedStocks <- LoopSettings.FixedStocks,
    MaxLoss <- LoopSettings.MaxLoss, LastDay <- LoopSettings.LastDay,
    MaxStarts <- LoopSettings.MaxStarts,
    trend <- s1, background <- s2, worker <- s3, restarts <- s4, shared <- s5,
    StaleAfter <- RegimeSettings.StaleAfter, Expires <- RegimeSettings.Expires,
    ContextLife <- RegimeSettings.ContextLife, StallAfter <- RegimeSettings.StallAfter,
    ErrorStreak <- RegimeSettings.ErrorStreak, MaxBackoff <- RegimeSettings.MaxBackoff,
    env <- s1, dotenv <- s2, run <- s3, stopFile <- s4, latched <- s5, sending <- s6,
    ExecutionModes <- ModesSettings.ExecutionModes, TradingModes <- ModesSettings.TradingModes,
    config <- s1, market <- s2, date <- s3, minute <- s4, cacheFile <- s5, selected <- s6,
    Codes <- SelectionSettings.Codes, Etfs <- SelectionSettings.Etfs,
    Listing <- SelectionSettings.Listing, Quotes <- SelectionSettings.Quotes,
    Seed <- SelectionSettings.Seed, Candidates <- SelectionSettings.Candidates,
    Stocks <- SelectionSettings.Stocks, Configs <- SelectionSettings.Configs,
    MaxStocks <- SelectionSettings.MaxStocks, VolumeTopN <- SelectionSettings.VolumeTopN,
    MarketScanSize <- SelectionSettings.MarketScanSize, StockQuota <- SelectionSettings.StockQuota,
    EtfQuota <- SelectionSettings.EtfQuota, Opening <- SelectionSettings.MarketOpen,
    Closing <- SelectionSettings.MarketClose, FinalMinute <- SelectionSettings.LastMinute,
    FinalDate <- SelectionSettings.LastDay

\* What stands between a signal and an order, and the answers of the broker.
Entry == INSTANCE EntryProofs WITH
    mode <- s1, feed <- s2, tick <- s3, checks <- s4, account <- s5, store <- s6, reads <- s7,
    entry <- s8, QuoteLife <- ChecksSettings.QuoteLife,
    HoldingsLife <- ChecksSettings.HoldingsLife, CallTime <- ChecksSettings.CallTime,
    AnswerLife <- ChecksSettings.AnswerLife, OrderTime <- ChecksSettings.OrderTime,
    clock <- s1, refreshing <- s2, daily <- s3, quoteAt <- s4, armed <- s5, looking <- s6,
    waiting <- s7, buying <- s8, busy <- s9, degraded <- s10, file <- s11, kept <- s12,
    life <- s13, NoSetup <- NoValue, SetupLife <- SetupSettings.SetupLife,
    DataLife <- SetupSettings.DataLife, SnapshotLife <- SetupSettings.SnapshotLife,
    EntryTime <- SetupSettings.EntryTime, Session <- SetupSettings.Session, DayLength <- SetupSettings.DayLength,
    LastTime <- SetupSettings.LastTime,
    minute <- s1, bars <- s2, quote <- s3, ready <- s4, obstacle <- s5, setup <- s6, intent <- s7,
    order <- s8, NoCandidate <- NoValue, Levels <- RangeSettings.Levels,
    QuotePrices <- RangeSettings.QuotePrices, RangeBars <- RangeSettings.RangeBars,
    EntryStart <- RangeSettings.EntryStart, Cutoff <- RangeSettings.Cutoff,
    StaleAfter <- RangeSettings.StaleAfter, TimingBars <- RangeSettings.TimingBars,
    Extension <- RangeSettings.Extension, Band <- RangeSettings.Band,
    Recent <- RangeSettings.Recent, LastMinute <- RangeSettings.LastMinute,
    pos <- s1, posFile <- s2, shares <- s3, day <- s4, opening <- s5, verdict <- s6, running <- s7,
    Nothing <- NoValue, Prices <- RulesSettings.Prices, Atrs <- RulesSettings.Atrs,
    StopFactor <- RulesSettings.StopFactor, TakeFactor <- RulesSettings.TakeFactor,
    TrailFactor <- RulesSettings.TrailFactor, MaxLossPct <- RulesSettings.MaxLossPct,
    ActivationPct <- RulesSettings.ActivationPct, GapPct <- RulesSettings.GapPct,
    GapReference <- RulesSettings.GapReference, MaxShares <- RulesSettings.MaxShares,
    LastDay <- RulesSettings.LastDay,
    caller <- s1, usable <- s2, saved <- s3, inflight <- s4, shared <- s5, raw <- s6, listed <- s7,
    Callers <- ApiSettings.Callers, Clients <- ApiSettings.Clients, Api <- ApiSettings.Api,
    Life <- ApiSettings.Life, Retries <- ApiSettings.Retries

\* The two programs beside it.
Traders == INSTANCE TradersProofs WITH
    watched <- s1, phase <- s2, left <- s3, shutdown <- s4, starts <- s5, hour <- s6, held <- s7,
    buying <- s8, selling <- s9, astray <- s10, WatchList <- AutoSettings.WatchList,
    Prices <- AutoSettings.Prices, StopLossPct <- AutoSettings.StopLossPct,
    TakeProfitPct <- AutoSettings.TakeProfitPct, RiskPerTradePct <- AutoSettings.RiskPerTradePct,
    MinOrderAmount <- AutoSettings.MinOrderAmount, MaxPositions <- AutoSettings.MaxPositions,
    Capital <- AutoSettings.Capital, MaxShares <- AutoSettings.MaxShares,
    MaxStarts <- AutoSettings.MaxStarts,
    universe <- s1, minute <- s2, up <- s3, running <- s4, stage <- s5, timer <- s6,
    attempts <- s7, pending <- s8, subscribed <- s9, wire <- s10, allowed <- s11, state <- s12,
    counts <- s13, reports <- s14, Watchable <- StreamSettings.Watchable,
    Items <- StreamSettings.Items, TickPrices <- StreamSettings.TickPrices,
    Shapes <- StreamSettings.Shapes, EntryStart <- StreamSettings.EntryStart,
    EntryEnd <- StreamSettings.EntryEnd, CloseTime <- StreamSettings.CloseTime,
    MaxReconnects <- StreamSettings.MaxReconnects, LastMinute <- StreamSettings.LastMinute

\* The records of trades and the report, of a BUY and a SELL of one share; the
\* virtual account; the tables.
Books == INSTANCE RecordsProofs WITH
    numbered <- s1, stored <- s2, orders <- s3, account <- s4, doing <- s5, holding <- s6,
    position <- s7, trades <- s8, report <- s9, Orders <- RecordsSettings.Orders,
    NoOrder <- RecordsSettings.NoOrder, BuyQty <- RecordsSettings.BuyQty,
    virtual <- s1, held <- s2, phase <- s3, result <- s4, accountFile <- s5, store <- s6,
    storage <- s7, anew <- s8, NoPosition <- NoValue, DayPrices <- VirtualSettings.DayPrices,
    Atrs <- VirtualSettings.Atrs, Initial <- VirtualSettings.Initial,
    Scale <- VirtualSettings.Scale, StopFactor <- VirtualSettings.StopFactor,
    TakeFactor <- VirtualSettings.TakeFactor, MaxLossPct <- VirtualSettings.MaxLossPct,
    MaxTrades <- VirtualSettings.MaxTrades,
    mode <- s1, space <- s2, enabled <- s3, rows <- s4, tradeRows <- s5, snapshot <- s6,
    pending <- s7, shares <- s8, unwritten <- s9, kept <- s10, minute <- s11, starts <- s12,
    sent <- s13, Symbols <- TablesSettings.Symbols, Prices <- TablesSettings.Prices,
    Quantity <- TablesSettings.Quantity, TradingModes <- TablesSettings.TradingModes,
    ExecutionModes <- TablesSettings.ExecutionModes, MaxOrders <- TablesSettings.MaxOrders,
    MaxStarts <- TablesSettings.MaxStarts, LastMinute <- TablesSettings.LastMinute

\* The same, for the records of a BUY that may be executed in part.
PartBooks == INSTANCE RecordsProofs WITH
    numbered <- s1, stored <- s2, orders <- s3, account <- s4, doing <- s5, holding <- s6,
    position <- s7, trades <- s8, report <- s9, Orders <- PartialSettings.Orders,
    NoOrder <- PartialSettings.NoOrder, BuyQty <- PartialSettings.BuyQty,
    virtual <- s1, held <- s2, phase <- s3, result <- s4, accountFile <- s5, store <- s6,
    storage <- s7, anew <- s8, NoPosition <- NoValue, DayPrices <- VirtualSettings.DayPrices,
    Atrs <- VirtualSettings.Atrs, Initial <- VirtualSettings.Initial,
    Scale <- VirtualSettings.Scale, StopFactor <- VirtualSettings.StopFactor,
    TakeFactor <- VirtualSettings.TakeFactor, MaxLossPct <- VirtualSettings.MaxLossPct,
    MaxTrades <- VirtualSettings.MaxTrades,
    mode <- s1, space <- s2, enabled <- s3, rows <- s4, tradeRows <- s5, snapshot <- s6,
    pending <- s7, shares <- s8, unwritten <- s9, kept <- s10, minute <- s11, starts <- s12,
    sent <- s13, Symbols <- TablesSettings.Symbols, Prices <- TablesSettings.Prices,
    Quantity <- TablesSettings.Quantity, TradingModes <- TablesSettings.TradingModes,
    ExecutionModes <- TablesSettings.ExecutionModes, MaxOrders <- TablesSettings.MaxOrders,
    MaxStarts <- TablesSettings.MaxStarts, LastMinute <- TablesSettings.LastMinute

\* What the settings are; each part says why.
ASSUME Constants ==
    /\ MainLoop!FeedTimes
    /\ MainLoop!LoopData
    /\ MainLoop!ModeNames
    /\ Entry!CheckLimits
    /\ Entry!SetupTimes
    /\ MainLoop!RegimeLimits
    /\ MainLoop!SelectionData
    /\ Entry!RangeData
    /\ Entry!RulesData
    /\ Entry!ApiLimits
    /\ Books!RecordsData
    /\ PartBooks!RecordsData
    /\ Books!TradingData
    /\ Books!TablesData
    /\ Traders!TraderLimits
    /\ Traders!StreamData
-----------------------------------------------------------------------------
Init ==
    \/ part = "feed" /\ MainLoop!ControlInit
    \/ part = "loop" /\ MainLoop!LoopInit /\ Unused20
    \/ part = "regime" /\ MainLoop!RegimeInit /\ Unused6
    \/ part = "checks" /\ Entry!ChecksInit /\ Unused9
    \/ part = "api" /\ Entry!ApiInit /\ Unused8
    \/ part = "setup" /\ Entry!SetupInit /\ Unused14
    \/ part = "virtual" /\ Books!TradingInit /\ Unused9
    \/ part = "records" /\ Books!RecordsInit /\ Unused10
    \/ part = "partial" /\ PartBooks!RecordsInit /\ Unused10
    \/ part = "modes" /\ MainLoop!ModesInit /\ Unused7
    \/ part = "rules" /\ Entry!RulesInit /\ Unused8
    \/ part = "range" /\ Entry!RangeInit /\ Unused9
    \/ part = "auto" /\ Traders!AutoInit /\ Unused11
    \/ part = "stream" /\ Traders!StreamInit /\ Unused15
    \/ part = "selection" /\ MainLoop!SelectionInit /\ Unused7
    \/ part = "tables" /\ Books!DatabaseInit /\ Unused14

Next ==
    \/ part = "feed" /\ UNCHANGED <<part>> /\ MainLoop!ControlNext
    \/ part = "loop" /\ UNCHANGED <<part, From20>> /\ MainLoop!LoopNext
    \/ part = "regime" /\ UNCHANGED <<part, From6>> /\ MainLoop!RegimeNext
    \/ part = "checks" /\ UNCHANGED <<part, From9>> /\ Entry!ChecksNext
    \/ part = "api" /\ UNCHANGED <<part, From8>> /\ Entry!ApiNext
    \/ part = "setup" /\ UNCHANGED <<part, From14>> /\ Entry!SetupNext
    \/ part = "virtual" /\ UNCHANGED <<part, From9>> /\ Books!TradingNext
    \/ part = "records" /\ UNCHANGED <<part, From10>> /\ Books!RecordsNext
    \/ part = "partial" /\ UNCHANGED <<part, From10>> /\ PartBooks!RecordsNext
    \/ part = "modes" /\ UNCHANGED <<part, From7>> /\ MainLoop!ModesNext
    \/ part = "rules" /\ UNCHANGED <<part, From8>> /\ Entry!RulesNext
    \/ part = "range" /\ UNCHANGED <<part, From9>> /\ Entry!RangeNext
    \/ part = "auto" /\ UNCHANGED <<part, From11>> /\ Traders!AutoNext
    \/ part = "stream" /\ UNCHANGED <<part, From15>> /\ Traders!StreamNext
    \/ part = "selection" /\ UNCHANGED <<part, From7>> /\ MainLoop!SelectionNext
    \/ part = "tables" /\ UNCHANGED <<part, From14>> /\ Books!DatabaseNext

Spec == Init /\ [][Next]_partVars
-----------------------------------------------------------------------------
\* Each part keeps its types.
PartTypes ==
    /\ part = "feed" => MainLoop!FeedTypes
    /\ part = "loop" => MainLoop!LoopTypes
    /\ part = "regime" => MainLoop!RegimeTypes
    /\ part = "checks" => Entry!ChecksTypes
    /\ part = "api" => Entry!ApiTypes
    /\ part = "setup" => Entry!SetupTypes
    /\ part = "virtual" => Books!TradingTypes
    /\ part = "records" => Books!RecordsTypes
    /\ part = "partial" => PartBooks!RecordsTypes
    /\ part = "modes" => MainLoop!ModesTypes
    /\ part = "rules" => Entry!RulesTypes
    /\ part = "range" => Entry!RangeTypes
    /\ part = "auto" => Traders!AutoTypes
    /\ part = "stream" => Traders!StreamTypes
    /\ part = "selection" => MainLoop!SelectionTypes
    /\ part = "tables" => Books!DatabaseTypes

\* The properties of the parts; each is explained in its module.

\* Never two listeners feed one aggregator.
OneListener == part = "feed" => MainLoop!OneListener

\* The feed is trusted again only after a whole stable period and its bars.
RecoveryIsEarned == [][part = "feed" => MainLoop!RecoveryIsEarned]_partVars

\* In session the strategy runs on no WebSocket feed that is silent too long.
TrustedFeedIsFresh == [][part = "feed" => MainLoop!TrustedFeedIsFresh]_partVars

\* The strategy runs once for a minute, in order, when the minute is over.
BarsRunOnce == [][part = "feed" => MainLoop!BarsRunOnce]_partVars

\* A stock that is held gets its turn, through every change of the universe.
HeldIsWatched == part = "loop" => MainLoop!HeldIsWatched

\* Orders keep the ranking, the capacity, the limit of losses, the kill switch.
OrdersWithinLimits == [][part = "loop" => MainLoop!OrdersWithinLimits]_partVars

\* A day has one universe, before and after every restart.
OneUniverseADay == [][part = "loop" => MainLoop!OneUniverseADay]_partVars

\* A BUY that the regime lets through sees the regime of today.
RegimeIsTodays == part = "regime" => MainLoop!RegimeIsTodays

\* A worker that hangs or dies is replaced before it counts as stalled.
NoWorkerStaysHung == part = "regime" => MainLoop!NoWorkerStaysHung

\* A validated pullback entry goes out on holdings of a bounded age.
EntryKnowsAccount == [][part = "checks" => Entry!EntryKnowsAccount]_partVars

\* An answer about the account is younger than the two caches allow.
AccountIsRecent == part = "api" => Entry!AccountIsRecent

\* A BUY goes out on a setup alive at its precheck, of today, made on fresh data.
BuysOnCurrentSetup == [][part = "setup" => Entry!BuysOnCurrentSetup]_partVars

\* The virtual account balances, and the report agrees with it.
BooksBalance == part = "virtual" => Books!BooksBalance

\* The daily report counts an order once, with no more shares than executed.
ReportCountsOrdersOnce ==
    /\ part = "records" => Books!ReportCountsOrdersOnce
    /\ part = "partial" => PartBooks!ReportCountsOrdersOnce

\* The trades and the orders' rows are kept where the money is.
RecordsFollowTheMoney == part = "modes" => MainLoop!RecordsFollowTheMoney

\* No position is held on at a price below its floor.
LossesAreCut == part = "rules" => Entry!LossesAreCut

\* The workers send no breakout order the strategy itself would not send.
PathsAgree == part = "range" => Entry!PathsAgree

\* Shares bought are watched, or one of the known causes lost them.
NothingIsForgotten == part = "auto" => Traders!NothingIsForgotten

\* The closing message tells what happened, once.
ReportTellsTheDay == part = "stream" => Traders!ReportTellsTheDay

\* A list keeps its filters, its size and the places reserved in it.
QuotasAreKept == part = "selection" => MainLoop!QuotasAreKept

\* The tables agree with each other and with the account.
TablesAgree == part = "tables" => Books!TablesAgree
=============================================================================
