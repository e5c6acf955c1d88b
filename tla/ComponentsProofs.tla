-------------------------- MODULE ComponentsProofs --------------------------
(***************************************************************************)
(* What Components keeps, for all settings that its parts allow.  Each     *)
(* part's invariant is proved beside the part, in the modules Components   *)
(* is made of; what is added here is that a step of Components is a step   *)
(* of the part it is a behaviour of, on the variables that are its own.    *)
(***************************************************************************)
EXTENDS Components, TLAPS

\* The part stays what it was, and its step is one of its own.
LEMMA PartStays == [Next]_partVars => part' = part
BY DEF Next, partVars

LEMMA LoopSteps ==
    part = "loop" /\ [Next]_partVars => [MainLoop!LoopNext]_(MainLoop!loopVars)
BY DEF Next, partVars, MainLoop!loopVars, MainLoop!world, MainLoop!program, MainLoop!iteration,
       MainLoop!stock, From6, From7, From8, From9, From10, From11, From12, From13, From14, From15,
       From16, From17, From18, From19

LEMMA FeedSteps ==
    part = "feed" /\ [Next]_partVars => [MainLoop!ControlNext]_(MainLoop!controlVars)
BY DEF Next, partVars, MainLoop!controlVars, MainLoop!mainVars, MainLoop!rtVars,
       MainLoop!feedVars, From6, From7, From8, From9, From10, From11, From12, From13,
       From14, From15, From16, From17, From18, From19, From20

LEMMA RegimeSteps ==
    part = "regime" /\ [Next]_partVars => [MainLoop!RegimeNext]_(MainLoop!regimeVars)
BY DEF Next, partVars, MainLoop!regimeVars

LEMMA ModesSteps ==
    part = "modes" /\ [Next]_partVars => [MainLoop!ModesNext]_(MainLoop!modeVars)
BY DEF Next, partVars, MainLoop!modeVars, From6

LEMMA SelectionSteps ==
    part = "selection" /\ [Next]_partVars => [MainLoop!SelectionNext]_(MainLoop!selectionVars)
BY DEF Next, partVars, MainLoop!selectionVars, From6

LEMMA ChecksSteps ==
    part = "checks" /\ [Next]_partVars => [Entry!ChecksNext]_(Entry!checkVars)
BY DEF Next, partVars, Entry!checkVars, From6, From7, From8

LEMMA AutoSteps ==
    part = "auto" /\ [Next]_partVars => [Traders!AutoNext]_(Traders!autoVars)
BY DEF Next, partVars, Traders!autoVars, From6, From7, From8, From9, From10

LEMMA ApiSteps ==
    part = "api" /\ [Next]_partVars => [Entry!ApiNext]_(Entry!apiVars)
BY DEF Next, partVars, Entry!apiVars, From6, From7, From8

LEMMA SetupSteps ==
    part = "setup" /\ [Next]_partVars => [Entry!SetupNext]_(Entry!setupVars)
BY DEF Next, partVars, Entry!setupVars, Entry!data, Entry!entries, Entry!disk, From6, From7,
       From8, From9, From10, From11, From12, From13, From14

LEMMA RulesSteps ==
    part = "rules" /\ [Next]_partVars => [Entry!RulesNext]_(Entry!ruleVars)
BY DEF Next, partVars, Entry!ruleVars, From6, From7, From8

LEMMA RangeSteps ==
    part = "range" /\ [Next]_partVars => [Entry!RangeNext]_(Entry!rangeVars)
BY DEF Next, partVars, Entry!rangeVars, From6, From7, From8, From9

LEMMA BooksSteps ==
    part = "records" /\ [Next]_partVars => [Books!RecordsNext]_(Books!recordVars)
BY DEF Next, partVars, Books!recordVars, From6, From7, From8, From9, From10

LEMMA PartBooksSteps ==
    part = "partial" /\ [Next]_partVars => [PartBooks!RecordsNext]_(PartBooks!recordVars)
BY DEF Next, partVars, PartBooks!recordVars, From6, From7, From8, From9, From10

LEMMA StreamSteps ==
    part = "stream" /\ [Next]_partVars => [Traders!StreamNext]_(Traders!streamVars)
BY DEF Next, partVars, Traders!streamVars, From6, From7, From8, From9, From10, From11,
       From12, From13, From14, From15

LEMMA VirtualSteps ==
    part = "virtual" /\ [Next]_partVars => [Books!TradingNext]_(Books!tradingVars)
BY DEF Next, partVars, Books!tradingVars, From6, From7, From8, From9

LEMMA TablesSteps ==
    part = "tables" /\ [Next]_partVars => [Books!DatabaseNext]_(Books!dbVars)
BY DEF Next, partVars, Books!dbVars, From6, From7, From8, From9, From10, From11, From12,
       From13, From14
-----------------------------------------------------------------------------
FeedInvariant == part = "feed" => MainLoop!BarsInv /\ MainLoop!SinceOutage

LEMMA FeedInvariantStarts == Init => FeedInvariant
BY Constants, MainLoop!InitBars, MainLoop!InitSince DEF Init, FeedInvariant

LEMMA FeedInvariantStays == FeedInvariant /\ [Next]_partVars => FeedInvariant'
BY Constants, PartStays, FeedSteps, MainLoop!StepBars, MainLoop!StepSince DEF FeedInvariant

\* Never two listeners feed one aggregator.
THEOREM NeverTwoListeners == Spec => []OneListener
<1>1. FeedInvariant => OneListener
    BY MainLoop!ListenerIsOne DEF FeedInvariant, MainLoop!BarsInv, OneListener
<1> QED
    BY <1>1, FeedInvariantStarts, FeedInvariantStays, PTL DEF Spec

\* The feed is trusted again only after a whole stable period and its bars.
THEOREM RecoveryIsAlwaysEarned == Spec => RecoveryIsEarned
<1>1. FeedInvariant /\ [Next]_partVars => (part = "feed" => MainLoop!RecoveryIsEarned)
    BY Constants, FeedSteps, MainLoop!ThusEarned DEF FeedInvariant
<1> QED
    BY <1>1, FeedInvariantStarts, FeedInvariantStays, PTL DEF Spec, RecoveryIsEarned

\* In session the strategy runs on no WebSocket feed that is silent too long.
THEOREM TrustedFeedIsAlwaysFresh == Spec => TrustedFeedIsFresh
<1>1. FeedInvariant /\ [Next]_partVars => (part = "feed" => MainLoop!TrustedFeedIsFresh)
    BY Constants, FeedSteps, MainLoop!ThusFresh DEF FeedInvariant, MainLoop!BarsInv
<1> QED
    BY <1>1, FeedInvariantStarts, FeedInvariantStays, PTL DEF Spec, TrustedFeedIsFresh

\* The strategy runs once for a minute, in order, when the minute is over.
THEOREM BarsAlwaysRunOnce == Spec => BarsRunOnce
<1>1. FeedInvariant /\ [Next]_partVars => (part = "feed" => MainLoop!BarsRunOnce)
    BY FeedSteps, MainLoop!ThusBarsRunOnce DEF FeedInvariant
<1> QED
    BY <1>1, FeedInvariantStarts, FeedInvariantStays, PTL DEF Spec, BarsRunOnce

LoopInvariant == part = "loop" => MainLoop!LoopInv

LEMMA LoopInvariantStarts == Init => LoopInvariant
BY MainLoop!InitLoop DEF Init, LoopInvariant

LEMMA LoopInvariantStays == LoopInvariant /\ [Next]_partVars => LoopInvariant'
BY PartStays, LoopSteps, MainLoop!StepLoop DEF LoopInvariant

\* A stock that is held gets its turn, through every change of the universe.
THEOREM HeldIsAlwaysWatched == Spec => []HeldIsWatched
<1>1. LoopInvariant => HeldIsWatched
    BY MainLoop!LoopWatchesHeld DEF LoopInvariant, HeldIsWatched
<1> QED
    BY <1>1, LoopInvariantStarts, LoopInvariantStays, PTL DEF Spec

\* Orders keep the ranking, the capacity, the limit of losses, the kill switch.
THEOREM OrdersStayWithinLimits == Spec => OrdersWithinLimits
<1>1. LoopInvariant /\ [Next]_partVars => (part = "loop" => MainLoop!OrdersWithinLimits)
    BY LoopSteps, MainLoop!LoopKeepsLimits DEF LoopInvariant
<1> QED
    BY <1>1, LoopInvariantStarts, LoopInvariantStays, PTL DEF Spec, OrdersWithinLimits

\* A day has one universe, before and after every restart.
THEOREM OneUniverseEveryDay == Spec => OneUniverseADay
<1>1. LoopInvariant /\ [Next]_partVars => (part = "loop" => MainLoop!OneUniverseADay)
    BY LoopSteps, MainLoop!LoopKeepsUniverse DEF LoopInvariant
<1> QED
    BY <1>1, LoopInvariantStarts, LoopInvariantStays, PTL DEF Spec, OneUniverseADay

\* A BUY that the regime lets through sees the regime of today.
THEOREM RegimeIsAlwaysTodays == Spec => []RegimeIsTodays
<1> DEFINE Inv == part = "regime" => MainLoop!Faithful
<1>1. Init => Inv
    BY Constants, MainLoop!InitFaithful DEF Init
<1>2. Inv /\ [Next]_partVars => Inv'
    BY Constants, PartStays, RegimeSteps, MainLoop!StepFaithful
<1>3. Inv => RegimeIsTodays
    BY MainLoop!FaithfulTodays DEF RegimeIsTodays
<1> QED
    BY <1>1, <1>2, <1>3, PTL DEF Spec

\* A worker that hangs or dies is replaced before it counts as stalled, where no
\* backoff is longer than a stall (by default 60 seconds against 120).
THEOREM NoWorkerEverStaysHung ==
    ASSUME RegimeSettings.MaxBackoff <= RegimeSettings.StallAfter
    PROVE  Spec => []NoWorkerStaysHung
<1> DEFINE Inv == part = "regime" => MainLoop!Attended
<1>1. Init => Inv
    BY Constants, MainLoop!InitAttended DEF Init
<1>2. Inv /\ [Next]_partVars => Inv'
    BY Constants, PartStays, RegimeSteps, MainLoop!StepAttended
<1>3. Inv => NoWorkerStaysHung
    BY MainLoop!AttendedNeverStays DEF NoWorkerStaysHung
<1> QED
    BY <1>1, <1>2, <1>3, PTL DEF Spec

\* The records of an order are of the money it was sent with, whatever values the
\* operator gave the variables: real money never has trades among the paper ones,
\* nor, in the legacy program, paper money among the real ones.
THEOREM RecordsAlwaysFollowTheMoney == Spec => []RecordsFollowTheMoney
<1> DEFINE Inv == part = "modes" => MainLoop!Settled
<1>1. Init => Inv
    BY MainLoop!InitSettled DEF Init
<1>2. Inv /\ [Next]_partVars => Inv'
    BY PartStays, ModesSteps, MainLoop!StepSettled
<1>3. Inv => RecordsFollowTheMoney
    BY MainLoop!SettledFollow DEF RecordsFollowTheMoney
<1> QED
    BY <1>1, <1>2, <1>3, PTL DEF Spec

\* A pullback entry that the settings have validated goes out on holdings that were
\* not older, when it was checked, than an answer is kept in the caches and the
\* snapshot lives or a call lasts.
THEOREM EntryAlwaysKnows == Spec => EntryKnowsAccount
<1> DEFINE Inv == part = "checks" => Entry!Knows
<1>1. Init => Inv
    BY Constants, Entry!InitKnows DEF Init
<1>2. Inv /\ [Next]_partVars => Inv'
    BY Constants, PartStays, ChecksSteps, Entry!StepKnows
<1>3. Inv => (part = "checks" => Entry!EntryKnowsAccount)
    BY Entry!KnowsAccount
<1> QED
    BY <1>1, <1>2, <1>3, PTL DEF Spec, EntryKnowsAccount

\* Shares bought are watched, or one of the known causes lost them.
THEOREM NothingIsEverForgotten == Spec => []NothingIsForgotten
<1> DEFINE Inv == part = "auto" => Traders!AutoInv
<1>1. Init => Inv
    BY Constants, Traders!AutoStart DEF Init
<1>2. Inv /\ [Next]_partVars => Inv'
    BY Constants, PartStays, AutoSteps, Traders!AutoStep
<1>3. Inv => NothingIsForgotten
    BY DEF NothingIsForgotten, Traders!AutoInv
<1> QED
    BY <1>1, <1>2, <1>3, PTL DEF Spec

\* An answer about the account is younger than the two caches allow.
THEOREM AccountIsAlwaysRecent == Spec => []AccountIsRecent
<1> DEFINE Inv == part = "api" => Entry!ApiInv
<1>1. Init => Inv
    BY Constants, Entry!InitApi DEF Init
<1>2. Inv /\ [Next]_partVars => Inv'
    BY Constants, PartStays, ApiSteps, Entry!StepApi
<1>3. Inv => AccountIsRecent
    BY Entry!ApiIsRecent DEF AccountIsRecent
<1> QED
    BY <1>1, <1>2, <1>3, PTL DEF Spec

\* A BUY goes out on a setup of today, made on fresh data, that was alive when the
\* order worker took it up.
THEOREM SetupsAreAlwaysCurrent == Spec => BuysOnCurrentSetup
<1> DEFINE Inv == part = "setup" => Entry!SetupInv
<1>1. Init => Inv
    BY Constants, Entry!InitSetup DEF Init
<1>2. Inv /\ [Next]_partVars => Inv'
    BY Constants, PartStays, SetupSteps, Entry!StepSetup
<1>3. Inv /\ [Next]_partVars => (part = "setup" => Entry!BuysOnCurrentSetup)
    BY Constants, SetupSteps, Entry!SetupsAreCurrent
<1> QED
    BY <1>1, <1>2, <1>3, PTL DEF Spec, BuysOnCurrentSetup

\* No position is held on at a price below its floor.
THEOREM LossesAreAlwaysCut == Spec => []LossesAreCut
<1> DEFINE Inv == part = "rules" => Entry!RulesInv
<1>1. Init => Inv
    BY Constants, Entry!InitRules DEF Init
<1>2. Inv /\ [Next]_partVars => Inv'
    BY Constants, PartStays, RulesSteps, Entry!StepRules
<1>3. Inv => LossesAreCut
    BY Constants, Entry!RulesCutLosses DEF LossesAreCut
<1> QED
    BY <1>1, <1>2, <1>3, PTL DEF Spec

\* The workers send no breakout order the strategy itself would not send.
THEOREM PathsAlwaysAgree == Spec => []PathsAgree
<1>1. Init => PathsAgree
    BY Entry!InitRange DEF Init, PathsAgree
<1>2. PathsAgree /\ [Next]_partVars => PathsAgree'
    BY PartStays, RangeSteps, Entry!StepRange DEF PathsAgree
<1> QED
    BY <1>1, <1>2, PTL DEF Spec

\* The closing message tells what happened, once, and a connection that brings
\* prices leaves no stock that was entered without them.
THEOREM ReportAlwaysTellsTheDay == Spec => []ReportTellsTheDay
<1> DEFINE Inv == part = "stream" => Traders!StreamInv
<1>1. Init => Inv
    BY Traders!InitStream DEF Init
<1>2. Inv /\ [Next]_partVars => Inv'
    BY Constants, PartStays, StreamSteps, Traders!StepStream
<1>3. Inv => ReportTellsTheDay
    BY DEF ReportTellsTheDay, Traders!StreamInv
<1> QED
    BY <1>1, <1>2, <1>3, PTL DEF Spec

\* The daily report counts an order once, with no more shares than executed.
THEOREM ReportAlwaysCountsOnce == Spec => []ReportCountsOrdersOnce
<1> DEFINE Inv == /\ part = "records" => Books!RecordsInv
                  /\ part = "partial" => PartBooks!RecordsInv
<1>1. Init => Inv
    BY Books!InitRecords, PartBooks!InitRecords DEF Init
<1>2. Inv /\ [Next]_partVars => Inv'
    BY Constants, PartStays, BooksSteps, PartBooksSteps, Books!StepRecords, PartBooks!StepRecords
<1>3. Inv => ReportCountsOrdersOnce
    BY Books!RecordsCountOnce, PartBooks!RecordsCountOnce DEF ReportCountsOrdersOnce
<1> QED
    BY <1>1, <1>2, <1>3, PTL DEF Spec

\* The virtual account's cash is what it began with, what its trades made and what
\* its position cost; the store holds no trade that the account does not know, and if
\* it holds them all, they add up to what the account earned.
THEOREM BooksAlwaysBalance == Spec => []BooksBalance
<1> DEFINE Inv == part = "virtual" => Books!BooksInv
<1>1. Init => Inv
    BY Constants, Books!InitBooks DEF Init
<1>2. Inv /\ [Next]_partVars => Inv'
    BY Constants, PartStays, VirtualSteps, Books!StepBooks
<1>3. Inv => BooksBalance
    BY Constants, Books!BooksBalanceThen DEF BooksBalance
<1> QED
    BY <1>1, <1>2, <1>3, PTL DEF Spec

\* The tables positions and trades agree with each other and with the account, row by
\* row, and the daily summary adds up what the closed rows earned.
THEOREM TablesAlwaysAgree == Spec => []TablesAgree
<1> DEFINE Inv == part = "tables" => Books!TablesInv
<1>1. Init => Inv
    BY Constants, Books!InitTables DEF Init
<1>2. Inv /\ [Next]_partVars => Inv'
    BY Constants, PartStays, TablesSteps, Books!StepTables
<1>3. Inv => TablesAgree
    BY Constants, Books!TablesInvAgrees DEF TablesAgree
<1> QED
    BY <1>1, <1>2, <1>3, PTL DEF Spec

\* A list keeps its filters, its size and the places reserved in it, where these
\* fit into it and the ranking reaches as far as a scan (5 and 3 of 8 places in
\* universe.yaml, and 500 stocks against five times 120).
THEOREM QuotasAreAlwaysKept ==
    ASSUME MainLoop!QuotasFit, MainLoop!ScanFits
    PROVE  Spec => []QuotasAreKept
<1> DEFINE Inv == part = "selection" => MainLoop!SelectionTypes /\ MainLoop!QuotasAreKept
<1>1. Init => Inv
    BY Constants, MainLoop!InitSelection, MainLoop!InitQuotas DEF Init
<1>2. Inv /\ [Next]_partVars => Inv'
    BY Constants, PartStays, SelectionSteps, MainLoop!StepSelectionTypes, MainLoop!StepQuotas
<1>3. Inv => QuotasAreKept
    BY DEF QuotasAreKept
<1> QED
    BY <1>1, <1>2, <1>3, PTL DEF Spec
-----------------------------------------------------------------------------
(***************************************************************************)
(* The types.  Where a part's own types are not inductive, because one     *)
(* variable's depend on another's, the invariant that says how they hang   *)
(* together is carried along.                                              *)
(***************************************************************************)
FeedTyped == part = "feed" => MainLoop!BarsInv /\ MainLoop!FeedTypes
LoopTyped == part = "loop" => MainLoop!LoopInv /\ MainLoop!OfSymbols /\ MainLoop!Counted
RegimeTyped == part = "regime" => MainLoop!RegimeTypes
ChecksTyped == part = "checks" => Entry!ChecksTypes
ApiTyped == part = "api" => Entry!ApiInv /\ Entry!ApiTypes
SetupTyped == part = "setup" => Entry!SetupTypes /\ Entry!DaysAreDated
VirtualTyped == part = "virtual" => Books!BooksInv /\ Books!AccountsHaveRoom /\ Books!ProgramTyped
RecordsTyped == part = "records" => Books!RecordsInv /\ Books!WholeNumbers /\ Books!Flags
PartialTyped == part = "partial" => PartBooks!RecordsInv /\ PartBooks!WholeNumbers /\ PartBooks!Flags
ModesTyped == part = "modes" => MainLoop!ModesTypes /\ MainLoop!ModesGiven
RulesTyped == part = "rules" => Entry!RulesTypes /\ Entry!SellsHeld
RangeTyped == part = "range" => Entry!RangeTypes
AutoTyped == part = "auto" => Traders!AutoInv /\ Traders!AutoTypes
StreamTyped == part = "stream" => Traders!StreamInv /\ Traders!StreamTypes
SelectionTyped == part = "selection" => MainLoop!SelectionTypes
TablesTyped == part = "tables" => Books!TablesInv /\ Books!DatabaseTypes

LEMMA FeedKeepsTypes ==
    /\ Init => FeedTyped
    /\ FeedTyped /\ [Next]_partVars => FeedTyped'
<1>1. Init => FeedTyped
    BY Constants, MainLoop!InitBars, MainLoop!InitFeedTypes DEF Init, FeedTyped
<1>2. FeedTyped /\ [Next]_partVars => FeedTyped'
    BY Constants, PartStays, FeedSteps, MainLoop!StepBars, MainLoop!StepFeedTypes DEF FeedTyped, MainLoop!BarsInv
<1> QED
    BY <1>1, <1>2

LEMMA LoopKeepsTypes ==
    /\ Init => LoopTyped
    /\ LoopTyped /\ [Next]_partVars => LoopTyped'
<1>1. Init => LoopTyped
    BY Constants, MainLoop!InitLoop, MainLoop!InitLoopTypes DEF Init, LoopTyped
<1>2. LoopTyped /\ [Next]_partVars => LoopTyped'
    BY Constants, PartStays, LoopSteps, MainLoop!StepLoop, MainLoop!StepLoopTypes DEF LoopTyped
<1> QED
    BY <1>1, <1>2

LEMMA RegimeKeepsTypes ==
    /\ Init => RegimeTyped
    /\ RegimeTyped /\ [Next]_partVars => RegimeTyped'
<1>1. Init => RegimeTyped
    BY Constants, MainLoop!InitRegimeTypes DEF Init, RegimeTyped
<1>2. RegimeTyped /\ [Next]_partVars => RegimeTyped'
    BY Constants, PartStays, RegimeSteps, MainLoop!StepRegimeTypes DEF RegimeTyped
<1> QED
    BY <1>1, <1>2

LEMMA ChecksKeepsTypes ==
    /\ Init => ChecksTyped
    /\ ChecksTyped /\ [Next]_partVars => ChecksTyped'
<1>1. Init => ChecksTyped
    BY Constants, Entry!InitChecksTypes DEF Init, ChecksTyped
<1>2. ChecksTyped /\ [Next]_partVars => ChecksTyped'
    BY Constants, PartStays, ChecksSteps, Entry!StepChecksTypes DEF ChecksTyped
<1> QED
    BY <1>1, <1>2

LEMMA ApiKeepsTypes ==
    /\ Init => ApiTyped
    /\ ApiTyped /\ [Next]_partVars => ApiTyped'
<1>1. Init => ApiTyped
    BY Constants, Entry!InitApi, Entry!InitApiTypes DEF Init, ApiTyped
<1>2. ApiTyped /\ [Next]_partVars => ApiTyped'
    BY Constants, PartStays, ApiSteps, Entry!StepApi, Entry!StepApiTypes DEF ApiTyped
<1> QED
    BY <1>1, <1>2

LEMMA SetupKeepsTypes ==
    /\ Init => SetupTyped
    /\ SetupTyped /\ [Next]_partVars => SetupTyped'
<1>1. Init => SetupTyped
    BY Constants, Entry!InitSetupTypes DEF Init, SetupTyped
<1>2. SetupTyped /\ [Next]_partVars => SetupTyped'
    BY Constants, PartStays, SetupSteps, Entry!StepSetupTypes DEF SetupTyped
<1> QED
    BY <1>1, <1>2

LEMMA VirtualKeepsTypes ==
    /\ Init => VirtualTyped
    /\ VirtualTyped /\ [Next]_partVars => VirtualTyped'
<1>1. Init => VirtualTyped
    BY Constants, Books!InitBooks, Books!InitTradingTypes DEF Init, VirtualTyped
<1>2. VirtualTyped /\ [Next]_partVars => VirtualTyped'
    BY Constants, PartStays, VirtualSteps, Books!StepBooks, Books!StepTradingTypes DEF VirtualTyped
<1> QED
    BY <1>1, <1>2

LEMMA RecordsKeepsTypes ==
    /\ Init => RecordsTyped
    /\ RecordsTyped /\ [Next]_partVars => RecordsTyped'
<1>1. Init => RecordsTyped
    BY Constants, Books!InitRecords, Books!InitWhole DEF Init, RecordsTyped
<1>2. RecordsTyped /\ [Next]_partVars => RecordsTyped'
    BY Constants, PartStays, BooksSteps, Books!StepRecords, Books!StepWhole DEF RecordsTyped
<1> QED
    BY <1>1, <1>2

LEMMA PartialKeepsTypes ==
    /\ Init => PartialTyped
    /\ PartialTyped /\ [Next]_partVars => PartialTyped'
<1>1. Init => PartialTyped
    BY Constants, PartBooks!InitRecords, PartBooks!InitWhole DEF Init, PartialTyped
<1>2. PartialTyped /\ [Next]_partVars => PartialTyped'
    BY Constants, PartStays, PartBooksSteps, PartBooks!StepRecords, PartBooks!StepWhole DEF PartialTyped
<1> QED
    BY <1>1, <1>2

LEMMA ModesKeepsTypes ==
    /\ Init => ModesTyped
    /\ ModesTyped /\ [Next]_partVars => ModesTyped'
<1>1. Init => ModesTyped
    BY Constants, MainLoop!InitModesTypes DEF Init, ModesTyped
<1>2. ModesTyped /\ [Next]_partVars => ModesTyped'
    BY Constants, PartStays, ModesSteps, MainLoop!StepModesTypes DEF ModesTyped
<1> QED
    BY <1>1, <1>2

LEMMA RulesKeepsTypes ==
    /\ Init => RulesTyped
    /\ RulesTyped /\ [Next]_partVars => RulesTyped'
<1>1. Init => RulesTyped
    BY Constants, Entry!InitRulesTypes DEF Init, RulesTyped
<1>2. RulesTyped /\ [Next]_partVars => RulesTyped'
    BY Constants, PartStays, RulesSteps, Entry!StepRulesTypes DEF RulesTyped
<1> QED
    BY <1>1, <1>2

LEMMA RangeKeepsTypes ==
    /\ Init => RangeTyped
    /\ RangeTyped /\ [Next]_partVars => RangeTyped'
<1>1. Init => RangeTyped
    BY Constants, Entry!InitRangeTypes DEF Init, RangeTyped
<1>2. RangeTyped /\ [Next]_partVars => RangeTyped'
    BY Constants, PartStays, RangeSteps, Entry!StepRangeTypes DEF RangeTyped
<1> QED
    BY <1>1, <1>2

LEMMA AutoKeepsTypes ==
    /\ Init => AutoTyped
    /\ AutoTyped /\ [Next]_partVars => AutoTyped'
<1>1. Init => AutoTyped
    BY Constants, Traders!AutoStart, Traders!InitAutoTypes DEF Init, AutoTyped
<1>2. AutoTyped /\ [Next]_partVars => AutoTyped'
    BY Constants, PartStays, AutoSteps, Traders!AutoStep, Traders!StepAutoTypes DEF AutoTyped
<1> QED
    BY <1>1, <1>2

LEMMA StreamKeepsTypes ==
    /\ Init => StreamTyped
    /\ StreamTyped /\ [Next]_partVars => StreamTyped'
<1>1. Init => StreamTyped
    BY Constants, Traders!InitStream, Traders!InitStreamTypes DEF Init, StreamTyped
<1>2. StreamTyped /\ [Next]_partVars => StreamTyped'
    BY Constants, PartStays, StreamSteps, Traders!StepStream, Traders!StepStreamTypes DEF StreamTyped
<1> QED
    BY <1>1, <1>2

LEMMA SelectionKeepsTypes ==
    /\ Init => SelectionTyped
    /\ SelectionTyped /\ [Next]_partVars => SelectionTyped'
<1>1. Init => SelectionTyped
    BY Constants, MainLoop!InitSelection DEF Init, SelectionTyped
<1>2. SelectionTyped /\ [Next]_partVars => SelectionTyped'
    BY Constants, PartStays, SelectionSteps, MainLoop!StepSelectionTypes DEF SelectionTyped
<1> QED
    BY <1>1, <1>2

LEMMA TablesKeepsTypes ==
    /\ Init => TablesTyped
    /\ TablesTyped /\ [Next]_partVars => TablesTyped'
<1>1. Init => TablesTyped
    BY Constants, Books!InitTables, Books!InitDatabaseTypes DEF Init, TablesTyped
<1>2. TablesTyped /\ [Next]_partVars => TablesTyped'
    BY Constants, PartStays, TablesSteps, Books!StepTables, Books!StepDatabaseTypes DEF TablesTyped
<1> QED
    BY <1>1, <1>2

TypesInv ==
    /\ FeedTyped
    /\ LoopTyped
    /\ RegimeTyped
    /\ ChecksTyped
    /\ ApiTyped
    /\ SetupTyped
    /\ VirtualTyped
    /\ RecordsTyped
    /\ PartialTyped
    /\ ModesTyped
    /\ RulesTyped
    /\ RangeTyped
    /\ AutoTyped
    /\ StreamTyped
    /\ SelectionTyped
    /\ TablesTyped

\* Each part keeps its types.
THEOREM PartsKeepTheirTypes == Spec => []PartTypes
<1>1. Init => TypesInv
    BY FeedKeepsTypes, LoopKeepsTypes, RegimeKeepsTypes, ChecksKeepsTypes, ApiKeepsTypes,
       SetupKeepsTypes, VirtualKeepsTypes, RecordsKeepsTypes, PartialKeepsTypes,
       ModesKeepsTypes, RulesKeepsTypes, RangeKeepsTypes, AutoKeepsTypes, StreamKeepsTypes,
       SelectionKeepsTypes, TablesKeepsTypes DEF TypesInv
<1>2. TypesInv /\ [Next]_partVars => TypesInv'
    BY FeedKeepsTypes, LoopKeepsTypes, RegimeKeepsTypes, ChecksKeepsTypes, ApiKeepsTypes,
       SetupKeepsTypes, VirtualKeepsTypes, RecordsKeepsTypes, PartialKeepsTypes,
       ModesKeepsTypes, RulesKeepsTypes, RangeKeepsTypes, AutoKeepsTypes, StreamKeepsTypes,
       SelectionKeepsTypes, TablesKeepsTypes DEF TypesInv
<1>3. TypesInv => PartTypes
    BY Constants, MainLoop!LoopTypesAre, Books!TradingIsTyped, Books!RecordsAreTyped,
       PartBooks!RecordsAreTyped
    DEF TypesInv, PartTypes, FeedTyped, LoopTyped, RegimeTyped, ChecksTyped, ApiTyped, SetupTyped, VirtualTyped,
        RecordsTyped, PartialTyped, ModesTyped, RulesTyped, RangeTyped, AutoTyped,
        StreamTyped, SelectionTyped, TablesTyped
<1> QED
    BY <1>1, <1>2, <1>3, PTL DEF Spec
=============================================================================
