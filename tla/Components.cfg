CONSTANTS
    e1 = e1
    e2 = e2
    e3 = e3
    e4 = e4
    t1 = t1
    t2 = t2
    NoValue = NoValue
    Torn = Torn
    FeedSettings <- FeedValues
    LoopSettings <- LoopValues
    RegimeSettings <- RegimeValues
    ChecksSettings <- ChecksValues
    ApiSettings <- ApiValues
    SetupSettings <- SetupValues
    VirtualSettings <- VirtualValues
    RecordsSettings <- RecordsValues
    PartialSettings <- PartialValues
    ModesSettings <- ModesValues
    RulesSettings <- RulesValues
    RangeSettings <- RangeValues
    AutoSettings <- AutoValues
    StreamSettings <- StreamValues
    SelectionSettings <- SelectionValues
    TablesSettings <- TablesValues
SPECIFICATION Spec
SYMMETRY AlikeThreads
CHECK_DEADLOCK FALSE
INVARIANTS
    PartTypes OneListener HeldIsWatched RegimeIsTodays NoWorkerStaysHung AccountIsRecent
    BooksBalance ReportCountsOrdersOnce RecordsFollowTheMoney LossesAreCut PathsAgree
    NothingIsForgotten ReportTellsTheDay QuotasAreKept TablesAgree
PROPERTIES
    RecoveryIsEarned TrustedFeedIsFresh BarsRunOnce OrdersWithinLimits OneUniverseADay
    EntryKnowsAccount BuysOnCurrentSetup
