--------------------------- MODULE MainLoopProofs ---------------------------
(***************************************************************************)
(* What the modules of the main loop keep, for all values of their         *)
(* constants: the turns of the stocks, the regime, the feed, the mode of   *)
(* the orders.                                                             *)
(***************************************************************************)
EXTENDS TradingLoop, MarketRegime, FeedControl, RunModes, UniverseSelection,
        FiniteSetTheorems, TLAPS

-----------------------------------------------------------------------------
(***************************************************************************)
(* The loop over the stocks.  Its universe of the day is the cache's as    *)
(* long as the day lasts; a strategy that holds shares has saved them, so  *)
(* that its stock comes back with every refresh; the risk manager has      *)
(* booked what was booked, or is of an earlier day.                        *)
(***************************************************************************)
Universes == [day : Int, list : Lists \cup {<<>>, Fallback}]

SameUniverse ==
    /\ day \in Nat /\ {today, cache} \subseteq Universes
    /\ today.day <= day
    /\ today.day = day => cache = today

Watched ==
    /\ held \subseteq file /\ held \subseteq executors /\ active \subseteq executors
    /\ held \subseteq active /\ todo \subseteq active
    /\ ~alive => executors = {}
    /\ order # NoOrder => order \in [sym : active, side : {"BUY", "SELL"}, filled : BOOLEAN]
    /\ todo # {} => holdings = held

LossesKnown ==
    /\ day \in Nat /\ killFile \in BOOLEAN
    /\ risk \in Risk /\ booked \in [sum : Int, hit : BOOLEAN]
    /\ risk.day <= day
    /\ booked.sum = IF risk.day = day THEN risk.pnl ELSE 0
    /\ booked.hit => risk.day = day /\ risk.limited

LoopInv == SameUniverse /\ Watched /\ LossesKnown

LEMMA InitLoop == LoopInit => LoopInv
<1>1. LoopInit => SameUniverse
    BY DEF LoopInit, SameUniverse, Universes, NoCache
<1>2. LoopInit => Watched
    BY DEF LoopInit, Watched
<1>3. LoopInit => LossesKnown
    <2> SUFFICES ASSUME LoopInit
                 PROVE  LossesKnown
        OBVIOUS
    <2>1. risk \in Risk /\ risk.day = 0 /\ risk.pnl = 0
        BY DEF LoopInit, NewRisk, Risk
    <2>2. ~booked.hit /\ booked.sum = 0 /\ booked \in [sum : Int, hit : BOOLEAN]
        BY DEF LoopInit, NoPnl
    <2>3. day = 0 /\ killFile \in BOOLEAN
        BY DEF LoopInit
    <2> QED
        BY <2>1, <2>2, <2>3 DEF LossesKnown
<1> QED
    BY <1>1, <1>2, <1>3 DEF LoopInv

\* A refresh gives the day its universe, and every stock that is held a turn.
LEMMA RefreshKeeps ==
    ASSUME LoopInv, NEW answers \in BOOLEAN, Refresh(answers), UNCHANGED day
    PROVE  /\ SameUniverse' /\ today'.day = day
           /\ held' \subseteq file' /\ held' \subseteq executors' /\ held' \subseteq active'
           /\ active' \subseteq executors'
           /\ active' = {} => executors' = executors
<1>1. PICK u \in TodaysUniverse(cache, day) :
        LET h   == HoldingsOf(account, answers, file)
            new == (h \cup (ToSet(u.list) \ h)) \ executors
        IN  /\ cache' = u
            /\ today' = [u EXCEPT !.day = day]
            /\ active' = h \cup ToSet(u.list)
            /\ executors' = executors \cup new
            /\ Restore(new \cap (h \cup file), answers)
    BY DEF Refresh
<1>2. u \in Universes /\ u.day = day
    <2>1. CASE Cached(cache, day)
        BY <2>1 DEF TodaysUniverse, Cached, LoopInv, SameUniverse
    <2>2. CASE ~Cached(cache, day)
        BY <2>2 DEF TodaysUniverse, Universes, LoopInv, SameUniverse
    <2> QED
        BY <2>1, <2>2
<1>3. today' = u
    BY <1>1, <1>2 DEF Universes
<1>4. SameUniverse'
    BY <1>1, <1>2, <1>3 DEF LoopInv, SameUniverse, Universes
<1> DEFINE h   == HoldingsOf(account, answers, file)
           new == (h \cup (ToSet(u.list) \ h)) \ executors
<1>5. /\ held \subseteq file \cap executors /\ file \subseteq h
      /\ active' = h \cup ToSet(u.list)
      /\ executors' = executors \cup ((h \cup ToSet(u.list)) \ executors)
    BY <1>1 DEF LoopInv, Watched, HoldingsOf
<1>6. held' \subseteq file' /\ held' \subseteq held \cup new
    <2>1. Restore(new \cap (h \cup file), answers)
        BY <1>1
    <2> HIDE DEF h
    <2> QED
        BY <1>5, <2>1 DEF Restore
<1> HIDE DEF h
<1> QED
    BY <1>2, <1>3, <1>4, <1>5, <1>6

LEMMA StartKeeps == LoopInv /\ Start => LoopInv'
<1> SUFFICES ASSUME LoopInv, Start
             PROVE  LoopInv'
    OBVIOUS
<1>1. PICK answers \in BOOLEAN : Refresh(answers)
    BY DEF Start
<1>2. /\ SameUniverse' /\ day' = day
      /\ held' \subseteq file' /\ held' \subseteq executors' /\ held' \subseteq active'
      /\ active' \subseteq executors'
      /\ active' = {} => executors' = executors
    BY <1>1, RefreshKeeps DEF Start
<1>3. Watched'
    <2>1. executors = {} /\ active = {} /\ todo = {} /\ order = NoOrder
        BY DEF Start, LoopInv, Watched
    <2>2. UNCHANGED <<todo, order>>
        BY DEF Start, iteration
    <2>3. ~alive' => executors' = {}
        BY <1>2, <2>1 DEF Start
    <2> QED
        BY <1>2, <2>1, <2>2, <2>3 DEF Watched
<1>4. LossesKnown'
    BY <1>2 DEF Start, LoopInv, LossesKnown, NewRisk, Risk, NoPnl
<1> QED
    BY <1>2, <1>3, <1>4 DEF LoopInv

\* However the program ends, what it held is forgotten with its executors.
LEMMA GoneKeeps ==
    ASSUME LoopInv, NEW saved, Gone(saved), LossesKnown'
    PROVE  LoopInv'
<1>1. SameUniverse'
    BY DEF Gone, world, LoopInv, SameUniverse
<1>2. Watched'
    BY DEF Gone, Watched
<1> QED
    BY <1>1, <1>2 DEF LoopInv

LEMMA BeginKeeps == LoopInv /\ Begin => LoopInv'
<1> SUFFICES ASSUME LoopInv, Begin
             PROVE  LoopInv'
    OBVIOUS
<1>1. day' = day /\ LossesKnown'
    BY DEF Begin, LoopInv, LossesKnown
<1>2. /\ SameUniverse'
      /\ held' \subseteq file' /\ held' \subseteq executors' /\ held' \subseteq active'
      /\ active' \subseteq executors'
    <2>1. CASE today.day # day
        BY <1>1, <2>1, RefreshKeeps DEF Begin
    <2>2. CASE today.day = day
        BY <1>1, <2>2 DEF Begin, LoopInv, SameUniverse, Watched
    <2> QED
        BY <2>1, <2>2
<1>3. Watched'
    BY <1>2 DEF Begin, Count, LoopInv, Watched
<1> QED
    BY <1>1, <1>2, <1>3 DEF LoopInv

LEMMA PassKeeps ==
    ASSUME LoopInv, NEW s \in todo, Pass(s), alive, order = NoOrder
    PROVE  LoopInv'
<1>1. UNCHANGED <<world, starts, alive, executors, active, today, stock, risk, order>>
    BY DEF Pass
<1>2. SameUniverse' /\ LossesKnown'
    BY <1>1 DEF world, LoopInv, SameUniverse, LossesKnown
<1>3. Watched'
    BY <1>1 DEF Pass, Count, world, stock, LoopInv, Watched
<1> QED
    BY <1>2, <1>3 DEF LoopInv

\* The check before an order starts the manager's day; it lifts no limit that
\* was reached on it.
LEMMA CheckedKnows ==
    ASSUME LossesKnown
    PROVE  LET r == Checked(risk, day, killFile)
           IN  /\ r \in Risk /\ r.day = day
               /\ booked.sum = r.pnl
               /\ booked.hit => r.limited
<1> DEFINE s == Rollover(risk, day)
<1>1. s \in Risk /\ s.day = day /\ booked.sum = s.pnl /\ (booked.hit => s.limited)
    BY DEF LossesKnown, Rollover, NewRisk, Risk
<1> HIDE DEF s
<1>2. Checked(risk, day, killFile) = [s EXCEPT !.killed = s.killed \/ killFile]
    BY DEF Checked, s
<1>3. (s.killed \/ killFile) \in BOOLEAN
    BY <1>1 DEF LossesKnown, Risk
<1> QED
    BY <1>1, <1>2, <1>3 DEF Risk

LEMMA TradeKeeps ==
    ASSUME LoopInv, NEW s \in todo, NEW side \in {"BUY", "SELL"}, Trade(s, side), alive,
           order = NoOrder
    PROVE  LoopInv'
<1> DEFINE r == Checked(risk, day, killFile)
<1>1. r \in Risk /\ r.day = day /\ booked.sum = r.pnl /\ (booked.hit => r.limited)
    BY CheckedKnows DEF LoopInv
<1>2. risk' = r /\ UNCHANGED world
    BY DEF Trade, Exit, Gone
<1> HIDE DEF r
<1>3. LossesKnown'
    BY <1>1, <1>2 DEF LoopInv, LossesKnown, world
<1>4. CASE r.killed
    BY <1>3, <1>4, GoneKeeps DEF Trade, Exit, r
<1>5. CASE ~r.killed
    <2>1. /\ UNCHANGED <<alive, executors, active, today, holdings, stock>>
          /\ todo' = todo \ {s}
          /\ order' # NoOrder => order' = [sym |-> s, side |-> side, filled |-> FALSE]
        BY <1>5 DEF Trade, r
    <2>2. Watched'
        <3>1. order' # NoOrder => order' \in [sym : active', side : {"BUY", "SELL"}, filled : BOOLEAN]
            <4>1. s \in active'
                BY <2>1 DEF LoopInv, Watched
            <4>2. [sym |-> s, side |-> side, filled |-> FALSE]
                    \in [sym : active', side : {"BUY", "SELL"}, filled : BOOLEAN]
                BY <4>1
            <4> QED
                BY <2>1, <4>2
        <3> QED
            BY <2>1, <3>1 DEF LoopInv, Watched, stock
    <2>3. SameUniverse'
        BY <1>2, <2>1 DEF LoopInv, SameUniverse, world
    <2> QED
        BY <1>3, <2>2, <2>3 DEF LoopInv
<1> QED
    BY <1>4, <1>5

LEMMA ResultKeeps == LoopInv /\ Result => LoopInv'
<1> SUFFICES ASSUME LoopInv, Result
             PROVE  LoopInv'
    OBVIOUS
<1>1. UNCHANGED <<day, killFile, cache, starts, alive, executors, active, today, policy, todo>>
    BY DEF Result, program
<1>2. order \in [sym : active, side : {"BUY", "SELL"}, filled : BOOLEAN] /\ order' = NoOrder
    BY DEF Result, LoopInv, Watched
<1>3. SameUniverse'
    BY <1>1 DEF LoopInv, SameUniverse
<1>4. Watched'
    <2>1. \/ UNCHANGED <<held, file>>
          \/ held' = held \cup {order.sym} /\ file' = file \cup {order.sym}
          \/ held' = held \ {order.sym} /\ file' = file \ {order.sym}
        BY DEF Result
    <2>2. order.sym \in active
        BY <1>2
    <2>3. /\ held' \subseteq file' /\ held' \subseteq active'
          /\ held' \subseteq executors' /\ active' \subseteq executors' /\ todo' \subseteq active'
        BY <1>1, <2>1, <2>2 DEF LoopInv, Watched
    <2>4. holdings' = held'
        BY <2>3 DEF Result, Count
    <2> QED
        BY <1>1, <1>2, <2>3, <2>4 DEF LoopInv, Watched
<1>5. LossesKnown'
    <2>1. CASE UNCHANGED <<risk, booked>>
        BY <1>1, <2>1 DEF LoopInv, LossesKnown
    <2>2. CASE ~UNCHANGED <<risk, booked>>
        <3>1. PICK pnl \in {-1, 1} :
                 /\ risk' = Booked(risk, day, pnl)
                 /\ booked' = [sum |-> booked.sum + pnl,
                               hit |-> booked.hit \/ booked.sum + pnl <= -MaxLoss]
            BY <2>2 DEF Result
        <3> DEFINE s == Rollover(risk, day)
                   lost == s.pnl + pnl <= -MaxLoss
        <3>2. s \in Risk /\ s.day = day /\ booked.sum = s.pnl /\ (booked.hit => s.limited)
            BY DEF LoopInv, LossesKnown, Rollover, NewRisk, Risk
        <3>3. lost \in BOOLEAN
            OBVIOUS
        <3>4. risk' = [s EXCEPT !.pnl = s.pnl + pnl, !.limited = s.limited \/ lost]
            BY <3>1 DEF Booked
        <3> HIDE DEF s
        <3>5. booked' = [sum |-> s.pnl + pnl, hit |-> booked.hit \/ lost]
            BY <3>1, <3>2
        <3>6. booked \in [sum : Int, hit : BOOLEAN]
            BY DEF LoopInv, LossesKnown
        <3> HIDE DEF lost
        <3>7. /\ risk' \in Risk /\ risk'.day = day /\ risk'.pnl = s.pnl + pnl
              /\ risk'.limited = (s.limited \/ lost)
            <4>1. (s.limited \/ lost) \in BOOLEAN /\ s.pnl + pnl \in Int
                BY <3>2, <3>3 DEF Risk
            <4> QED
                BY <3>2, <3>4, <4>1 DEF Risk
        <3>8. /\ booked' \in [sum : Int, hit : BOOLEAN] /\ booked'.sum = s.pnl + pnl
              /\ booked'.hit = (booked.hit \/ lost)
            BY <3>2, <3>3, <3>5, <3>6 DEF Risk
        <3>9. booked'.hit => risk'.limited
            BY <3>2, <3>7, <3>8
        <3> QED
            BY <1>1, <3>7, <3>8, <3>9 DEF LoopInv, LossesKnown
    <2> QED
        BY <2>1, <2>2
<1> QED
    BY <1>3, <1>4, <1>5 DEF LoopInv

LEMMA StepLoop == LoopInv /\ [LoopNext]_loopVars => LoopInv'
<1> SUFFICES ASSUME LoopInv, [LoopNext]_loopVars
             PROVE  LoopInv'
    OBVIOUS
<1>1. CASE Stop \/ Crash
    <2>1. PICK saved : Gone(saved)
        BY <1>1 DEF Stop, Crash, Exit
    <2>2. LossesKnown'
        BY <1>1, <2>1 DEF Stop, Crash, Gone, world, LoopInv, LossesKnown
    <2> QED
        BY <2>1, <2>2, GoneKeeps
<1>2. CASE Turn
    BY <1>2, PassKeeps, TradeKeeps DEF Turn
<1>3. CASE Fill
    <2>1. Watched'
        BY <1>3 DEF Fill, world, program, iteration, LoopInv, Watched
    <2> QED
        BY <1>3, <2>1 DEF Fill, world, program, LoopInv, SameUniverse, LossesKnown
<1>4. CASE Midnight
    <2>1. Watched'
        BY <1>4 DEF Midnight, program, iteration, stock, LoopInv, Watched
    <2>2. SameUniverse'
        BY <1>4 DEF Midnight, program, LoopInv, SameUniverse, Universes
    <2>3. LossesKnown'
        BY <1>4 DEF Midnight, NoPnl, LoopInv, LossesKnown, Risk
    <2> QED
        BY <2>1, <2>2, <2>3 DEF LoopInv
<1>5. CASE KillByFile
    <2>1. Watched'
        BY <1>5 DEF KillByFile, program, iteration, stock, LoopInv, Watched
    <2> QED
        BY <1>5, <2>1 DEF KillByFile, program, LoopInv, SameUniverse, LossesKnown
<1>6. CASE UNCHANGED loopVars
    BY <1>6 DEF loopVars, world, program, iteration, stock, LoopInv, SameUniverse, Watched, LossesKnown
<1> QED
    BY <1>1, <1>2, <1>3, <1>4, <1>5, <1>6, StartKeeps, BeginKeeps, ResultKeeps DEF LoopNext

\* A stock that is held gets its turn.
LEMMA LoopWatchesHeld == LoopInv => HeldIsWatched
BY DEF LoopInv, Watched, HeldIsWatched

\* The universe changes with the day only.
LEMMA LoopKeepsUniverse == LoopInv /\ [LoopNext]_loopVars => OneUniverseADay
<1> SUFFICES ASSUME LoopInv, [LoopNext]_loopVars
             PROVE  OneUniverseADay
    OBVIOUS
<1>1. CASE UNCHANGED today
    BY <1>1 DEF OneUniverseADay
<1>2. ASSUME NEW answers \in BOOLEAN, Refresh(answers), UNCHANGED day
      PROVE  OneUniverseADay
    <2>1. SameUniverse' /\ today'.day = day
        BY <1>2, RefreshKeeps
    <2>2. CASE today.day = day
        <3>1. Cached(cache, day) /\ cache = today
            BY <2>2 DEF LoopInv, SameUniverse, Cached
        <3>2. cache' = cache
            BY <1>2, <3>1 DEF Refresh, TodaysUniverse
        <3> QED
            BY <1>2, <2>1, <3>1, <3>2 DEF SameUniverse, OneUniverseADay
    <2> QED
        BY <2>1, <2>2 DEF OneUniverseADay
<1>3. CASE Start \/ Begin
    BY <1>1, <1>2, <1>3 DEF Start, Begin
<1>4. CASE Stop \/ Crash
    BY <1>1, <1>4 DEF Stop, Crash, Exit, Gone
<1>5. CASE Turn
    BY <1>1, <1>5 DEF Turn, Pass, Trade, Exit, Gone
<1> QED
    BY <1>1, <1>3, <1>4, <1>5
    DEF LoopNext, Fill, Result, Midnight, KillByFile, program, loopVars

\* An order is one the gate and the entry controls of its turn let through.
LEMMA LoopKeepsLimits == LoopInv /\ [LoopNext]_loopVars => OrdersWithinLimits
<1> SUFFICES ASSUME LoopInv, [LoopNext]_loopVars, order = NoOrder, order' # NoOrder
             PROVE  /\ ~risk'.killed
                    /\ order'.side = "BUY" =>
                          /\ order'.sym \in ToSet(today.list) \ held
                          /\ Cardinality(held) < MaxPositions
                          /\ ~booked.hit
    BY DEF OrdersWithinLimits
<1>1. PICK s \in todo, side \in {"BUY", "SELL"} : Trade(s, side)
    BY DEF LoopNext, loopVars, Start, Stop, Crash, Exit, Gone, Begin, Turn, Pass, Fill, Result,
           Midnight, KillByFile
<1> DEFINE r == Checked(risk, day, killFile)
<1>2. /\ risk' = r /\ ~r.killed
      /\ order' = [sym |-> s, side |-> side, filled |-> FALSE]
      /\ Allowed(r, side = "SELL")
      /\ (side = "SELL") = (s \in held)
      /\ side # "SELL" => MayEnter(s)
    BY <1>1 DEF Trade, Exit, Gone
<1>3. booked.hit => r.limited
    BY CheckedKnows DEF LoopInv
<1>4. ASSUME side = "BUY"
      PROVE  s \in ToSet(today.list) \ held /\ Cardinality(held) < MaxPositions
    <2>1. MayEnter(s) /\ s \notin held /\ holdings = held
        BY <1>2, <1>4 DEF LoopInv, Watched
    <2>2. s \in EntryCandidates(today.list, holdings)
        BY <2>1 DEF MayEnter
    <2>3. s \in ToSet(today.list)
        BY <2>2 DEF EntryCandidates, Unheld, ToSet
    <2> QED
        BY <2>1, <2>3 DEF MayEnter
<1> HIDE DEF r
<1> QED
    BY <1>2, <1>3, <1>4 DEF Allowed

OfSymbols ==
    /\ account \subseteq Symbols /\ file \subseteq Symbols /\ held \subseteq Symbols
    /\ executors \subseteq Symbols /\ active \subseteq Symbols /\ sticky \subseteq Symbols
    /\ holdings \subseteq Symbols /\ cutoff \subseteq Symbols /\ todo \subseteq Symbols

Counted ==
    /\ day \in 0 .. LastDay /\ starts \in 0 .. MaxStarts
    /\ {alive, killFile} \subseteq BOOLEAN /\ policy \in Policies

\* Together with LoopInv they are the types.
LEMMA LoopTypesAre == LoopData /\ LoopInv /\ OfSymbols /\ Counted => LoopTypes
<1> SUFFICES ASSUME LoopData, LoopInv, OfSymbols, Counted
             PROVE  LoopTypes
    OBVIOUS
<1>1. <<>> \in Lists
    <2>1. 0 \in 0 .. UniverseSize
        BY DEF LoopData
    <2>2. <<>> \in [1 .. 0 -> Symbols] /\ IsInjective(<<>>)
        BY DEF IsInjective
    <2> QED
        BY <2>1, <2>2 DEF Lists
<1>2. {today.list, cache.list} \subseteq Lists \cup {Fallback}
    BY <1>1 DEF LoopInv, SameUniverse, Universes
<1>3. order = NoOrder \/ order \in [sym : Symbols, side : {"BUY", "SELL"}, filled : BOOLEAN]
    BY DEF LoopInv, Watched, OfSymbols
<1>4. risk \in Risk /\ held \subseteq executors /\ active \subseteq executors
    BY DEF LoopInv, Watched, LossesKnown
<1>5. \A v \in {account, file, held, executors, active, sticky, holdings, cutoff, todo} : v \subseteq Symbols
    BY DEF OfSymbols
<1> QED
    BY <1>2, <1>3, <1>4, <1>5 DEF LoopTypes, Counted

LEMMA ListedSymbols ==
    ASSUME LoopData, NEW u \in Universes
    PROVE  ToSet(u.list) \subseteq Symbols
<1>1. CASE u.list \in Lists
    BY <1>1 DEF Lists, ToSet
<1>2. CASE u.list = <<>>
    BY <1>2 DEF ToSet
<1>3. CASE u.list = Fallback
    <2>1. FixedStocks \in Seq(Symbols) /\ UniverseSize \in Nat
        BY DEF LoopData
    <2>2. Fallback \in Seq(Symbols)
        BY <2>1 DEF Fallback
    <2> QED
        BY <1>3, <2>2 DEF ToSet
<1> QED
    BY <1>1, <1>2, <1>3 DEF Universes

LEMMA InitLoopTypes == LoopData /\ LoopInit => OfSymbols /\ Counted
<1>1. LoopInit => OfSymbols
    BY DEF LoopInit, OfSymbols
<1>2. LoopData /\ LoopInit => day \in 0 .. LastDay /\ starts \in 0 .. MaxStarts /\ policy \in Policies
    BY DEF LoopData, LoopInit, Policies
<1>3. LoopInit => {alive, killFile} \subseteq BOOLEAN
    BY DEF LoopInit
<1> QED
    BY <1>1, <1>2, <1>3 DEF Counted

LEMMA RefreshTypes ==
    ASSUME LoopData, LoopInv, OfSymbols, NEW answers \in BOOLEAN, Refresh(answers)
    PROVE  /\ file' \subseteq Symbols /\ held' \subseteq Symbols /\ executors' \subseteq Symbols
           /\ active' \subseteq Symbols /\ sticky' \subseteq Symbols
           /\ ToSet(today'.list) \subseteq Symbols
<1>1. PICK u \in TodaysUniverse(cache, day) :
        LET h   == HoldingsOf(account, answers, file)
            new == (h \cup (ToSet(u.list) \ h)) \ executors
        IN  /\ today' = [u EXCEPT !.day = day]
            /\ active' = h \cup ToSet(u.list)
            /\ executors' = executors \cup new
            /\ Restore(new \cap (h \cup file), answers)
    BY DEF Refresh
<1>2. u \in Universes
    BY DEF TodaysUniverse, Universes, LoopInv, SameUniverse
<1>3. ToSet(u.list) \subseteq Symbols /\ today'.list = u.list
    BY <1>1, <1>2, ListedSymbols DEF Universes
<1> DEFINE h == HoldingsOf(account, answers, file)
           restored == ((h \cup (ToSet(u.list) \ h)) \ executors) \cap (h \cup file)
<1>4. h \subseteq Symbols
    BY DEF HoldingsOf, OfSymbols
<1>5. /\ active' \subseteq Symbols /\ executors' \subseteq Symbols
      /\ restored \subseteq Symbols /\ Restore(restored, answers)
    BY <1>1, <1>3, <1>4 DEF OfSymbols
<1> HIDE DEF restored
<1> QED
    BY <1>3, <1>5 DEF Restore, OfSymbols

LEMMA BeginTypes == LoopData /\ LoopInv /\ OfSymbols /\ Begin => OfSymbols'
<1> SUFFICES ASSUME LoopData, LoopInv, OfSymbols, Begin
             PROVE  OfSymbols'
    OBVIOUS
<1>1. /\ file' \subseteq Symbols /\ held' \subseteq Symbols /\ executors' \subseteq Symbols
      /\ active' \subseteq Symbols /\ sticky' \subseteq Symbols
      /\ ToSet(today'.list) \subseteq Symbols
    <2>1. CASE today.day # day
        BY <2>1, RefreshTypes DEF Begin
    <2>2. CASE today.day = day
        <3>1. ToSet(today.list) \subseteq Symbols
            BY ListedSymbols DEF LoopInv, SameUniverse
        <3> QED
            BY <2>2, <3>1 DEF Begin, OfSymbols
    <2> QED
        BY <2>1, <2>2
<1>2. cutoff' \subseteq Symbols
    BY <1>1 DEF Begin, CutOff, Unheld, ToSet
<1> QED
    BY <1>1, <1>2 DEF Begin, Count, OfSymbols

LEMMA TurnTypes == LoopInv /\ OfSymbols /\ Counted /\ Turn => OfSymbols' /\ Counted'
<1> SUFFICES ASSUME LoopInv, OfSymbols, Counted, Turn
             PROVE  OfSymbols' /\ Counted'
    OBVIOUS
<1>1. CASE \E s \in todo : Pass(s)
    BY <1>1 DEF Pass, RetryUnblock, Count, world, stock, OfSymbols, Counted
<1>2. CASE \E s \in todo, side \in {"BUY", "SELL"} : Trade(s, side)
    <2>1. PICK s \in todo, side \in {"BUY", "SELL"} : Trade(s, side)
        BY <1>2
    <2>2. CASE Exit
        BY <2>2 DEF Exit, SavedOnExit, Gone, world, OfSymbols, Counted, Policies
    <2>3. CASE ~Exit
        BY <2>1, <2>3 DEF Trade, RetryUnblock, world, stock, OfSymbols, Counted
    <2> QED
        BY <2>2, <2>3
<1> QED
    BY <1>1, <1>2 DEF Turn

LEMMA StepLoopTypes ==
    LoopData /\ LoopInv /\ OfSymbols /\ Counted /\ [LoopNext]_loopVars => OfSymbols' /\ Counted'
<1> SUFFICES ASSUME LoopData, LoopInv, OfSymbols, Counted, [LoopNext]_loopVars
             PROVE  OfSymbols' /\ Counted'
    OBVIOUS
<1>1. CASE Start
    <2>1. OfSymbols'
        BY <1>1, RefreshTypes DEF Start, iteration, OfSymbols
    <2>2. starts' \in 0 .. MaxStarts
        BY <1>1 DEF Start, Counted, LoopData
    <2>3. UNCHANGED <<day, killFile, policy>> /\ alive' \in BOOLEAN
        BY <1>1 DEF Start, iteration
    <2> QED
        BY <2>1, <2>2, <2>3 DEF Counted
<1>2. CASE Stop \/ Crash
    <2>1. PICK saved : Gone(saved) /\ saved \subseteq Symbols
        BY <1>2 DEF Stop, Crash, Exit, SavedOnExit, OfSymbols
    <2>2. OfSymbols'
        BY <2>1 DEF Gone, OfSymbols
    <2>3. Counted'
        BY <2>1 DEF Gone, world, Counted, Policies
    <2> QED
        BY <2>2, <2>3
<1>3. CASE Begin
    <2>1. UNCHANGED <<day, killFile, starts, alive>> /\ policy' \in Policies
        BY <1>3 DEF Begin, Policies
    <2> QED
        BY <1>3, <2>1, BeginTypes DEF Counted
<1>4. CASE Turn
    BY <1>4, TurnTypes
<1>5. CASE Fill
    <2>1. order.sym \in Symbols
        BY <1>5 DEF Fill, LoopInv, Watched, OfSymbols
    <2>2. OfSymbols'
        BY <1>5, <2>1 DEF Fill, program, iteration, OfSymbols
    <2>3. Counted'
        BY <1>5 DEF Fill, world, program, iteration, Counted
    <2> QED
        BY <2>2, <2>3
<1>6. CASE Result
    <2>1. order.sym \in Symbols
        BY <1>6 DEF Result, LoopInv, Watched, OfSymbols
    <2>2. OfSymbols'
        BY <1>6, <2>1 DEF Result, Count, program, OfSymbols
    <2>3. Counted'
        BY <1>6 DEF Result, program, Counted
    <2> QED
        BY <2>2, <2>3
<1>7. CASE Midnight \/ KillByFile \/ UNCHANGED loopVars
    <2>1. OfSymbols'
        BY <1>7 DEF Midnight, KillByFile, loopVars, program, iteration, stock, OfSymbols
    <2>2. UNCHANGED <<starts, alive, policy>>
        BY <1>7 DEF Midnight, KillByFile, loopVars, program, iteration
    <2>3. day' \in 0 .. LastDay
        BY <1>7 DEF Midnight, KillByFile, loopVars, world, Counted, LoopData
    <2>4. killFile' \in BOOLEAN
        BY <1>7 DEF Midnight, KillByFile, loopVars, world, Counted
    <2> QED
        BY <2>1, <2>2, <2>3, <2>4 DEF Counted
<1> QED
    BY <1>1, <1>2, <1>3, <1>4, <1>5, <1>6, <1>7 DEF LoopNext

-----------------------------------------------------------------------------
(***************************************************************************)
(* A BUY is let through on the regime of today, however long the worker    *)
(* fails, hangs or is replaced and for whatever lives the snapshot and the *)
(* context have.  The context called today's is today's; what is not yet   *)
(* stale, of the worker or of the main loop, was made of it.               *)
(***************************************************************************)

\* A snapshot is stale, or it is of today's trend, or says BAD.
Told(s, t) == s.age > StaleAfter \/ s.regime = t \/ s.regime = "BAD"
TodayIs(c, t) == c.today => c.regime = t

Contexts  == [regime : Regimes \cup {"none"}, today : BOOLEAN, age : Int]
Snapshots == [regime : Regimes \cup {"none"}, age : Int]

\* What the proof needs of a worker: its fields, and what it tells of a trend.
Sound(w, t) ==
    /\ {"alive", "hung", "streak", "beat", "context", "snap"} \subseteq DOMAIN w
    /\ w.context \in Contexts /\ TodayIs(w.context, t)
    /\ w.snap \in Snapshots /\ Told(w.snap, t)

Faithful ==
    /\ trend \in Regimes
    /\ Sound(worker, trend)
    /\ shared \in Snapshots /\ Told(shared, trend)

\* Whatever ages stays stale, and keeps its regime.
LEMMA AgedTold ==
    ASSUME RegimeLimits, NEW t, NEW s \in Snapshots, Told(s, t)
    PROVE  AgedSnap(s) \in Snapshots /\ Told(AgedSnap(s), t)
<1>1. StaleAfter \in Nat
    BY DEF RegimeLimits
<1> QED
    BY <1>1 DEF Told, AgedSnap, Older, Snapshots

\* A guarded snapshot of the trend tells of it.
LEMMA GuardedTold ==
    ASSUME NEW t \in Regimes, NEW drop
    PROVE  Guarded(t, drop) \in Snapshots /\ Told(Guarded(t, drop), t)
<1> QED
    BY DEF Guarded, Told, Snapshots, Regimes

\* A worker that has just been started has published nothing.
LEMMA NewWorkerSound ==
    ASSUME RegimeLimits, NEW t
    PROVE  /\ Sound(NewWorker, t)
           /\ Nothing \in Snapshots /\ Told(Nothing, t)
<1>1. StaleAfter \in Nat /\ ContextLife \in Nat
    BY DEF RegimeLimits
<1>2. NoContext \in Contexts /\ TodayIs(NoContext, t)
    BY <1>1 DEF NoContext, Contexts, TodayIs
<1>3. Nothing \in Snapshots /\ Told(Nothing, t)
    BY <1>1 DEF Nothing, Snapshots, Told
<1> QED
    BY <1>2, <1>3 DEF Sound, NewWorker

LEMMA AgedSound ==
    ASSUME RegimeLimits, NEW t, NEW w, Sound(w, t)
    PROVE  Sound(Aged(w), t)
<1>1. AgedSnap(w.snap) \in Snapshots /\ Told(AgedSnap(w.snap), t)
    BY AgedTold DEF Sound
<1> DEFINE C == [w.context EXCEPT !.age = Older(@, ContextLife)]
<1>2. C \in Contexts /\ TodayIs(C, t)
    <2>1. ContextLife \in Nat
        BY DEF RegimeLimits
    <2> QED
        BY <2>1 DEF Sound, Contexts, TodayIs, Older
<1>3. Aged(w).context = C /\ Aged(w).snap = AgedSnap(w.snap)
    BY DEF Aged, Sound
<1>4. DOMAIN Aged(w) = DOMAIN w
    BY DEF Aged, Sound
<1> QED
    BY <1>1, <1>2, <1>3, <1>4 DEF Sound

LEMMA InitFaithful == RegimeLimits /\ RegimeInit => Faithful
<1> SUFFICES ASSUME RegimeLimits, RegimeInit
             PROVE  Faithful
    OBVIOUS
<1> QED
    BY NewWorkerSound DEF RegimeInit, Faithful

\* A cycle publishes the trend of today, or leaves what was published.
LEMMA CycleFaithful == Faithful /\ Cycle => Faithful'
<1> SUFFICES ASSUME Faithful, Cycle
             PROVE  Faithful'
    OBVIOUS
<1>1. PICK fetched \in BOOLEAN, guards \in BOOLEAN, drop \in BOOLEAN :
        LET context == Context(fetched)
        IN  worker' = IF context.regime # "none" /\ guards
                      THEN [worker EXCEPT !.context = context, !.beat = 0, !.streak = 0,
                                          !.snap = Guarded(context.regime, drop)]
                      ELSE [worker EXCEPT !.beat = 0,
                                          !.streak = IF @ < ErrorStreak THEN @ + 1 ELSE @]
    BY DEF Cycle
<1>2. UNCHANGED <<trend, shared>>
    BY DEF Cycle
<1> DEFINE context == Context(fetched)
<1>3. CASE context.regime # "none" /\ guards
    <2>1. context \in Contexts /\ context.regime = trend
        BY <1>3 DEF Context, Fresh, NoContext, Faithful, Sound, Contexts, TodayIs
    <2>2. Guarded(context.regime, drop) \in Snapshots /\ Told(Guarded(context.regime, drop), trend)
        BY <2>1, GuardedTold DEF Faithful
    <2>3. worker'.context = context /\ worker'.snap = Guarded(context.regime, drop)
        BY <1>1, <1>3 DEF Faithful, Sound
    <2>4. DOMAIN worker' = DOMAIN worker
        BY <1>1, <1>3
    <2>5. Sound(worker', trend)
        BY <2>1, <2>2, <2>3, <2>4 DEF Faithful, Sound, TodayIs
    <2> QED
        BY <1>2, <2>5 DEF Faithful
<1>4. CASE ~(context.regime # "none" /\ guards)
    <2>1. /\ worker'.context = worker.context /\ worker'.snap = worker.snap
          /\ DOMAIN worker' = DOMAIN worker
        BY <1>1, <1>4 DEF Faithful, Sound
    <2> QED
        BY <1>2, <2>1 DEF Faithful, Sound
<1> QED
    BY <1>3, <1>4

\* An iteration of the main loop replaces or ages a worker, and takes over what
\* it published or ages what it has.
LEMMA IterateFaithful == RegimeLimits /\ Faithful /\ Observes => Faithful'
<1> SUFFICES ASSUME RegimeLimits, Faithful, Observes
             PROVE  Faithful'
    OBVIOUS
<1>1. PICK wanted \in BOOLEAN : Observe(wanted)
    BY DEF Observes
<1>2. UNCHANGED trend
    BY DEF Observes
<1>3. AgedSnap(shared) \in Snapshots /\ Told(AgedSnap(shared), trend)
    BY AgedTold DEF Faithful
<1>4. CASE background
    <2>1. worker' = Aged(worker) \/ worker' = NewWorker
        BY <1>1, <1>4 DEF Observe, Supervise
    <2>2. Sound(worker', trend)
        BY <2>1, AgedSound, NewWorkerSound DEF Faithful
    <2>3. shared' = worker'.snap \/ shared' = AgedSnap(shared)
        BY <1>1, <1>4 DEF Observe
    <2> QED
        BY <1>2, <1>3, <2>2, <2>3 DEF Faithful, Sound
<1>5. CASE ~background
    <2>1. PICK drop \in BOOLEAN : shared' = Guarded(trend, drop) \/ shared' = AgedSnap(shared)
        BY <1>1, <1>5 DEF Observe
    <2>2. UNCHANGED worker
        BY <1>1, <1>5 DEF Observe
    <2> QED
        BY <1>2, <1>3, <2>1, <2>2, GuardedTold DEF Faithful
<1> QED
    BY <1>4, <1>5

\* A night makes everything stale.
LEMMA NightFaithful == RegimeLimits /\ Faithful /\ Night => Faithful'
<1> SUFFICES ASSUME RegimeLimits, Faithful, Night
             PROVE  Faithful'
    OBVIOUS
<1>1. StaleAfter \in Nat /\ ContextLife \in Nat
    BY DEF RegimeLimits
<1> DEFINE T == [worker.context EXCEPT !.today = FALSE]
           C == [T EXCEPT !.age = ContextLife + 1]
           S == [worker.snap EXCEPT !.age = StaleAfter + 1]
<1>2. C \in Contexts /\ TodayIs(C, trend')
    <2>1. T \in Contexts /\ T.today = FALSE
        BY DEF Faithful, Sound, Contexts
    <2> HIDE DEF T
    <2> QED
        BY <1>1, <2>1 DEF Contexts, TodayIs
<1>3. S \in Snapshots /\ Told(S, trend')
    BY <1>1 DEF Faithful, Sound, Snapshots, Told
<1>4. worker'.context = C /\ worker'.snap = S /\ DOMAIN worker' = DOMAIN worker
    <2> DEFINE w1 == [worker EXCEPT !.context = T]
               w2 == [w1 EXCEPT !.context = [w1.context EXCEPT !.age = ContextLife + 1]]
               w3 == [w2 EXCEPT !.snap = [w2.snap EXCEPT !.age = StaleAfter + 1]]
    <2>1. worker' = w3
        BY DEF Night
    <2>2. w1.context = T /\ w1.snap = worker.snap /\ DOMAIN w1 = DOMAIN worker
        BY DEF Faithful, Sound
    <2>3. /\ w2.context = C /\ w2.snap = worker.snap
          /\ DOMAIN w2 = DOMAIN worker
        <3> HIDE DEF w1
        <3> QED
            BY <2>2 DEF Faithful, Sound
    <2>4. w3.context = w2.context /\ w3.snap = S /\ DOMAIN w3 = DOMAIN worker
        <3> HIDE DEF w2
        <3> QED
            BY <2>3 DEF Faithful, Sound
    <2> HIDE DEF w1, w2, w3
    <2> QED
        BY <2>1, <2>3, <2>4
<1>5. shared' \in Snapshots /\ Told(shared', trend')
    BY <1>1 DEF Night, Faithful, Snapshots, Told
<1> QED
    BY <1>2, <1>3, <1>4, <1>5 DEF Night, Faithful, Sound

LEMMA StepFaithful == RegimeLimits /\ Faithful /\ [RegimeNext]_regimeVars => Faithful'
<1> SUFFICES ASSUME RegimeLimits, Faithful, [RegimeNext]_regimeVars
             PROVE  Faithful'
    OBVIOUS
<1>1. CASE Cycle
    BY <1>1, CycleFaithful
<1>2. CASE Hang
    <2>1. /\ worker'.context = worker.context /\ worker'.snap = worker.snap
          /\ DOMAIN worker' = DOMAIN worker
        BY <1>2 DEF Hang, Faithful, Sound
    <2> QED
        BY <1>2, <2>1 DEF Hang, Faithful, Sound
<1>3. CASE Observes
    BY <1>3, IterateFaithful
<1>4. CASE Night
    BY <1>4, NightFaithful
<1>5. CASE UNCHANGED regimeVars
    BY <1>5 DEF regimeVars, Faithful
<1> QED
    BY <1>1, <1>2, <1>3, <1>4, <1>5 DEF RegimeNext

\* No BUY passes the regime guard on yesterday's regime, or on one that a worker
\* which fails or was replaced has left behind.
LEMMA FaithfulTodays == Faithful => RegimeIsTodays
BY DEF Faithful, Told, RegimeIsTodays, RegimeBlocks
-----------------------------------------------------------------------------
(***************************************************************************)
(* A worker's heartbeat is younger than a stall, and what is left of a     *)
(* backoff, added to it, is no more than the longest backoff: the main     *)
(* loop may replace the worker before it counts as stalled.                *)
(***************************************************************************)
Attended ==
    background =>
        /\ {"alive", "hung", "streak", "beat", "context", "snap"} \subseteq DOMAIN worker
        /\ worker.beat \in Nat /\ worker.beat < StallAfter
        /\ restarts.backoff \in Nat /\ restarts.wait \in Nat
        /\ restarts.wait > 0 => worker.beat + restarts.wait <= MaxBackoff

\* A backoff is doubled, but never longer than the longest.
LEMMA Backoffs ==
    ASSUME RegimeLimits, NEW b \in Nat
    PROVE  Backoff(b) \in Nat /\ Backoff(b) <= MaxBackoff
BY DEF RegimeLimits, Backoff, Doubled

LEMMA InitAttended == RegimeLimits /\ RegimeInit => Attended
BY DEF RegimeLimits, RegimeInit, Attended, NewWorker

\* An iteration ages the heartbeat and the backoff by one, or replaces the worker.
LEMMA IterateAttended ==
    ASSUME RegimeLimits, MaxBackoff <= StallAfter, Attended, Observes
    PROVE  Attended'
<1> SUFFICES ASSUME background' PROVE Attended'
    BY DEF Attended
<1>1. background /\ MaxBackoff \in Nat /\ StallAfter \in Nat \ {0}
    BY DEF Observes, RegimeLimits
<1> DEFINE old  == Aged(worker)
           wait == IF restarts.wait = 0 THEN 0 ELSE restarts.wait - 1
<1>2. Supervise(old, wait)
    BY <1>1 DEF Observes, Observe
<1>3. /\ {"alive", "hung", "streak", "beat", "context", "snap"} \subseteq DOMAIN old
      /\ old.beat = worker.beat + 1 /\ old.beat \in Nat
    BY <1>1 DEF Attended, Aged, Older
<1>4. /\ wait \in Nat /\ restarts.backoff \in Nat
      /\ wait > 0 => old.beat + wait <= MaxBackoff
    BY <1>1, <1>3 DEF Attended
<1> HIDE DEF old, wait
<1>5. CASE ~MustRestart(old)
    <2>1. worker' = old /\ restarts' = [backoff |-> 0, wait |-> 0] /\ old.beat < StallAfter
        BY <1>1, <1>2, <1>3, <1>5 DEF Supervise, MustRestart
    <2> QED
        BY <1>3, <2>1 DEF Attended
<1>6. CASE MustRestart(old) /\ wait > 0
    <2>1. worker' = old /\ restarts' = [restarts EXCEPT !.wait = wait]
        BY <1>2, <1>6 DEF Supervise
    <2>2. restarts'.backoff = restarts.backoff /\ restarts'.wait = wait
        BY <2>1, <1>1 DEF Attended
    <2>3. old.beat < StallAfter
        BY <1>1, <1>3, <1>4, <1>6
    <2> QED
        BY <1>3, <1>4, <2>1, <2>2, <2>3 DEF Attended
<1>7. CASE MustRestart(old) /\ ~(wait > 0)
    <2> DEFINE next == Backoff(restarts.backoff)
    <2>1. worker' = NewWorker /\ restarts' = [backoff |-> next, wait |-> next]
        BY <1>2, <1>7 DEF Supervise
    <2>2. next \in Nat /\ next <= MaxBackoff
        BY <1>4, Backoffs
    <2> HIDE DEF next
    <2> QED
        BY <1>1, <2>1, <2>2 DEF Attended, NewWorker
<1> QED
    BY <1>5, <1>6, <1>7

LEMMA StepAttended ==
    ASSUME RegimeLimits, MaxBackoff <= StallAfter, Attended, [RegimeNext]_regimeVars
    PROVE  Attended'
<1>1. CASE Cycle
    <2>1. worker'.beat = 0 /\ DOMAIN worker' = DOMAIN worker
        BY <1>1 DEF Cycle, Attended
    <2> QED
        BY <1>1, <2>1 DEF Cycle, Attended, RegimeLimits
<1>2. CASE Hang
    <2>1. /\ worker' = [worker EXCEPT !.hung = TRUE, !.beat = 0] \/ worker' = [worker EXCEPT !.alive = FALSE]
          /\ background /\ UNCHANGED <<background, restarts>>
        BY <1>2 DEF Hang
    <2>2. worker'.beat \in {0, worker.beat} /\ DOMAIN worker' = DOMAIN worker
        BY <2>1 DEF Attended
    <2> QED
        BY <2>1, <2>2 DEF Attended, RegimeLimits
<1>3. CASE Observes
    BY <1>3, IterateAttended
<1>4. CASE Night
    <2> DEFINE T  == [worker.context EXCEPT !.today = FALSE]
               w1 == [worker EXCEPT !.context = T]
               w2 == [w1 EXCEPT !.context = [w1.context EXCEPT !.age = ContextLife + 1]]
               w3 == [w2 EXCEPT !.snap = [w2.snap EXCEPT !.age = StaleAfter + 1]]
    <2>1. worker' = w3 /\ UNCHANGED <<background, restarts>>
        BY <1>4 DEF Night
    <2>2. background => w1.beat = worker.beat /\ DOMAIN w1 = DOMAIN worker
        BY DEF Attended
    <2>3. background => w2.beat = worker.beat /\ DOMAIN w2 = DOMAIN worker
        <3> HIDE DEF w1
        <3> QED
            BY <2>2 DEF Attended
    <2>4. background => w3.beat = worker.beat /\ DOMAIN w3 = DOMAIN worker
        <3> HIDE DEF w2
        <3> QED
            BY <2>3 DEF Attended
    <2> HIDE DEF w1, w2, w3
    <2> QED
        BY <2>1, <2>4 DEF Attended
<1>5. CASE UNCHANGED regimeVars
    BY <1>5 DEF regimeVars, Attended
<1> QED
    BY <1>1, <1>2, <1>3, <1>4, <1>5 DEF RegimeNext

\* A worker that hangs or dies is replaced before it counts as stalled.
LEMMA AttendedNeverStays == Attended => NoWorkerStaysHung
BY DEF Attended, NoWorkerStaysHung

(***************************************************************************)
(* The types of the regime: every age, streak and backoff stays within one *)
(* step past its limit, whatever the worker does and however often it is   *)
(* replaced.                                                               *)
(***************************************************************************)
LEMMA AgesStay ==
    ASSUME NEW limit \in Nat, NEW age \in 0 .. limit + 1
    PROVE  Older(age, limit) \in 0 .. limit + 1
BY DEF Older

ContextTypes  == [regime : Regimes \cup {"none"}, today : BOOLEAN, age : 0 .. ContextLife + 1]
SnapshotTypes == [regime : Regimes \cup {"none"}, age : 0 .. StaleAfter + 1]
WorkerTypes   == [alive : BOOLEAN, hung : BOOLEAN, streak : 0 .. ErrorStreak,
                  beat : 0 .. StallAfter + 1, context : ContextTypes, snap : SnapshotTypes]

LEMMA NewWorkerTyped ==
    ASSUME RegimeLimits
    PROVE  NewWorker \in WorkerTypes /\ Nothing \in SnapshotTypes
<1>1. {StaleAfter, ContextLife, ErrorStreak, StallAfter} \subseteq Nat
    BY DEF RegimeLimits
<1>2. NoContext \in ContextTypes
    BY <1>1 DEF NoContext, ContextTypes
<1>3. Nothing \in SnapshotTypes
    BY <1>1 DEF Nothing, SnapshotTypes
<1>4. 0 \in 0 .. ErrorStreak /\ 0 \in 0 .. StallAfter + 1
    BY <1>1
<1> QED
    BY <1>2, <1>3, <1>4 DEF NewWorker, WorkerTypes

LEMMA AgedSnapTyped ==
    ASSUME RegimeLimits, NEW s \in SnapshotTypes
    PROVE  AgedSnap(s) \in SnapshotTypes
<1>1. Older(s.age, StaleAfter) \in 0 .. StaleAfter + 1
    BY AgesStay DEF RegimeLimits, SnapshotTypes
<1> QED
    BY <1>1 DEF AgedSnap, SnapshotTypes

LEMMA AgedTyped ==
    ASSUME RegimeLimits, NEW w \in WorkerTypes
    PROVE  Aged(w) \in WorkerTypes
<1> DEFINE C  == [w.context EXCEPT !.age = Older(@, ContextLife)]
           w1 == [w EXCEPT !.beat = Older(@, StallAfter)]
           w2 == [w1 EXCEPT !.snap = AgedSnap(@)]
           w3 == [w2 EXCEPT !.context = [w2.context EXCEPT !.age = Older(@, ContextLife)]]
<1>1. Older(w.context.age, ContextLife) \in 0 .. ContextLife + 1
    BY AgesStay DEF RegimeLimits, WorkerTypes, ContextTypes
<1>2. C \in ContextTypes
    BY <1>1 DEF WorkerTypes, ContextTypes
<1>3. Older(w.beat, StallAfter) \in 0 .. StallAfter + 1
    BY AgesStay DEF RegimeLimits, WorkerTypes
<1>4. w1 \in WorkerTypes /\ w1.context = w.context
    BY <1>3 DEF WorkerTypes
<1> HIDE DEF w1
<1>5. AgedSnap(w1.snap) \in SnapshotTypes
    BY <1>4, AgedSnapTyped DEF WorkerTypes
<1>6. w2 \in WorkerTypes /\ w2.context = w.context
    BY <1>4, <1>5 DEF WorkerTypes
<1>7. Aged(w) = w3
    BY DEF Aged, w1
<1> HIDE DEF w2
<1>8. w3 \in WorkerTypes
    BY <1>2, <1>6 DEF WorkerTypes
<1> QED
    BY <1>7, <1>8

LEMMA RegimeTypesAre ==
    RegimeTypes <=>
        /\ trend \in Regimes /\ background \in BOOLEAN
        /\ worker \in WorkerTypes
        /\ restarts \in [backoff : 0 .. MaxBackoff, wait : 0 .. MaxBackoff]
        /\ shared \in SnapshotTypes
BY DEF RegimeTypes, WorkerTypes, ContextTypes, SnapshotTypes

LEMMA RegimeTypesThen ==
    RegimeTypes' <=>
        /\ trend' \in Regimes /\ background' \in BOOLEAN
        /\ worker' \in WorkerTypes
        /\ restarts' \in [backoff : 0 .. MaxBackoff, wait : 0 .. MaxBackoff]
        /\ shared' \in SnapshotTypes
BY DEF RegimeTypes, WorkerTypes, ContextTypes, SnapshotTypes

LEMMA InitRegimeTypes == RegimeLimits /\ RegimeInit => RegimeTypes
<1> SUFFICES ASSUME RegimeLimits, RegimeInit
             PROVE  RegimeTypes
    OBVIOUS
<1>1. restarts \in [backoff : 0 .. MaxBackoff, wait : 0 .. MaxBackoff]
    BY DEF RegimeLimits, RegimeInit
<1> QED
    BY <1>1, NewWorkerTyped, RegimeTypesAre DEF RegimeInit

LEMMA GuardedTyped ==
    ASSUME RegimeLimits, NEW r \in Regimes, NEW drop
    PROVE  Guarded(r, drop) \in SnapshotTypes
<1>1. 0 \in 0 .. StaleAfter + 1
    BY DEF RegimeLimits
<1> QED
    BY <1>1 DEF Guarded, SnapshotTypes, Regimes

LEMMA CycleTypes == RegimeLimits /\ RegimeTypes /\ Cycle => RegimeTypes'
<1> SUFFICES ASSUME RegimeLimits, RegimeTypes, Cycle
             PROVE  RegimeTypes'
    OBVIOUS
<1>1. PICK fetched \in BOOLEAN, guards \in BOOLEAN, drop \in BOOLEAN :
        LET context == Context(fetched)
        IN  worker' = IF context.regime # "none" /\ guards
                      THEN [worker EXCEPT !.context = context, !.beat = 0, !.streak = 0,
                                          !.snap = Guarded(context.regime, drop)]
                      ELSE [worker EXCEPT !.beat = 0,
                                          !.streak = IF @ < ErrorStreak THEN @ + 1 ELSE @]
    BY DEF Cycle
<1> DEFINE context == Context(fetched)
<1>2. worker \in WorkerTypes /\ trend \in Regimes
    BY RegimeTypesAre
<1>3. 0 \in 0 .. ErrorStreak /\ 0 \in 0 .. StallAfter + 1 /\ 0 \in 0 .. ContextLife + 1
    BY DEF RegimeLimits
<1>4. context \in ContextTypes
    BY <1>2, <1>3, NewWorkerTyped DEF Context, NewWorker, WorkerTypes, ContextTypes
<1>5. CASE context.regime # "none" /\ guards
    <2>1. Guarded(context.regime, drop) \in SnapshotTypes
        BY <1>4, <1>5, GuardedTyped DEF ContextTypes
    <2>2. worker' = [worker EXCEPT !.context = context, !.beat = 0, !.streak = 0,
                                   !.snap = Guarded(context.regime, drop)]
        BY <1>1, <1>5
    <2> HIDE DEF context
    <2>3. worker' \in WorkerTypes
        BY <1>2, <1>3, <1>4, <2>1, <2>2 DEF WorkerTypes
    <2> QED
        BY <2>3, RegimeTypesAre, RegimeTypesThen DEF Cycle
<1>6. CASE ~(context.regime # "none" /\ guards)
    <2> DEFINE next == IF worker.streak < ErrorStreak THEN worker.streak + 1 ELSE worker.streak
    <2>1. next \in 0 .. ErrorStreak
        BY <1>2 DEF WorkerTypes, RegimeLimits
    <2>2. worker' = [worker EXCEPT !.beat = 0, !.streak = next]
        BY <1>1, <1>2, <1>6 DEF WorkerTypes
    <2> HIDE DEF next
    <2>3. worker' \in WorkerTypes
        BY <1>2, <1>3, <2>1, <2>2 DEF WorkerTypes
    <2> QED
        BY <2>3, RegimeTypesAre, RegimeTypesThen DEF Cycle
<1> QED
    BY <1>5, <1>6

LEMMA ObservesTypes == RegimeLimits /\ RegimeTypes /\ Observes => RegimeTypes'
<1> SUFFICES ASSUME RegimeLimits, RegimeTypes, Observes
             PROVE  RegimeTypes'
    OBVIOUS
<1>1. PICK wanted \in BOOLEAN : Observe(wanted)
    BY DEF Observes
<1>2. /\ UNCHANGED <<trend, background>> /\ trend \in Regimes /\ background \in BOOLEAN
      /\ worker \in WorkerTypes /\ shared \in SnapshotTypes
      /\ restarts \in [backoff : 0 .. MaxBackoff, wait : 0 .. MaxBackoff]
    BY RegimeTypesAre DEF Observes
<1>3. AgedSnap(shared) \in SnapshotTypes
    BY <1>2, AgedSnapTyped
<1>4. CASE background
    <2> DEFINE old  == Aged(worker)
               wait == IF restarts.wait = 0 THEN 0 ELSE restarts.wait - 1
    <2>1. Supervise(old, wait) /\ (shared' = worker'.snap \/ shared' = AgedSnap(shared))
        BY <1>1, <1>4 DEF Observe
    <2>2. old \in WorkerTypes /\ NewWorker \in WorkerTypes
        BY <1>2, AgedTyped, NewWorkerTyped
    <2>3. wait \in 0 .. MaxBackoff /\ 0 \in 0 .. MaxBackoff
        BY <1>2 DEF RegimeLimits
    <2>4. Backoff(restarts.backoff) \in 0 .. MaxBackoff
        BY <1>2, Backoffs DEF RegimeLimits
    <2> HIDE DEF old, wait
    <2>5. worker' \in WorkerTypes
        BY <2>1, <2>2 DEF Supervise
    <2>6. restarts' \in [backoff : 0 .. MaxBackoff, wait : 0 .. MaxBackoff]
        BY <1>2, <2>1, <2>3, <2>4 DEF Supervise
    <2>7. shared' \in SnapshotTypes
        BY <1>3, <2>1, <2>5 DEF WorkerTypes
    <2> QED
        BY <1>2, <2>5, <2>6, <2>7, RegimeTypesThen
<1>5. CASE ~background
    <2>1. PICK drop \in BOOLEAN : shared' = Guarded(trend, drop) \/ shared' = AgedSnap(shared)
        BY <1>1, <1>5 DEF Observe
    <2>2. UNCHANGED <<worker, restarts>>
        BY <1>1, <1>5 DEF Observe
    <2>3. shared' \in SnapshotTypes
        BY <1>2, <1>3, <2>1, GuardedTyped
    <2> QED
        BY <1>2, <2>2, <2>3, RegimeTypesThen
<1> QED
    BY <1>4, <1>5

LEMMA NightTypes == RegimeLimits /\ RegimeTypes /\ Night => RegimeTypes'
<1> SUFFICES ASSUME RegimeLimits, RegimeTypes, Night
             PROVE  RegimeTypes'
    OBVIOUS
<1> DEFINE T  == [worker.context EXCEPT !.today = FALSE]
           w1 == [worker EXCEPT !.context = T]
           C  == [w1.context EXCEPT !.age = ContextLife + 1]
           w2 == [w1 EXCEPT !.context = C]
           S  == [w2.snap EXCEPT !.age = StaleAfter + 1]
           w3 == [w2 EXCEPT !.snap = S]
<1>1. worker' = w3
    BY DEF Night
<1>2. ContextLife + 1 \in 0 .. ContextLife + 1 /\ StaleAfter + 1 \in 0 .. StaleAfter + 1
    BY DEF RegimeLimits
<1>3. worker \in WorkerTypes /\ shared \in SnapshotTypes
    BY RegimeTypesAre
<1>4. w1 \in WorkerTypes
    <2>1. T \in ContextTypes
        BY <1>3 DEF WorkerTypes, ContextTypes
    <2> HIDE DEF T
    <2> QED
        BY <1>3, <2>1 DEF WorkerTypes
<1> HIDE DEF w1
<1>5. w2 \in WorkerTypes
    <2>1. C \in ContextTypes
        BY <1>2, <1>4 DEF WorkerTypes, ContextTypes
    <2> HIDE DEF C
    <2> QED
        BY <1>4, <2>1 DEF WorkerTypes
<1> HIDE DEF w2
<1>6. w3 \in WorkerTypes
    <2>1. S \in SnapshotTypes
        BY <1>2, <1>5 DEF WorkerTypes, SnapshotTypes
    <2> HIDE DEF S
    <2> QED
        BY <1>5, <2>1 DEF WorkerTypes
<1>7. shared' \in SnapshotTypes
    BY <1>2, <1>3 DEF Night, SnapshotTypes
<1> QED
    BY <1>1, <1>6, <1>7, RegimeTypesAre, RegimeTypesThen DEF Night

LEMMA StepRegimeTypes ==
    RegimeLimits /\ RegimeTypes /\ [RegimeNext]_regimeVars => RegimeTypes'
<1> SUFFICES ASSUME RegimeLimits, RegimeTypes, [RegimeNext]_regimeVars
             PROVE  RegimeTypes'
    OBVIOUS
<1>1. CASE Hang
    <2>1. 0 \in 0 .. StallAfter + 1 /\ worker \in WorkerTypes
        BY RegimeTypesAre DEF RegimeLimits
    <2>2. worker' \in WorkerTypes
        BY <1>1, <2>1 DEF Hang, WorkerTypes
    <2> QED
        BY <1>1, <2>2, RegimeTypesAre, RegimeTypesThen DEF Hang
<1>2. CASE UNCHANGED regimeVars
    BY <1>2 DEF regimeVars, RegimeTypes
<1> QED
    BY <1>1, <1>2, CycleTypes, ObservesTypes, NightTypes DEF RegimeNext

-----------------------------------------------------------------------------
(***************************************************************************)
(* The records follow the money, whatever values the operator may give the *)
(* variables.  What a program settled on at its start stays true of the    *)
(* environment, because nobody configures while it runs; the rest follows  *)
(* from the four readings of the variables, by the names there are.        *)
(***************************************************************************)

\* A running program has what its environment says, the legacy one has found its
\* settings valid, and an order is under way of a running program only.
Settled ==
    /\ run # Off =>
        /\ run.mode = ExecutionMode(env.execution)
        /\ run.host = Host(env)
        /\ run.space = Namespace(env)
        /\ run.rows = TradingMode(env.trading)
        /\ run.ids = "real" => run.rows = "REAL"
        /\ run.program = "main" => ValidSettings(env)
    /\ sending # "none" => run # Off
    /\ sending = "sent" => ~Simulates(run.mode)

LEMMA InitSettled == ModesInit => Settled
<1> QED
    BY DEF ModesInit, Settled

\* Either program, started in an environment e, has settled.
LEMMA RunsSettled ==
    ASSUME NEW prog \in {"kr_trade", "main"}, NEW e, NEW ids,
           Runs(prog, e, ids),
           ids = "real" => TradingMode(e.trading) = "REAL",
           prog = "main" => ValidSettings(e),
           run = Off, Settled
    PROVE  Settled'
<1>1. sending' = "none"
    BY DEF Runs, Settled
<1>2. /\ run' = [program |-> prog, mode |-> ExecutionMode(e.execution), host |-> Host(e),
                 ids |-> ids, space |-> Namespace(e), rows |-> TradingMode(e.trading)]
      /\ env' = e
    BY DEF Runs
<1>3. /\ run'.mode = ExecutionMode(env'.execution)
      /\ run'.host = Host(env')
      /\ run'.space = Namespace(env')
      /\ run'.rows = TradingMode(env'.trading)
      /\ run'.ids = "real" => run'.rows = "REAL"
      /\ run'.program = "main" => ValidSettings(env')
    BY <1>2
<1> QED
    BY <1>1, <1>3
    DEF Settled, Host, Namespace, SpaceOf, ExecutionMode, TradingMode, ValidSettings, Spaces

LEMMA StepSettled == Settled /\ [ModesNext]_modeVars => Settled'
<1> SUFFICES ASSUME Settled, [ModesNext]_modeVars
             PROVE  Settled'
    OBVIOUS
<1>1. CASE Configures
    BY <1>1 DEF Configures, Settled
<1>2. CASE StartsApp
    <2>1. PICK paper \in BOOLEAN :
            LET f == Loaded(env)
                d == IF paper THEN [f EXCEPT !.trading = "PAPER"] ELSE f
            IN  Runs("kr_trade", d, IF d.trading = "REAL" THEN "real" ELSE "paper")
        BY <1>2 DEF StartsApp
    <2> DEFINE f == Loaded(env)
               e == IF paper THEN [f EXCEPT !.trading = "PAPER"] ELSE f
    <2>2. e.trading = "REAL" => TradingMode(e.trading) = "REAL"
        BY DEF TradingMode
    <2> DEFINE ids == IF e.trading = "REAL" THEN "real" ELSE "paper"
    <2>3. ids = "real" => TradingMode(e.trading) = "REAL"
        BY <2>2
    <2>4. Runs("kr_trade", e, ids) /\ run = Off
        BY <1>2, <2>1 DEF StartsApp
    <2> HIDE DEF e, ids
    <2> QED
        BY <2>3, <2>4, RunsSettled
<1>3. CASE StartsMain
    <2> DEFINE e == Loaded(env)
               ids == IF TradingMode(e.trading) = "REAL" THEN "real" ELSE "paper"
    <2>1. ValidSettings(e) /\ Runs("main", e, ids) /\ run = Off
        BY <1>3 DEF StartsMain
    <2>2. ids = "real" => TradingMode(e.trading) = "REAL"
        OBVIOUS
    <2> HIDE DEF e, ids
    <2> QED
        BY <2>1, <2>2, RunsSettled
<1>4. CASE Stops
    BY <1>4 DEF Stops, Settled
<1>5. CASE Halts \/ Resumes
    BY <1>5 DEF Halts, Resumes, Settled
<1>6. CASE ChecksOrder
    BY <1>6 DEF ChecksOrder, Settled
<1>7. CASE SendsOrder
    BY <1>7 DEF SendsOrder, Settled
<1>8. CASE UNCHANGED modeVars
    BY <1>8 DEF modeVars, Settled
<1> QED
    BY <1>1, <1>2, <1>3, <1>4, <1>5, <1>6, <1>7, <1>8 DEF ModesNext

\* The real host is named by EXECUTION_MODE alone, which is the first that the
\* namespace goes by.  Real trades under a mode the executor knows and orders in
\* are of EXECUTION_MODE too, by REAL or LIVE, and valid settings then have the
\* real host.
LEMMA SettledFollow == Settled => RecordsFollowTheMoney
<1> SUFFICES ASSUME Settled, sending = "sent"
             PROVE  /\ run.host = "real" => run.space = "REAL"
                    /\ run.host = "real" /\ run.ids = "real" => run.rows = "REAL"
                    /\ run.program = "main" /\ run.mode \in Spaces /\ run.space = "REAL" =>
                          run.host = "real"
    BY DEF RecordsFollowTheMoney
<1>1. /\ run.mode = ExecutionMode(env.execution) /\ run.mode # "DRY_RUN"
      /\ run.host = Host(env) /\ run.space = Namespace(env)
      /\ run.ids = "real" => run.rows = "REAL"
      /\ run.program = "main" => ValidSettings(env)
    BY DEF Settled, Simulates
<1>2. ASSUME run.host = "real"
      PROVE  run.space = "REAL"
    <2>1. env.execution = "REAL"
        BY <1>1, <1>2 DEF Host
    <2>2. SpaceOf(env.execution) = "REAL"
        BY <2>1 DEF SpaceOf
    <2> QED
        BY <1>1, <2>2 DEF Namespace, Spaces
<1>3. ASSUME run.program = "main", run.mode \in Spaces, run.space = "REAL"
      PROVE  run.host = "real"
    <2>1. run.mode \in {"PAPER", "REAL"} /\ ValidSettings(env)
        BY <1>1, <1>3 DEF Spaces
    <2>2. CASE run.mode = "PAPER"
        <3>1. env.execution = "PAPER"
            BY <1>1, <2>2 DEF ExecutionMode
        <3>2. SpaceOf(env.execution) = "PAPER"
            BY <3>1 DEF SpaceOf
        <3> QED
            BY <1>1, <1>3, <3>2 DEF Namespace, Spaces
    <2>3. CASE run.mode = "REAL"
        BY <1>1, <2>1, <2>3 DEF ValidSettings, Host
    <2> QED
        BY <2>1, <2>2, <2>3
<1> QED
    BY <1>1, <1>2, <1>3

(***************************************************************************)
(* The types of a program's mode.  The environment keeps its shape, and    *)
(* its EXECUTION_MODE is a name that was given.                            *)
(***************************************************************************)
Environments == [execution : ExecutionModes, trading : TradingModes \cup {"", "PAPER", "REAL"},
                 enabled : BOOLEAN, realKeys : BOOLEAN]
ModesGiven == env \in Environments /\ dotenv \in {"", "PAPER", "REAL"}

\* A program that is off has the mode of an unset variable.
LEMMA OffTyped ==
    ASSUME ModeNames
    PROVE  Off.mode \in {ExecutionMode(x) : x \in ExecutionModes}
<1>1. "" \in ExecutionModes /\ ExecutionMode("") = "DRY_RUN"
    BY DEF ModeNames, ExecutionMode
<1> QED
    BY <1>1 DEF Off

LEMMA InitModesTypes == ModeNames /\ ModesInit => ModesTypes /\ ModesGiven
<1> SUFFICES ASSUME ModeNames, ModesInit
             PROVE  ModesTypes /\ ModesGiven
    OBVIOUS
<1>1. env \in Environments
    BY DEF ModesInit, Environments, ModeNames
<1> QED
    BY <1>1, OffTyped DEF ModesInit, Off, ModesTypes, ModesGiven, Spaces

\* The namespace of an environment with a legal name is one of the three.
LEMMA SpacesAre ==
    ASSUME NEW e, Legal(e.trading) \/ e.trading = "PAPER"
    PROVE  Namespace(e) \in Spaces
<1>1. TradingMode("PAPER") = "PAPER"
    BY DEF TradingMode
<1>2. TradingMode(e.trading) \in {"PAPER", "REAL"}
    BY <1>1 DEF Legal
<1> QED
    BY <1>2 DEF Namespace, Spaces

LEMMA RunsTypes ==
    ASSUME ModesTypes, ModesGiven, NEW prog \in {"kr_trade", "main"}, NEW e \in Environments,
           NEW ids \in {"paper", "real"}, Runs(prog, e, ids),
           Legal(e.trading) \/ e.trading = "PAPER"
    PROVE  ModesTypes' /\ ModesGiven'
<1>1. Namespace(e) \in Spaces
    BY SpacesAre
<1>2. Host(e) \in {"paper", "real"}
    BY DEF Host
<1>3. ExecutionMode(e.execution) \in {ExecutionMode(x) : x \in ExecutionModes}
    BY DEF Environments
<1>4. run' = [program |-> prog, mode |-> ExecutionMode(e.execution), host |-> Host(e),
              ids |-> ids, space |-> Namespace(e), rows |-> TradingMode(e.trading)]
    BY DEF Runs
<1>5. TradingMode(e.trading) \in {"PAPER", "REAL"}
    BY DEF Legal, TradingMode
<1>6. latched' \in BOOLEAN /\ UNCHANGED <<dotenv, stopFile, sending>> /\ env' = e
    BY DEF Runs, ModesTypes
<1> HIDE DEF Environments
<1> QED
    BY <1>1, <1>2, <1>3, <1>4, <1>5, <1>6 DEF ModesTypes, ModesGiven

LEMMA LoadedIs == ModesGiven => Loaded(env) \in Environments
BY DEF ModesGiven, Loaded, Environments

LEMMA StepModesTypes ==
    ModeNames /\ ModesTypes /\ ModesGiven /\ [ModesNext]_modeVars => ModesTypes' /\ ModesGiven'
<1> SUFFICES ASSUME ModeNames, ModesTypes, ModesGiven, [ModesNext]_modeVars
             PROVE  ModesTypes' /\ ModesGiven'
    OBVIOUS
<1>1. CASE Configures
    <2>1. PICK x \in ExecutionModes, t \in TradingModes, enabled \in BOOLEAN, realKeys \in BOOLEAN :
            env' = [execution |-> x, trading |-> t, enabled |-> enabled, realKeys |-> realKeys]
        BY <1>1 DEF Configures
    <2>2. env' \in Environments
        BY <2>1 DEF Environments
    <2>3. ModesGiven'
        BY <1>1, <2>2 DEF Configures, ModesGiven
    <2>4. ModesTypes'
        BY <1>1 DEF Configures, ModesTypes
    <2> QED
        BY <2>3, <2>4
<1>2. CASE StartsApp
    <2>1. PICK paper \in BOOLEAN :
            LET f == Loaded(env)
                e == IF paper THEN [f EXCEPT !.trading = "PAPER"] ELSE f
            IN  /\ Legal(f.trading)
                /\ Runs("kr_trade", e, IF e.trading = "REAL" THEN "real" ELSE "paper")
        BY <1>2 DEF StartsApp
    <2> DEFINE f == Loaded(env)
               e == IF paper THEN [f EXCEPT !.trading = "PAPER"] ELSE f
    <2>2. e \in Environments /\ (Legal(e.trading) \/ e.trading = "PAPER")
        <3>1. f \in Environments
            BY LoadedIs
        <3>2. Legal(f.trading)
            BY <2>1
        <3> HIDE DEF f
        <3>3. CASE paper
            BY <3>1, <3>3 DEF Environments
        <3>4. CASE ~paper
            BY <3>1, <3>2, <3>4
        <3> QED
            BY <3>3, <3>4
    <2>3. Runs("kr_trade", e, IF e.trading = "REAL" THEN "real" ELSE "paper")
        BY <2>1
    <2> HIDE DEF e
    <2> QED
        BY <2>2, <2>3, RunsTypes
<1>3. CASE StartsMain
    <2>1. /\ Legal(Loaded(env).trading)
          /\ Runs("main", Loaded(env),
                  IF TradingMode(Loaded(env).trading) = "REAL" THEN "real" ELSE "paper")
        BY <1>3 DEF StartsMain
    <2> QED
        BY <2>1, LoadedIs, RunsTypes
<1>4. CASE Stops
    <2>1. UNCHANGED <<env, dotenv, stopFile>> /\ latched' = FALSE /\ sending' = "none" /\ run' = Off
        BY <1>4 DEF Stops
    <2> QED
        BY <2>1, OffTyped DEF Off, Spaces, ModesTypes, ModesGiven
<1>5. CASE Halts \/ Resumes
    BY <1>5 DEF Halts, Resumes, Activated, Deactivated, ModesTypes, ModesGiven
<1>6. CASE ChecksOrder
    BY <1>6 DEF ChecksOrder, ModesTypes, ModesGiven
<1>7. CASE SendsOrder
    BY <1>7 DEF SendsOrder, ModesTypes, ModesGiven
<1>8. CASE UNCHANGED modeVars
    BY <1>8 DEF modeVars, ModesTypes, ModesGiven
<1> QED
    BY <1>1, <1>2, <1>3, <1>4, <1>5, <1>6, <1>7, <1>8 DEF ModesNext

-----------------------------------------------------------------------------
(***************************************************************************)
(* The feed.  What keeps a second listener away is the day: the loop holds *)
(* a subscription exactly while the session it saw wants one, sees every   *)
(* session before the clock leaves it, and so stops a listener in the      *)
(* first session that wants none, which is long enough before the next     *)
(* that wants one.  An emergency stop may stop a listener that has not     *)
(* begun, which then stays, but none is started again.                     *)
(***************************************************************************)
Places == {"none", "start", "connect", "listen", "retry"}

\* The clock has left the session that the loop saw at most once.
SawSession ==
    seen = "NONE" \/ seen = SessionAt(now) \/
       \E b \in 1 .. now : /\ SessionAt(b - 1) = seen
                           /\ \A u \in b .. now : SessionAt(u) = SessionAt(now)

\* A listener the loop has let go of is on its way out, in time.
GoesInTime ==
    /\ ~running
    /\ \A t \in Threads : thread[t] # "start"
    /\ Alive # {} => quitting \in 0 .. now /\ now - quitting <= RecvTimeout /\ LeavesFeed(quitting)

ListenerInv ==
    /\ now \in 0 .. LastMinute /\ stop \in BOOLEAN /\ handle \in BOOLEAN /\ running \in BOOLEAN
    /\ overlay \in Overlays /\ seen \in Sessions \cup {"NONE"}
    /\ thread \in [Threads -> Places]
    /\ \A t, u \in Alive : t = u
    /\ (\E t \in Threads : thread[t] = "start") => seen = SessionAt(now)
    /\ SawSession
    /\ overlay # "EMERGENCY_STOP" =>
          /\ handle <=> (seen # "NONE" /\ Wanted(seen))
          /\ handle => \A t \in Alive : running \/ thread[t] = "start"
          /\ ~handle => GoesInTime

LEMMA InitListener == FeedTimes /\ ControlInit => ListenerInv
<1> SUFFICES ASSUME FeedTimes, ControlInit
             PROVE  ListenerInv
    OBVIOUS
<1>1. /\ now = 0 /\ stop = FALSE /\ handle = FALSE /\ running = FALSE
      /\ overlay = "NORMAL" /\ seen = "NONE" /\ thread = [t \in Threads |-> "none"]
    BY DEF ControlInit, RuntimeInit, FeedInit
<1>2. thread \in [Threads -> Places] /\ Alive = {}
    BY <1>1 DEF Places, Alive
<1>3. SawSession /\ GoesInTime
    BY <1>1, <1>2 DEF SawSession, GoesInTime
<1>4. now \in 0 .. LastMinute
    BY <1>1 DEF FeedTimes
<1> QED
    BY <1>1, <1>2, <1>3, <1>4 DEF ListenerInv, Overlays

LEMMA SessionsAre == ASSUME NEW t PROVE SessionAt(t) \in Sessions
BY DEF SessionAt, Sessions

\* What is wanted depends on the session only, but for the emergency stop.
LEMMA WantedBy ==
    ASSUME NEW session \in Sessions, NEW o \in Overlays
    PROVE  /\ o = "EMERGENCY_STOP" => Policy(session, o).ws = FALSE
           /\ o # "EMERGENCY_STOP" => Policy(session, o).ws = Wanted(session)
<1>1. CASE session \in {"OFF_SESSION", "POSTCLOSE"}
    BY <1>1 DEF Policy, Wanted, Quiet, Overlays
<1>2. CASE session = "PREOPEN_WARMUP"
    BY <1>2 DEF Policy, Wanted, Quiet, Overlays
<1>3. CASE session \in {"IN_SESSION", "AUCTION_GUARD"}
    BY <1>3 DEF Policy, Wanted, Quiet, Overlays
<1> QED
    BY <1>1, <1>2, <1>3 DEF Sessions

\* A listener goes on or out: only a beginning sets the flag, and nobody else
\* is there to notice when a failure clears it.
LEMMA ListenerMoves ==
    ASSUME ListenerInv, NEW t \in Threads, NEW p, p \in Places \ {"start"}, thread[t] # "none",
           thread' = [thread EXCEPT ![t] = p], UNCHANGED <<now, stop, handle, overlay, seen>>,
           running' \in BOOLEAN,
           thread[t] = "start" => running',
           running /\ ~running' => p = "none",
           ~running /\ (running' \/ quitting' # quitting) => thread[t] = "start"
    PROVE  ListenerInv'
<1>1. thread' \in [Threads -> Places] /\ Alive' \subseteq Alive /\ t \in Alive /\ thread'[t] = p
    BY DEF ListenerInv, Alive
<1>2. Alive = {t} /\ \A u \in Alive' : u = t
    BY <1>1 DEF ListenerInv
<1>3. \A u \in Threads : thread'[u] # "start" \/ thread[u] = "start"
    BY <1>1 DEF ListenerInv
<1>4. ASSUME overlay # "EMERGENCY_STOP"
      PROVE  /\ handle => \A u \in Alive' : running' \/ thread'[u] = "start"
             /\ ~handle => GoesInTime'
    <2>1. CASE handle
        <3>1. running \/ thread[t] = "start"
            BY <1>1, <1>4, <2>1 DEF ListenerInv
        <3>2. running' \/ p = "none"
            BY <3>1 DEF ListenerInv
        <3>3. p = "none" => Alive' = {}
            BY <1>1, <1>2 DEF Alive
        <3> QED
            BY <2>1, <3>2, <3>3
    <2>2. CASE ~handle
        <3>1. GoesInTime
            BY <1>4, <2>2 DEF ListenerInv
        <3>2. ~running' /\ quitting' = quitting /\ Alive # {}
            BY <1>1, <3>1 DEF GoesInTime
        <3> QED
            BY <1>3, <2>2, <3>1, <3>2 DEF GoesInTime
    <2> QED
        BY <2>1, <2>2
<1>5. SawSession'
    BY DEF ListenerInv, SawSession
<1> QED
    BY <1>1, <1>2, <1>3, <1>4, <1>5 DEF ListenerInv

LEMMA ListenKeeps == ListenerInv /\ Listen => ListenerInv'
<1> SUFFICES ASSUME ListenerInv, Listen
             PROVE  ListenerInv'
    OBVIOUS
<1>1. UNCHANGED <<now, stop, handle, overlay, seen>>
    BY DEF Listen, mainVars, rtVars
<1>2. PICK t \in Threads :
         RunBegins(t) \/ Connect(t) \/ Fail(t, now) \/ Retry(t) \/ \E m \in {now - 1, now} : Receive(t, now, m)
    BY DEF Listen
<1>3. running \in BOOLEAN
    BY DEF ListenerInv
<1>4. CASE UNCHANGED thread
    <2>1. running /\ UNCHANGED <<running, quitting>>
        BY <1>2, <1>3, <1>4 DEF ListenerInv, RunBegins, Connect, Fail, Retry, Receive, Ends, conVars, Places
    <2> QED
        BY <1>1, <1>4, <2>1 DEF ListenerInv, SawSession, GoesInTime, Alive
<1>5. CASE RunBegins(t)
    BY <1>1, <1>5, ListenerMoves DEF RunBegins, Places
<1>6. CASE Connect(t)
    BY <1>1, <1>3, <1>6, ListenerMoves DEF Connect, conVars, Places
<1>7. CASE Fail(t, now)
    <2>1. CASE attempt[t] < MaxAttempts
        BY <1>1, <1>3, <1>7, <2>1, ListenerMoves DEF Fail, Places
    <2>2. CASE ~(attempt[t] < MaxAttempts)
        BY <1>1, <1>3, <1>7, <2>2, ListenerMoves DEF Fail, Ends, Places
    <2> QED
        BY <2>1, <2>2
<1>8. CASE Retry(t)
    BY <1>1, <1>3, <1>8, ListenerMoves DEF Retry, Ends, Places
<1>9. CASE \E m \in {now - 1, now} : Receive(t, now, m)
    BY <1>1, <1>3, <1>4, <1>9, ListenerMoves DEF Receive, Ends, Places
<1> QED
    BY <1>2, <1>5, <1>6, <1>7, <1>8, <1>9

LEMMA MinuteKeeps == FeedTimes /\ ListenerInv /\ Minute => ListenerInv'
<1> SUFFICES ASSUME FeedTimes, ListenerInv, Minute
             PROVE  ListenerInv'
    OBVIOUS
<1>1. /\ now' = now + 1 /\ now \in 0 .. LastMinute /\ now' \in 0 .. LastMinute
      /\ UNCHANGED <<stop, handle, overlay, seen, thread, running, quitting>>
    BY DEF FeedTimes, Minute, ListenerInv, rtVars, feedVars
<1>2. /\ \A t \in Threads : thread[t] # "start"
      /\ ~running /\ Alive # {} => now - quitting < RecvTimeout
    BY DEF Minute, InTime
<1>3. SawSession'
    <2>1. CASE SessionAt(now + 1) # SessionAt(now)
        <3>1. seen = SessionAt(now)
            BY <2>1 DEF Minute
        <3>2. now' \in 1 .. now' /\ now' - 1 = now /\ \A u \in now' .. now' : u = now'
            BY <1>1
        <3> QED
            BY <1>1, <3>1, <3>2 DEF SawSession
    <2>2. CASE SessionAt(now + 1) = SessionAt(now)
        <3>1. CASE \E b \in 1 .. now : /\ SessionAt(b - 1) = seen
                                       /\ \A u \in b .. now : SessionAt(u) = SessionAt(now)
            <4>1. PICK b \in 1 .. now : /\ SessionAt(b - 1) = seen
                                        /\ \A u \in b .. now : SessionAt(u) = SessionAt(now)
                BY <3>1
            <4>2. b \in 1 .. now' /\ \A u \in b .. now' : u \in b .. now \/ u = now + 1
                BY <1>1
            <4> QED
                BY <1>1, <2>2, <4>1, <4>2 DEF SawSession
        <3> QED
            BY <1>1, <2>2, <3>1 DEF SawSession, ListenerInv
    <2> QED
        BY <2>1, <2>2
<1>4. GoesInTime => GoesInTime'
    BY <1>1, <1>2 DEF GoesInTime, Alive, FeedTimes
<1> QED
    BY <1>1, <1>2, <1>3, <1>4 DEF ListenerInv, Alive

LEMMA OverlayIs ==
    ASSUME overlay \in Overlays, NEW session, NEW status, NEW t, NEW start,
           NEW halt \in BOOLEAN
    PROVE  LET o == NextOverlay(session, status, t, start, halt)
           IN  o \in Overlays /\ (overlay = "EMERGENCY_STOP" => o = "EMERGENCY_STOP")
BY DEF NextOverlay, Degrades, Recovers, Overlays

LEMMA IterateKeeps == FeedTimes /\ ListenerInv /\ Iterate => ListenerInv'
<1> SUFFICES ASSUME FeedTimes, ListenerInv, Iterate
             PROVE  ListenerInv'
    OBVIOUS
<1> DEFINE session == SessionAt(now)
           wants == Policy(session, overlay').ws
<1>1. /\ UNCHANGED <<now, stop>> /\ seen' = session /\ session \in Sessions
      /\ Subscription(wants)
    BY SessionsAre DEF Iterate, Evaluate
<1>2. overlay' \in Overlays /\ (overlay = "EMERGENCY_STOP" => overlay' = "EMERGENCY_STOP")
    BY OverlayIs DEF Iterate, Evaluate, ListenerInv
<1>3. SawSession'
    BY <1>1 DEF SawSession
<1> HIDE DEF wants
<1>4. CASE overlay' = "EMERGENCY_STOP"
    <2>1. wants = FALSE
        BY <1>1, <1>2, <1>4, WantedBy DEF wants
    <2>2. UNCHANGED thread /\ handle' \in BOOLEAN /\ running' \in BOOLEAN
        BY <1>1, <2>1 DEF Subscription, StopFeed, feedVars, ListenerInv
    <2> QED
        BY <1>1, <1>2, <1>3, <1>4, <2>2 DEF ListenerInv, Alive
<1>5. CASE overlay' # "EMERGENCY_STOP"
    <2>1. wants = Wanted(session) /\ session # "NONE" /\ overlay # "EMERGENCY_STOP"
        BY <1>1, <1>2, <1>5, WantedBy DEF wants, Sessions
    <2>2. CASE Wanted(session) /\ ~handle
        <3>1. GoesInTime
            BY <2>1, <2>2 DEF ListenerInv
        <3>2. Alive = {}
            <4> SUFFICES ASSUME Alive # {}
                         PROVE  FALSE
                OBVIOUS
            <4>1. quitting \in 0 .. now /\ now - quitting <= RecvTimeout /\ LeavesFeed(quitting)
                BY <3>1 DEF GoesInTime
            <4>2. now \in 0 .. LastMinute /\ quitting \in 0 .. LastMinute /\ quitting <= now
                BY <4>1 DEF ListenerInv, FeedTimes
            <4>3. now - quitting > RecvTimeout
                BY <2>2, <4>1, <4>2 DEF FeedTimes
            <4> QED
                BY <4>1, <4>2, <4>3 DEF FeedTimes
        <3>3. PICK t \in Threads \ Alive : thread' = [thread EXCEPT ![t] = "start"]
            BY <1>1, <2>1, <2>2 DEF Subscription, Subscribe
        <3>4. handle' = TRUE /\ UNCHANGED running
            BY <1>1, <2>1, <2>2 DEF Subscription, Subscribe, conVars
        <3>5. thread' \in [Threads -> Places] /\ Alive' = {t} /\ thread'[t] = "start"
            BY <3>2, <3>3 DEF ListenerInv, Places, Alive
        <3> QED
            BY <1>1, <1>2, <1>3, <2>1, <2>2, <3>4, <3>5 DEF ListenerInv
    <2>3. CASE ~Wanted(session) /\ handle
        <3>1. seen # "NONE" /\ Wanted(seen) /\ seen # session
            BY <2>1, <2>3 DEF ListenerInv
        <3>2. /\ \A t \in Threads : thread[t] # "start"
              /\ Alive # {} => running
            BY <2>1, <2>3, <3>1 DEF ListenerInv, Alive
        <3>3. handle' = FALSE /\ StopFeed(now)
            BY <1>1, <2>1, <2>3 DEF Subscription
        <3>4. LeavesFeed(now)
            BY <2>3, <3>1 DEF ListenerInv, SawSession, LeavesFeed
        <3>5. GoesInTime'
            BY <1>1, <3>2, <3>3, <3>4 DEF GoesInTime, StopFeed, Alive, ListenerInv, FeedTimes
        <3> QED
            BY <1>1, <1>2, <1>3, <2>1, <2>3, <3>3, <3>5 DEF ListenerInv, StopFeed, Alive
    <2>4. CASE ~(Wanted(session) /\ ~handle) /\ ~(~Wanted(session) /\ handle)
        <3>1. UNCHANGED <<handle, thread, running, quitting>>
            BY <1>1, <2>1, <2>4 DEF Subscription, feedVars
        <3>2. GoesInTime => GoesInTime'
            BY <1>1, <3>1 DEF GoesInTime, Alive
        <3> QED
            BY <1>1, <1>2, <1>3, <2>1, <2>4, <3>1, <3>2 DEF ListenerInv, Alive
    <2> QED
        BY <2>2, <2>3, <2>4
<1> QED
    BY <1>4, <1>5

LEMMA StepListener == FeedTimes /\ ListenerInv /\ [ControlNext]_controlVars => ListenerInv'
<1> SUFFICES ASSUME FeedTimes, ListenerInv, [ControlNext]_controlVars
             PROVE  ListenerInv'
    OBVIOUS
<1>1. CASE Kill \/ UNCHANGED controlVars
    <2>1. UNCHANGED <<now, handle, overlay, seen, thread, running, quitting>> /\ stop' \in BOOLEAN
        BY <1>1 DEF Kill, controlVars, mainVars, rtVars, feedVars, ListenerInv
    <2>2. Alive' = Alive /\ SawSession' /\ (GoesInTime => GoesInTime')
        BY <2>1 DEF ListenerInv, SawSession, GoesInTime, Alive
    <2> QED
        BY <2>1, <2>2 DEF ListenerInv
<1> QED
    BY <1>1, IterateKeeps, MinuteKeeps, ListenKeeps DEF ControlNext

LEMMA ListenerIsOne == ListenerInv => OneListener
<1> SUFFICES ASSUME ListenerInv
             PROVE  Cardinality(Alive) <= 1
    BY DEF OneListener
<1>1. CASE Alive = {}
    BY <1>1, FS_EmptySet
<1>2. CASE Alive # {}
    <2>1. PICK t \in Alive : TRUE
        BY <1>2
    <2>2. Alive = {t}
        BY <2>1 DEF ListenerInv
    <2> QED
        BY <2>2, FS_Singleton
<1> QED
    BY <1>1, <1>2

\* One listener hears the ticks in order, so that a bar completes when its
\* minute is over.
BarsInv ==
    /\ ListenerInv
    /\ forming = Never \/ (forming \in Int /\ forming <= now)
    /\ bar = Never \/ (bar \in Int /\ bar < now)

LEMMA InitBars == FeedTimes /\ ControlInit => BarsInv
BY InitListener DEF BarsInv, ControlInit, FeedInit

LEMMA StepBars == FeedTimes /\ BarsInv /\ [ControlNext]_controlVars => BarsInv'
<1> SUFFICES ASSUME FeedTimes, BarsInv, [ControlNext]_controlVars
             PROVE  BarsInv'
    OBVIOUS
<1>1. ListenerInv' /\ now \in Nat
    BY StepListener DEF BarsInv, ListenerInv, FeedTimes
<1>2. CASE Iterate \/ Kill \/ Minute \/ UNCHANGED controlVars
    <2>1. UNCHANGED <<forming, bar>> /\ (now' = now \/ now' = now + 1)
        BY <1>2 DEF Iterate, Subscription, Subscribe, StopFeed, Kill, Minute, controlVars, mainVars,
                    feedVars, barVars
    <2> QED
        BY <1>1, <2>1 DEF BarsInv
<1>3. CASE Listen
    <2>1. UNCHANGED now
        BY <1>3 DEF Listen, mainVars
    <2>2. PICK t \in Threads :
             RunBegins(t) \/ Connect(t) \/ Fail(t, now) \/ Retry(t) \/ \E m \in {now - 1, now} : Receive(t, now, m)
        BY <1>3 DEF Listen
    <2>3. CASE UNCHANGED barVars
        BY <1>1, <2>1, <2>3 DEF BarsInv, barVars
    <2>4. CASE \E m \in {now - 1, now} : Receive(t, now, m)
        <3>1. PICK m \in {now - 1, now} : Receive(t, now, m)
            BY <2>4
        <3>2. Alive = {t}
            BY <3>1 DEF Receive, Alive, BarsInv, ListenerInv
        <3>3. Cardinality(Alive) = 1
            BY <3>2, FS_Singleton
        <3>4. forming # Never => m >= forming
            BY <3>1, <3>3 DEF Receive
        <3>5. forming' = m /\ (bar' = bar \/ (forming \notin {Never, m} /\ bar' = forming))
            BY <3>1 DEF Receive, Aggregate
        <3>6. m \in Int /\ m <= now
            BY <1>1, <3>1
        <3> QED
            BY <1>1, <2>1, <3>4, <3>5, <3>6 DEF BarsInv
    <2> QED
        BY <2>2, <2>3, <2>4 DEF RunBegins, Connect, Fail, Retry
<1> QED
    BY <1>2, <1>3 DEF ControlNext

LEMMA ThusBarsRunOnce == BarsInv /\ [ControlNext]_controlVars => BarsRunOnce
<1> SUFFICES ASSUME BarsInv, [ControlNext]_controlVars, gate' # gate
             PROVE  gate' < now /\ (gate = Never \/ gate' > gate)
    BY DEF BarsRunOnce
<1>1. now \in Int
    BY DEF BarsInv, ListenerInv
<1>2. Iterate
    BY DEF ControlNext, Kill, Minute, Listen, controlVars, mainVars
<1>3. gate' = Offered(source') /\ ShouldRun(Offered(source'))
    BY <1>2 DEF Iterate
<1> QED
    BY <1>1, <1>3 DEF Offered, ShouldRun, BarsInv

\* The machine counts its stable period from no earlier than the last outage.
SinceOutage ==
    /\ now \in Int /\ changed \in Int /\ outage \in Int /\ outage <= now
    /\ healthy = Never \/ (healthy \in Int /\ outage <= healthy)

LEMMA InitSince == ControlInit => SinceOutage
BY DEF ControlInit, RuntimeInit, SinceOutage

LEMMA HealthyIs ==
    ASSUME SinceOutage, NEW session
    PROVE  LET since == HealthySince(session, Status, now)
           IN  \/ since = Never
               \/ /\ session = "IN_SESSION" /\ IsHealthy(Status, now)
                  /\ since \in Int /\ outage <= since
BY DEF HealthySince, SinceOutage

LEMMA StepSince == SinceOutage /\ [ControlNext]_controlVars => SinceOutage'
<1> SUFFICES ASSUME SinceOutage, [ControlNext]_controlVars
             PROVE  SinceOutage'
    OBVIOUS
<1>1. CASE Iterate
    <2>1. /\ healthy' = HealthySince(SessionAt(now), Status, now) /\ now' = now
          /\ changed' \in {changed, now}
          /\ outage' = IF SessionAt(now) = "IN_SESSION" /\ IsHealthy(Status, now) THEN outage ELSE now
        BY <1>1 DEF Iterate, Evaluate
    <2> QED
        BY <2>1, HealthyIs DEF SinceOutage
<1>2. CASE Kill \/ Minute \/ Listen \/ UNCHANGED controlVars
    BY <1>2 DEF Kill, Minute, Listen, controlVars, mainVars, rtVars, SinceOutage
<1> QED
    BY <1>1, <1>2 DEF ControlNext

LEMMA ThusEarned ==
    FeedTimes /\ SinceOutage /\ [ControlNext]_controlVars => RecoveryIsEarned
<1> SUFFICES ASSUME FeedTimes, SinceOutage, [ControlNext]_controlVars,
                    overlay = "DEGRADED_FEED", overlay' = "NORMAL"
             PROVE  /\ now - outage >= StableFor
                    /\ now - changed >= MinDegraded
                    /\ recent'.run >= RequiredBars
    BY DEF RecoveryIsEarned
<1>1. Iterate
    BY DEF ControlNext, Kill, Minute, Listen, controlVars, rtVars
<1> DEFINE session == SessionAt(now)
<1>2. /\ overlay' = NextOverlay(session, Status, now, 0, stop)
      /\ recent' = NotedBars(session, Status, now)
    BY <1>1 DEF Iterate, Evaluate
<1>3. Recovers(session, Status, now)
    BY <1>2 DEF NextOverlay, Degrades
<1>4. /\ now - changed >= MinDegraded
      /\ HealthySince(session, Status, now) # Never
      /\ now - HealthySince(session, Status, now) >= StableFor
      /\ NotedBars(session, Status, now).run >= RequiredBars
    BY <1>3 DEF Recovers, IsStable
<1> QED
    BY <1>2, <1>4, HealthyIs DEF SinceOutage, FeedTimes

LEMMA ThusFresh ==
    FeedTimes /\ ListenerInv /\ SinceOutage /\ [ControlNext]_controlVars => TrustedFeedIsFresh
<1> SUFFICES ASSUME FeedTimes, ListenerInv, SinceOutage, [ControlNext]_controlVars,
                    source' = "ws", seen' = "IN_SESSION", Iterate \/ source # "ws",
                    IsStale(Status, now), ~(now < Grace)
             PROVE  now - changed' < MinNormal
    BY DEF TrustedFeedIsFresh
<1>1. Iterate
    BY DEF ControlNext, Kill, Minute, Listen, controlVars, mainVars
<1>2. /\ overlay' = NextOverlay("IN_SESSION", Status, now, 0, stop)
      /\ changed' = IF overlay' = overlay THEN changed ELSE now
      /\ Policy("IN_SESSION", overlay').feed = "ws"
    BY <1>1 DEF Iterate, Evaluate, Effective
<1>3. overlay' # "DEGRADED_FEED" /\ overlay' # "EMERGENCY_STOP"
    BY <1>2 DEF Policy, Quiet
<1>4. ~Recovers("IN_SESSION", Status, now)
    BY DEF Recovers, IsStable, HealthySince, IsHealthy
<1>5. ~stop /\ ~Degrades("IN_SESSION", Status, now, 0) /\ overlay' = overlay
    BY <1>2, <1>3, <1>4 DEF NextOverlay
<1>6. overlay = "NORMAL"
    BY <1>3, <1>5 DEF ListenerInv, Overlays
<1>7. now - 0 >= Grace /\ now - changed \in Int
    BY DEF SinceOutage, FeedTimes
<1> QED
    BY <1>2, <1>5, <1>6, <1>7 DEF Degrades, FeedTimes

\* What the feed's variables hold, given that one listener feeds it.
LEMMA InitFeedTypes == FeedTimes /\ ControlInit => FeedTypes
<1> SUFFICES ASSUME FeedTimes, ControlInit
             PROVE  FeedTypes
    OBVIOUS
<1>1. LastMinute \in Nat /\ MaxAttempts \in Nat
    BY DEF FeedTimes
<1>2. 0 \in Times /\ Never \in Times /\ 0 \in 0 .. LastMinute /\ 0 \in 0 .. MaxAttempts
    BY <1>1 DEF Times
<1>3. /\ now = 0 /\ outage = 0 /\ gate = Never /\ changed = 0 /\ healthy = Never
      /\ recent.last = Never /\ last = Never /\ forming = Never /\ bar = Never /\ quitting = Never
      /\ source = "rest" /\ overlay = "NORMAL" /\ seen = "NONE"
      /\ thread = [t \in Threads |-> "none"] /\ attempt = [t \in Threads |-> 0]
    BY DEF ControlInit, RuntimeInit, FeedInit, NoBars
<1>4. {stop, handle, running, connected, reentered} \subseteq BOOLEAN
    BY DEF ControlInit, RuntimeInit, FeedInit
<1> QED
    BY <1>2, <1>3, <1>4 DEF FeedTypes, Overlays

\* What an iteration writes of the feed's state and its times.
LEMMA IterateFeedTypes == FeedTimes /\ ListenerInv /\ FeedTypes /\ Iterate => FeedTypes'
<1> SUFFICES ASSUME FeedTimes, ListenerInv, FeedTypes, Iterate
             PROVE  FeedTypes'
    OBVIOUS
<1> DEFINE session == SessionAt(now)
<1>1. now \in 0 .. LastMinute /\ LastMinute \in Nat /\ now \in Times /\ now - 1 \in Times
      /\ Never \in Times
    BY DEF FeedTimes, FeedTypes, Times
<1>2. ListenerInv'
    BY IterateKeeps
<1>3. /\ UNCHANGED <<now, stop>> /\ source' = Effective(Policy(session, overlay'), session)
      /\ gate' \in {gate, Offered(source')} /\ outage' \in {outage, now}
      /\ changed' \in {changed, now} /\ healthy' = HealthySince(session, Status, now)
      /\ recent' = NotedBars(session, Status, now)
    BY DEF Iterate, Evaluate
<1>4. reentered' \in BOOLEAN
    BY DEF Iterate, Evaluate, Reentered, FeedTypes
<1>5. /\ UNCHANGED <<attempt, connected, last, forming, bar>> /\ quitting' \in {quitting, now}
      /\ thread' \in [Threads -> Places] /\ {handle', running'} \subseteq BOOLEAN
    BY <1>2, <1>3 DEF Iterate, Subscription, Subscribe, StopFeed, conVars, barVars, feedVars,
                      ListenerInv
<1>6. healthy' \in Times
    BY <1>1, <1>3 DEF HealthySince, FeedTypes
<1>7. recent'.last \in Times
    BY <1>1, <1>3 DEF NotedBars, Noted, NoBars, Status, FeedTypes
<1>8. gate' \in Times
    BY <1>1, <1>3 DEF Offered, FeedTypes
<1>9. source' \in {"ws", "rest"}
    BY <1>3 DEF Effective
<1>10. Times' = Times
    BY DEF Times
<1> QED
    BY <1>1, <1>2, <1>3, <1>4, <1>5, <1>6, <1>7, <1>8, <1>9, <1>10 DEF FeedTypes, ListenerInv, Places

LEMMA ListenFeedTypes == FeedTimes /\ ListenerInv /\ FeedTypes /\ Listen => FeedTypes'
<1> SUFFICES ASSUME FeedTimes, ListenerInv, FeedTypes, Listen
             PROVE  FeedTypes'
    OBVIOUS
<1>1. now \in 0 .. LastMinute /\ LastMinute \in Nat /\ now \in Times /\ now - 1 \in Times
      /\ Never \in Times /\ MaxAttempts \in Nat
    BY DEF FeedTimes, FeedTypes, Times
<1>2. ListenerInv' /\ UNCHANGED <<mainVars, rtVars>>
    BY ListenKeeps DEF Listen
<1>3. PICK t \in Threads :
         RunBegins(t) \/ Connect(t) \/ Fail(t, now) \/ Retry(t) \/ \E m \in {now - 1, now} : Receive(t, now, m)
    BY DEF Listen
<1>4. attempt' \in [Threads -> 0 .. MaxAttempts]
    BY <1>1, <1>3 DEF RunBegins, Connect, Fail, Retry, Receive, Ends, conVars, FeedTypes
<1>5. {last', forming', bar', quitting'} \subseteq Times
    BY <1>1, <1>3 DEF RunBegins, Connect, Fail, Retry, Receive, Aggregate, Ends, conVars, barVars, FeedTypes
<1>6. connected' \in BOOLEAN
    BY <1>3 DEF RunBegins, Connect, Fail, Retry, Receive, Ends, conVars, FeedTypes
<1>7. Times' = Times
    BY DEF Times
<1> QED
    BY <1>2, <1>4, <1>5, <1>6, <1>7 DEF FeedTypes, ListenerInv, Places, mainVars, rtVars

LEMMA StepFeedTypes ==
    FeedTimes /\ ListenerInv /\ FeedTypes /\ [ControlNext]_controlVars => FeedTypes'
<1> SUFFICES ASSUME FeedTimes, ListenerInv, FeedTypes, Kill \/ Minute \/ UNCHANGED controlVars
             PROVE  FeedTypes'
    BY IterateFeedTypes, ListenFeedTypes DEF ControlNext
<1>1. /\ UNCHANGED <<outage, handle, source, gate, rtVars, feedVars>>
      /\ now' = now \/ (now < LastMinute /\ now' = now + 1)
    BY DEF Kill, Minute, controlVars, mainVars
<1>2. stop' \in BOOLEAN
    BY DEF Kill, Minute, controlVars, mainVars, FeedTypes
<1>3. now' \in 0 .. LastMinute
    BY <1>1 DEF FeedTypes, FeedTimes
<1> QED
    BY <1>1, <1>2, <1>3 DEF FeedTypes, Times, rtVars, feedVars
-----------------------------------------------------------------------------
(***************************************************************************)
(* The choice of the day's stocks.  First what the lists' operators keep,  *)
(* then what is chosen.  Among the pool's stocks those of the highest      *)
(* trade value reach the first stage's list, whichever way it is made; the *)
(* quotas take from it what fits, so that as many of each kind are in the  *)
(* result as are reserved for it, or all there are.                        *)
(***************************************************************************)
\* A sequence that holds nothing twice has as many elements as places.
LEMMA ListsCount ==
    ASSUME NEW T, NEW s \in Seq(T), IsInjective(s)
    PROVE  IsFiniteSet(ToSet(s)) /\ Cardinality(ToSet(s)) = Len(s)
<1>1. Len(s) \in Nat /\ DOMAIN s = 1 .. Len(s) /\ s \in [1 .. Len(s) -> ToSet(s)]
    BY DEF ToSet
<1>2. s \in Bijection(1 .. Len(s), ToSet(s))
    BY <1>1 DEF Bijection, Injection, Surjection, IsInjective, ToSet
<1>3. ExistsBijection(1 .. Len(s), ToSet(s))
    BY <1>2 DEF ExistsBijection
<1> QED
    BY <1>1, <1>3, FS_CountingElements, FS_NatBijection

\* What First keeps of a sequence.
LEMMA FirstKeeps ==
    ASSUME NEW T, NEW s \in Seq(T), NEW n \in Nat
    PROVE  /\ First(s, n) \in Seq(T)
           /\ Len(First(s, n)) = IF n < Len(s) THEN n ELSE Len(s)
           /\ DOMAIN First(s, n) = 1 .. Len(First(s, n))
           /\ \A i \in DOMAIN First(s, n) : i \in DOMAIN s /\ First(s, n)[i] = s[i]
           /\ ToSet(First(s, n)) \subseteq ToSet(s)
           /\ IsInjective(s) => IsInjective(First(s, n))
<1> DEFINE m == IF n < Len(s) THEN n ELSE Len(s)
<1>1. m \in Nat /\ m <= Len(s) /\ DOMAIN s = 1 .. Len(s) /\ First(s, n) = SubSeq(s, 1, m)
    BY DEF First
<1> HIDE DEF m
<1>2. /\ SubSeq(s, 1, m) \in Seq(T) /\ Len(SubSeq(s, 1, m)) = m
      /\ \A i \in 1 .. m : SubSeq(s, 1, m)[i] = s[i]
    BY <1>1
<1>3. DOMAIN SubSeq(s, 1, m) = 1 .. m
    BY <1>2
<1> USE DEF m
<1> QED
    BY <1>1, <1>2, <1>3 DEF ToSet, IsInjective

\* Less than a whole list keeps as many elements as it may.
LEMMA FirstCounts ==
    ASSUME NEW T, NEW s \in Seq(T), IsInjective(s), NEW n \in Nat
    PROVE  /\ IsFiniteSet(ToSet(First(s, n)))
           /\ Cardinality(ToSet(First(s, n))) = Least(n, Cardinality(ToSet(s)))
           /\ Cardinality(ToSet(s)) <= n => ToSet(First(s, n)) = ToSet(s)
<1>1. First(s, n) \in Seq(T) /\ IsInjective(First(s, n)) /\ ToSet(First(s, n)) \subseteq ToSet(s)
    BY FirstKeeps
<1>2. /\ IsFiniteSet(ToSet(s)) /\ Cardinality(ToSet(s)) = Len(s)
      /\ IsFiniteSet(ToSet(First(s, n)))
      /\ Cardinality(ToSet(First(s, n))) = Len(First(s, n))
    BY <1>1, ListsCount
<1>3. Len(First(s, n)) = Least(n, Len(s))
    BY FirstKeeps DEF Least
<1>4. Cardinality(ToSet(s)) <= n => Len(First(s, n)) = Cardinality(ToSet(s))
    BY <1>2, <1>3 DEF Least
<1> QED
    BY <1>1, <1>2, <1>3, <1>4, FS_Subset

\* A place with fewer than n others before it is one of the first n.
LEMMA LeaderIsFirst ==
    ASSUME NEW T, NEW s \in Seq(T), IsInjective(s), NEW n \in Nat, NEW k \in DOMAIN s,
           NEW L, IsFiniteSet(L), Cardinality(L) < n, \A i \in 1 .. n : i < k => s[i] \in L
    PROVE  s[k] \in ToSet(First(s, n))
<1>1. k \in 1 .. Len(s) /\ Len(s) \in Nat
    OBVIOUS
<1>2. CASE k <= n
    <2>1. k \in DOMAIN First(s, n) /\ First(s, n)[k] = s[k]
        BY <1>1, <1>2, FirstKeeps
    <2> QED
        BY <2>1 DEF ToSet
<1>3. CASE n < k
    <2>1. ToSet(First(s, n)) \subseteq L
        <3>1. Len(First(s, n)) = n
            BY <1>1, <1>3, FirstKeeps
        <3>2. \A i \in DOMAIN First(s, n) : First(s, n)[i] = s[i] /\ i \in 1 .. n
            BY <3>1, FirstKeeps
        <3> QED
            BY <1>3, <3>2 DEF ToSet
    <2>2. Cardinality(ToSet(First(s, n))) = n
        <3>1. Len(First(s, n)) = n /\ First(s, n) \in Seq(T) /\ IsInjective(First(s, n))
            BY <1>1, <1>3, FirstKeeps
        <3> QED
            BY <3>1, ListsCount
    <2>3. Cardinality(ToSet(First(s, n))) <= Cardinality(L)
        BY <2>1, FS_Subset
    <2> QED
        BY <2>2, <2>3, FS_CardinalityType
<1> QED
    BY <1>1, <1>2, <1>3

\* Ranks that no two places share run from 1 to the number of places.
LEMMA RanksReachAll ==
    ASSUME NEW D, IsFiniteSet(D), NEW rank \in [D -> 1 .. Cardinality(D)],
           \A p, q \in D : rank[p] = rank[q] => p = q,
           NEW i \in 1 .. Cardinality(D)
    PROVE  \E p \in D : rank[p] = i
<1> DEFINE n == Cardinality(D)
<1>1. n \in Nat
    BY FS_CardinalityType
<1>2. rank \in Injection(D, 1 .. n)
    BY DEF Injection, IsInjective
<1>3. IsFiniteSet(1 .. n) /\ Cardinality(1 .. n) = n
    BY <1>1, FS_Interval
<1>4. rank \in Surjection(D, 1 .. n)
    BY <1>2, <1>3, FS_Injection
<1> QED
    BY <1>4 DEF Surjection

\* The ranks of places of which any two have one ahead of the other.
LEMMA RanksDiffer ==
    ASSUME NEW D, IsFiniteSet(D), NEW up \in [D -> SUBSET D], \A p \in D : p \in up[p],
           \A p, q \in D : p # q => \/ up[p] \subseteq up[q] /\ q \notin up[p]
                                    \/ up[q] \subseteq up[p] /\ p \notin up[q]
    PROVE  /\ \A p \in D : Cardinality(up[p]) \in 1 .. Cardinality(D)
           /\ \A p, q \in D : Cardinality(up[p]) = Cardinality(up[q]) => p = q
<1>1. \A p \in D : IsFiniteSet(up[p]) /\ Cardinality(up[p]) <= Cardinality(D)
    BY FS_Subset
<1>2. \A p \in D : Cardinality(up[p]) \in Nat /\ Cardinality(up[p]) # 0
    BY <1>1, FS_CardinalityType, FS_EmptySet
<1>3. Cardinality(D) \in Nat
    BY FS_CardinalityType
<1>4. ASSUME NEW p \in D, NEW q \in D, p # q, up[p] \subseteq up[q], q \notin up[p]
      PROVE  Cardinality(up[p]) # Cardinality(up[q])
    <2>1. up[p] # up[q] /\ up[p] \in SUBSET up[q]
        BY <1>4
    <2> QED
        BY <1>1, <2>1, FS_Subset
<1>5. \A p, q \in D : Cardinality(up[p]) = Cardinality(up[q]) => p = q
    BY <1>4
<1> QED
    BY <1>1, <1>2, <1>3, <1>5

\* Arranged puts each place where its rank says.
LEMMA ArrangedByRank ==
    ASSUME NEW T, NEW s \in Seq(T), NEW D \in SUBSET DOMAIN s, IsFiniteSet(D), NEW rank,
           \A p \in D : rank[p] \in 1 .. Cardinality(D),
           \A p, q \in D : rank[p] = rank[q] => p = q
    PROVE  /\ Arranged(s, D, rank) \in Seq(T)
           /\ Len(Arranged(s, D, rank)) = Cardinality(D)
           /\ \A p \in D : Arranged(s, D, rank)[rank[p]] = s[p]
           /\ \A i \in DOMAIN Arranged(s, D, rank) : \E p \in D : rank[p] = i
           /\ ToSet(Arranged(s, D, rank)) = {s[p] : p \in D}
           /\ (\A p, q \in D : s[p] = s[q] => p = q) => IsInjective(Arranged(s, D, rank))
<1> DEFINE n == Cardinality(D)
           a == Arranged(s, D, rank)
           at(i) == CHOOSE p \in D : rank[p] = i
<1>1. n \in Nat
    BY FS_CardinalityType
<1>2. \A i \in 1 .. n : at(i) \in D /\ rank[at(i)] = i
    <2> DEFINE r == [p \in D |-> rank[p]]
    <2>1. r \in [D -> 1 .. n] /\ \A p, q \in D : r[p] = r[q] => p = q
        OBVIOUS
    <2>2. ASSUME NEW i \in 1 .. n
          PROVE  \E p \in D : rank[p] = i
        <3> HIDE DEF r
        <3>1. \E p \in D : r[p] = i
            BY <2>1, RanksReachAll
        <3> USE DEF r
        <3> QED
            BY <3>1
    <2> QED
        BY <2>2
<1>3. a = [i \in 1 .. n |-> s[at(i)]]
    BY DEF Arranged
<1>4. \A p \in D : s[p] \in T
    OBVIOUS
<1> HIDE DEF n, a, at
<1>5. a \in [1 .. n -> T]
    BY <1>2, <1>3, <1>4
<1>6. a \in Seq(T) /\ Len(a) = n /\ DOMAIN a = 1 .. n
    BY <1>1, <1>5
<1>7. \A p \in D : rank[p] \in 1 .. n /\ at(rank[p]) = p
    BY <1>2 DEF n
<1>8. \A p \in D : a[rank[p]] = s[p]
    BY <1>3, <1>7
<1>9. \A i \in DOMAIN a : a[i] = s[at(i)] /\ at(i) \in D /\ rank[at(i)] = i
    BY <1>2, <1>3, <1>6
<1>10. ToSet(a) = {s[p] : p \in D}
    BY <1>6, <1>7, <1>8, <1>9 DEF ToSet
<1>11. (\A p, q \in D : s[p] = s[q] => p = q) => IsInjective(a)
    BY <1>9 DEF IsInjective
<1> QED
    BY <1>6, <1>8, <1>9, <1>10, <1>11 DEF n, a

\* What a takes from the places D of s stands in it as in s.
KeepsOrder(a, s, D) ==
    \A j \in DOMAIN a : \E q \in D :
        a[j] = s[q] /\ \A i \in 1 .. j - 1 : \E p \in D : p < q /\ a[i] = s[p]

\* InOrder takes the elements at some places in their order.
LEMMA InOrderTakes ==
    ASSUME NEW T, NEW s \in Seq(T), NEW D \in SUBSET DOMAIN s
    PROVE  /\ InOrder(s, D) \in Seq(T)
           /\ ToSet(InOrder(s, D)) = {s[p] : p \in D}
           /\ (\A p, q \in D : s[p] = s[q] => p = q) => IsInjective(InOrder(s, D))
           /\ KeepsOrder(InOrder(s, D), s, D)
           /\ D # {} => \E p \in D : \A q \in D : p <= q
<1> DEFINE up == [p \in D |-> {q \in D : q <= p}]
           rank == [p \in D |-> Cardinality({q \in D : q <= p})]
           a == InOrder(s, D)
<1>1. D \subseteq Int /\ IsFiniteSet(D)
    <2>1. DOMAIN s = 1 .. Len(s) /\ Len(s) \in Nat
        OBVIOUS
    <2>2. IsFiniteSet(1 .. Len(s)) /\ D \in SUBSET (1 .. Len(s))
        BY <2>1, FS_Interval
    <2> QED
        BY <2>1, <2>2, FS_Subset
<1>2. /\ \A p \in D : Cardinality(up[p]) \in 1 .. Cardinality(D)
      /\ \A p, q \in D : Cardinality(up[p]) = Cardinality(up[q]) => p = q
    <2>1. up \in [D -> SUBSET D] /\ \A p \in D : p \in up[p]
        BY <1>1
    <2>2. ASSUME NEW p \in D, NEW q \in D, p # q
          PROVE  \/ up[p] \subseteq up[q] /\ q \notin up[p]
                 \/ up[q] \subseteq up[p] /\ p \notin up[q]
        BY <1>1, <2>2
    <2> HIDE DEF up
    <2> QED
        BY <1>1, <2>1, <2>2, RanksDiffer
<1>3. /\ \A p \in D : rank[p] \in 1 .. Cardinality(D) /\ rank[p] = Cardinality(up[p])
      /\ \A p, q \in D : rank[p] = rank[q] => p = q
    BY <1>2
<1>4. a = Arranged(s, D, rank)
    BY DEF InOrder
<1>0. /\ \A p \in D : rank[p] \in 1 .. Cardinality(D)
      /\ \A p, q \in D : rank[p] = rank[q] => p = q
    BY <1>3
<1> HIDE DEF rank, a, up
<1>5. /\ a \in Seq(T) /\ Len(a) = Cardinality(D)
      /\ \A p \in D : a[rank[p]] = s[p]
      /\ \A i \in DOMAIN a : \E p \in D : rank[p] = i
      /\ ToSet(a) = {s[p] : p \in D}
      /\ (\A p, q \in D : s[p] = s[q] => p = q) => IsInjective(a)
    BY <1>0, <1>1, <1>4, ArrangedByRank
<1>6. ASSUME NEW p \in D, NEW q \in D, rank[p] < rank[q]
      PROVE  p < q
    <2>1. SUFFICES ASSUME q <= p PROVE FALSE
        BY <1>1
    <2>2. up[q] \in SUBSET up[p] /\ up[p] \in SUBSET D
        BY <1>1, <2>1 DEF up
    <2>3. Cardinality(up[q]) <= Cardinality(up[p])
        BY <1>1, <2>2, FS_Subset
    <2> QED
        BY <1>3, <1>6, <2>3, FS_CardinalityType, <1>1
<1>7. ASSUME NEW j \in DOMAIN a
      PROVE  \E q \in D : /\ a[j] = s[q]
                           /\ \A i \in 1 .. j - 1 : \E p \in D : p < q /\ a[i] = s[p]
    <2>1. PICK q \in D : rank[q] = j
        BY <1>5
    <2>2. ASSUME NEW i \in 1 .. j - 1
          PROVE  \E p \in D : p < q /\ a[i] = s[p]
        <3>1. i \in DOMAIN a /\ i < j
            BY <1>5
        <3>2. PICK p \in D : rank[p] = i
            BY <1>5, <3>1
        <3> QED
            BY <1>5, <1>6, <2>1, <3>1, <3>2
    <2> QED
        BY <1>5, <2>1, <2>2
<1>8. D # {} => \E p \in D : \A q \in D : p <= q
    <2> HAVE D # {}
    <2>1. Cardinality(D) \in Nat /\ Cardinality(D) # 0
        BY <1>1, FS_CardinalityType, FS_EmptySet
    <2>2. 1 \in DOMAIN a
        BY <1>5, <2>1
    <2>3. PICK p \in D : rank[p] = 1
        BY <1>5, <2>2
    <2>4. ASSUME NEW q \in D
          PROVE  p <= q
        <3>1. rank[q] \in 1 .. Cardinality(D)
            BY <1>3
        <3>2. rank[q] = 1 \/ rank[p] < rank[q]
            BY <2>1, <2>3, <3>1
        <3> QED
            BY <1>1, <1>3, <1>6, <2>3, <3>2
    <2> QED
        BY <2>4
<1> QED
    BY <1>5, <1>7, <1>8 DEF a, KeepsOrder

\* Among keeps what is in a set, in its order.
LEMMA AmongTakes ==
    ASSUME NEW T, NEW s \in Seq(T), NEW S
    PROVE  /\ Among(s, S) \in Seq(T)
           /\ ToSet(Among(s, S)) = ToSet(s) \cap S
           /\ IsInjective(s) => IsInjective(Among(s, S))
           /\ KeepsOrder(Among(s, S), s, DOMAIN s)
<1> DEFINE D == {p \in DOMAIN s : s[p] \in S}
<1>1. D \in SUBSET DOMAIN s /\ Among(s, S) = InOrder(s, D)
    BY DEF Among
<1>2. ToSet(s) \cap S = {s[p] : p \in D}
    BY DEF ToSet
<1>3. IsInjective(s) => \A p, q \in D : s[p] = s[q] => p = q
    BY DEF IsInjective
<1> HIDE DEF D
<1>4. /\ InOrder(s, D) \in Seq(T) /\ ToSet(InOrder(s, D)) = {s[p] : p \in D}
      /\ (\A p, q \in D : s[p] = s[q] => p = q) => IsInjective(InOrder(s, D))
    BY <1>1, InOrderTakes
<1>5. KeepsOrder(InOrder(s, D), s, D)
    BY <1>1, InOrderTakes
<1>6. KeepsOrder(InOrder(s, D), s, DOMAIN s)
    BY <1>1, <1>5 DEF KeepsOrder
<1> QED
    BY <1>1, <1>2, <1>3, <1>4, <1>6

\* Deduped keeps everything, once.
LEMMA DedupedTakes ==
    ASSUME NEW T, NEW s \in Seq(T)
    PROVE  /\ Deduped(s) \in Seq(T) /\ ToSet(Deduped(s)) = ToSet(s)
           /\ IsInjective(Deduped(s))
<1> DEFINE D == {p \in DOMAIN s : \A q \in 1 .. p - 1 : s[q] # s[p]}
<1>1. D \in SUBSET DOMAIN s /\ Deduped(s) = InOrder(s, D)
    BY DEF Deduped
<1>2. DOMAIN s = 1 .. Len(s) /\ Len(s) \in Nat
    OBVIOUS
<1>3. \A p, q \in D : s[p] = s[q] => p = q
    <2> SUFFICES ASSUME NEW p \in D, NEW q \in D, p < q
                 PROVE  s[p] # s[q]
        BY <1>1, <1>2
    <2> QED
        BY <1>2
<1>4. ASSUME NEW p \in DOMAIN s
      PROVE  \E q \in D : s[q] = s[p]
    <2> DEFINE E == {q \in DOMAIN s : s[q] = s[p]}
    <2>1. E \in SUBSET DOMAIN s /\ E # {}
        OBVIOUS
    <2>2. PICK q \in E : \A r \in E : q <= r
        <3> HIDE DEF E
        <3> QED
            BY <2>1, InOrderTakes
    <2>3. ASSUME NEW r \in 1 .. q - 1
          PROVE  s[r] # s[q]
        <3>1. r \in DOMAIN s /\ r < q
            BY <1>2, <2>1
        <3> QED
            BY <1>2, <2>2, <3>1
    <2> QED
        BY <2>2, <2>3
<1>5. ToSet(s) = {s[p] : p \in D}
    BY <1>1, <1>4 DEF ToSet
<1> HIDE DEF D
<1> QED
    BY <1>1, <1>3, <1>5, InOrderTakes

\* SortedBy keeps everything, and what is behind has no higher key.
LEMMA SortedTakes ==
    ASSUME NEW T, NEW s \in Seq(T), NEW key, \A x \in ToSet(s) : key[x] \in Int
    PROVE  /\ SortedBy(s, key) \in Seq(T) /\ ToSet(SortedBy(s, key)) = ToSet(s)
           /\ IsInjective(s) => IsInjective(SortedBy(s, key))
           /\ \A i, j \in DOMAIN SortedBy(s, key) :
                 i < j => key[SortedBy(s, key)[j]] <= key[SortedBy(s, key)[i]]
<1> DEFINE D == DOMAIN s
           Ahead(p) == {q \in D : \/ key[s[q]] > key[s[p]]
                                  \/ key[s[q]] = key[s[p]] /\ q <= p}
           up == [p \in D |-> Ahead(p)]
           rank == [p \in D |-> Cardinality(Ahead(p))]
           a == SortedBy(s, key)
<1>0. D = 1 .. Len(s) /\ Len(s) \in Nat
    OBVIOUS
<1>1. IsFiniteSet(D)
    BY <1>0, FS_Interval
<1>2. \A p \in D : key[s[p]] \in Int /\ p \in Int
    BY <1>0 DEF ToSet
<1>3. /\ \A p \in D : Cardinality(up[p]) \in 1 .. Cardinality(D)
      /\ \A p, q \in D : Cardinality(up[p]) = Cardinality(up[q]) => p = q
    <2>1. up \in [D -> SUBSET D] /\ \A p \in D : p \in up[p]
        BY <1>2
    <2>2. ASSUME NEW p \in D, NEW q \in D, p # q
          PROVE  \/ up[p] \subseteq up[q] /\ q \notin up[p]
                 \/ up[q] \subseteq up[p] /\ p \notin up[q]
        BY <1>2, <2>2
    <2> HIDE DEF up, D, Ahead
    <2> QED
        BY <1>1, <2>1, <2>2, RanksDiffer
<1>4. a = Arranged(s, D, rank)
    BY DEF SortedBy
<1>5. /\ \A p \in D : rank[p] \in 1 .. Cardinality(D)
      /\ \A p, q \in D : rank[p] = rank[q] => p = q
    BY <1>3
<1>6. \A p \in D : rank[p] = Cardinality(up[p])
    OBVIOUS
<1>7. \A p \in D : up[p] = Ahead(p)
    OBVIOUS
<1>8. D \in SUBSET DOMAIN s /\ ToSet(s) = {s[p] : p \in D}
    BY DEF ToSet
<1>9. IsInjective(s) => \A p, q \in D : s[p] = s[q] => p = q
    BY DEF IsInjective
<1> HIDE DEF D, rank, up, a, Ahead
<1>10. /\ a \in Seq(T) /\ Len(a) = Cardinality(D)
       /\ \A p \in D : a[rank[p]] = s[p]
       /\ \A i \in DOMAIN a : \E p \in D : rank[p] = i
       /\ ToSet(a) = {s[p] : p \in D}
       /\ (\A p, q \in D : s[p] = s[q] => p = q) => IsInjective(a)
    BY <1>1, <1>4, <1>5, <1>8, ArrangedByRank
<1>11. ASSUME NEW p \in D, NEW q \in D, rank[p] < rank[q]
       PROVE  key[s[q]] <= key[s[p]]
    <2>1. SUFFICES ASSUME key[s[p]] < key[s[q]] PROVE FALSE
        BY <1>2
    <2>2. up[q] \in SUBSET up[p] /\ up[p] \in SUBSET D
        BY <1>2, <1>7, <2>1 DEF Ahead
    <2>3. IsFiniteSet(up[p]) /\ Cardinality(up[q]) <= Cardinality(up[p])
        BY <1>1, <2>2, FS_Subset
    <2>4. IsFiniteSet(up[q])
        BY <2>2, <2>3, FS_Subset
    <2> QED
        BY <1>6, <1>11, <2>3, <2>4, FS_CardinalityType
<1>12. ASSUME NEW i \in DOMAIN a, NEW j \in DOMAIN a, i < j
       PROVE  key[a[j]] <= key[a[i]]
    <2>1. PICK p \in D : rank[p] = i
        BY <1>10
    <2>2. PICK q \in D : rank[q] = j
        BY <1>10
    <2> QED
        BY <1>10, <1>11, <1>12, <2>1, <2>2
<1> QED
    BY <1>8, <1>9, <1>10, <1>12 DEF a
-----------------------------------------------------------------------------
\* The trade values and the scores are numbers.
LEMMA QuotesAreNumbers ==
    ASSUME SelectionData, market \in [Quoted -> Quotes], NEW c \in Quoted
    PROVE  Value[c] \in Int /\ Score[c] \in Int /\ Value[c] = market[c].value
<1>1. market[c] \in Quotes
    OBVIOUS
<1> QED
    BY <1>1 DEF SelectionData, Value, Score

\* They are of the stocks that lists may hold.
LEMMA QuotedAreCodes ==
    ASSUME SelectionData
    PROVE  Quoted \subseteq Codes /\ IsFiniteSet(Quoted) /\ Seq(Quoted) \subseteq Seq(Codes)
<1>1. Quoted \subseteq Codes
    BY DEF SelectionData, Quoted, ToSet
<1>2. IsFiniteSet(Quoted)
    BY <1>1, FS_Subset DEF SelectionData
<1> QED
    BY <1>1, <1>2

\* The stocks of the market, each once, by their trade value.
LEMMA MarketIsRanked ==
    ASSUME SelectionData, market \in [Quoted -> Quotes], NEW n \in Nat
    PROVE  LET all == SortedBy(Listing, Value)
           IN  /\ all \in Seq(Quoted) /\ IsInjective(all)
               /\ \A i, j \in DOMAIN all : i < j => Value[all[j]] <= Value[all[i]]
               /\ TopByTradeValue(n) = First(all, n)
<1> DEFINE l == Listing
<1>1. l \in Seq(Quoted) /\ IsInjective(l)
    BY DEF SelectionData, Quoted, ToSet
<1> HIDE DEF l
<1>2. \A x \in ToSet(l) : Value[x] \in Int
    BY <1>1, QuotesAreNumbers DEF ToSet
<1>3. /\ SortedBy(l, Value) \in Seq(Quoted) /\ IsInjective(SortedBy(l, Value))
      /\ \A i, j \in DOMAIN SortedBy(l, Value) :
            i < j => Value[SortedBy(l, Value)[j]] <= Value[SortedBy(l, Value)[i]]
    BY <1>1, <1>2, SortedTakes
<1> QED
    BY <1>3 DEF l, TopByTradeValue

\* The first of them.
LEMMA TopIsRanked ==
    ASSUME SelectionData, market \in [Quoted -> Quotes], NEW n \in Nat
    PROVE  /\ TopByTradeValue(n) \in Seq(Quoted) /\ IsInjective(TopByTradeValue(n))
           /\ Len(TopByTradeValue(n)) <= n
<1> DEFINE all == SortedBy(Listing, Value)
<1>1. all \in Seq(Quoted) /\ IsInjective(all) /\ TopByTradeValue(n) = First(all, n)
    BY MarketIsRanked
<1> HIDE DEF all
<1>2. First(all, n) \in Seq(Quoted) /\ IsInjective(First(all, n))
    BY <1>1, FirstKeeps
<1>3. Len(First(all, n)) <= n
    <2>1. Len(all) \in Nat
        BY <1>1
    <2> QED
        BY <1>1, <2>1, FirstKeeps
<1> QED
    BY <1>1, <1>2, <1>3

\* What a scan looks at holds no code twice.
LEMMA SeenOnce ==
    ASSUME SelectionData, market \in [Quoted -> Quotes], NEW ranks, NEW limit \in Nat
    PROVE  /\ PoolForVolumeScan(ranks) \in Seq(Codes) /\ IsInjective(PoolForVolumeScan(ranks))
           /\ Seen(limit, ranks) \in Seq(Codes) /\ IsInjective(Seen(limit, ranks))
<1>1. /\ Seed \in Seq(Codes) /\ Candidates \in Seq(Codes) /\ Stocks \in Seq(Codes)
      /\ IsInjective(Seed) /\ MarketScanSize \in Nat /\ MaxStocks \in Nat
    BY DEF SelectionData
<1>2. /\ TopByTradeValue(MarketScanSize) \in Seq(Quoted)
      /\ IsInjective(TopByTradeValue(MarketScanSize))
    BY <1>1, TopIsRanked
<1>3. Seq(Quoted) \subseteq Seq(Codes)
    BY QuotedAreCodes
<1>4. /\ Deduped(Candidates) \in Seq(Codes) /\ IsInjective(Deduped(Candidates))
      /\ Deduped(Stocks) \in Seq(Codes) /\ IsInjective(Deduped(Stocks))
    BY <1>1, DedupedTakes
<1>5. PoolForVolumeScan(ranks) \in Seq(Codes) /\ IsInjective(PoolForVolumeScan(ranks))
    BY <1>1, <1>2, <1>3, <1>4 DEF PoolForVolumeScan, LoadMarketCodes
<1>6. Most(MarketScanSize, Most(5 * limit, 5 * MaxStocks)) \in Nat
    BY <1>1 DEF Most
<1> QED
    BY <1>5, <1>6, FirstKeeps DEF Seen

\* The result of a scan: the safe stocks of those seen that answered, by trade value.
LEMMA ScanRanks ==
    ASSUME SelectionData, market \in [Quoted -> Quotes], NEW ranks, NEW down, NEW limit \in Nat
    PROVE  LET scan == Scanned(limit, ranks, down)
           IN  /\ scan \in Seq(Codes) /\ IsInjective(scan)
               /\ ToSet(scan) = ToSet(Seen(limit, ranks)) \cap (Safe \ down)
               /\ \A i, j \in DOMAIN scan : i < j => Value[scan[j]] <= Value[scan[i]]
<1> DEFINE l == Among(Seen(limit, ranks), Safe \ down)
<1>1. /\ l \in Seq(Codes) /\ IsInjective(l)
      /\ ToSet(l) = ToSet(Seen(limit, ranks)) \cap (Safe \ down)
    BY SeenOnce, AmongTakes
<1>2. \A x \in ToSet(l) : Value[x] \in Int
    BY <1>1, QuotesAreNumbers DEF Safe
<1> HIDE DEF l
<1>3. /\ SortedBy(l, Value) \in Seq(Codes) /\ IsInjective(SortedBy(l, Value))
      /\ ToSet(SortedBy(l, Value)) = ToSet(l)
      /\ \A i, j \in DOMAIN SortedBy(l, Value) :
            i < j => Value[SortedBy(l, Value)[j]] <= Value[SortedBy(l, Value)[i]]
    BY <1>1, <1>2, SortedTakes
<1>4. Scanned(limit, ranks, down) = SortedBy(l, Value)
    BY DEF Scanned, l
<1> QED
    BY <1>1, <1>3, <1>4

\* How far into the market the ranking is asked for.
RankingReach(limit) == Least(Most(5 * limit, 5 * MaxStocks), Most(MarketScanSize, limit))

\* The result of the ranking call: safe stocks, each once.
LEMMA RankingRanks ==
    ASSUME SelectionData, market \in [Quoted -> Quotes], NEW limit \in Nat
    PROVE  /\ RankingReach(limit) \in Nat
           /\ TopByTradeValue(RankingReach(limit)) \in Seq(Quoted)
           /\ IsInjective(TopByTradeValue(RankingReach(limit)))
           /\ Ranking(limit) = Among(TopByTradeValue(RankingReach(limit)), Safe)
           /\ Ranking(limit) \in Seq(Quoted) /\ IsInjective(Ranking(limit))
           /\ ToSet(Ranking(limit)) = ToSet(TopByTradeValue(RankingReach(limit))) \cap Safe
           /\ KeepsOrder(Ranking(limit), TopByTradeValue(RankingReach(limit)),
                         DOMAIN TopByTradeValue(RankingReach(limit)))
<1>1. RankingReach(limit) \in Nat
    BY DEF RankingReach, Least, Most, SelectionData
<1>2. /\ TopByTradeValue(RankingReach(limit)) \in Seq(Quoted)
      /\ IsInjective(TopByTradeValue(RankingReach(limit)))
    BY <1>1, TopIsRanked
<1>3. Ranking(limit) = Among(TopByTradeValue(RankingReach(limit)), Safe)
    BY DEF Ranking, RankingReach
<1> QED
    BY <1>1, <1>2, <1>3, AmongTakes

\* The stocks of the highest trade value, safe ones, each once.
LEMMA VolumeTopTakes ==
    ASSUME SelectionData, market \in [Quoted -> Quotes], NEW n \in Nat, NEW ranks, NEW down
    PROVE  /\ VolumeTop(n, ranks, down) \in Seq(Codes)
           /\ IsInjective(VolumeTop(n, ranks, down))
           /\ ToSet(VolumeTop(n, ranks, down)) \subseteq Safe
<1> DEFINE limit == Most(n, 1)
           from == IF RankingServes(limit, ranks) THEN Ranking(limit)
                   ELSE Scanned(limit, ranks, down)
<1>1. limit \in Nat
    BY DEF Most
<1>2. Seq(Quoted) \subseteq Seq(Codes)
    BY QuotedAreCodes
<1>3. VolumeTop(n, ranks, down) = First(from, limit)
    BY DEF VolumeTop
<1> HIDE DEF limit
<1>4. from \in Seq(Codes) /\ IsInjective(from) /\ ToSet(from) \subseteq Safe
    <2>1. /\ Ranking(limit) \in Seq(Codes) /\ IsInjective(Ranking(limit))
          /\ ToSet(Ranking(limit)) \subseteq Safe
        BY <1>1, <1>2, RankingRanks
    <2>2. LET scan == Scanned(limit, ranks, down)
          IN  scan \in Seq(Codes) /\ IsInjective(scan) /\ ToSet(scan) \subseteq Safe
        BY <1>1, ScanRanks
    <2>3. CASE RankingServes(limit, ranks)
        BY <2>1, <2>3
    <2>4. CASE ~RankingServes(limit, ranks)
        BY <2>2, <2>4
    <2> QED
        BY <2>3, <2>4
<1> HIDE DEF from
<1> QED
    BY <1>1, <1>3, <1>4, FirstKeeps

\* Whoever leads the pool that a scan looks at is among the first that it returns.
LEMMA ScanReaches ==
    ASSUME SelectionData, market \in [Quoted -> Quotes], NEW ranks, NEW down, NEW n \in Nat,
           NEW pool, pool = ToSet(Seen(n, ranks)) \cap (Safe \ down),
           NEW c \in Leaders(pool, n)
    PROVE  c \in ToSet(First(Scanned(n, ranks, down), n))
<1> DEFINE scan == Scanned(n, ranks, down)
           L == {d \in pool \ {c} : market[d].value >= market[c].value}
<1>1. /\ scan \in Seq(Codes) /\ IsInjective(scan) /\ ToSet(scan) = pool
      /\ \A i, j \in DOMAIN scan : i < j => Value[scan[j]] <= Value[scan[i]]
    BY ScanRanks
<1>2. c \in pool /\ Cardinality(L) < n
    BY DEF Leaders
<1>3. IsFiniteSet(L)
    <2>1. IsFiniteSet(pool)
        BY <1>1, ListsCount
    <2> QED
        BY <2>1, FS_Subset
<1>4. PICK k \in DOMAIN scan : scan[k] = c
    BY <1>1, <1>2 DEF ToSet
<1>5. \A d \in pool : d \in Quoted
    BY DEF Safe
<1>6. ASSUME NEW i \in 1 .. n, i < k
      PROVE  scan[i] \in L
    <2>1. i \in DOMAIN scan /\ scan[i] \in pool
        <3>1. i \in DOMAIN scan
            BY <1>1, <1>6
        <3> QED
            BY <1>1, <3>1 DEF ToSet
    <2>2. scan[i] # c
        BY <1>1, <1>4, <1>6, <2>1 DEF IsInjective
    <2>3. Value[c] <= Value[scan[i]]
        BY <1>1, <1>4, <1>6, <2>1
    <2>4. Value[c] = market[c].value /\ Value[scan[i]] = market[scan[i]].value
        BY <1>2, <1>5, <2>1, QuotesAreNumbers
    <2>5. market[c].value \in Int /\ market[scan[i]].value \in Int
        BY <1>2, <1>5, <2>1, <2>4, QuotesAreNumbers
    <2> QED
        BY <2>1, <2>2, <2>3, <2>4, <2>5
<1> HIDE DEF L, scan
<1> QED
    BY <1>1, <1>2, <1>3, <1>4, <1>6, LeaderIsFirst DEF scan

\* So it is with the ranking of the whole market, which reaches as far as the
\* pool, where no stock of those it returns first is down.
LEMMA RankingReaches ==
    ASSUME SelectionData, market \in [Quoted -> Quotes], NEW down, NEW n \in Nat,
           MarketScanSize <= RankingReach(n), ToSet(First(Ranking(n), n)) \cap down = {},
           NEW pool, pool = ToSet(TopByTradeValue(MarketScanSize)) \cap (Safe \ down),
           NEW c \in Leaders(pool, n)
    PROVE  c \in ToSet(First(Ranking(n), n))
<1> DEFINE all == SortedBy(Listing, Value)
           top == First(all, RankingReach(n))
           list == Ranking(n)
           L == {d \in pool \ {c} : market[d].value >= market[c].value}
<1>1. MarketScanSize \in Nat /\ RankingReach(n) \in Nat
    BY RankingRanks DEF SelectionData
<1>2. /\ all \in Seq(Quoted) /\ IsInjective(all)
      /\ \A i, j \in DOMAIN all : i < j => Value[all[j]] <= Value[all[i]]
      /\ TopByTradeValue(MarketScanSize) = First(all, MarketScanSize)
      /\ TopByTradeValue(RankingReach(n)) = top
    BY <1>1, MarketIsRanked
<1>3. /\ list \in Seq(Quoted) /\ IsInjective(list) /\ ToSet(list) = ToSet(top) \cap Safe
      /\ KeepsOrder(list, top, DOMAIN top)
    BY <1>2, RankingRanks
<1>4. c \in pool /\ Cardinality(L) < n
    BY DEF Leaders
<1>5. IsFiniteSet(L)
    <2>1. IsFiniteSet(Quoted) /\ pool \in SUBSET Quoted
        BY QuotedAreCodes DEF Safe
    <2> QED
        BY <2>1, FS_Subset
<1> HIDE DEF all
<1>6. /\ top \in Seq(Quoted) /\ DOMAIN all = 1 .. Len(all) /\ Len(all) \in Nat
      /\ DOMAIN top = 1 .. (IF RankingReach(n) < Len(all) THEN RankingReach(n) ELSE Len(all))
      /\ \A i \in DOMAIN top : i \in DOMAIN all /\ top[i] = all[i]
    <2>1. /\ Len(top) = IF RankingReach(n) < Len(all) THEN RankingReach(n) ELSE Len(all)
          /\ DOMAIN top = 1 .. Len(top) /\ top \in Seq(Quoted)
          /\ \A i \in DOMAIN top : i \in DOMAIN all /\ top[i] = all[i]
        BY <1>1, <1>2, FirstKeeps
    <2>2. DOMAIN all = 1 .. Len(all) /\ Len(all) \in Nat
        BY <1>2
    <2> HIDE DEF top
    <2> QED
        BY <2>1, <2>2
<1>7. \A i \in DOMAIN all : i <= MarketScanSize
                             => all[i] \in ToSet(First(all, MarketScanSize))
    <2> DEFINE f == First(all, MarketScanSize)
    <2>1. /\ DOMAIN f = 1 .. (IF MarketScanSize < Len(all) THEN MarketScanSize ELSE Len(all))
          /\ \A i \in DOMAIN f : f[i] = all[i]
        <3>1. /\ Len(f) = IF MarketScanSize < Len(all) THEN MarketScanSize ELSE Len(all)
              /\ DOMAIN f = 1 .. Len(f)
              /\ \A i \in DOMAIN f : f[i] = all[i]
            BY <1>1, <1>2, FirstKeeps
        <3> HIDE DEF f
        <3> QED
            BY <3>1
    <2> HIDE DEF f
    <2>2. ASSUME NEW i \in DOMAIN all, i <= MarketScanSize
          PROVE  i \in DOMAIN f
        BY <1>1, <1>6, <2>1, <2>2
    <2>3. ASSUME NEW i \in DOMAIN all, i <= MarketScanSize
          PROVE  all[i] \in ToSet(f)
        BY <2>1, <2>2, <2>3 DEF ToSet
    <2> QED
        BY <2>3 DEF f
<1>8. PICK p \in DOMAIN all : all[p] = c /\ p <= MarketScanSize /\ p \in DOMAIN top
    <2> DEFINE f == First(all, MarketScanSize)
    <2>1. /\ DOMAIN f = 1 .. (IF MarketScanSize < Len(all) THEN MarketScanSize ELSE Len(all))
          /\ \A i \in DOMAIN f : i \in DOMAIN all /\ f[i] = all[i]
        BY <1>1, <1>2, FirstKeeps
    <2>2. c \in ToSet(f)
        BY <1>2, <1>4
    <2> HIDE DEF f
    <2>3. PICK i \in DOMAIN f : f[i] = c
        BY <2>2 DEF ToSet
    <2>4. i \in DOMAIN all /\ all[i] = c /\ i <= MarketScanSize
        BY <1>1, <1>6, <2>1, <2>3
    <2>5. i \in DOMAIN top
        BY <1>1, <1>6, <2>1, <2>3
    <2> QED
        BY <2>4, <2>5
<1>9. c \in ToSet(list)
    <2>1. c \in Safe
        BY <1>4
    <2>2. c \in ToSet(top)
        <3> HIDE DEF top
        <3> QED
            BY <1>6, <1>8 DEF ToSet
    <2> QED
        BY <1>3, <2>1, <2>2
<1> HIDE DEF top, list, L
<1>10. PICK k \in DOMAIN list : list[k] = c
    BY <1>9 DEF ToSet
<1>11. PICK q \in DOMAIN top : /\ list[k] = top[q]
                                /\ \A i \in 1 .. k - 1 :
                                      \E r \in DOMAIN top : r < q /\ list[i] = top[r]
    BY <1>3 DEF KeepsOrder
<1>12. q = p
    BY <1>2, <1>6, <1>8, <1>10, <1>11 DEF IsInjective
<1>13. ASSUME NEW i \in 1 .. n, i < k
       PROVE  list[i] \in L
    <2>1. i \in DOMAIN list /\ i \in 1 .. k - 1
        BY <1>3, <1>13
    <2>2. PICK r \in DOMAIN top : r < q /\ list[i] = top[r]
        BY <1>11, <2>1
    <2>3. r \in DOMAIN all /\ all[r] = list[i] /\ r < p
        BY <1>6, <1>12, <2>2
    <2>4. list[i] \in ToSet(First(all, MarketScanSize))
        BY <1>1, <1>6, <1>7, <1>8, <2>3
    <2>5. list[i] \in Safe /\ list[i] \in Quoted
        BY <1>3, <2>1 DEF ToSet, Safe
    <2>6. list[i] \notin down
        <3>1. First(list, n) \in Seq(Quoted) /\ i \in DOMAIN First(list, n)
                                             /\ First(list, n)[i] = list[i]
            BY <1>3, <1>13, <2>1, FirstKeeps
        <3> QED
            BY <3>1 DEF ToSet, list
    <2>7. list[i] \in pool
        BY <1>2, <2>4, <2>5, <2>6
    <2>8. list[i] # c
        BY <1>3, <1>10, <1>13, <2>1 DEF IsInjective
    <2>9. Value[c] <= Value[list[i]]
        BY <1>2, <1>8, <2>3
    <2>10. /\ Value[c] = market[c].value /\ Value[list[i]] = market[list[i]].value
           /\ Value[c] \in Int /\ Value[list[i]] \in Int
        <3>1. c \in Quoted
            BY <1>4 DEF Safe
        <3> QED
            BY <2>5, <3>1, QuotesAreNumbers
    <2> QED
        BY <2>7, <2>8, <2>9, <2>10 DEF L
<1> QED
    BY <1>3, <1>4, <1>5, <1>10, <1>13, LeaderIsFirst DEF L, list

\* The leaders of the pool are in the first stage's list, where none of its
\* stocks is down.
LEMMA LeadersReach ==
    ASSUME SelectionData, market \in [Quoted -> Quotes], NEW ranks \in BOOLEAN, NEW down,
           MarketScanSize <= 5 * Stage1Limit, ToSet(Stage1(ranks, down)) \cap down = {}
    PROVE  Leaders(Pool(ranks, down), Most(Stage1Limit, 1)) \subseteq ToSet(Stage1(ranks, down))
<1> DEFINE n == Most(Stage1Limit, 1)
           pool == Pool(ranks, down)
<1>1. /\ n \in Nat /\ MarketScanSize \in Nat
      /\ MarketScanSize <= RankingReach(n)
      /\ Most(MarketScanSize, Most(5 * n, 5 * MaxStocks)) \in Nat
      /\ MarketScanSize <= Most(MarketScanSize, Most(5 * n, 5 * MaxStocks))
    <2>1. MarketScanSize \in Nat /\ MaxStocks \in Nat /\ VolumeTopN \in Nat
        BY DEF SelectionData
    <2>2. Stage1Limit \in Nat
        BY <2>1 DEF Stage1Limit, Most
    <2>3. n \in Nat /\ MarketScanSize <= 5 * n
        BY <2>1, <2>2 DEF Most
    <2> HIDE DEF n
    <2> QED
        BY <2>1, <2>3 DEF Most, Least, RankingReach
<1>2. /\ Stage1(ranks, down)
            = First(IF RankingServes(n, ranks) THEN Ranking(n) ELSE Scanned(n, ranks, down), n)
      /\ pool = ToSet(Seen(n, ranks)) \cap (Safe \ down)
    BY DEF Stage1, VolumeTop, Pool
<1>3. SUFFICES ASSUME NEW c \in Leaders(pool, n)
               PROVE  c \in ToSet(Stage1(ranks, down))
    OBVIOUS
<1> HIDE DEF n, pool
<1>4. CASE ~RankingServes(n, ranks)
    BY <1>1, <1>2, <1>3, <1>4, ScanReaches
<1>5. CASE RankingServes(n, ranks)
    <2>1. PoolForVolumeScan(ranks) = TopByTradeValue(MarketScanSize)
        BY <1>5 DEF RankingServes, PoolForVolumeScan, LoadMarketCodes
    <2>2. ToSet(Seen(n, ranks)) \subseteq ToSet(TopByTradeValue(MarketScanSize))
        <3>1. TopByTradeValue(MarketScanSize) \in Seq(Quoted)
            BY <1>1, TopIsRanked
        <3> QED
            BY <1>1, <2>1, <3>1, FirstKeeps DEF Seen
    <2>3. ToSet(TopByTradeValue(MarketScanSize)) \subseteq ToSet(Seen(n, ranks))
        <3> DEFINE t == TopByTradeValue(MarketScanSize)
                   reach == Most(MarketScanSize, Most(5 * n, 5 * MaxStocks))
        <3>1. t \in Seq(Quoted) /\ IsInjective(t) /\ Len(t) <= MarketScanSize
            BY <1>1, TopIsRanked
        <3>2. Seen(n, ranks) = First(t, reach)
            BY <2>1 DEF Seen
        <3> HIDE DEF t, reach
        <3>3. Len(t) = Cardinality(ToSet(t)) /\ Len(t) \in Nat
            BY <3>1, ListsCount
        <3>4. Cardinality(ToSet(t)) <= reach /\ reach \in Nat
            BY <1>1, <3>1, <3>3 DEF reach
        <3>5. ToSet(First(t, reach)) = ToSet(t)
            BY <3>1, <3>4, FirstCounts
        <3> QED
            BY <3>2, <3>5 DEF t
    <2>4. pool = ToSet(TopByTradeValue(MarketScanSize)) \cap (Safe \ down)
        BY <1>2, <2>2, <2>3
    <2>5. Stage1(ranks, down) = First(Ranking(n), n)
        BY <1>2, <1>5
    <2> QED
        BY <1>1, <1>3, <2>4, <2>5, RankingReaches
<1> QED
    BY <1>4, <1>5

\* The least of two numbers.
LEMMA LeastIs ==
    \A x, y \in Nat : /\ Least(x, y) \in Nat /\ Least(x, y) <= x /\ Least(x, y) <= y
                      /\ x = 0 => Least(x, y) = 0
BY DEF Least

\* Of no more than n elements n places hold all.
LEMMA FirstFits ==
    ASSUME NEW T, NEW s \in Seq(T), IsInjective(s), NEW n \in Nat
    PROVE  /\ Cardinality(ToSet(s)) \in Nat /\ Cardinality(ToSet(First(s, n))) \in 0 .. n
           /\ IsFiniteSet(ToSet(First(s, n)))
<1>1. Cardinality(ToSet(s)) \in Nat
    BY ListsCount, FS_CardinalityType
<1>2. /\ IsFiniteSet(ToSet(First(s, n)))
      /\ Cardinality(ToSet(First(s, n))) = Least(n, Cardinality(ToSet(s)))
    BY FirstCounts
<1>3. Least(n, Cardinality(ToSet(s))) \in 0 .. n
    <2> DEFINE m == Cardinality(ToSet(s))
    <2>1. m \in Nat
        BY <1>1
    <2> HIDE DEF m
    <2>2. Least(n, m) \in 0 .. n
        BY <2>1 DEF Least
    <2> QED
        BY <2>2 DEF m
<1> QED
    BY <1>1, <1>2, <1>3

\* The places reserved fit into the list.
QuotasFit == StockQuota + EtfQuota <= MaxStocks

\* The quota's list: no stock twice, no more than it may hold, and of either
\* kind what is reserved for it, or all there are.
LEMMA QuotaKeeps ==
    ASSUME SelectionData, QuotasFit, NEW ranked \in Seq(Codes), IsInjective(ranked)
    PROVE  /\ Quota(ranked) \in Seq(Codes) /\ IsInjective(Quota(ranked))
           /\ ToSet(Quota(ranked)) \subseteq ToSet(ranked)
           /\ IsFiniteSet(ToSet(Quota(ranked))) /\ Cardinality(ToSet(Quota(ranked))) <= MaxStocks
           /\ Cardinality(ToSet(Quota(ranked)) \cap Etfs)
                >= Least(EtfQuota, Cardinality(ToSet(ranked) \cap Etfs))
           /\ Cardinality(ToSet(Quota(ranked)) \cap (Codes \ Etfs))
                >= Least(StockQuota, Cardinality(ToSet(ranked) \cap (Codes \ Etfs)))
<1>1. MaxStocks \in Nat /\ StockQuota \in Nat /\ EtfQuota \in Nat
    BY DEF SelectionData
<1>2. /\ IsFiniteSet(ToSet(ranked)) /\ Cardinality(ToSet(ranked)) \in Nat
      /\ \A K : /\ IsFiniteSet(ToSet(ranked) \cap K)
               /\ Cardinality(ToSet(ranked) \cap K) \in Nat
    BY ListsCount, FS_Subset, FS_CardinalityType
<1>3. CASE StockQuota = 0 /\ EtfQuota = 0
    <2>1. Quota(ranked) = First(ranked, MaxStocks)
        BY <1>3 DEF Quota
    <2>2. /\ Quota(ranked) \in Seq(Codes) /\ IsInjective(Quota(ranked))
          /\ ToSet(Quota(ranked)) \subseteq ToSet(ranked)
        BY <1>1, <2>1, FirstKeeps
    <2>3. /\ IsFiniteSet(ToSet(Quota(ranked)))
          /\ Cardinality(ToSet(Quota(ranked))) <= MaxStocks
        BY <1>1, <2>1, FirstFits
    <2>4. \A K : Cardinality(ToSet(Quota(ranked)) \cap K) \in Nat
        BY <2>3, FS_Subset, FS_CardinalityType
    <2>5. /\ Least(EtfQuota, Cardinality(ToSet(ranked) \cap Etfs)) = 0
          /\ Least(StockQuota, Cardinality(ToSet(ranked) \cap (Codes \ Etfs))) = 0
        BY <1>1, <1>2, <1>3, LeastIs
    <2>6. /\ Cardinality(ToSet(Quota(ranked)) \cap Etfs) \in Nat
          /\ Cardinality(ToSet(Quota(ranked)) \cap (Codes \ Etfs)) \in Nat
        BY <2>4
    <2> QED
        BY <2>2, <2>3, <2>5, <2>6
<1>4. CASE ~(StockQuota = 0 /\ EtfQuota = 0)
    <2> DEFINE etfs     == Among(ranked, Etfs)
               stocks   == Among(ranked, Codes \ Etfs)
               E        == ToSet(First(etfs, EtfQuota))
               S        == ToSet(First(stocks, StockQuota))
               reserved == S \cup E
               others   == Among(ranked, Codes \ reserved)
               room     == Most(MaxStocks - Cardinality(reserved), 0)
               O        == ToSet(First(others, room))
               chosen   == reserved \cup O
    <2>1. Quota(ranked) = First(Among(ranked, chosen), MaxStocks)
        <3>1. (IF MaxStocks <= 0 THEN StockQuota + EtfQuota ELSE MaxStocks) = MaxStocks
            BY <1>1 DEF QuotasFit
        <3> QED
            BY <1>4, <3>1 DEF Quota
    <2>2. /\ etfs \in Seq(Codes) /\ IsInjective(etfs) /\ ToSet(etfs) = ToSet(ranked) \cap Etfs
          /\ stocks \in Seq(Codes) /\ IsInjective(stocks)
          /\ ToSet(stocks) = ToSet(ranked) \cap (Codes \ Etfs)
          /\ others \in Seq(Codes) /\ IsInjective(others) /\ ToSet(others) \subseteq ToSet(ranked)
        BY AmongTakes
    <2> HIDE DEF etfs, stocks, others
    <2>3. /\ IsFiniteSet(E) /\ E \subseteq ToSet(etfs)
          /\ Cardinality(E) = Least(EtfQuota, Cardinality(ToSet(etfs)))
        BY <1>1, <2>2, FirstCounts, FirstKeeps
    <2>4. /\ IsFiniteSet(S) /\ S \subseteq ToSet(stocks)
          /\ Cardinality(S) = Least(StockQuota, Cardinality(ToSet(stocks)))
        BY <1>1, <2>2, FirstCounts, FirstKeeps
    <2>5. Cardinality(E) \in 0 .. EtfQuota /\ Cardinality(S) \in 0 .. StockQuota
        BY <1>1, <2>2, FirstFits
    <2> HIDE DEF E, S
    <2>6. /\ IsFiniteSet(reserved) /\ Cardinality(reserved) \in Nat
          /\ Cardinality(reserved) <= MaxStocks
        <3>1. Cardinality(S \cap E) \in Nat
            BY <2>4, FS_Intersection, FS_CardinalityType
        <3>2. /\ IsFiniteSet(S \cup E)
              /\ Cardinality(S \cup E) = Cardinality(S) + Cardinality(E) - Cardinality(S \cap E)
            BY <2>3, <2>4, FS_Union
        <3>3. Cardinality(S \cup E) \in Nat
            BY <3>2, FS_CardinalityType
        <3> HIDE DEF reserved
        <3>4. Cardinality(S \cup E) <= MaxStocks
            BY <1>1, <2>5, <3>1, <3>2 DEF QuotasFit
        <3> QED
            BY <3>2, <3>3, <3>4 DEF reserved
    <2> HIDE DEF reserved
    <2>7. room \in Nat /\ room = MaxStocks - Cardinality(reserved)
        BY <1>1, <2>6 DEF Most
    <2> HIDE DEF room
    <2>8. /\ IsFiniteSet(O) /\ O \subseteq ToSet(others) /\ Cardinality(O) \in Nat
          /\ Cardinality(O) <= room
        <3>1. Cardinality(ToSet(others)) \in Nat
            BY <2>2, ListsCount, FS_CardinalityType
        <3>2. Cardinality(O) \in 0 .. room /\ IsFiniteSet(O)
            BY <2>2, <2>7, FirstFits
        <3>3. O \subseteq ToSet(others)
            BY <2>2, <2>7, FirstKeeps
        <3> HIDE DEF O
        <3> QED
            BY <2>7, <3>2, <3>3
    <2> HIDE DEF O
    <2>9. IsFiniteSet(chosen) /\ Cardinality(chosen) <= MaxStocks
        <3>1. Cardinality(reserved \cap O) \in Nat
            BY <2>6, FS_Intersection, FS_CardinalityType
        <3>2. /\ IsFiniteSet(reserved \cup O)
              /\ Cardinality(reserved \cup O)
                   = Cardinality(reserved) + Cardinality(O) - Cardinality(reserved \cap O)
            BY <2>6, <2>8, FS_Union
        <3> QED
            BY <1>1, <2>6, <2>7, <2>8, <3>1, <3>2
    <2>10. /\ chosen \subseteq ToSet(ranked) /\ E \subseteq chosen \cap Etfs
           /\ S \subseteq chosen \cap (Codes \ Etfs)
        BY <2>2, <2>3, <2>4, <2>8 DEF reserved
    <2> HIDE DEF chosen
    <2>11. /\ Among(ranked, chosen) \in Seq(Codes) /\ IsInjective(Among(ranked, chosen))
           /\ ToSet(Among(ranked, chosen)) = chosen
        <3>1. /\ Among(ranked, chosen) \in Seq(Codes) /\ IsInjective(Among(ranked, chosen))
              /\ ToSet(Among(ranked, chosen)) = ToSet(ranked) \cap chosen
            BY AmongTakes
        <3> QED
            BY <2>10, <3>1
    <2>12. /\ Quota(ranked) \in Seq(Codes) /\ IsInjective(Quota(ranked))
           /\ ToSet(Quota(ranked)) = chosen
        BY <1>1, <2>1, <2>9, <2>11, FirstKeeps, FirstCounts
    <2>13. /\ Cardinality(chosen \cap Etfs) >= Cardinality(E)
           /\ Cardinality(chosen \cap (Codes \ Etfs)) >= Cardinality(S)
        <3>1. IsFiniteSet(chosen \cap Etfs) /\ IsFiniteSet(chosen \cap (Codes \ Etfs))
            BY <2>9, FS_Subset
        <3> QED
            BY <2>5, <2>10, <3>1, FS_Subset, FS_CardinalityType
    <2> QED
        BY <2>2, <2>3, <2>4, <2>9, <2>10, <2>12, <2>13
<1> QED
    BY <1>3, <1>4

\* What Finalized drops: repetitions, what is no code, what is too much.
LEMMA FinalizedKeeps ==
    ASSUME SelectionData, NEW s \in Seq(Codes)
    PROVE  /\ Finalized(s) \in Seq(Quoted) /\ IsInjective(Finalized(s))
           /\ Len(Finalized(s)) <= MaxStocks
           /\ ToSet(Finalized(s)) \subseteq ToSet(s)
           /\ ToSet(s) \subseteq Quoted /\ Cardinality(ToSet(s)) <= MaxStocks
                => ToSet(Finalized(s)) = ToSet(s)
<1> DEFINE d == Deduped(s)
           a == Among(d, Quoted)
<1>1. d \in Seq(Codes) /\ ToSet(d) = ToSet(s) /\ IsInjective(d)
    BY DedupedTakes
<1> HIDE DEF d
<1>2. a \in Seq(Codes) /\ ToSet(a) = ToSet(s) \cap Quoted /\ IsInjective(a)
    BY <1>1, AmongTakes
<1>3. Finalized(s) = First(a, MaxStocks) /\ MaxStocks \in Nat
    BY DEF Finalized, SelectionData, d
<1> HIDE DEF a
<1>4. a \in Seq(Quoted)
    BY <1>2 DEF ToSet
<1>5. Len(Finalized(s)) <= MaxStocks
    <2>1. Len(a) \in Nat
        BY <1>2
    <2> QED
        BY <1>3, <1>4, <2>1, FirstKeeps
<1>6. ToSet(s) \subseteq Quoted => ToSet(a) = ToSet(s)
    BY <1>2
<1>7. /\ Finalized(s) \in Seq(Quoted) /\ IsInjective(Finalized(s))
      /\ ToSet(Finalized(s)) \subseteq ToSet(a)
    BY <1>2, <1>3, <1>4, FirstKeeps
<1>8. Cardinality(ToSet(a)) <= MaxStocks => ToSet(Finalized(s)) = ToSet(a)
    BY <1>2, <1>3, FirstCounts
<1> QED
    BY <1>2, <1>5, <1>6, <1>7, <1>8

\* Every method of choosing yields a list of codes.
LEMMA ChosenCodes ==
    ASSUME SelectionData, market \in [Quoted -> Quotes], NEW ranks, NEW down
    PROVE  Chosen(ranks, down) \in Seq(Codes)
<1>1. /\ Seed \in Seq(Codes) /\ Candidates \in Seq(Codes) /\ Stocks \in Seq(Codes)
      /\ MaxStocks \in Nat /\ VolumeTopN \in Nat /\ StockQuota \in Nat /\ EtfQuota \in Nat
    BY DEF SelectionData
<1>2. Stage1(ranks, down) \in Seq(Codes) /\ IsInjective(Stage1(ranks, down))
    <2>1. Stage1Limit \in Nat
        BY <1>1 DEF Stage1Limit, Most
    <2> QED
        BY <2>1, VolumeTopTakes DEF Stage1
<1>3. /\ First(Stocks, MaxStocks) \in Seq(Codes)
      /\ VolumeTop(VolumeTopN, ranks, down) \in Seq(Codes)
    BY <1>1, FirstKeeps, VolumeTopTakes
<1>4. AtrFilter(ranks, down) \in Seq(Codes)
    <2>1. Deduped(Candidates) \in Seq(Codes) /\ Deduped(Stocks) \in Seq(Codes)
        BY <1>1, DedupedTakes
    <2>2. AtrPool(ranks, down) \in Seq(Codes)
        BY <1>1, <1>2, <2>1 DEF AtrPool
    <2>3. Among(AtrPool(ranks, down), Fitting \ down) \in Seq(Codes)
        BY <2>2, AmongTakes
    <2> QED
        BY <1>1, <2>3, FirstKeeps DEF AtrFilter
<1>5. Combined(ranks, down) \in Seq(Codes)
    <2> DEFINE fits   == Among(Stage1(ranks, down), Fitting)
               ranked == SortedBy(fits, Score)
               etfs     == Among(ranked, Etfs)
               stocks   == Among(ranked, Codes \ Etfs)
               reserved == ToSet(First(stocks, StockQuota)) \cup ToSet(First(etfs, EtfQuota))
               total    == IF MaxStocks <= 0 THEN StockQuota + EtfQuota ELSE MaxStocks
               others   == Among(ranked, Codes \ reserved)
               chosen   == reserved \cup ToSet(First(others, Most(total - Cardinality(reserved), 0)))
    <2>1. fits \in Seq(Codes) /\ ToSet(fits) \subseteq Fitting
        BY <1>2, AmongTakes
    <2>2. \A x \in ToSet(fits) : Score[x] \in Int
        BY <2>1, QuotesAreNumbers DEF Fitting
    <2>3. ranked \in Seq(Codes)
        BY <2>1, <2>2, SortedTakes
    <2>4. /\ Quota(ranked) = IF StockQuota = 0 /\ EtfQuota = 0 THEN First(ranked, MaxStocks)
                             ELSE First(Among(ranked, chosen), total)
          /\ total \in Nat
        BY <1>1 DEF Quota
    <2>5. Combined(ranks, down)
            = IF ToSet(Stage1(ranks, down)) \cap down # {} THEN NoList ELSE Quota(ranked)
        BY DEF Combined
    <2> HIDE DEF chosen, total, ranked
    <2>6. Among(ranked, chosen) \in Seq(Codes)
        BY <2>3, AmongTakes
    <2>7. /\ First(ranked, MaxStocks) \in Seq(Codes)
          /\ First(Among(ranked, chosen), total) \in Seq(Codes)
        BY <1>1, <2>3, <2>4, <2>6, FirstKeeps
    <2>8. NoList \in Seq(Codes)
        BY DEF NoList
    <2> QED
        BY <2>4, <2>5, <2>7, <2>8
<1> QED
    BY <1>3, <1>4, <1>5 DEF Chosen

\* What a list of the combined method holds, of the pool it was chosen from.
WellChosen(list, pool) ==
    LET within == Leaders(pool, Most(Stage1Limit, 1)) \cap Fitting
    IN  /\ IsInjective(list) /\ Len(list) <= MaxStocks
        /\ ToSet(list) \subseteq Safe \cap Fitting
        /\ Cardinality(ToSet(list) \cap Etfs) >= Least(EtfQuota, Cardinality(within \cap Etfs))
        /\ Cardinality(ToSet(list) \cap (Codes \ Etfs))
              >= Least(StockQuota, Cardinality(within \cap (Codes \ Etfs)))

\* The ranking reaches as far as a scan of the market would.
ScanFits == MarketScanSize <= 5 * Stage1Limit

\* More of a kind reserve no fewer places.
LEMMA MoreReserve ==
    ASSUME NEW S, NEW R, IsFiniteSet(R), S \subseteq R, NEW q \in Nat
    PROVE  Least(q, Cardinality(S)) <= Least(q, Cardinality(R)) /\ Least(q, Cardinality(S)) \in Nat
           /\ Least(q, Cardinality(R)) \in Nat
<1> DEFINE m == Cardinality(S)
           n == Cardinality(R)
<1>1. m \in Nat /\ n \in Nat /\ m <= n
    BY FS_Subset, FS_CardinalityType
<1> HIDE DEF m, n
<1>2. Least(q, m) <= Least(q, n) /\ Least(q, m) \in Nat /\ Least(q, n) \in Nat
    BY <1>1 DEF Least
<1> QED
    BY <1>2 DEF m, n

\* The combined method keeps the quotas.
LEMMA CombinedKeeps ==
    ASSUME SelectionData, QuotasFit, ScanFits, market \in [Quoted -> Quotes],
           NEW ranks \in BOOLEAN, NEW down, Finalized(Combined(ranks, down)) # NoList
    PROVE  WellChosen(Finalized(Combined(ranks, down)), Pool(ranks, down))
<1> DEFINE first  == Stage1(ranks, down)
           fits   == Among(first, Fitting)
           ranked == SortedBy(fits, Score)
           list   == Finalized(Combined(ranks, down))
           within == Leaders(Pool(ranks, down), Most(Stage1Limit, 1)) \cap Fitting
<1>1. MaxStocks \in Nat /\ StockQuota \in Nat /\ EtfQuota \in Nat
    BY DEF SelectionData
<1>2. first \in Seq(Codes) /\ IsInjective(first) /\ ToSet(first) \subseteq Safe
    <2>1. Stage1Limit \in Nat
        BY DEF Stage1Limit, Most, SelectionData
    <2> QED
        BY <2>1, VolumeTopTakes DEF Stage1
<1>3. ToSet(first) \cap down = {}
    <2> SUFFICES ASSUME ToSet(first) \cap down # {}
                 PROVE  list = NoList
        OBVIOUS
    <2>1. list = Finalized(NoList)
        BY DEF Combined
    <2>2. NoList \in Seq(Codes) /\ ToSet(NoList) = {}
        BY DEF NoList, ToSet
    <2>3. list \in Seq(Quoted) /\ ToSet(list) = {}
        <3>1. Finalized(NoList) \in Seq(Quoted) /\ ToSet(Finalized(NoList)) \subseteq ToSet(NoList)
            BY <2>2, FinalizedKeeps
        <3> QED
            BY <2>1, <2>2, <3>1
    <2> HIDE DEF list
    <2> QED
        BY <2>3 DEF ToSet, NoList
<1>4. Leaders(Pool(ranks, down), Most(Stage1Limit, 1)) \subseteq ToSet(first)
    BY <1>3, LeadersReach DEF ScanFits
<1>5. list = Finalized(Quota(ranked))
    BY <1>3 DEF Combined
<1>6. within \subseteq ToSet(first) \cap Fitting
    BY <1>4
<1> HIDE DEF first, list, within
<1>7. fits \in Seq(Codes) /\ IsInjective(fits) /\ ToSet(fits) = ToSet(first) \cap Fitting
    BY <1>2, AmongTakes
<1>8. \A x \in ToSet(fits) : Score[x] \in Int
    BY <1>7, QuotesAreNumbers DEF Fitting
<1> HIDE DEF fits
<1>9. ranked \in Seq(Codes) /\ IsInjective(ranked) /\ ToSet(ranked) = ToSet(fits)
    BY <1>7, <1>8, SortedTakes
<1> HIDE DEF ranked
<1>10. /\ Quota(ranked) \in Seq(Codes)
       /\ ToSet(Quota(ranked)) \subseteq ToSet(ranked)
       /\ Cardinality(ToSet(Quota(ranked))) <= MaxStocks
       /\ Cardinality(ToSet(Quota(ranked)) \cap Etfs)
                >= Least(EtfQuota, Cardinality(ToSet(ranked) \cap Etfs))
       /\ Cardinality(ToSet(Quota(ranked)) \cap (Codes \ Etfs))
                >= Least(StockQuota, Cardinality(ToSet(ranked) \cap (Codes \ Etfs)))
    BY <1>9, QuotaKeeps
<1>11. ToSet(ranked) = ToSet(first) \cap Fitting /\ ToSet(ranked) \subseteq Safe \cap Fitting
    BY <1>2, <1>7, <1>9
<1>12. ToSet(Quota(ranked)) \subseteq Quoted
    BY <1>10, <1>11 DEF Safe
<1>13. /\ IsInjective(list) /\ Len(list) <= MaxStocks
       /\ ToSet(list) = ToSet(Quota(ranked))
    BY <1>5, <1>10, <1>12, FinalizedKeeps
<1>14. IsFiniteSet(ToSet(ranked)) /\ within \subseteq ToSet(ranked)
    BY <1>6, <1>9, <1>11, ListsCount
<1>15. ASSUME NEW K, NEW q \in Nat
       PROVE  /\ Least(q, Cardinality(within \cap K))
                     <= Least(q, Cardinality(ToSet(ranked) \cap K))
              /\ Least(q, Cardinality(within \cap K)) \in Nat
              /\ Least(q, Cardinality(ToSet(ranked) \cap K)) \in Nat
              /\ Cardinality(ToSet(list) \cap K) \in Nat
    <2>1. within \cap K \subseteq ToSet(ranked) \cap K
        BY <1>14
    <2>2. IsFiniteSet(ToSet(ranked) \cap K)
        BY <1>14, FS_Intersection
    <2>3. IsFiniteSet(ToSet(list) \cap K)
        <3>1. ToSet(list) \cap K \subseteq ToSet(ranked)
            BY <1>10, <1>13
        <3> QED
            BY <1>14, <3>1, FS_Subset
    <2> QED
        BY <2>1, <2>2, <2>3, MoreReserve, FS_CardinalityType
<1>16. ASSUME NEW K, NEW q \in Nat,
              Cardinality(ToSet(list) \cap K) >= Least(q, Cardinality(ToSet(ranked) \cap K))
       PROVE  Cardinality(ToSet(list) \cap K) >= Least(q, Cardinality(within \cap K))
    <2>1. /\ Least(q, Cardinality(within \cap K)) <= Least(q, Cardinality(ToSet(ranked) \cap K))
          /\ Least(q, Cardinality(within \cap K)) \in Nat
          /\ Least(q, Cardinality(ToSet(ranked) \cap K)) \in Nat
          /\ Cardinality(ToSet(list) \cap K) \in Nat
        BY <1>15
    <2> QED
        BY <1>16, <2>1
<1>17. Cardinality(ToSet(list) \cap Etfs) >= Least(EtfQuota, Cardinality(within \cap Etfs))
    BY <1>1, <1>10, <1>13, <1>16
<1>18. Cardinality(ToSet(list) \cap (Codes \ Etfs))
          >= Least(StockQuota, Cardinality(within \cap (Codes \ Etfs)))
    BY <1>1, <1>10, <1>13, <1>16
<1> QED
    BY <1>10, <1>11, <1>13, <1>17, <1>18 DEF WellChosen, list, within
-----------------------------------------------------------------------------
\* The types, and what a choice leaves behind.
LEMMA InitSelection == SelectionData /\ SelectionInit => SelectionTypes
BY DEF SelectionInit, SelectionTypes, SelectionData, NoAnswer, NoList

LEMMA SelectKeeps ==
    ASSUME SelectionData, SelectionTypes, NEW opened, SelectAndCache(opened),
           UNCHANGED <<config, market, date, minute>>
    PROVE  /\ selected'.list \in Seq(Quoted) /\ cacheFile'.list \in Seq(Quoted)
           /\ cacheFile'.list = NoList <=> cacheFile'.day = -1
           /\ selected'.from \notin {"market", "fixed", "error"} => FALSE
           /\ selected'.from = "market" =>
                 \E ranks \in BOOLEAN, down \in SUBSET Quoted :
                     /\ selected'.list = Finalized(Chosen(ranks, down)) /\ selected'.list # NoList
                     /\ selected'.pool = Pool(ranks, down)
<1>1. PICK ranks \in BOOLEAN, down \in SUBSET Quoted :
         LET list == Finalized(Chosen(ranks, down))
         IN  IF list = NoList THEN FallsBack
             ELSE /\ SavesCache(list, Base(config.method), opened)
                  /\ selected' = [list |-> list, from |-> "market", pool |-> Pool(ranks, down)]
    BY DEF SelectAndCache
<1>2. date # -1 /\ cacheFile.list \in Seq(Quoted) /\ (cacheFile.list = NoList <=> cacheFile.day = -1)
    BY DEF SelectionTypes
<1>3. CASE Finalized(Chosen(ranks, down)) = NoList
    <2> DEFINE list == Finalized(First(Stocks, MaxStocks))
    <2>1. FallsBack
        BY <1>1, <1>3
    <2>2. list \in Seq(Quoted) /\ NoList \in Seq(Quoted)
        <3>1. Stocks \in Seq(Codes) /\ MaxStocks \in Nat
            BY DEF SelectionData
        <3>2. First(Stocks, MaxStocks) \in Seq(Codes)
            BY <3>1, FirstKeeps
        <3> QED
            BY <3>2, FinalizedKeeps DEF NoList
    <2>3. \/ /\ list # NoList /\ SavesCache(list, "fixed", FALSE)
             /\ selected' = [list |-> list, from |-> "fixed", pool |-> {}]
          \/ /\ UNCHANGED cacheFile
             /\ selected' = [list |-> NoList, from |-> "error", pool |-> {}]
        BY <2>1 DEF FallsBack
    <2> HIDE DEF list
    <2> QED
        BY <1>2, <2>2, <2>3 DEF SavesCache
<1>4. CASE Finalized(Chosen(ranks, down)) # NoList
    <2> DEFINE list == Finalized(Chosen(ranks, down))
    <2>1. list \in Seq(Quoted)
        BY ChosenCodes, FinalizedKeeps DEF SelectionTypes
    <2>2. /\ SavesCache(list, Base(config.method), opened) /\ list # NoList
          /\ selected' = [list |-> list, from |-> "market", pool |-> Pool(ranks, down)]
        BY <1>1, <1>4
    <2>3. \E r \in BOOLEAN, d \in SUBSET Quoted :
              list = Finalized(Chosen(r, d)) /\ Pool(ranks, down) = Pool(r, d)
        OBVIOUS
    <2> HIDE DEF list
    <2>4. selected'.list = list /\ cacheFile'.list = list /\ cacheFile'.day = date
        BY <2>2 DEF SavesCache
    <2> QED
        BY <1>2, <2>1, <2>2, <2>3, <2>4
<1> QED
    BY <1>3, <1>4

\* Every step keeps the types.
LEMMA StepSelectionTypes ==
    SelectionData /\ SelectionTypes /\ [SelectionNext]_selectionVars => SelectionTypes'
<1> SUFFICES ASSUME SelectionData, SelectionTypes, [SelectionNext]_selectionVars
             PROVE  SelectionTypes'
    OBVIOUS
<1>1. CASE TimePasses
    <2>1. NoAnswer.list \in Seq(Quoted)
        BY DEF NoAnswer, NoList
    <2>2. date' \in 0 .. FinalDate /\ minute' \in 0 .. FinalMinute
        <3>1. FinalMinute \in Nat /\ FinalDate \in Nat
            BY DEF SelectionData
        <3>2. date \in 0 .. FinalDate /\ minute \in 0 .. FinalMinute
            BY DEF SelectionTypes
        <3> QED
            BY <1>1, <3>1, <3>2 DEF TimePasses
    <2>3. market' \in [Quoted -> Quotes]
        BY <1>1 DEF TimePasses, SelectionTypes
    <2> QED
        BY <1>1, <2>1, <2>2, <2>3 DEF TimePasses, SelectionTypes
<1>2. ASSUME NEW opened, SelectAndCache(opened), UNCHANGED <<config, market, date, minute>>
      PROVE  SelectionTypes'
    <2>1. /\ selected'.list \in Seq(Quoted) /\ cacheFile'.list \in Seq(Quoted)
          /\ cacheFile'.list = NoList <=> cacheFile'.day = -1
        BY <1>2, SelectKeeps
    <2> QED
        BY <1>2, <2>1 DEF SelectionTypes
<1>3. CASE Selects
    <2>1. CASE \E opened \in BOOLEAN : SelectAndCache(opened)
        BY <1>2, <1>3, <2>1 DEF Selects
    <2>2. CASE selected' = [list |-> cacheFile.list, from |-> "cache", pool |-> {}]
               /\ UNCHANGED cacheFile
        BY <1>3, <2>2 DEF Selects, SelectionTypes
    <2> QED
        BY <1>3, <2>1, <2>2 DEF Selects
<1>4. CASE UNCHANGED selectionVars
    BY <1>4 DEF selectionVars, SelectionTypes
<1> QED
    BY <1>1, <1>3, <1>4 DEF SelectionNext

LEMMA InitQuotas == SelectionInit => QuotasAreKept
BY DEF SelectionInit, NoAnswer, QuotasAreKept

\* Every step keeps the quotas: the market has not moved since the choice.
LEMMA StepQuotas ==
    /\ SelectionData /\ QuotasFit /\ ScanFits
    /\ SelectionTypes /\ QuotasAreKept /\ [SelectionNext]_selectionVars
    => QuotasAreKept'
<1> SUFFICES ASSUME SelectionData, QuotasFit, ScanFits, SelectionTypes, QuotasAreKept,
                    [SelectionNext]_selectionVars
             PROVE  QuotasAreKept'
    OBVIOUS
<1>1. CASE TimePasses
    BY <1>1 DEF TimePasses, NoAnswer, QuotasAreKept
<1>2. ASSUME NEW opened, SelectAndCache(opened), UNCHANGED <<config, market, date, minute>>,
             selected'.from = "market", config'.method = "combined"
      PROVE  WellChosen(selected'.list, selected'.pool)
    <2>1. PICK ranks \in BOOLEAN, down \in SUBSET Quoted :
              /\ selected'.list = Finalized(Chosen(ranks, down)) /\ selected'.list # NoList
              /\ selected'.pool = Pool(ranks, down)
        BY <1>2, SelectKeeps
    <2>2. Chosen(ranks, down) = Combined(ranks, down)
        BY <1>2 DEF Chosen
    <2>3. WellChosen(Finalized(Combined(ranks, down)), Pool(ranks, down))
        BY <2>1, <2>2, CombinedKeeps DEF SelectionTypes
    <2> QED
        BY <2>1, <2>2, <2>3
<1>3. CASE Selects
    <2>1. SUFFICES ASSUME selected'.from = "market", config'.method = "combined"
                   PROVE  WellChosen(selected'.list, selected'.pool)
        BY <1>3 DEF Selects, QuotasAreKept, WellChosen, Kept, Leaders, Safe, Fitting,
                    PassesSafetyFilters, Fits
    <2>2. \E opened \in BOOLEAN : SelectAndCache(opened)
        <3>1. \/ SelectAndCache(FALSE) \/ SelectAndCache(TRUE)
              \/ selected' = [list |-> cacheFile.list, from |-> "cache", pool |-> {}]
            BY <1>3 DEF Selects
        <3>2. selected' # [list |-> cacheFile.list, from |-> "cache", pool |-> {}]
            BY <2>1
        <3> QED
            BY <3>1, <3>2, Zenon
    <2>3. UNCHANGED <<config, market, date, minute>>
        BY <1>3 DEF Selects
    <2> QED
        BY <1>2, <2>1, <2>2, <2>3
<1>4. CASE UNCHANGED selectionVars
    BY <1>4 DEF selectionVars, QuotasAreKept, Kept, Leaders, Safe, Fitting, PassesSafetyFilters,
                Fits
<1> QED
    BY <1>1, <1>3, <1>4 DEF SelectionNext
=============================================================================
