--------------------------- MODULE TradersProofs ----------------------------
(***************************************************************************)
(* What the two programs beside the main loop keep, for all values of      *)
(* their constants: the trader that polls and the one that listens.        *)
(***************************************************************************)
EXTENDS AutoTrader, StreamTrader, FiniteSetTheorems, TLAPS

-----------------------------------------------------------------------------
(***************************************************************************)
(* The polling trader watches what it holds, for every list of stocks and  *)
(* every setting.  The watched quantity is at least what is held or bought *)
(* and not on offer: a BUY is entered whole when it is accepted, a sale    *)
(* takes out the whole position, and a pass visits each position once.     *)
(***************************************************************************)

Positions ==
    /\ DOMAIN watched \subseteq Codes
    /\ \A c \in DOMAIN watched : watched[c].qty \in Nat \ {0}

Account ==
    /\ held \in [Codes -> Nat] /\ buying \in [Codes -> Nat] /\ selling \in [Codes -> Nat]
    /\ \A c \in Codes : selling[c] <= held[c]

\* The stocks still to visit: in the monitoring half each is watched, once.
Visits ==
    /\ left \in Seq(Codes)
    /\ phase = "monitor" =>
          /\ \A i \in 1 .. Len(left) : left[i] \in DOMAIN watched
          /\ \A i, j \in 1 .. Len(left) : i < j => left[i] # left[j]

Shape   == Positions /\ Account /\ Visits
AutoInv == Shape /\ NothingIsForgotten

LEMMA QuantityType == Positions => \A c \in Codes : Quantity(c) \in Nat
BY DEF Positions, Quantity

LEMMA PositionsCount ==
    ASSUME TraderLimits, Positions
    PROVE  Cardinality(DOMAIN watched) \in Nat
<1>1. \A c \in Codes : \E n \in 1 .. Len(WatchList) : WatchList[n] = c
  BY DEF Codes, TraderLimits
<1>2. IsFiniteSet(Codes)
  BY <1>1 DEF IsFiniteSet, TraderLimits
<1>3. QED
  BY <1>2, FS_Subset, FS_CardinalityType DEF Positions

LEMMA SizeType ==
    ASSUME TraderLimits, NEW p \in Prices, Size(p) > 0
    PROVE  Size(p) \in Nat
<1> DEFINE risk == -p * StopLossPct
<1>1. p \in Nat /\ p > 0 /\ {StopLossPct, Capital, RiskPerTradePct, MinOrderAmount} \subseteq Int
  BY DEF TraderLimits
<1>2. risk \in Int
  BY <1>1
<1>3. CASE risk <= 0
  BY <1>3 DEF Size
<1>4. CASE risk > 0
  <2>1. (Capital * RiskPerTradePct) \div risk \in Int /\ (MinOrderAmount \div p) + 1 \in Int
    BY <1>1, <1>2, <1>4
  <2>2. Size(p) \in Int
    BY <1>2, <1>4, <2>1 DEF Size
  <2>3. QED
    BY <2>2
<1>5. QED
  BY <1>2, <1>3, <1>4

LEMMA AutoStart == TraderLimits /\ AutoInit => AutoInv
<1> SUFFICES ASSUME AutoInit PROVE AutoInv
  OBVIOUS
<1>1. watched = <<>> /\ left = <<>> /\ phase = "off"
  BY DEF AutoInit
<1>2. DOMAIN watched = {} /\ left \in Seq(Codes)
  BY <1>1
<1>3. Account
  BY DEF AutoInit, Account
<1>4. QED
  BY <1>1, <1>2, <1>3 DEF AutoInv, Shape, Positions, Visits, NothingIsForgotten

\* A step that leaves the positions and the account alone.
LEMMA ElsewhereKeeps ==
    ASSUME AutoInv, UNCHANGED <<watched, held, buying, selling, astray>>,
           left' \in Seq(Codes), phase' \notin {"off", "monitor"}, phase # "off"
    PROVE  AutoInv'
BY DEF AutoInv, Shape, Positions, Account, Visits, NothingIsForgotten, Quantity

\* The program starts, and takes its positions from the account if it sees it.
LEMMA StartsKeeps ==
    ASSUME AutoInv, Starts
    PROVE  AutoInv'
<1>1. /\ phase' = "idle" /\ left' = <<>> /\ UNCHANGED <<held, buying, selling>>
  BY DEF Starts
<1>2. Visits'
  BY <1>1 DEF Visits
<1>3. Account'
  BY <1>1 DEF Account, AutoInv, Shape
<1>4. CASE \E avg \in Prices : Sync(avg) /\ astray' = {c \in Codes : buying[c] > 0}
  <2>1. PICK avg \in Prices :
          watched' = [c \in {d \in Codes : held[d] > 0} |-> Position(avg, held[c])]
    BY <1>4 DEF Sync
  <2>2. /\ DOMAIN watched' = {d \in Codes : held[d] > 0}
        /\ \A c \in DOMAIN watched' : watched'[c].qty = held[c]
    BY <2>1 DEF Position
  <2>3. Positions'
    BY <2>2 DEF Positions, AutoInv, Shape, Account
  <2>4. NothingIsForgotten'
    BY <1>1, <1>4, <2>2 DEF NothingIsForgotten, Quantity, AutoInv, Shape, Account
  <2>5. QED
    BY <1>2, <1>3, <2>3, <2>4 DEF AutoInv, Shape
<1>5. CASE watched' = <<>> /\ astray' = {c \in Codes : buying[c] > 0 \/ held[c] > 0}
  <2>1. DOMAIN watched' = {}
    BY <1>5
  <2>2. Positions'
    BY <2>1 DEF Positions
  <2>3. NothingIsForgotten'
    BY <1>1, <1>5, <2>1 DEF NothingIsForgotten, Quantity, AutoInv, Shape, Account
  <2>4. QED
    BY <1>2, <1>3, <2>2, <2>3 DEF AutoInv, Shape
<1>6. QED
  BY <1>4, <1>5 DEF Starts

\* A pass begins: every position is to be visited once.
LEMMA BeginsKeeps ==
    ASSUME TraderLimits, AutoInv, Begins
    PROVE  AutoInv'
<1>1. /\ UNCHANGED <<watched, held, buying, selling, astray>>
      /\ phase = "idle" /\ phase' = "monitor"
  BY DEF Begins
<1>2. PICK n \in Nat : \E s \in [1 .. n -> DOMAIN watched] :
          /\ \A i, j \in DOMAIN s : i < j => s[i] # s[j]
          /\ left' = s
  BY PositionsCount DEF Begins, AutoInv, Shape
<1>3. /\ left' \in Seq(DOMAIN watched)
      /\ \A i, j \in 1 .. Len(left') : i < j => left'[i] # left'[j]
  BY <1>2
<1>4. Visits'
  BY <1>1, <1>3 DEF Visits, AutoInv, Shape, Positions
<1>5. QED
  BY <1>1, <1>4 DEF AutoInv, Shape, Positions, Account, NothingIsForgotten, Quantity

\* One position is looked at, and sold whole or kept.
LEMMA MonitorsKeeps ==
    ASSUME AutoInv, Monitors
    PROVE  AutoInv'
<1>0. PICK c : c = Head(left)
  OBVIOUS
<1>1. /\ phase = "monitor" /\ left # <<>> /\ left' = Tail(left)
      /\ UNCHANGED <<phase, held, buying, astray>>
  BY DEF Monitors
<1>2. /\ left \in Seq(Codes) /\ Len(left) \in Nat /\ Len(left) > 0 /\ c = left[1]
      /\ \A i \in 1 .. Len(left) : left[i] \in DOMAIN watched
      /\ \A i, j \in 1 .. Len(left) : i < j => left[i] # left[j]
  BY <1>0, <1>1 DEF AutoInv, Shape, Visits
<1>3. /\ left' \in Seq(Codes) /\ Len(left') = Len(left) - 1
      /\ \A i \in 1 .. Len(left') : left'[i] = left[i + 1]
  BY <1>1, <1>2
<1>4. /\ \A i, j \in 1 .. Len(left') : i < j => left'[i] # left'[j]
      /\ \A i \in 1 .. Len(left') : left'[i] \in DOMAIN watched \ {c}
  BY <1>2, <1>3
<1>5. c \in DOMAIN watched /\ c \in Codes
  BY <1>2 DEF AutoInv, Shape, Positions
<1>6. CASE UNCHANGED <<watched, selling>>
  <2>1. Visits'
    BY <1>3, <1>4, <1>6 DEF Visits
  <2>2. QED
    BY <1>1, <1>6, <2>1 DEF AutoInv, Shape, Positions, Account, NothingIsForgotten, Quantity
<1>7. ASSUME NEW answer \in Answers, PlaceSell(c, watched[c].qty, answer), Sale(c, answer)
      PROVE  AutoInv'
  <2>1. watched[c].qty \in Nat /\ Quantity(c) = watched[c].qty
    BY <1>5 DEF AutoInv, Shape, Positions, Quantity
  <2>2. /\ selling' \in [Codes -> Nat]
        /\ \A d \in Codes : d # c => selling'[d] = selling[d]
        /\ selling'[c] = IF answer = "refused" THEN selling[c] ELSE selling[c] + watched[c].qty
        /\ selling'[c] <= held[c]
    BY <1>5, <1>7, <2>1 DEF PlaceSell, AutoInv, Shape, Account
  <2>3. Account'
    BY <1>1, <2>2 DEF Account, AutoInv, Shape
  <2>4. \A d \in Codes : d # c => held[d] + buying[d] - selling'[d] <= Quantity(d) \/ d \in astray
    BY <1>1, <2>2 DEF AutoInv, NothingIsForgotten
  <2>5. held[c] + buying[c] - selling[c] <= watched[c].qty \/ c \in astray
    BY <1>1, <1>5, <2>1 DEF AutoInv, NothingIsForgotten
  <2>6. {held[c], buying[c], selling[c]} \subseteq Nat
    BY <1>5 DEF AutoInv, Shape, Account
  <2>7. CASE answer = "accepted"
    <3>1. /\ DOMAIN watched' = DOMAIN watched \ {c}
          /\ \A d \in DOMAIN watched' : watched'[d] = watched[d]
      BY <1>7, <2>7 DEF Sale, Without
    <3>2. Visits'
      BY <1>3, <1>4, <3>1 DEF Visits
    <3>3. Positions'
      BY <3>1 DEF Positions, AutoInv, Shape
    <3>4. Quantity(c)' = 0 /\ \A d \in Codes : d # c => Quantity(d)' = Quantity(d)
      BY <3>1 DEF Quantity
    <3>5. held[c] + buying[c] - selling'[c] <= 0 \/ c \in astray
      BY <2>1, <2>2, <2>5, <2>6, <2>7
    <3>6. NothingIsForgotten'
      BY <1>1, <2>4, <3>4, <3>5 DEF NothingIsForgotten
    <3>7. QED
      BY <2>3, <3>2, <3>3, <3>6 DEF AutoInv, Shape
  <2>8. CASE answer # "accepted"
    <3>1. watched' = watched
      BY <1>7, <2>8 DEF Sale
    <3>2. held[c] + buying[c] - selling'[c] <= watched[c].qty \/ c \in astray
      BY <2>1, <2>2, <2>5, <2>6
    <3>3. \A d : Quantity(d)' = Quantity(d)
      BY <3>1 DEF Quantity
    <3>4. NothingIsForgotten'
      BY <1>1, <2>1, <2>4, <3>2, <3>3 DEF NothingIsForgotten
    <3>5. Positions' /\ Visits'
      BY <1>3, <1>4, <3>1 DEF Positions, Visits, AutoInv, Shape
    <3>6. QED
      BY <2>3, <3>4, <3>5 DEF AutoInv, Shape
  <2>9. QED
    BY <2>7, <2>8
<1>8. QED
  BY <1>0, <1>6, <1>7 DEF Monitors

\* One stock of the list is looked at, and bought or not.
LEMMA EntersKeeps ==
    ASSUME TraderLimits, AutoInv, Enters
    PROVE  AutoInv'
<1>0. PICK c : c = Head(left)
  OBVIOUS
<1>1. /\ phase = "enter" /\ phase' = "enter" /\ left # <<>> /\ left' \in {Tail(left), <<>>}
      /\ UNCHANGED <<held, selling>>
  BY DEF Enters
<1>2. left \in Seq(Codes) /\ c \in Codes /\ left' \in Seq(Codes)
  <2>1. left \in Seq(Codes) /\ left # <<>>
    BY <1>1 DEF AutoInv, Shape, Visits
  <2>2. Head(left) \in Codes /\ Tail(left) \in Seq(Codes) /\ <<>> \in Seq(Codes)
    BY <2>1
  <2>3. QED
    BY <1>0, <1>1, <2>1, <2>2
<1>3. Visits'
  BY <1>1, <1>2 DEF Visits
<1>4. CASE UNCHANGED <<watched, buying, astray>>
  BY <1>1, <1>3, <1>4 DEF AutoInv, Shape, Positions, Account, NothingIsForgotten, Quantity
<1>5. ASSUME NEW p \in Prices, NEW answer \in Answers, c \notin DOMAIN watched, Size(p) > 0,
             PlaceBuy(c, Size(p), answer), Purchase(c, p, answer),
             astray' = IF answer = "lost" THEN astray \union {c} ELSE astray
      PROVE  AutoInv'
  <2>1. PICK n \in Nat : n = Size(p)
    BY <1>5, SizeType
  <2>2. /\ buying' \in [Codes -> Nat]
        /\ \A d \in Codes : d # c => buying'[d] = buying[d]
        /\ buying'[c] = IF answer = "refused" THEN buying[c] ELSE buying[c] + n
    BY <1>2, <1>5, <2>1 DEF PlaceBuy, AutoInv, Shape, Account
  <2>3. Account'
    BY <1>1, <2>2 DEF Account, AutoInv, Shape
  <2>4. Quantity(c) = 0
    BY <1>5 DEF Quantity
  <2>5. /\ {held[c], buying[c], selling[c]} \subseteq Nat
        /\ held[c] + buying[c] - selling[c] <= 0 \/ c \in astray
    BY <1>1, <1>2, <2>4 DEF AutoInv, Shape, Account, NothingIsForgotten
  <2>6. \A d \in Codes : d # c => held[d] + buying'[d] - selling[d] <= Quantity(d) \/ d \in astray'
    BY <1>1, <1>5, <2>2 DEF AutoInv, NothingIsForgotten
  <2>7. CASE answer = "accepted"
    <3>1. /\ DOMAIN watched' = DOMAIN watched \union {c}
          /\ watched'[c].qty = n
          /\ \A d \in DOMAIN watched : d # c => watched'[d] = watched[d]
      BY <1>5, <2>1, <2>7 DEF Purchase, With, Position
    <3>2. Positions'
      BY <1>2, <1>5, <2>1, <3>1 DEF Positions, AutoInv, Shape
    <3>3. Quantity(c)' = n /\ \A d \in Codes : d # c => Quantity(d)' = Quantity(d)
      BY <3>1 DEF Quantity
    <3>4. held[c] + buying'[c] - selling[c] <= n \/ c \in astray
      BY <2>2, <2>5, <2>7
    <3>5. NothingIsForgotten'
      BY <1>1, <1>5, <2>6, <2>7, <3>3, <3>4 DEF NothingIsForgotten
    <3>6. QED
      BY <1>3, <2>3, <3>2, <3>5 DEF AutoInv, Shape
  <2>8. CASE answer # "accepted"
    <3>1. watched' = watched
      BY <1>5, <2>8 DEF Purchase
    <3>2. \A d : Quantity(d)' = Quantity(d)
      BY <3>1 DEF Quantity
    <3>3. held[c] + buying'[c] - selling[c] <= 0 \/ c \in astray'
      BY <1>5, <2>2, <2>5, <2>8 DEF Answers
    <3>4. NothingIsForgotten'
      BY <1>1, <2>4, <2>6, <3>2, <3>3 DEF NothingIsForgotten
    <3>5. QED
      BY <1>3, <2>3, <3>1, <3>4 DEF AutoInv, Shape, Positions
  <2>9. QED
    BY <2>7, <2>8
<1>6. QED
  BY <1>0, <1>4, <1>5 DEF Enters

\* A share is bought or sold: what is on order, held and on offer adds up.
LEMMA FillsKeeps ==
    ASSUME AutoInv, Fills
    PROVE  AutoInv'
<1>1. UNCHANGED <<watched, phase, left, astray>>
  BY DEF Fills
<1>2. PICK c \in Codes :
        \/ /\ buying[c] > 0 /\ UNCHANGED selling
           /\ buying' = [buying EXCEPT ![c] = @ - 1] /\ held' = [held EXCEPT ![c] = @ + 1]
        \/ /\ selling[c] > 0 /\ UNCHANGED buying
           /\ selling' = [selling EXCEPT ![c] = @ - 1] /\ held' = [held EXCEPT ![c] = @ - 1]
  BY DEF Fills
<1>3. Account
  BY DEF AutoInv, Shape
<1>4. CASE buying[c] > 0 /\ UNCHANGED selling
           /\ buying' = [buying EXCEPT ![c] = @ - 1] /\ held' = [held EXCEPT ![c] = @ + 1]
  <2>1. Account'
    BY <1>3, <1>4 DEF Account
  <2>2. \A d \in Codes : held'[d] + buying'[d] - selling'[d] = held[d] + buying[d] - selling[d]
    BY <1>3, <1>4 DEF Account
  <2>3. QED
    BY <1>1, <2>1, <2>2 DEF AutoInv, Shape, Positions, Visits, NothingIsForgotten, Quantity
<1>5. CASE selling[c] > 0 /\ UNCHANGED buying
           /\ selling' = [selling EXCEPT ![c] = @ - 1] /\ held' = [held EXCEPT ![c] = @ - 1]
  <2>1. Account'
    BY <1>3, <1>5 DEF Account
  <2>2. \A d \in Codes : held'[d] + buying'[d] - selling'[d] = held[d] + buying[d] - selling[d]
    BY <1>3, <1>5 DEF Account
  <2>3. QED
    BY <1>1, <2>1, <2>2 DEF AutoInv, Shape, Positions, Visits, NothingIsForgotten, Quantity
<1>6. QED
  BY <1>2, <1>4, <1>5

\* What is open at the close is cancelled.
LEMMA ClosesKeeps ==
    ASSUME AutoInv, Closes
    PROVE  AutoInv'
<1>1. /\ UNCHANGED <<watched, phase, left, held>>
      /\ astray' = astray \union {c \in Codes : selling[c] > 0}
      /\ buying' = [c \in Codes |-> 0] /\ selling' = [c \in Codes |-> 0]
  BY DEF Closes
<1>2. Account /\ Account'
  BY <1>1 DEF AutoInv, Shape, Account
<1>3. ASSUME NEW c \in Codes, phase # "off"
      PROVE  held'[c] + buying'[c] - selling'[c] <= Quantity(c) \/ c \in astray'
  <2>1. held[c] + buying[c] - selling[c] <= Quantity(c) \/ c \in astray
    BY <1>3 DEF AutoInv, NothingIsForgotten
  <2>2. {held[c], buying[c], selling[c], Quantity(c)} \subseteq Nat
    BY <1>2, QuantityType DEF Account, AutoInv, Shape
  <2>3. QED
    BY <1>1, <2>1, <2>2
<1>4. Positions' /\ Visits'
  BY <1>1 DEF Positions, Visits, AutoInv, Shape
<1>5. NothingIsForgotten'
  BY <1>1, <1>3 DEF NothingIsForgotten, Quantity
<1>6. QED
  BY <1>2, <1>4, <1>5 DEF AutoInv, Shape

LEMMA AutoStep == TraderLimits /\ AutoInv /\ [AutoNext]_autoVars => AutoInv'
<1> SUFFICES ASSUME TraderLimits, AutoInv, [AutoNext]_autoVars
             PROVE  AutoInv'
  OBVIOUS
<1>1. CASE Turns
  BY <1>1, ElsewhereKeeps DEF Turns, TraderLimits
<1>2. CASE Rests
  BY <1>2, ElsewhereKeeps DEF Rests
<1>3. CASE Stops \/ HourPasses \/ UNCHANGED autoVars
  BY <1>3 DEF Stops, HourPasses, autoVars, AutoInv, Shape, Positions, Account, Visits,
              NothingIsForgotten, Quantity
<1>4. CASE Ends
  <2>1. /\ phase' = "off" /\ watched' = <<>> /\ left' = <<>>
        /\ UNCHANGED <<held, buying, selling>>
    BY <1>4 DEF Ends
  <2>2. DOMAIN watched' = {} /\ left' \in Seq(Codes)
    BY <2>1
  <2>3. QED
    BY <2>1, <2>2 DEF AutoInv, Shape, Positions, Account, Visits, NothingIsForgotten
<1>5. QED
  BY <1>1, <1>2, <1>3, <1>4, StartsKeeps, BeginsKeeps, MonitorsKeeps, EntersKeeps, FillsKeeps,
     ClosesKeeps DEF AutoNext

\* The types of the model follow, but for the phase, which is one of four.
LEMMA InitAutoTypes == TraderLimits /\ AutoInit => AutoTypes
<1> SUFFICES ASSUME TraderLimits, AutoInit
             PROVE  AutoTypes
    OBVIOUS
<1>1. AutoInv
    BY AutoStart
<1> QED
    BY <1>1 DEF AutoTypes, AutoInit, AutoInv, Shape, Positions, Account

LEMMA StepAutoTypes ==
    TraderLimits /\ AutoInv /\ AutoTypes /\ [AutoNext]_autoVars => AutoTypes'
<1> SUFFICES ASSUME TraderLimits, AutoInv, AutoTypes, [AutoNext]_autoVars
             PROVE  AutoTypes'
    OBVIOUS
<1>1. AutoInv'
    BY AutoStep
<1>2. phase' \in {"off", "idle", "monitor", "enter"}
    BY DEF AutoTypes, AutoNext, autoVars, Starts, Begins, Monitors, Turns, Enters, Rests, Stops,
           Ends, Fills, Closes, HourPasses
<1>3. /\ DOMAIN watched' \subseteq Codes
      /\ \A c \in DOMAIN watched' : watched'[c].qty > 0
    BY <1>1 DEF AutoInv, Shape, Positions
<1>4. \A c \in Codes : {held'[c], buying'[c], selling'[c]} \subseteq Nat /\ selling'[c] <= held'[c]
    BY <1>1 DEF AutoInv, Shape, Account
<1> QED
    BY <1>2, <1>3, <1>4 DEF AutoTypes

-----------------------------------------------------------------------------
(***************************************************************************)
(* The streaming trader counts what its stocks go through.  A stock enters *)
(* from WAIT and leaves from ENTERED, each counted in the same step, and   *)
(* only for a stock subscribed by then, which it remains; the report is    *)
(* sent by whoever finds the controller up, and nobody raises it again.    *)
(***************************************************************************)
Stocks(f, S) == {c \in DOMAIN f : f[c] \in S}

StreamInv ==
    /\ DOMAIN universe \subseteq Watchable
    /\ stage = "new" =>
          /\ ~up /\ ~timer /\ reports = 0 /\ subscribed = {}
          /\ counts = [entry |-> 0, stop |-> 0, take |-> 0]
    /\ reports \in {0, 1} /\ (up => reports = 0)
    /\ DOMAIN state \subseteq Watchable /\ state \in [DOMAIN state -> {"WAIT", "ENTERED", "EXITED"}]
    /\ counts \in [entry : Int, stop : Int, take : Int]
    /\ subscribed # {} => pending = {}
    /\ \A c \in DOMAIN state : state[c] = "ENTERED" => c \in subscribed
    /\ ReportTellsTheDay

\* A stock that joins a set of states makes it one larger; one that stays in it,
\* or out of it, leaves it alone.
LEMMA OneMore ==
    ASSUME IsFiniteSet(DOMAIN state), NEW c \in DOMAIN state, NEW w, state' = [state EXCEPT ![c] = w]
    PROVE  \A S : /\ Cardinality(Stocks(state, S)) \in Nat
                  /\ state[c] \notin S /\ w \in S =>
                        Cardinality(Stocks(state', S)) = Cardinality(Stocks(state, S)) + 1
                  /\ (state[c] \in S <=> w \in S) => Stocks(state', S) = Stocks(state, S)
<1> TAKE S
<1>1. IsFiniteSet(Stocks(state, S))
    BY FS_Subset DEF Stocks
<1>2. Cardinality(Stocks(state, S)) \in Nat
    BY <1>1, FS_CardinalityType
<1>3. ASSUME state[c] \notin S, w \in S
      PROVE  Cardinality(Stocks(state', S)) = Cardinality(Stocks(state, S)) + 1
    <2>1. Stocks(state', S) = Stocks(state, S) \cup {c} /\ c \notin Stocks(state, S)
        BY <1>3 DEF Stocks
    <2> QED
        BY <1>1, <2>1, FS_AddElement
<1>4. ASSUME state[c] \in S <=> w \in S
      PROVE  Stocks(state', S) = Stocks(state, S)
    BY <1>4 DEF Stocks
<1> QED
    BY <1>2, <1>3, <1>4

LEMMA InitStream == StreamInit => StreamInv
<1> SUFFICES ASSUME StreamInit
             PROVE  StreamInv
    OBVIOUS
<1>1. DOMAIN universe \subseteq Watchable
    BY DEF StreamInit
<1>2. state = <<>> /\ DOMAIN state = {}
    BY DEF StreamInit
<1>3. \A S : In(S) = 0
    BY <1>2, FS_EmptySet DEF In
<1> QED
    BY <1>1, <1>2, <1>3 DEF StreamInit, StreamInv, ReportTellsTheDay

LEMMA PriceUpdateKeeps ==
    ASSUME StreamData, StreamInv, NEW c \in subscribed \cap wire, NEW p, PriceUpdate(c, p),
           UNCHANGED <<reports, subscribed, wire>>
    PROVE  /\ DOMAIN state' \subseteq Watchable
           /\ state' \in [DOMAIN state' -> {"WAIT", "ENTERED", "EXITED"}]
           /\ counts' \in [entry : Int, stop : Int, take : Int]
           /\ \A d \in DOMAIN state' : state'[d] = "ENTERED" => d \in subscribed'
           /\ ReportTellsTheDay'
<1>1. CASE UNCHANGED <<state, counts>>
    BY <1>1 DEF StreamInv, ReportTellsTheDay, In
<1> DEFINE E == {"ENTERED", "EXITED"}
           X == {"EXITED"}
<1>2. ASSUME NEW w \in {"ENTERED", "EXITED"}, state' = [state EXCEPT ![c] = w], c \in DOMAIN state,
             NEW kind \in {"entry", "stop", "take"}, Counts(kind),
             \/ state[c] = "WAIT" /\ w = "ENTERED" /\ kind = "entry"
             \/ state[c] = "ENTERED" /\ w = "EXITED" /\ kind \in {"stop", "take"}
      PROVE  /\ DOMAIN state' \subseteq Watchable
             /\ state' \in [DOMAIN state' -> {"WAIT", "ENTERED", "EXITED"}]
             /\ counts' \in [entry : Int, stop : Int, take : Int]
             /\ \A d \in DOMAIN state' : state'[d] = "ENTERED" => d \in subscribed'
             /\ ReportTellsTheDay'
    <2>1. IsFiniteSet(DOMAIN state)
        BY FS_Subset DEF StreamData, StreamInv
    <2>2. \A S : /\ Cardinality(Stocks(state, S)) \in Nat
                 /\ state[c] \notin S /\ w \in S =>
                      Cardinality(Stocks(state', S)) = Cardinality(Stocks(state, S)) + 1
                 /\ (state[c] \in S <=> w \in S) => Stocks(state', S) = Stocks(state, S)
        BY <1>2, <2>1, OneMore
    <2>3. /\ In(E) = Cardinality(Stocks(state, E)) /\ In(E)' = Cardinality(Stocks(state', E))
          /\ In(X) = Cardinality(Stocks(state, X)) /\ In(X)' = Cardinality(Stocks(state', X))
        BY DEF In, Stocks
    <2>4. counts' = [counts EXCEPT ![kind] = @ + 1] /\ counts \in [entry : Int, stop : Int, take : Int]
        BY <1>2 DEF Counts, StreamInv
    <2>5. /\ counts' \in [entry : Int, stop : Int, take : Int]
          /\ counts'.entry = IF kind = "entry" THEN counts.entry + 1 ELSE counts.entry
          /\ counts'.stop = IF kind = "stop" THEN counts.stop + 1 ELSE counts.stop
          /\ counts'.take = IF kind = "take" THEN counts.take + 1 ELSE counts.take
        BY <1>2, <2>4
    <2>6. /\ DOMAIN state' \subseteq Watchable
          /\ state' \in [DOMAIN state' -> {"WAIT", "ENTERED", "EXITED"}]
          /\ \A d \in DOMAIN state' :
                 state'[d] = "ENTERED" => d \in subscribed' /\ (wire' # {} => d \in wire')
        BY <1>2 DEF StreamInv, ReportTellsTheDay
    <2> QED
        BY <1>2, <2>2, <2>3, <2>4, <2>5, <2>6 DEF StreamInv, ReportTellsTheDay
<1> QED
    BY <1>1, <1>2
    DEF PriceUpdate, Breaks, StopReached, Targets, EntersStock, ExitsStock

\* The steps that leave the stocks and what is counted of them alone.  A stock
\* that is entered was subscribed, and then nothing is left to subscribe: the
\* next connection brings nothing, where the lost one brought it.
LEMMA StreamQuiet ==
    ASSUME StreamInv, UNCHANGED <<universe, state, counts>>,
           \/ UNCHANGED <<pending, subscribed>> /\ wire' \in {wire, {}}
           \/ SubscribePending,
           stage # "new", stage' # "new",
           \/ UNCHANGED reports /\ (up' => up)
           \/ Stop
    PROVE  StreamInv'
<1>1. reports' \in {0, 1} /\ (up' => reports' = 0)
    BY DEF StreamInv, Stop
<1>2. /\ subscribed \subseteq subscribed'
      /\ subscribed' # {} => pending' = {}
    BY DEF StreamInv, SubscribePending
<1>3. ASSUME NEW c \in DOMAIN state', state'[c] = "ENTERED", wire' # {}
      PROVE  c \in wire'
    <2>1. c \in DOMAIN state /\ state[c] = "ENTERED"
        BY <1>3
    <2>2. c \in subscribed /\ pending = {}
        BY <2>1 DEF StreamInv
    <2>3. wire' = wire
        BY <1>3, <2>2 DEF SubscribePending
    <2> QED
        BY <1>3, <2>1, <2>3 DEF StreamInv, ReportTellsTheDay
<1>4. ReportTellsTheDay'
    BY <1>1, <1>3 DEF StreamInv, ReportTellsTheDay, In
<1> QED
    BY <1>1, <1>2, <1>4 DEF StreamInv

LEMMA StreamStartsKeeps == StreamInv /\ StreamStarts => StreamInv'
<1> SUFFICES ASSUME StreamInv, StreamStarts
             PROVE  StreamInv'
    OBVIOUS
<1>1. /\ state' = [c \in Loaded |-> "WAIT"] /\ Loaded \subseteq Watchable
      /\ UNCHANGED <<universe, counts, reports, subscribed>> /\ stage' # "new"
      /\ reports = 0 /\ subscribed = {} /\ counts = [entry |-> 0, stop |-> 0, take |-> 0]
    BY DEF StreamStarts, LoadUniverse, StreamInv, Loaded
<1>2. ASSUME NEW S, "WAIT" \notin S
      PROVE  In(S)' = 0
    <2>1. {c \in DOMAIN state' : state'[c] \in S} = {}
        BY <1>1, <1>2
    <2> QED
        BY <2>1, FS_EmptySet DEF In
<1>3. In({"ENTERED", "EXITED"})' = 0 /\ In({"EXITED"})' = 0
    BY <1>2
<1>4. \A c \in DOMAIN state' : state'[c] # "ENTERED"
    BY <1>1
<1>5. ReportTellsTheDay'
    BY <1>1, <1>3, <1>4 DEF ReportTellsTheDay
<1> QED
    BY <1>1, <1>4, <1>5 DEF StreamInv

LEMMA StepStream == StreamData /\ StreamInv /\ [StreamNext]_streamVars => StreamInv'
<1> SUFFICES ASSUME StreamData, StreamInv, [StreamNext]_streamVars
             PROVE  StreamInv'
    OBVIOUS
<1>1. CASE FirstConnects \/ Reconnects
    BY <1>1, StreamQuiet DEF FirstConnects, Reconnects, Connects, FailsToConnect, SubscribePending
<1>2. CASE GivesUp \/ Drops
    BY <1>2, StreamQuiet DEF GivesUp, Drops
<1>3. CASE Receives
    <2>1. PICK c \in wire, p \in TickPrices, shape \in Shapes :
              IF Parses(shape, c) THEN PriceUpdate(c, p) ELSE UNCHANGED <<allowed, state, counts>>
        BY <1>3 DEF Receives
    <2>2. /\ UNCHANGED <<universe, up, pending, subscribed, wire, reports>>
          /\ stage # "new" /\ stage' # "new"
        BY <1>3 DEF Receives
    <2>3. CASE ~Parses(shape, c)
        BY <2>1, <2>2, <2>3, StreamQuiet
    <2>4. CASE Parses(shape, c)
        <3>1. /\ DOMAIN state' \subseteq Watchable
              /\ state' \in [DOMAIN state' -> {"WAIT", "ENTERED", "EXITED"}]
              /\ counts' \in [entry : Int, stop : Int, take : Int]
              /\ \A d \in DOMAIN state' : state'[d] = "ENTERED" => d \in subscribed'
              /\ ReportTellsTheDay'
            BY <2>1, <2>2, <2>4, PriceUpdateKeeps DEF Parses
        <3> QED
            BY <2>2, <3>1 DEF StreamInv
    <2> QED
        BY <2>3, <2>4
<1>4. CASE ChecksTime
    BY <1>4, StreamQuiet DEF ChecksTime, StreamInv
<1>5. CASE StreamEnds
    BY <1>5, StreamQuiet DEF StreamEnds
<1>6. CASE Signalled
    BY <1>6, StreamQuiet DEF Signalled
<1>7. CASE MinutePasses \/ UNCHANGED streamVars
    <2>1. UNCHANGED <<universe, up, stage, timer, pending, subscribed, wire, state, counts,
                      reports>>
        BY <1>7 DEF MinutePasses, streamVars
    <2>2. ReportTellsTheDay'
        BY <2>1 DEF StreamInv, ReportTellsTheDay, In
    <2> QED
        BY <2>1, <2>2 DEF StreamInv
<1> QED
    BY <1>1, <1>2, <1>3, <1>4, <1>5, <1>6, <1>7, StreamStartsKeeps DEF StreamNext

\* The types: what the stream asks for and gets are stocks of the file, and the
\* attempts to reach the service are counted up to the limit.
Subscriptions == pending \subseteq Watchable /\ subscribed \subseteq Watchable /\ wire \subseteq Watchable
Flags == up \in BOOLEAN /\ running \in BOOLEAN /\ timer \in BOOLEAN /\ allowed \in BOOLEAN
Stages == stage \in {"new", "connecting", "receiving", "backoff", "closing", "done"}
Attempts == attempts \in 0 .. MaxReconnects

LEMMA StreamTypesAre ==
    StreamTypes <=> /\ Stages /\ Flags /\ Attempts /\ Subscriptions
                    /\ \A c \in DOMAIN state : state[c] \in {"WAIT", "ENTERED", "EXITED"}
BY DEF StreamTypes, Stages, Flags, Attempts, Subscriptions

LEMMA StreamTypesThen ==
    StreamInv' /\ (Stages /\ Flags /\ Attempts /\ Subscriptions)' => StreamTypes'
BY DEF StreamTypes, Stages, Flags, Attempts, Subscriptions, StreamInv

LEMMA InitStreamTypes == StreamData /\ StreamInit => StreamTypes
<1> SUFFICES ASSUME StreamData, StreamInit
             PROVE  /\ Stages /\ Flags /\ Attempts /\ Subscriptions
                    /\ \A c \in DOMAIN state : state[c] \in {"WAIT", "ENTERED", "EXITED"}
    BY StreamTypesAre
<1>1. state = <<>> /\ DOMAIN state = {}
    BY DEF StreamInit
<1>2. Attempts
    BY DEF StreamData, StreamInit, Attempts
<1> QED
    BY <1>1, <1>2 DEF StreamInit, Stages, Flags, Subscriptions

LEMMA StepStreamTypes ==
    StreamData /\ StreamInv /\ StreamTypes /\ [StreamNext]_streamVars => StreamTypes'
<1> SUFFICES ASSUME StreamData, StreamInv, Stages, Flags, Attempts, Subscriptions,
                    [StreamNext]_streamVars
             PROVE  StreamTypes'
    BY StreamTypesAre
<1>1. StreamInv'
    BY StepStream
<1>2. Stages'
    BY DEF Stages, StreamNext, streamVars, StreamStarts, FirstConnects, Reconnects, GivesUp,
           Receives, Drops, ChecksTime, StreamEnds, Signalled, MinutePasses, Connects,
           FailsToConnect
<1>3. Subscriptions'
    <2>1. CASE SubscribePending
        BY <2>1 DEF SubscribePending, Subscriptions
    <2>2. CASE StreamStarts
        <3>1. Loaded \subseteq Watchable
            BY DEF Loaded, StreamInv
        <3> QED
            BY <2>2, <3>1 DEF StreamStarts, Subscribes, Subscriptions
    <2>3. CASE wire' \in {wire, {}} /\ UNCHANGED <<pending, subscribed>>
        BY <2>3 DEF Subscriptions
    <2> QED
        BY <2>1, <2>2, <2>3
        DEF StreamNext, streamVars, FirstConnects, Reconnects, GivesUp, Receives, Drops,
            ChecksTime, StreamEnds, Signalled, MinutePasses, Connects, FailsToConnect
<1>4. Attempts'
    <2>1. 0 \in 0 .. MaxReconnects
        BY DEF StreamData
    <2>2. CASE Reconnects
        <3>1. attempts + 1 \in 0 .. MaxReconnects
            BY <2>2 DEF Reconnects, Attempts, StreamData
        <3> QED
            BY <2>1, <2>2, <3>1 DEF Reconnects, Connects, FailsToConnect, Attempts
    <2>3. CASE attempts' \in {attempts, 0}
        BY <2>1, <2>3 DEF Attempts
    <2> QED
        BY <2>2, <2>3
        DEF StreamNext, streamVars, StreamStarts, FirstConnects, GivesUp, Receives, Drops,
            ChecksTime, StreamEnds, Signalled, MinutePasses, Connects, FailsToConnect
<1>5. Flags'
    <2>1. allowed' \in BOOLEAN
        BY DEF Flags, StreamNext, streamVars, StreamStarts, FirstConnects, Reconnects, GivesUp,
               Receives, Drops, ChecksTime, StreamEnds, Signalled, MinutePasses, PriceUpdate,
               UpdateEntryPermission, IsEntryAllowed
    <2>2. up' \in BOOLEAN /\ running' \in BOOLEAN
        BY DEF Flags, StreamNext, streamVars, StreamStarts, FirstConnects, Reconnects, GivesUp,
               Receives, Drops, ChecksTime, StreamEnds, Signalled, MinutePasses, Stop
    <2>3. timer' \in BOOLEAN
        BY DEF Flags, StreamNext, streamVars, StreamStarts, FirstConnects, Reconnects, GivesUp,
               Receives, Drops, ChecksTime, StreamEnds, Signalled, MinutePasses, IsCloseTime
    <2> QED
        BY <2>1, <2>2, <2>3 DEF Flags
<1> QED
    BY <1>1, <1>2, <1>3, <1>4, <1>5, StreamTypesThen
=============================================================================
