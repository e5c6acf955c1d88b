-------------------------- MODULE OrderSyncProofs --------------------------
(***************************************************************************)
(* What OrderSync keeps for every number of threads, stocks, keys, orders  *)
(* and crashes.                                                            *)
(***************************************************************************)
EXTENDS OrderSync, TLAPS

(***************************************************************************)
(* Types.                                                                  *)
(***************************************************************************)
\* The locals of a thread that is at a label: it has a key, the guard is asked
\* for BUY keys only, and an order is waited for only once it has a number.
Fits(label, r) ==
    /\ label \in PC
    /\ r \in Locals
    /\ label # "idle" => r.key \in Keys
    /\ label \in {"query", "cache"} => r.key \in BuyKeys
    /\ label \in {"wait", "cancel", "infer"} => r.order \in Orders
    /\ label \in {"publish", "persist"} /\ r.status = "SUBMITTED" => r.order \in Orders
    /\ label \in {"cancel", "infer"} => r.status \in {"PARTIAL", "CANCELLED"}
    /\ label \in {"publish", "persist"} => r.status # "NONE"

AllFit  == \A w \in Workers : Fits(pc[w], loc[w])
TypeInv == TypeOK /\ AllFit

\* The words the code uses are statuses, places and guard entries.
LEMMA Words ==
    /\ {"NONE", "PENDING", "SUBMITTED", "PARTIAL", "FILLED", "CANCELLED", "FAILED"} \subseteq Status
    /\ {"idle", "query", "cache", "lookup", "publish", "persist", "snapshot", "place",
        "wait", "cancel", "infer"} \subseteq PC
    /\ {"absent", "open", "clear", "db_open", "db_clear", "unknown"} \subseteq GuardState
BY DEF Status, Open, PC, GuardState, Timed

\* A thread at work has a key and its stock.
LEMMA SymbolsOK ==
    ASSUME TypeInv, NEW w \in Workers, pc[w] # "idle"
    PROVE  K(w) \in Keys /\ S(w) \in Symbols
BY KeysAssumption DEF TypeInv, AllFit, Fits, K, S

\* A step of a thread to locals that fit its next label keeps all threads so.
LEMMA MoveFits ==
    ASSUME TypeInv, NEW w \in Workers, NEW r, NEW l, Move(w, r, l), Fits(l, r)
    PROVE  /\ pc' \in [Workers -> PC]
           /\ loc' \in [Workers -> Locals]
           /\ AllFit'
BY DEF TypeInv, TypeOK, AllFit, Fits, Move

\* A call begins with fresh locals.
LEMMA BeginFits ==
    ASSUME TypeInv, NEW w \in Workers, NEW k \in Keys, NEW why \in {"order", "probe"},
           NEW l \in {"query", "lookup"},
           l = "query" => k \in BuyKeys, Begin(w, k, why, l)
    PROVE  TypeInv'
<1>1. Fits(l, [NoLocals(k) EXCEPT !.why = why])
  BY Words DEF Fits, NoLocals, Locals, Unknown
<1>2. QED
  BY <1>1, MoveFits DEF Begin, TypeInv, TypeOK, db, broker

\* A result leaves the key and the order number alone.
LEMMA SettlingFits ==
    ASSUME TypeInv, NEW w \in Workers, NEW st \in Status, NEW n \in Int, NEW l \in PC,
           pc[w] # "idle", l \notin {"query", "cache"},
           st # "SUBMITTED", st # "NONE", l # "wait",
           l \in {"cancel", "infer"} => /\ pc[w] \in {"wait", "cancel"}
                                        /\ st \in {"PARTIAL", "CANCELLED"}
    PROVE  Fits(l, [loc[w] EXCEPT !.status = st, !.filled = n])
BY DEF TypeInv, TypeOK, AllFit, Fits, Locals

\* What an inquiry counts is a number of shares.
LEMMA ExecutedType ==
    ASSUME TypeInv, NEW w \in Workers, pc[w] = "wait"
    PROVE  Executed(w) \in Nat
BY DEF TypeInv, TypeOK, AllFit, Fits, Executed, OrderRecord

\* A wait that times out settles with locals that fit.
LEMMA TimesOutFits ==
    ASSUME TypeInv, NEW w \in Workers, pc[w] \in {"wait", "cancel"},
           NEW l \in {"infer", "publish"}
    PROVE  Fits(l, [loc[w] EXCEPT !.status = "CANCELLED", !.filled = loc[w].seen])
<1>1. loc[w].seen \in Int
  BY DEF TypeInv, TypeOK, Locals
<1>2. QED
  BY <1>1, SettlingFits, Words

\* A fill told from the holdings is a result.
LEMMA InferSettles ==
    ASSUME TypeInv, NEW w \in Workers, pc[w] # "idle", NEW view \in {hold, hcache},
           InferFrom(w, view)
    PROVE  \E st \in {"FILLED", "PARTIAL"}, n \in Int : Settling(w, st, n, "publish")
<1>1. view[S(w)] \in Int /\ loc[w].before \in Int
  BY SymbolsOK DEF TypeInv, TypeOK, Locals
<1>2. Moved(w, view) \in Int
  BY <1>1 DEF Moved
<1>3. QED
  BY <1>2, NumbersAssumption DEF InferFrom, Least

\* Looking for a fill among the holdings ends with one or goes on.
LEMMA LookForFillFits ==
    ASSUME TypeInv, NEW w \in Workers, pc[w] \in {"wait", "infer"},
           NEW r, NEW l, LookForFill(w, Move(w, r, l)), Fits(l, r)
    PROVE  /\ pc' \in [Workers -> PC]
           /\ loc' \in [Workers -> Locals]
           /\ AllFit'
           /\ hcache' \in [Symbols -> Int]
<1>1. hcache' \in [Symbols -> Int]
  BY DEF LookForFill, ReadHoldings, NoCache, Unknown, TypeInv, TypeOK
<1>2. CASE Move(w, r, l)
  BY <1>1, <1>2, MoveFits
<1>3. CASE \E view \in {hold, hcache} : InferFrom(w, view)
  <2>1. PICK st \in {"FILLED", "PARTIAL"}, n \in Int : Settling(w, st, n, "publish")
    BY <1>3, InferSettles
  <2>2. Fits("publish", [loc[w] EXCEPT !.status = st, !.filled = n])
    BY SettlingFits, Words
  <2>3. QED
    BY <1>1, <2>1, <2>2, MoveFits DEF Settling
<1>4. QED
  BY <1>2, <1>3 DEF LookForFill

\* A fill leaves records of orders and holdings what they are.
LEMMA FilledRecord ==
    ASSUME NEW x \in OrderRecord, NEW n \in Nat, NEW st \in {"live", "dead"}
    PROVE  [x EXCEPT !.filled = x.filled + n, !.st = st] \in OrderRecord
<1>1. x.filled + n \in Nat
  BY DEF OrderRecord
<1>2. ASSUME NEW m \in Nat PROVE [x EXCEPT !.filled = m, !.st = st] \in OrderRecord
  BY DEF OrderRecord
<1>3. QED
  BY <1>1, <1>2

\* A sale of shares leaves a holding of shares.
LEMMA FewerHeld ==
    ASSUME NEW h \in [Symbols -> Nat], NEW s, NEW n \in Nat, h[s] >= n
    PROVE  [h EXCEPT ![s] = @ - n] \in [Symbols -> Nat]
<1>1. CASE s \in Symbols
  BY <1>1
<1>2. CASE s \notin Symbols
  BY <1>2
<1>3. QED
  BY <1>1, <1>2

\* The process starts with every type right.
LEMMA TypeInit == Init => TypeInv
<1> SUFFICES ASSUME Init PROVE TypeInv
  OBVIOUS
<1>1. NoLocals(NoKey) \in Locals
  BY DEF NoLocals, Locals, GuardState, Timed, Status, Open, Unknown
<1>2. /\ pc \in [Workers -> PC]
      /\ loc \in [Workers -> Locals]
      /\ AllFit
  BY <1>1 DEF Init, AllFit, Fits, PC
<1>3. TypeOK
  <2>1. /\ row \in [Keys -> Status] /\ age \in [Keys -> Ages]
        /\ given \subseteq Keys /\ mem \in [Symbols -> GuardState]
    BY DEF Init, Status, Ages, GuardState
  <2>2. up \in BOOLEAN /\ crashes \in Nat
    BY DEF Init
  <2>3. ord \in [Orders -> OrderRecord]
    BY DEF Init, OrderRecord
  <2>4. /\ hold \in [Symbols -> Nat] /\ hcache \in [Symbols -> Int]
        /\ bought \in [Symbols -> Nat] /\ reported \in [Symbols -> Int]
    BY NumbersAssumption DEF Init, NoCache, Unknown
  <2>5. QED
    BY <1>2, <2>1, <2>2, <2>3, <2>4 DEF TypeOK
<1>4. QED
  BY <1>2, <1>3 DEF TypeInv

\* Every step of a thread, the broker, a crash or a recovery keeps the types.
LEMMA TypeStep == TypeInv /\ [Next]_vars => TypeInv'
<1> SUFFICES ASSUME TypeInv, [Next]_vars PROVE TypeInv'
  OBVIOUS
<1> USE KeysAssumption, NumbersAssumption
<1>1. ASSUME NEW w \in Workers, NEW k \in Keys, StartBuy(w, k) PROVE TypeInv'
  <2>1. PICK l \in {"lookup", "query"} : Begin(w, k, "order", l) /\ k \in BuyKeys
    BY <1>1 DEF StartBuy
  <2>2. QED
    BY <2>1, BeginFits, Words
<1>2. ASSUME NEW w \in Workers, NEW k \in Keys, StartProbe(w, k) PROVE TypeInv'
  BY <1>2, BeginFits, Words DEF StartProbe
<1>3. ASSUME NEW w \in Workers, NEW k \in Keys, StartSell(w, k) PROVE TypeInv'
  BY <1>3, BeginFits, Words DEF StartSell
<1>4. ASSUME NEW w \in Workers, GuardSelect(w) PROVE TypeInv'
  <2>1. PICK answer \in GuardState : Move(w, [loc[w] EXCEPT !.answer = answer], "cache")
    BY <1>4 DEF GuardSelect
  <2>2. Fits("cache", [loc[w] EXCEPT !.answer = answer])
    BY <1>4 DEF GuardSelect, TypeInv, TypeOK, AllFit, Fits, Locals, PC
  <2>3. QED
    BY <1>4, <2>1, <2>2, MoveFits DEF GuardSelect, TypeInv, TypeOK, db, broker
<1>5. ASSUME NEW w \in Workers, GuardCache(w) PROVE TypeInv'
  <2>1. PICK l \in {"idle", "lookup"} : Goto(w, l)
    BY <1>5 DEF GuardCache
  <2>2. Fits(l, loc[w])
    BY <1>5 DEF GuardCache, TypeInv, TypeOK, AllFit, Fits, PC
  <2>3. mem' \in [Symbols -> GuardState]
    BY <1>5 DEF GuardCache, TypeInv, TypeOK, Locals
  <2>4. QED
    BY <1>5, <2>1, <2>2, <2>3, MoveFits DEF GuardCache, Goto, TypeInv, TypeOK, db, broker
<1>6. ASSUME NEW w \in Workers, Lookup(w) PROVE TypeInv'
  <2>1. Fits("idle", loc[w])
    BY <1>6 DEF Lookup, TypeInv, TypeOK, AllFit, Fits, PC
  <2>2. Fits("publish", [loc[w] EXCEPT !.status = "PENDING", !.filled = 0])
    <3>1. pc[w] = "lookup"
      BY <1>6 DEF Lookup
    <3>2. 0 \in Int
      OBVIOUS
    <3>3. QED
      BY <3>1, <3>2, SettlingFits, Words
  <2>3. QED
    BY <1>6, <2>1, <2>2, MoveFits DEF Lookup, Goto, Settling, TypeInv, TypeOK, db, broker
<1>7. ASSUME NEW w \in Workers, Publish(w) PROVE TypeInv'
  <2>1. Fits("persist", loc[w])
    BY <1>7 DEF Publish, TypeInv, TypeOK, AllFit, Fits, PC
  <2>2. mem' \in [Symbols -> GuardState]
    BY <1>7 DEF Publish, TypeInv, TypeOK, GuardState
  <2>3. QED
    BY <1>7, <2>1, <2>2, MoveFits DEF Publish, Goto, TypeInv, TypeOK, db, broker
<1>8. ASSUME NEW w \in Workers, Persist(w) PROVE TypeInv'
  <2>1. Fits(AfterPersist(loc[w].status), loc[w])
    BY <1>8 DEF Persist, AfterPersist, TypeInv, TypeOK, AllFit, Fits, PC
  <2>2. /\ row' \in [Keys -> Status] /\ age' \in [Keys -> Ages]
        /\ given' \subseteq Keys
    <3>1. loc[w].status \in Status
      BY DEF TypeInv, TypeOK, Locals
    <3>2. QED
      BY <1>8, <3>1 DEF Persist, TypeInv, TypeOK, Ages, db
  <2>3. reported' \in [Symbols -> Int]
    <3>1. loc[w].filled \in Int
      BY DEF TypeInv, TypeOK, Locals
    <3>2. QED
      BY <1>8, <3>1, SymbolsOK DEF Persist, TypeInv, TypeOK
  <2>4. QED
    BY <1>8, <2>1, <2>2, <2>3, MoveFits DEF Persist, Goto, TypeInv, TypeOK, broker
<1>9. ASSUME NEW w \in Workers, Snapshot(w) PROVE TypeInv'
  <2>1. ASSUME NEW view \in {hold, hcache}
        PROVE  Fits("place", [loc[w] EXCEPT !.before = view[S(w)]])
    <3>1. view[S(w)] \in Int
      BY <1>9, <2>1 DEF Snapshot, S, K, TypeInv, TypeOK, AllFit, Fits
    <3>2. QED
      BY <1>9, <3>1 DEF Snapshot, TypeInv, TypeOK, AllFit, Fits, Locals, PC
  <2>2. Fits("place", loc[w])
    BY <1>9 DEF Snapshot, TypeInv, TypeOK, AllFit, Fits, PC
  <2>3. hcache' \in [Symbols -> Int]
    BY <1>9 DEF Snapshot, ReadHoldings, NoCache, Unknown, TypeInv, TypeOK
  <2>4. QED
    BY <1>9, <2>1, <2>2, <2>3, MoveFits DEF Snapshot, Goto, TypeInv, TypeOK, db, broker
<1>10. ASSUME NEW w \in Workers, Place(w) PROVE TypeInv'
  <2>1. ASSUME NEW o \in Orders
        PROVE  Fits("publish", [loc[w] EXCEPT !.order = o, !.status = "SUBMITTED"])
    BY <1>10, <2>1, Words DEF Place, TypeInv, TypeOK, AllFit, Fits, Locals
  <2>2. Fits("publish", [loc[w] EXCEPT !.status = "FAILED", !.filled = 0])
    <3>1. pc[w] = "place"
      BY <1>10 DEF Place
    <3>2. 0 \in Int
      OBVIOUS
    <3>3. QED
      BY <3>1, <3>2, SettlingFits, Words
  <2>3. ord' \in [Orders -> OrderRecord]
    <3>1. K(w) \in Keys
      BY <1>10 DEF Place, K, TypeInv, AllFit, Fits
    <3>2. CASE UNCHANGED ord
      BY <3>2 DEF TypeInv, TypeOK
    <3>3. CASE \E o \in Orders : BrokerTakes(w, o)
      <4>1. PICK o \in Orders :
              ord' = [ord EXCEPT ![o] = [st |-> "live", key |-> K(w), filled |-> 0, cancel |-> "no"]]
        BY <3>3 DEF BrokerTakes
      <4>2. QED
        BY <3>1, <4>1 DEF TypeInv, TypeOK, OrderRecord
    <3>4. QED
      BY <1>10, <3>2, <3>3 DEF Place
  <2>4. QED
    BY <1>10, <2>1, <2>2, <2>3, MoveFits DEF Place, Settling, TypeInv, TypeOK, db
<1>11. ASSUME NEW w \in Workers, PollFilled(w) PROVE TypeInv'
  <2>1. Fits("publish", [loc[w] EXCEPT !.status = "FILLED", !.filled = Executed(w)])
    <3>1. pc[w] = "wait"
      BY <1>11 DEF PollFilled
    <3>2. Executed(w) \in Int
      BY <3>1, ExecutedType
    <3>3. QED
      BY <3>1, <3>2, SettlingFits, Words
  <2>2. QED
    BY <1>11, <2>1, MoveFits DEF PollFilled, Settling, TypeInv, TypeOK, db, broker
<1>12. ASSUME NEW w \in Workers, PollPartial(w) PROVE TypeInv'
  <2>1. Fits("wait", [loc[w] EXCEPT !.seen = Executed(w)])
    BY <1>12, ExecutedType DEF PollPartial, TypeInv, TypeOK, AllFit, Fits, Locals
  <2>2. QED
    BY <1>12, <2>1, MoveFits DEF PollPartial, TypeInv, TypeOK, db, broker
<1>13. ASSUME NEW w \in Workers, PollUnseen(w) PROVE TypeInv'
  <2>1. Fits("wait", loc[w])
    BY <1>13 DEF PollUnseen, TypeInv, TypeOK, AllFit, Fits
  <2>2. pc[w] \in {"wait", "infer"} /\ LookForFill(w, Move(w, loc[w], "wait"))
    BY <1>13 DEF PollUnseen, Goto
  <2>3. QED
    BY <1>13, <2>1, <2>2, LookForFillFits DEF PollUnseen, TypeInv, TypeOK, db, broker
<1>14. ASSUME NEW w \in Workers, FinalUnfilled(w) PROVE TypeInv'
  <2>1. PICK st \in {"PARTIAL", "CANCELLED"} : Settling(w, st, Executed(w), "cancel")
    BY <1>14 DEF FinalUnfilled
  <2>2. Fits("cancel", [loc[w] EXCEPT !.status = st, !.filled = Executed(w)])
    <3>1. pc[w] = "wait"
      BY <1>14 DEF FinalUnfilled
    <3>2. Executed(w) \in Int
      BY <3>1, ExecutedType
    <3>3. QED
      BY <3>1, <3>2, SettlingFits, Words
  <2>3. QED
    BY <1>14, <2>1, <2>2, MoveFits DEF FinalUnfilled, Settling, TypeInv, TypeOK, db, broker
<1>15. ASSUME NEW w \in Workers, FinalUnseen(w) PROVE TypeInv'
  <2> DEFINE r == [loc[w] EXCEPT !.status = "CANCELLED", !.filled = loc[w].seen]
             l == IF Buys(w) THEN "infer" ELSE "publish"
  <2>1. Fits(l, r)
    BY <1>15, TimesOutFits DEF FinalUnseen
  <2>2. \/ LookForFill(w, Move(w, r, l))
        \/ Move(w, r, l) /\ UNCHANGED hcache
    BY <1>15 DEF FinalUnseen, TimesOut, Settling
  <2>3. pc[w] = "wait" /\ UNCHANGED <<db, mem, up, crashes, broker, reported>>
    BY <1>15 DEF FinalUnseen
  <2> HIDE DEF r, l
  <2>4. CASE LookForFill(w, Move(w, r, l))
    BY <2>1, <2>3, <2>4, LookForFillFits DEF TypeInv, TypeOK, db, broker
  <2>5. CASE Move(w, r, l) /\ UNCHANGED hcache
    BY <2>1, <2>3, <2>5, MoveFits DEF TypeInv, TypeOK, db, broker
  <2>6. QED
    BY <2>2, <2>4, <2>5
<1>16. ASSUME NEW w \in Workers, WaitRaises(w) PROVE TypeInv'
  <2>1. Fits("idle", loc[w])
    BY <1>16 DEF WaitRaises, TypeInv, TypeOK, AllFit, Fits, PC
  <2>2. QED
    BY <1>16, <2>1, MoveFits DEF WaitRaises, Goto, TypeInv, TypeOK, db, broker
<1>17. ASSUME NEW w \in Workers, Cancel(w) PROVE TypeInv'
  <2> DEFINE r == [loc[w] EXCEPT !.status = "CANCELLED", !.filled = loc[w].seen]
  <2>1. PICK l \in {"infer", "publish"} : Move(w, loc[w], l) \/ Move(w, r, l)
    BY <1>17 DEF Cancel, TimesOut, Settling, Goto
  <2>2. Fits(l, loc[w])
    BY <1>17 DEF Cancel, TypeInv, TypeOK, AllFit, Fits, PC
  <2>3. Fits(l, r)
    BY <1>17, TimesOutFits DEF Cancel
  <2>4. ord' \in [Orders -> OrderRecord]
    <3>1. loc[w].order \in Orders
      BY <1>17 DEF Cancel, TypeInv, AllFit, Fits
    <3>2. PICK st \in {"dead", ord[loc[w].order].st} :
            ord' = [ord EXCEPT ![loc[w].order] = [@ EXCEPT !.cancel = "tried", !.st = st]]
      BY <1>17 DEF Cancel
    <3>3. [ord[loc[w].order] EXCEPT !.cancel = "tried", !.st = st] \in OrderRecord
      <4>1. ord[loc[w].order] \in OrderRecord
        BY <3>1 DEF TypeInv, TypeOK
      <4>2. QED
        BY <4>1 DEF OrderRecord
    <3>4. QED
      BY <3>1, <3>2, <3>3 DEF TypeInv, TypeOK
  <2> HIDE DEF r
  <2>5. QED
    BY <1>17, <2>1, <2>2, <2>3, <2>4, MoveFits DEF Cancel, TypeInv, TypeOK, db
<1>18. ASSUME NEW w \in Workers, Infer(w) PROVE TypeInv'
  <2>1. Fits("publish", loc[w])
    BY <1>18 DEF Infer, TypeInv, TypeOK, AllFit, Fits, PC
  <2>2. pc[w] \in {"wait", "infer"} /\ LookForFill(w, Move(w, loc[w], "publish"))
    BY <1>18 DEF Infer, Goto
  <2>3. QED
    BY <1>18, <2>1, <2>2, LookForFillFits DEF Infer, TypeInv, TypeOK, db, broker
<1>19. ASSUME NEW s \in Symbols, GuardExpire(s) PROVE TypeInv'
  BY <1>19 DEF GuardExpire, TypeInv, TypeOK, AllFit, GuardState, db, broker
<1>20. ASSUME NEW o \in Orders, Fill(o) PROVE TypeInv'
  <2>1. PICK n \in 1..(Qty - ord[o].filled) :
          LET s == Symbol[ord[o].key]
              buy == ord[o].key \in BuyKeys
          IN  /\ buy \/ hold[s] >= n
              /\ ord' = [ord EXCEPT ![o] =
                           [@ EXCEPT !.filled = ord[o].filled + n,
                                     !.st = IF ord[o].filled + n = Qty THEN "dead" ELSE "live"]]
              /\ hold' = [hold EXCEPT ![s] = IF buy THEN @ + n ELSE @ - n]
              /\ bought' = [bought EXCEPT ![s] = IF buy THEN @ + n ELSE @]
    BY <1>20 DEF Fill
  <2>2. n \in Nat
    BY DEF TypeInv, TypeOK
  <2>3. ord' \in [Orders -> OrderRecord]
    <3>1. [ord[o] EXCEPT !.filled = ord[o].filled + n,
                         !.st = IF ord[o].filled + n = Qty THEN "dead" ELSE "live"] \in OrderRecord
      <4>1. ord[o] \in OrderRecord
        BY DEF TypeInv, TypeOK
      <4>2. QED
        BY <2>2, <4>1, FilledRecord
    <3>2. QED
      BY <2>1, <3>1 DEF TypeInv, TypeOK
  <2>4. hold' \in [Symbols -> Nat] /\ bought' \in [Symbols -> Nat]
    <3>1. CASE ord[o].key \in BuyKeys
      BY <2>1, <2>2, <3>1 DEF TypeInv, TypeOK
    <3>2. CASE ord[o].key \notin BuyKeys
      <4>1. hold' = [hold EXCEPT ![Symbol[ord[o].key]] = @ - n] /\ hold[Symbol[ord[o].key]] >= n
        BY <2>1, <3>2
      <4>2. bought' = [bought EXCEPT ![Symbol[ord[o].key]] = @]
        BY <2>1, <3>2
      <4>3. hold' \in [Symbols -> Nat]
        BY <2>2, <4>1, FewerHeld DEF TypeInv, TypeOK
      <4>4. bought' \in [Symbols -> Nat]
        BY <4>2 DEF TypeInv, TypeOK
      <4>5. QED
        BY <4>3, <4>4
    <3>3. QED
      BY <3>1, <3>2
  <2>5. QED
    BY <1>20, <2>3, <2>4 DEF Fill, TypeInv, TypeOK, AllFit, db
<1>21. ASSUME NEW k \in Keys, Grow(k) PROVE TypeInv'
  BY <1>21 DEF Grow, TypeInv, TypeOK, AllFit, Ages, broker
<1>22. CASE Crash
  <2>1. NoLocals(NoKey) \in Locals
    BY DEF NoLocals, Locals, GuardState, Status, Unknown
  <2>2. /\ pc' \in [Workers -> PC]
        /\ loc' \in [Workers -> Locals]
        /\ AllFit'
    BY <1>22, <2>1 DEF Crash, AllFit, Fits, PC
  <2>3. mem' \in [Symbols -> GuardState] /\ hcache' \in [Symbols -> Int]
    BY <1>22, Words DEF Crash, NoCache, Unknown
  <2>4. crashes' \in Nat
    BY <1>22 DEF Crash, TypeInv, TypeOK
  <2>5. QED
    BY <1>22, <2>2, <2>3, <2>4 DEF Crash, TypeInv, TypeOK, db, broker
<1>23. CASE Recover
  <2>1. /\ row' \in [Keys -> Status] /\ age' \in [Keys -> Ages]
        /\ given' \subseteq Keys
    BY <1>23 DEF Recover, Clean, StaleRows, TypeInv, TypeOK, Status, Ages, db
  <2>2. mem' \in [Symbols -> GuardState]
    BY <1>23 DEF Recover, TypeInv, TypeOK, GuardState
  <2>3. QED
    BY <1>23, <2>1, <2>2 DEF Recover, TypeInv, TypeOK, AllFit, broker
<1>24. CASE UNCHANGED vars
  BY <1>24 DEF vars, TypeInv, TypeOK, AllFit
<1>25. QED
  BY <1>1, <1>2, <1>3, <1>4, <1>5, <1>6, <1>7, <1>8, <1>9, <1>10, <1>11, <1>12, <1>13,
     <1>14, <1>15, <1>16, <1>17, <1>18, <1>19, <1>20, <1>21, <1>22, <1>23, <1>24
     DEF Next, Step

\* Every state of OrderSync has the types the variables are declared with.
THEOREM TypeCorrect == Spec => []TypeOK
<1>1. Spec => []TypeInv
  BY TypeInit, TypeStep, PTL DEF Spec
<1>2. TypeInv => TypeOK
  BY DEF TypeInv
<1>3. QED
  BY <1>1, <1>2, PTL

-----------------------------------------------------------------------------
(***************************************************************************)
(* The guard, for a table that answers and one buying thread per symbol.   *)
(* The predicates on a label and locals say what a thread at that label    *)
(* may rely on; they are stated for every thread below.                    *)
(***************************************************************************)
\* What the row of the thread's key can be.
RowFor(label, status) ==
    CASE label \in {"snapshot", "place"}       -> {"PENDING"}
      [] label \in {"wait", "cancel", "infer"} -> {"SUBMITTED"}
      [] label \in {"publish", "persist"}      ->
           (CASE status = "PENDING"                -> Status \ Duplicates
              [] status \in {"SUBMITTED", "FAILED"} -> {"PENDING"}
              [] OTHER                              -> {"SUBMITTED"})
      [] OTHER -> Status

\* The thread has passed the guard, and has not written its own row yet.
Passed(label, r) ==
    /\ r.key \in BuyKeys
    /\ \/ label = "cache" /\ r.answer \in Passes
       \/ label = "lookup"
       \/ label \in {"publish", "persist"} /\ r.status = "PENDING"

\* The thread has a BUY under way and has not announced its end.
UnderWay(label, r) ==
    /\ r.key \in BuyKeys
    /\ \/ label \in {"snapshot", "place", "wait", "cancel", "infer"}
       \/ label = "publish" /\ r.status # "PENDING"
       \/ label = "persist" /\ r.status \in Open

\* The thread has announced the end of a BUY, and its row does not show it yet.
Closing(label, r) ==
    r.key \in BuyKeys /\ label = "persist" /\ r.status \notin Open

\* A thread works on its own keys, and its row is where its label says.
ThreadOK(w) ==
    pc[w] # "idle" =>
        /\ up
        /\ Owner[K(w)] = w
        /\ row[K(w)] \in RowFor(pc[w], loc[w].status)
        /\ Passed(pc[w], loc[w]) => OpenBuys(S(w)) = {}
        /\ UnderWay(pc[w], loc[w]) => mem[S(w)] = "open"

\* An entry that lets a BUY pass tells the truth, but for the row that its
\* owner is just about to close.
EntryOK(s) ==
    mem[s] \in Passes =>
        \/ OpenBuys(s) = {}
        \/ \E w \in Workers : Closing(pc[w], loc[w]) /\ S(w) = s

GuardInv ==
    /\ \A w \in Workers : ThreadOK(w)
    /\ \A s \in Symbols : EntryOK(s)
    /\ NoSecondOpenBuy

GuardAssumed == OneBuyerPerSymbol /\ Spared({"db_error", "foreign_probe"})

\* Two threads that buy one stock are the same thread.
LEMMA OneBuyer ==
    ASSUME GuardAssumed, TypeInv, GuardInv, NEW w1 \in Workers, NEW w2 \in Workers,
           pc[w1] # "idle", pc[w2] # "idle", Buys(w1), Buys(w2), S(w1) = S(w2)
    PROVE  w1 = w2
BY DEF GuardAssumed, OneBuyerPerSymbol, GuardInv, ThreadOK, Buys, S

\* A step of a thread that touches neither the table nor the guard store.
LEMMA MoveGuarded ==
    ASSUME TypeInv, GuardInv, NEW w \in Workers, NEW r, NEW l, Move(w, r, l), r \in Locals,
           UNCHANGED <<row, mem, up>>, ~Closing(pc[w], loc[w]),
           l # "idle" =>
               /\ up
               /\ Owner[r.key] = w
               /\ row[r.key] \in RowFor(l, r.status)
               /\ Passed(l, r) => OpenBuys(Symbol[r.key]) = {}
               /\ UnderWay(l, r) => mem[Symbol[r.key]] = "open"
    PROVE  GuardInv'
<1>1. /\ pc'[w] = l /\ loc'[w] = r
      /\ \A v \in Workers \ {w} : pc'[v] = pc[v] /\ loc'[v] = loc[v]
  BY DEF Move, TypeInv, TypeOK
<1>2. \A s : OpenBuys(s)' = OpenBuys(s)
  BY DEF OpenBuys
<1>3. ASSUME NEW v \in Workers PROVE ThreadOK(v)'
  <2>1. CASE v = w
    BY <1>1, <1>2, <2>1 DEF ThreadOK, K, S
  <2>2. CASE v # w
    BY <1>1, <1>2, <2>2 DEF ThreadOK, K, S, GuardInv
  <2>3. QED
    BY <2>1, <2>2
<1>4. ASSUME NEW s \in Symbols PROVE EntryOK(s)'
  <2>1. ASSUME NEW v \in Workers, Closing(pc[v], loc[v]), S(v) = s
        PROVE  Closing(pc'[v], loc'[v]) /\ S(v)' = s
    BY <1>1, <2>1 DEF S, K
  <2>2. QED
    BY <1>2, <2>1 DEF EntryOK, GuardInv
<1>5. NoSecondOpenBuy'
  BY <1>2 DEF NoSecondOpenBuy, GuardInv
<1>6. QED
  BY <1>3, <1>4, <1>5 DEF GuardInv

\* A call begins: fresh locals, a key of the thread's own.
LEMMA BeginGuarded ==
    ASSUME TypeInv, GuardInv, NEW w \in Workers, NEW k \in Keys, NEW why \in {"order", "probe"},
           NEW l \in {"query", "lookup"}, Begin(w, k, why, l), Owner[k] = w,
           l = "lookup" /\ k \in BuyKeys => OpenBuys(Symbol[k]) = {}
    PROVE  GuardInv'
<1> DEFINE r == [NoLocals(k) EXCEPT !.why = why]
<1>1. r \in Locals /\ r.key = k
  BY Words DEF NoLocals, Locals, Unknown
<1>2. row[k] \in RowFor(l, r.status)
  BY DEF RowFor, TypeInv, TypeOK
<1>3. Move(w, r, l) /\ up /\ pc[w] = "idle" /\ UNCHANGED <<row, mem, up>>
  BY DEF Begin, db
<1> HIDE DEF r
<1>4. /\ Passed(l, r) => OpenBuys(Symbol[k]) = {}
      /\ ~UnderWay(l, r)
      /\ ~Closing(pc[w], loc[w])
  BY <1>1, <1>3 DEF Passed, UnderWay, Closing
<1>5. QED
  BY <1>1, <1>2, <1>3, <1>4, MoveGuarded

\* A call ends, anywhere but where its row is still to be written.
LEMMA LeavingGuarded ==
    ASSUME TypeInv, GuardInv, NEW w \in Workers, pc[w] # "persist", Goto(w, "idle"),
           UNCHANGED <<row, mem, up>>
    PROVE  GuardInv'
<1>1. loc[w] \in Locals /\ ~Closing(pc[w], loc[w])
  BY DEF TypeInv, TypeOK, Closing
<1>2. QED
  BY <1>1, MoveGuarded DEF Goto

\* The order is on its way: the row was written, and not yet the result.
LEMMA OrderGuarded ==
    ASSUME TypeInv, GuardInv, NEW w \in Workers, NEW r \in Locals, NEW l, Move(w, r, l),
           r.key = K(w), UNCHANGED <<row, mem, up>>,
           \/ /\ pc[w] \in {"snapshot", "place"}
              /\ \/ l = "place"
                 \/ l = "publish" /\ r.status \in {"SUBMITTED", "FAILED"}
           \/ /\ pc[w] \in {"wait", "cancel", "infer"}
              /\ \/ l \in {"wait", "cancel", "infer"}
                 \/ l = "publish" /\ r.status \in {"FILLED", "PARTIAL", "CANCELLED"}
    PROVE  GuardInv'
<1>1. /\ up /\ Owner[K(w)] = w
      /\ row[K(w)] \in RowFor(pc[w], loc[w].status)
      /\ UnderWay(pc[w], loc[w]) => mem[S(w)] = "open"
  BY DEF GuardInv, ThreadOK
<1>2. row[K(w)] \in RowFor(l, r.status)
  BY <1>1 DEF RowFor
<1>3. /\ ~Passed(l, r)
      /\ UnderWay(l, r) => UnderWay(pc[w], loc[w])
      /\ ~Closing(pc[w], loc[w])
  BY DEF Passed, UnderWay, Closing, K
<1>4. QED
  BY <1>1, <1>2, <1>3, MoveGuarded DEF S

\* A result is settled while the order is on its way.
LEMMA SettlingGuarded ==
    ASSUME TypeInv, GuardInv, NEW w \in Workers, NEW st \in Status, NEW n \in Int, NEW l,
           Settling(w, st, n, l), UNCHANGED <<row, mem, up>>,
           \/ pc[w] = "place" /\ l = "publish" /\ st \in {"SUBMITTED", "FAILED"}
           \/ /\ pc[w] \in {"wait", "cancel", "infer"}
              /\ l \in {"cancel", "infer", "publish"}
              /\ st \in {"FILLED", "PARTIAL", "CANCELLED"}
    PROVE  GuardInv'
<1> DEFINE r == [loc[w] EXCEPT !.status = st, !.filled = n]
<1>1. r \in Locals /\ r.key = K(w) /\ r.status = st
  BY DEF TypeInv, TypeOK, Locals, K
<1>2. Move(w, r, l)
  BY DEF Settling
<1> HIDE DEF r
<1>3. QED
  BY <1>1, <1>2, OrderGuarded

\* A wait that times out keeps its key and its order.
LEMMA TimedOutLocals ==
    ASSUME TypeInv, NEW w \in Workers
    PROVE  LET r == [loc[w] EXCEPT !.status = "CANCELLED", !.filled = loc[w].seen]
           IN  r \in Locals /\ r.key = K(w) /\ r.status = "CANCELLED"
<1>1. loc[w] \in Locals /\ loc[w].seen \in Int /\ "CANCELLED" \in Status
  BY Words DEF TypeInv, TypeOK, Locals
<1>2. QED
  BY <1>1 DEF Locals, K

\* Looking for a fill among the holdings, whichever way it ends.
LEMMA LookForFillGuarded ==
    ASSUME TypeInv, GuardInv, NEW w \in Workers, pc[w] \in {"wait", "infer"},
           NEW r \in Locals, NEW l, LookForFill(w, Move(w, r, l)), r.key = K(w),
           \/ l \in {"wait", "infer"}
           \/ l = "publish" /\ r.status \in {"FILLED", "PARTIAL", "CANCELLED"},
           UNCHANGED <<row, mem, up>>
    PROVE  GuardInv'
<1>1. CASE Move(w, r, l)
  BY <1>1, OrderGuarded
<1>2. CASE \E view \in {hold, hcache} : InferFrom(w, view)
  <2>1. PICK st \in {"FILLED", "PARTIAL"}, n \in Int : Settling(w, st, n, "publish")
    BY <1>2, InferSettles
  <2>2. st \in Status
    BY Words
  <2>3. QED
    BY <2>1, <2>2, SettlingGuarded
<1>3. QED
  BY <1>1, <1>2 DEF LookForFill

\* A row that was written is where the thread goes on from.
LEMMA AfterPersistRow ==
    ASSUME NEW st \in Status
    PROVE  st \in RowFor(AfterPersist(st), st)
BY DEF RowFor, AfterPersist

\* A process that has not started has nothing to guard.
LEMMA GuardInit == Init => GuardInv
<1> SUFFICES ASSUME Init PROVE GuardInv
  OBVIOUS
<1>1. \A s \in Symbols : OpenBuys(s) = {}
  BY KeysAssumption DEF Init, OpenBuys, Open
<1>2. QED
  BY <1>1 DEF Init, GuardInv, ThreadOK, EntryOK, NoSecondOpenBuy

\* Every step keeps the guard truthful: the heart of OneOpenBuy.
LEMMA GuardStep == GuardAssumed /\ TypeInv /\ GuardInv /\ [Next]_vars => GuardInv'
<1> SUFFICES ASSUME GuardAssumed, TypeInv, GuardInv, [Next]_vars PROVE GuardInv'
  OBVIOUS
<1> USE KeysAssumption
<1>1. ASSUME NEW w \in Workers, NEW k \in Keys, StartBuy(w, k) PROVE GuardInv'
  <2>1. CASE mem[Symbol[k]] \in Passes
    <3>1. k \in BuyKeys /\ Owner[k] = w /\ pc[w] = "idle" /\ Begin(w, k, "order", "lookup")
      BY <1>1, <2>1 DEF StartBuy, Begin, Passes
    <3>2. Symbol[k] \in Symbols /\ EntryOK(Symbol[k])
      BY KeysAssumption DEF GuardInv
    <3>3. ASSUME NEW v \in Workers, Closing(pc[v], loc[v]), S(v) = Symbol[k]
          PROVE  FALSE
      BY <3>1, <3>3 DEF Closing, S, K, GuardInv, ThreadOK, GuardAssumed, OneBuyerPerSymbol
    <3>4. OpenBuys(Symbol[k]) = {}
      BY <2>1, <3>2, <3>3 DEF EntryOK
    <3>5. QED
      BY <3>1, <3>4, BeginGuarded
  <2>2. CASE mem[Symbol[k]] \notin Passes
    <3>1. Owner[k] = w /\ Begin(w, k, "order", "query")
      BY <1>1, <2>2 DEF StartBuy
    <3>2. QED
      BY <3>1, BeginGuarded
  <2>3. QED
    BY <2>1, <2>2
<1>2. ASSUME NEW w \in Workers, NEW k \in Keys, StartProbe(w, k) PROVE GuardInv'
  <2>1. Owner[k] = w /\ Begin(w, k, "probe", "query")
    BY <1>2 DEF StartProbe, GuardAssumed, Spared
  <2>2. QED
    BY <2>1, BeginGuarded
<1>3. ASSUME NEW w \in Workers, NEW k \in Keys, StartSell(w, k) PROVE GuardInv'
  <2>1. Owner[k] = w /\ k \notin BuyKeys /\ Begin(w, k, "order", "lookup")
    BY <1>3 DEF StartSell
  <2>2. QED
    BY <2>1, BeginGuarded
<1>4. ASSUME NEW w \in Workers, GuardSelect(w) PROVE GuardInv'
  <2>1. PICK answer \in GuardState :
          /\ answer \in Passes => OpenBuys(S(w)) = {}
          /\ Move(w, [loc[w] EXCEPT !.answer = answer], "cache")
    BY <1>4 DEF GuardSelect, Passes
  <2> DEFINE r == [loc[w] EXCEPT !.answer = answer]
  <2>2. r \in Locals /\ r.key = K(w) /\ r.answer = answer
    <3>1. loc[w] \in Locals
      BY DEF TypeInv, TypeOK
    <3>2. QED
      BY <3>1 DEF K, Locals
  <2>3. up /\ Owner[K(w)] = w /\ pc[w] = "query" /\ UNCHANGED <<row, mem, up>>
    BY <1>4 DEF GuardSelect, GuardInv, ThreadOK, db
  <2>4. row[K(w)] \in RowFor("cache", r.status)
    BY <2>3, SymbolsOK DEF RowFor, TypeInv, TypeOK
  <2>5. Move(w, r, "cache")
    BY <2>1
  <2> HIDE DEF r
  <2>6. /\ Passed("cache", r) => OpenBuys(Symbol[K(w)]) = {}
        /\ ~UnderWay("cache", r)
        /\ ~Closing(pc[w], loc[w])
    BY <2>1, <2>2, <2>3 DEF Passed, UnderWay, Closing, S
  <2>7. QED
    BY <2>2, <2>3, <2>4, <2>5, <2>6, MoveGuarded
<1>5. ASSUME NEW w \in Workers, GuardCache(w) PROVE GuardInv'
  <2>1. PICK l \in {"idle", "lookup"} :
          Goto(w, l) /\ (l = "lookup" => loc[w].answer = "db_clear")
    BY <1>5 DEF GuardCache
  <2>2. /\ pc[w] = "cache" /\ Buys(w) /\ S(w) \in Symbols
        /\ mem' = [mem EXCEPT ![S(w)] = loc[w].answer] /\ UNCHANGED <<row, up>>
    BY <1>5, SymbolsOK DEF GuardCache, TypeInv, AllFit, Fits, Buys, K, db
  <2>3. \A s : OpenBuys(s)' = OpenBuys(s)
    BY <2>2 DEF OpenBuys
  <2>4. loc[w].answer \in Passes => OpenBuys(S(w)) = {}
    BY <2>2 DEF GuardInv, ThreadOK, Passed, Buys, K
  <2>5. /\ pc'[w] = l /\ loc' = loc
        /\ \A v \in Workers \ {w} : pc'[v] = pc[v]
    BY <2>1 DEF Goto, Move, TypeInv, TypeOK
  <2>6. ASSUME NEW v \in Workers PROVE ThreadOK(v)'
    <3>1. CASE v = w
      <4>1. row[K(w)] \in RowFor(l, loc[w].status)
        BY <2>2, SymbolsOK DEF RowFor, TypeInv, TypeOK
      <4>2. ~UnderWay(l, loc[w])
        BY DEF UnderWay
      <4>3. l = "lookup" => OpenBuys(S(w)) = {}
        BY <2>1, <2>4 DEF Passes
      <4>4. QED
        BY <2>2, <2>3, <2>5, <3>1, <4>1, <4>2, <4>3 DEF ThreadOK, Passed, K, S, GuardInv
    <3>2. CASE v # w
      <4>1. pc[v] # "idle" /\ Buys(v) => S(v) # S(w)
        BY <2>2, <3>2, OneBuyer
      <4>2. UnderWay(pc[v], loc[v]) => pc[v] # "idle" /\ Buys(v)
        BY DEF UnderWay, Buys, K
      <4>3. UnderWay(pc[v], loc[v]) => mem'[S(v)] = "open"
        BY <2>2, <4>1, <4>2 DEF GuardInv, ThreadOK, TypeInv, TypeOK
      <4>4. QED
        BY <2>2, <2>3, <2>5, <3>2, <4>3 DEF ThreadOK, K, S, GuardInv
    <3>3. QED
      BY <3>1, <3>2
  <2>7. ASSUME NEW s \in Symbols PROVE EntryOK(s)'
    <3>1. CASE s = S(w)
      BY <2>2, <2>3, <2>4, <3>1 DEF EntryOK, TypeInv, TypeOK
    <3>2. CASE s # S(w)
      <4>1. mem'[s] = mem[s]
        BY <2>2, <3>2 DEF TypeInv, TypeOK
      <4>2. ASSUME NEW v \in Workers, Closing(pc[v], loc[v]), S(v) = s
            PROVE  Closing(pc'[v], loc'[v]) /\ S(v)' = s
        BY <2>2, <2>5, <4>2 DEF Closing, S, K
      <4>3. QED
        BY <2>3, <4>1, <4>2 DEF EntryOK, GuardInv
    <3>3. QED
      BY <3>1, <3>2
  <2>8. NoSecondOpenBuy'
    BY <2>3 DEF NoSecondOpenBuy, GuardInv
  <2>9. QED
    BY <2>6, <2>7, <2>8 DEF GuardInv
<1>6. ASSUME NEW w \in Workers, Lookup(w) PROVE GuardInv'
  <2>1. pc[w] = "lookup" /\ UNCHANGED <<row, mem, up>>
    BY <1>6 DEF Lookup, db
  <2>2. CASE Goto(w, "idle")
    BY <2>1, <2>2, LeavingGuarded
  <2>3. CASE Settling(w, "PENDING", 0, "publish") /\ row[K(w)] \notin Duplicates
    <3> DEFINE r == [loc[w] EXCEPT !.status = "PENDING", !.filled = 0]
    <3>1. r \in Locals /\ r.key = K(w) /\ r.status = "PENDING"
      <4>1. loc[w] \in Locals /\ "PENDING" \in Status /\ 0 \in Int
        BY Words DEF TypeInv, TypeOK
      <4>2. QED
        BY <4>1 DEF Locals, K
    <3>2. Move(w, r, "publish")
      BY <2>3 DEF Settling
    <3> HIDE DEF r
    <3>3. row[K(w)] \in RowFor("publish", "PENDING")
      BY <2>1, <2>3, SymbolsOK DEF RowFor, TypeInv, TypeOK
    <3>4. up /\ Owner[K(w)] = w /\ (r.key \in BuyKeys => OpenBuys(S(w)) = {})
      BY <2>1, <3>1 DEF GuardInv, ThreadOK, Passed, K
    <3>5. ~UnderWay("publish", r) /\ ~Closing(pc[w], loc[w])
      BY <2>1, <3>1 DEF UnderWay, Closing
    <3>6. QED
      BY <2>1, <3>1, <3>2, <3>3, <3>4, <3>5, MoveGuarded DEF Passed, S
  <2>4. QED
    BY <1>6, <2>2, <2>3 DEF Lookup, GuardAssumed, Spared
<1>7. ASSUME NEW w \in Workers, Publish(w) PROVE GuardInv'
  <2>1. pc[w] = "publish" /\ UNCHANGED <<row, up>> /\ S(w) \in Symbols
    BY <1>7, SymbolsOK DEF Publish, db
  <2>2. \A s : OpenBuys(s)' = OpenBuys(s)
    BY <2>1 DEF OpenBuys
  <2>3. /\ pc'[w] = "persist" /\ loc' = loc
        /\ \A v \in Workers \ {w} : pc'[v] = pc[v]
    BY <1>7 DEF Publish, Goto, Move, TypeInv, TypeOK
  <2>4. /\ Buys(w) => mem'[S(w)] = IF loc[w].status \in Open THEN "open" ELSE "clear"
        /\ \A s \in Symbols : (Buys(w) /\ s = S(w)) \/ mem'[s] = mem[s]
    BY <1>7, <2>1 DEF Publish, TypeInv, TypeOK
  <2>5. ASSUME NEW v \in Workers PROVE ThreadOK(v)'
    <3>1. CASE v = w
      <4>1. row[K(w)] \in RowFor("persist", loc[w].status)
        BY <2>1 DEF RowFor, GuardInv, ThreadOK
      <4>2. Passed("persist", loc[w]) => OpenBuys(S(w)) = {}
        BY <2>1 DEF Passed, GuardInv, ThreadOK
      <4>3. UnderWay("persist", loc[w]) => mem'[S(w)] = "open"
        BY <2>4 DEF UnderWay, Buys, K
      <4>4. QED
        BY <2>1, <2>2, <2>3, <3>1, <4>1, <4>2, <4>3 DEF ThreadOK, K, S, GuardInv
    <3>2. CASE v # w
      <4>1. pc[v] # "idle" /\ Buys(v) /\ Buys(w) => S(v) # S(w) 
        BY <2>1, <3>2, OneBuyer
      <4>2. UnderWay(pc[v], loc[v]) => pc[v] # "idle" /\ Buys(v) /\ S(v) \in Symbols
        BY SymbolsOK DEF UnderWay, Buys, K
      <4>3. UnderWay(pc[v], loc[v]) => mem'[S(v)] = "open"
        BY <2>4, <4>1, <4>2 DEF GuardInv, ThreadOK
      <4>4. QED
        BY <2>1, <2>2, <2>3, <3>2, <4>3 DEF ThreadOK, K, S, GuardInv
    <3>3. QED
      BY <3>1, <3>2
  <2>6. ASSUME NEW s \in Symbols PROVE EntryOK(s)'
    <3>1. CASE Buys(w) /\ s = S(w)
      <4>1. mem'[s] \in Passes => Closing("persist", loc[w])
        BY <2>4, <3>1 DEF Passes, Closing, Buys, K
      <4>2. QED
        BY <2>3, <3>1, <4>1 DEF EntryOK, S, K
    <3>2. CASE mem'[s] = mem[s]
      <4>1. ASSUME NEW v \in Workers, Closing(pc[v], loc[v]), S(v) = s
            PROVE  Closing(pc'[v], loc'[v]) /\ S(v)' = s
        BY <2>1, <2>3, <4>1 DEF Closing, S, K
      <4>2. QED
        BY <2>2, <3>2, <4>1 DEF EntryOK, GuardInv
    <3>3. QED
      BY <2>4, <3>1, <3>2
  <2>7. NoSecondOpenBuy'
    BY <2>2 DEF NoSecondOpenBuy, GuardInv
  <2>8. QED
    BY <2>5, <2>6, <2>7 DEF GuardInv
<1>8. ASSUME NEW w \in Workers, Persist(w) PROVE GuardInv'
  <2> DEFINE st == loc[w].status
  <2>1. /\ pc[w] = "persist" /\ K(w) \in Keys /\ UNCHANGED <<mem, up>>
        /\ row' = [row EXCEPT ![K(w)] = st]
    BY <1>8, SymbolsOK DEF Persist, GuardAssumed, Spared
  <2>2. /\ pc'[w] = AfterPersist(st) /\ loc' = loc
        /\ \A v \in Workers \ {w} : pc'[v] = pc[v]
    BY <1>8 DEF Persist, Goto, Move, TypeInv, TypeOK
  <2>3. /\ up /\ Owner[K(w)] = w /\ row[K(w)] \in RowFor("persist", st)
        /\ Passed("persist", loc[w]) => OpenBuys(S(w)) = {}
        /\ UnderWay("persist", loc[w]) => mem[S(w)] = "open"
    BY <2>1 DEF GuardInv, ThreadOK
  <2>4. row'[K(w)] = st /\ \A k \in Keys \ {K(w)} : row'[k] = row[k]
    BY <2>1 DEF TypeInv, TypeOK
  <2>5. st \in Status
    BY DEF TypeInv, TypeOK, Locals
  <2>6. \A v \in Workers : K(v)' = K(v) /\ S(v)' = S(v)
    BY <2>2 DEF K, S
  <2>7. CASE ~Buys(w)
    <3>1. \A s : OpenBuys(s)' = OpenBuys(s)
      BY <2>4, <2>7 DEF OpenBuys, Buys
    <3>2. ASSUME NEW v \in Workers PROVE ThreadOK(v)'
      <4>1. CASE v = w
        <5>1. /\ ~Passed(AfterPersist(st), loc[w])
              /\ ~UnderWay(AfterPersist(st), loc[w])
              /\ row'[K(w)] \in RowFor(AfterPersist(st), st)
          BY <2>4, <2>5, <2>7, AfterPersistRow DEF Passed, UnderWay, Buys, K
        <5>2. QED
          BY <2>1, <2>2, <2>3, <2>6, <4>1, <5>1 DEF ThreadOK, K
      <4>2. CASE v # w
        <5>1. pc[v] # "idle" => row'[K(v)] = row[K(v)]
          BY <2>3, <2>4, <4>2, SymbolsOK DEF GuardInv, ThreadOK
        <5>2. QED
          BY <2>1, <2>2, <3>1, <4>2, <5>1 DEF ThreadOK, K, S, GuardInv
      <4>3. QED
        BY <4>1, <4>2
    <3>3. ASSUME NEW s \in Symbols PROVE EntryOK(s)'
      <4>1. ASSUME NEW v \in Workers, Closing(pc[v], loc[v])
            PROVE  Closing(pc'[v], loc'[v]) /\ S(v)' = S(v)
        BY <2>2, <2>7, <4>1 DEF Closing, Buys, S, K
      <4>2. QED
        BY <2>1, <3>1, <4>1 DEF EntryOK, GuardInv
    <3>4. NoSecondOpenBuy'
      BY <3>1 DEF NoSecondOpenBuy, GuardInv
    <3>5. QED
      BY <3>2, <3>3, <3>4 DEF GuardInv
  <2>8. CASE Buys(w)
    <3>1. PICK s \in Symbols : s = S(w)
      BY <2>1, SymbolsOK
    <3>2. \A t : t # s => OpenBuys(t)' = OpenBuys(t)
      BY <2>4, <3>1 DEF OpenBuys, S
    <3>3. \A k \in OpenBuys(s)' : k = K(w) \/ k \in OpenBuys(s)
      BY <2>4, KeysAssumption DEF OpenBuys
    <3>4. st # "PENDING" => K(w) \in OpenBuys(s)
      BY <2>3, <2>5, <2>8, <3>1 DEF RowFor, OpenBuys, Open, Status, Buys, S
    <3>5. /\ st = "PENDING" => OpenBuys(s) = {}
          /\ st \in Open => mem[s] = "open"
      BY <2>3, <2>8, <3>1 DEF Passed, UnderWay, Buys, K
    <3>6. \A k1, k2 \in OpenBuys(s)' : k1 = k2
      <4>1. \A k1, k2 \in OpenBuys(s) : k1 = k2
        BY DEF GuardInv, NoSecondOpenBuy
      <4>2. QED
        BY <3>3, <3>4, <3>5, <4>1
    <3>7. st \notin Open => OpenBuys(s)' = {}
      <4>1. ASSUME st \notin Open, NEW k \in OpenBuys(s)' PROVE FALSE
        <5>1. k # K(w)
          BY <2>4, <4>1 DEF OpenBuys
        <5>2. st # "PENDING"
          BY <4>1 DEF Open
        <5>3. k \in OpenBuys(s) /\ K(w) \in OpenBuys(s)
          BY <3>3, <3>4, <4>1, <5>1, <5>2
        <5>4. QED
          BY <5>1, <5>3 DEF GuardInv, NoSecondOpenBuy
      <4>2. QED
        BY <4>1
    <3>8. ASSUME NEW v \in Workers PROVE ThreadOK(v)'
      <4>1. CASE v = w
        <5>1. row'[K(w)] \in RowFor(AfterPersist(st), st)
          BY <2>4, <2>5, AfterPersistRow
        <5>2. ~Passed(AfterPersist(st), loc[w])
          BY <2>5 DEF Passed, AfterPersist
        <5>3. UnderWay(AfterPersist(st), loc[w]) => mem[s] = "open"
          BY <2>5, <3>5 DEF UnderWay, AfterPersist, Open
        <5>4. QED
          BY <2>1, <2>2, <2>3, <2>6, <3>1, <4>1, <5>1, <5>2, <5>3 DEF ThreadOK, K
      <4>2. CASE v # w /\ pc[v] # "idle"
        <5>1. row'[K(v)] = row[K(v)]
          BY <2>3, <2>4, <4>2, SymbolsOK DEF GuardInv, ThreadOK
        <5>2. Buys(v) => S(v) # s
          BY <2>1, <2>8, <3>1, <4>2, OneBuyer
        <5>3. PICK t : t = S(v)
          OBVIOUS
        <5>4. Passed(pc[v], loc[v]) => OpenBuys(t)' = {}
          BY <3>2, <5>2, <5>3, <4>2 DEF Passed, Buys, K, GuardInv, ThreadOK
        <5>5. QED
          BY <2>1, <2>2, <2>6, <4>2, <5>1, <5>3, <5>4 DEF ThreadOK, K, GuardInv
      <4>3. QED
        BY <2>2, <4>1, <4>2 DEF ThreadOK
    <3>9. ASSUME NEW t \in Symbols PROVE EntryOK(t)'
      <4>1. CASE t = s
        BY <2>1, <3>5, <3>7, <4>1 DEF EntryOK, Passes
      <4>2. CASE t # s
        <5>1. ASSUME NEW v \in Workers, Closing(pc[v], loc[v]), S(v) = t
              PROVE  Closing(pc'[v], loc'[v]) /\ S(v)' = t
          BY <2>2, <3>1, <4>2, <5>1 DEF Closing, S, K
        <5>2. QED
          BY <2>1, <3>2, <4>2, <5>1 DEF EntryOK, GuardInv
      <4>3. QED
        BY <4>1, <4>2
    <3>10. NoSecondOpenBuy'
      BY <3>2, <3>6 DEF NoSecondOpenBuy, GuardInv
    <3>11. QED
      BY <3>8, <3>9, <3>10 DEF GuardInv
  <2>9. QED
    BY <2>7, <2>8
<1>9. ASSUME NEW w \in Workers, Snapshot(w) PROVE GuardInv'
  <2>1. pc[w] = "snapshot" /\ UNCHANGED <<row, mem, up>>
    BY <1>9 DEF Snapshot, db
  <2>2. ASSUME NEW r \in Locals, r.key = K(w), Move(w, r, "place") PROVE GuardInv'
    BY <2>1, <2>2, OrderGuarded
  <2>3. loc[w] \in Locals /\ loc[w].key = K(w)
    BY DEF TypeInv, TypeOK, K
  <2>4. CASE Move(w, loc[w], "place")
    BY <2>2, <2>3, <2>4
  <2>5. ASSUME NEW n \in Int, Move(w, [loc[w] EXCEPT !.before = n], "place") PROVE GuardInv'
    <3>1. [loc[w] EXCEPT !.before = n] \in Locals
      BY <2>3 DEF Locals
    <3>2. [loc[w] EXCEPT !.before = n].key = K(w)
      BY <2>3 DEF Locals
    <3> QED
      BY <2>2, <2>5, <3>1, <3>2
  <2>6. \A view \in {hold, hcache} : view[S(w)] \in Int
    BY <2>1, SymbolsOK DEF TypeInv, TypeOK
  <2>7. QED
    BY <1>9, <2>4, <2>5, <2>6 DEF Snapshot, Goto
<1>10. ASSUME NEW w \in Workers, Place(w) PROVE GuardInv'
  <2>1. pc[w] = "place" /\ UNCHANGED <<row, mem, up>>
    BY <1>10 DEF Place, db
  <2>2. CASE Settling(w, "FAILED", 0, "publish")
    <3>1. "FAILED" \in Status /\ 0 \in Int
      BY Words
    <3>2. QED
      BY <2>1, <2>2, <3>1, SettlingGuarded
  <2>3. ASSUME NEW o \in Orders,
               Move(w, [loc[w] EXCEPT !.order = o, !.status = "SUBMITTED"], "publish")
        PROVE  GuardInv'
    <3> DEFINE r == [loc[w] EXCEPT !.order = o, !.status = "SUBMITTED"]
    <3>1. loc[w] \in Locals /\ "SUBMITTED" \in Status
      BY Words DEF TypeInv, TypeOK
    <3>2. r \in Locals /\ r.key = K(w) /\ r.status = "SUBMITTED"
      BY <3>1 DEF Locals, K
    <3>3. Move(w, r, "publish")
      BY <2>3
    <3> HIDE DEF r
    <3>4. QED
      BY <2>1, <3>2, <3>3, OrderGuarded
  <2>4. QED
    BY <1>10, <2>2, <2>3 DEF Place
<1>11. ASSUME NEW w \in Workers, PollFilled(w) PROVE GuardInv'
  <2>1. pc[w] = "wait" /\ UNCHANGED <<row, mem, up>> /\ Settling(w, "FILLED", Executed(w), "publish")
    BY <1>11 DEF PollFilled, db
  <2>2. "FILLED" \in Status /\ Executed(w) \in Int
    BY <2>1, Words, ExecutedType
  <2>3. QED
    BY <2>1, <2>2, SettlingGuarded
<1>12. ASSUME NEW w \in Workers, PollPartial(w) PROVE GuardInv'
  <2> DEFINE r == [loc[w] EXCEPT !.seen = Executed(w)]
  <2>1. pc[w] = "wait" /\ UNCHANGED <<row, mem, up>> /\ Move(w, r, "wait")
    BY <1>12 DEF PollPartial, db
  <2>2. loc[w] \in Locals /\ Executed(w) \in Nat
    BY <2>1, ExecutedType DEF TypeInv, TypeOK
  <2>3. r \in Locals /\ r.key = K(w)
    BY <2>2 DEF Locals, K
  <2> HIDE DEF r
  <2>4. QED
    BY <2>1, <2>3, OrderGuarded
<1>13. ASSUME NEW w \in Workers, PollUnseen(w) PROVE GuardInv'
  <2>1. /\ pc[w] = "wait" /\ UNCHANGED <<row, mem, up>>
        /\ LookForFill(w, Move(w, loc[w], "wait"))
    BY <1>13 DEF PollUnseen, Goto, db
  <2>2. loc[w] \in Locals /\ loc[w].key = K(w)
    BY DEF TypeInv, TypeOK, K
  <2>3. QED
    BY <2>1, <2>2, LookForFillGuarded
<1>14. ASSUME NEW w \in Workers, FinalUnfilled(w) PROVE GuardInv'
  <2>1. PICK st \in {"PARTIAL", "CANCELLED"} : Settling(w, st, Executed(w), "cancel")
    BY <1>14 DEF FinalUnfilled
  <2>2. pc[w] = "wait" /\ UNCHANGED <<row, mem, up>>
    BY <1>14 DEF FinalUnfilled, db
  <2>3. st \in Status /\ Executed(w) \in Int
    BY <2>2, Words, ExecutedType
  <2>4. QED
    BY <2>1, <2>2, <2>3, SettlingGuarded
<1>15. ASSUME NEW w \in Workers, FinalUnseen(w) PROVE GuardInv'
  <2>1. pc[w] = "wait" /\ UNCHANGED <<row, mem, up>>
    BY <1>15 DEF FinalUnseen, db
  <2>2. PICK l \in {"infer", "publish"} :
          TimesOut(w) <=> Move(w, [loc[w] EXCEPT !.status = "CANCELLED", !.filled = loc[w].seen], l)
    BY DEF TimesOut, Settling
  <2> DEFINE r == [loc[w] EXCEPT !.status = "CANCELLED", !.filled = loc[w].seen]
  <2>3. r \in Locals /\ r.key = K(w) /\ r.status = "CANCELLED"
    BY TimedOutLocals
  <2>4. LookForFill(w, Move(w, r, l)) \/ Move(w, r, l)
    BY <1>15, <2>2 DEF FinalUnseen, LookForFill
  <2> HIDE DEF r
  <2>5. QED
    BY <2>1, <2>3, <2>4, LookForFillGuarded, OrderGuarded
<1>16. ASSUME NEW w \in Workers, WaitRaises(w) PROVE GuardInv'
  BY <1>16, LeavingGuarded DEF WaitRaises, db
<1>17. ASSUME NEW w \in Workers, Cancel(w) PROVE GuardInv'
  <2> DEFINE r == [loc[w] EXCEPT !.status = "CANCELLED", !.filled = loc[w].seen]
  <2>1. PICK l \in {"infer", "publish"} : Move(w, loc[w], l) \/ Move(w, r, l)
    BY <1>17 DEF Cancel, TimesOut, Settling, Goto
  <2>2. pc[w] = "cancel" /\ UNCHANGED <<row, mem, up>>
    BY <1>17 DEF Cancel, db
  <2>3. r \in Locals /\ r.key = K(w) /\ r.status = "CANCELLED"
    BY TimedOutLocals
  <2>4. loc[w] \in Locals /\ loc[w].key = K(w) /\ loc[w].status \in {"PARTIAL", "CANCELLED"}
    BY <2>2 DEF TypeInv, TypeOK, AllFit, Fits, K
  <2> HIDE DEF r
  <2>5. QED
    BY <2>1, <2>2, <2>3, <2>4, OrderGuarded
<1>18. ASSUME NEW w \in Workers, Infer(w) PROVE GuardInv'
  <2>1. /\ pc[w] = "infer" /\ UNCHANGED <<row, mem, up>>
        /\ LookForFill(w, Move(w, loc[w], "publish"))
    BY <1>18 DEF Infer, Goto, db
  <2>2. loc[w] \in Locals /\ loc[w].key = K(w) /\ loc[w].status \in {"PARTIAL", "CANCELLED"}
    BY <2>1 DEF TypeInv, TypeOK, AllFit, Fits, K
  <2>3. QED
    BY <2>1, <2>2, LookForFillGuarded
<1>19. ASSUME NEW s \in Symbols, GuardExpire(s) PROVE GuardInv'
  <2>1. /\ UNCHANGED <<row, pc, loc, up>>
        /\ \A t \in Symbols : /\ mem'[t] \in Passes => mem[t] \in Passes /\ mem'[t] = mem[t]
                              /\ mem[t] = "open" => mem'[t] = "open"
    BY <1>19 DEF GuardExpire, Timed, Passes, TypeInv, TypeOK, db
  <2>2. \A v \in Workers : pc[v] # "idle" => S(v) \in Symbols
    BY SymbolsOK
  <2>3. QED
    BY <2>1, <2>2 DEF GuardInv, ThreadOK, EntryOK, NoSecondOpenBuy, OpenBuys, K, S
<1>20. ASSUME NEW o \in Orders, Fill(o) PROVE GuardInv'
  <2>1. UNCHANGED <<row, mem, pc, loc, up>>
    BY <1>20 DEF Fill, db
  <2>2. QED
    BY <2>1 DEF GuardInv, ThreadOK, EntryOK, NoSecondOpenBuy, OpenBuys, K, S
<1>21. ASSUME NEW k \in Keys, Grow(k) PROVE GuardInv'
  <2>1. UNCHANGED <<row, mem, pc, loc, up>>
    BY <1>21 DEF Grow
  <2>2. QED
    BY <2>1 DEF GuardInv, ThreadOK, EntryOK, NoSecondOpenBuy, OpenBuys, K, S
<1>22. CASE Crash
  <2>1. /\ row' = row
        /\ \A s \in Symbols : mem'[s] = "absent"
        /\ \A v \in Workers : pc'[v] = "idle"
    BY <1>22 DEF Crash, db
  <2>2. QED
    BY <2>1 DEF GuardInv, ThreadOK, EntryOK, NoSecondOpenBuy, OpenBuys, Passes
<1>23. CASE Recover
  <2>1. ~up /\ UNCHANGED <<pc, loc>>
    BY <1>23 DEF Recover
  <2>2. \A v \in Workers : pc[v] = "idle"
    BY <2>1 DEF GuardInv, ThreadOK
  <2>3. Clean(StaleRows) /\ mem' = [s \in Symbols |->
                    IF \E k \in BuyKeys : Symbol[k] = s /\ row'[k] \in Open
                      THEN "open" ELSE "absent"]
    BY <1>23 DEF Recover, GuardAssumed, Spared
  <2>4. \A s : OpenBuys(s)' \subseteq OpenBuys(s)
    BY <2>3, KeysAssumption DEF Clean, OpenBuys, Open
  <2>5. \A s \in Symbols : EntryOK(s)'
    BY <2>3 DEF EntryOK, Passes
  <2>6. QED
    BY <2>1, <2>2, <2>4, <2>5 DEF GuardInv, ThreadOK, NoSecondOpenBuy
<1>24. CASE UNCHANGED vars
  BY <1>24 DEF vars, GuardInv, ThreadOK, EntryOK, NoSecondOpenBuy, OpenBuys, K, S
<1>25. QED
  BY <1>1, <1>2, <1>3, <1>4, <1>5, <1>6, <1>7, <1>8, <1>9, <1>10, <1>11, <1>12, <1>13,
     <1>14, <1>15, <1>16, <1>17, <1>18, <1>19, <1>20, <1>21, <1>22, <1>23, <1>24
     DEF Next, Step

\* A symbol never has two unfinished BUY rows, however many threads, keys and
\* crashes there are, when its BUYs come from one thread, other threads do not
\* ask for its guard, and the table answers.
THEOREM OneOpenBuy ==
    ASSUME OneBuyerPerSymbol, Spared({"db_error", "foreign_probe"})
    PROVE  Spec => []NoSecondOpenBuy
<1>1. GuardAssumed
  BY DEF GuardAssumed
<1>2. Init => TypeInv /\ GuardInv
  BY TypeInit, GuardInit
<1>3. TypeInv /\ GuardInv /\ [Next]_vars => (TypeInv /\ GuardInv)'
  BY <1>1, TypeStep, GuardStep
<1>4. GuardInv => NoSecondOpenBuy
  BY DEF GuardInv
<1>5. QED
  BY <1>2, <1>3, <1>4, PTL DEF Spec
-----------------------------------------------------------------------------
(***************************************************************************)
(* Two results about OrderSync that rest on the guard: the table lives as  *)
(* OrderLifecycle promises its readers, and no live order of the broker is *)
(* forgotten or doubled while the broker answers the process.              *)
(***************************************************************************)
(***************************************************************************)
(* The table implements OrderLifecycle.                                    *)
(***************************************************************************)
\* What Persist writes is a step in the life of the row.
LEMMA PersistRefines ==
    ASSUME GuardAssumed, TypeInv, GuardInv, NEW w \in Workers, Persist(w)
    PROVE  Lifecycle!Next
<1> DEFINE k  == K(w)
           st == loc[w].status
<1>1. /\ pc[w] = "persist" /\ k \in Keys /\ row' = [row EXCEPT ![k] = st]
  BY SymbolsOK DEF Persist, GuardAssumed, Spared
<1>2. st \in Status /\ st # "NONE"
  BY <1>1 DEF TypeInv, TypeOK, AllFit, Fits, Locals
<1>3. row[k] \in RowFor("persist", st)
  BY <1>1 DEF GuardInv, ThreadOK
<1>4. CASE st = "PENDING"
  <2>1. row[k] \in Status \ Duplicates
    BY <1>3, <1>4 DEF RowFor
  <2>2. k \in BuyKeys => OpenBuys(Symbol[k]) = {}
    BY <1>1, <1>4 DEF GuardInv, ThreadOK, Passed, S, K
  <2>3. k \in BuyKeys => \A k2 \in BuyKeys : Symbol[k2] = Symbol[k] => row[k2] \notin Open
    BY <2>2 DEF OpenBuys
  <2>4. Lifecycle!Take(k)
    BY <1>1, <1>4, <2>1, <2>3
       DEF Lifecycle!Take, Lifecycle!Become, Lifecycle!Status, Lifecycle!Open, Lifecycle!Closed,
           Lifecycle!Duplicates, Status, Open, Duplicates
  <2>5. QED
    BY <1>1, <2>4 DEF Lifecycle!Next
<1>5. CASE st = "SUBMITTED"
  <2>1. Lifecycle!Submit(k)
    BY <1>1, <1>3, <1>5 DEF Lifecycle!Submit, Lifecycle!Become, RowFor
  <2>2. QED
    BY <1>1, <2>1 DEF Lifecycle!Next
<1>6. CASE st = "FAILED"
  <2>1. Lifecycle!Fail(k)
    BY <1>1, <1>3, <1>6 DEF Lifecycle!Fail, Lifecycle!Become, RowFor
  <2>2. QED
    BY <1>1, <2>1 DEF Lifecycle!Next
<1>7. CASE st \in {"FILLED", "PARTIAL", "CANCELLED"}
  <2>1. Lifecycle!Settle(k)
    BY <1>1, <1>3, <1>7 DEF Lifecycle!Settle, Lifecycle!Become, RowFor
  <2>2. QED
    BY <1>1, <2>1 DEF Lifecycle!Next
<1>8. QED
  BY <1>2, <1>4, <1>5, <1>6, <1>7 DEF Status, Open

\* What a restart gives up is a step of the table.
LEMMA RecoverRefines ==
    ASSUME GuardAssumed, Recover
    PROVE  Lifecycle!Next
<1>1. row' = [k \in Keys |-> IF k \in StaleRows THEN "CANCELLED" ELSE row[k]]
  BY DEF Recover, Clean, GuardAssumed, Spared
<1>2. StaleRows \in SUBSET {k \in Keys : row[k] \in Lifecycle!Open}
  BY DEF StaleRows, Open, Lifecycle!Open
<1>3. Lifecycle!Clean
  BY <1>1, <1>2 DEF Lifecycle!Clean
<1>4. QED
  BY <1>3 DEF Lifecycle!Next

LEMMA StepRefines ==
    GuardAssumed /\ TypeInv /\ GuardInv /\ [Next]_vars => [Lifecycle!Next]_row
<1> SUFFICES ASSUME GuardAssumed, TypeInv, GuardInv, [Next]_vars, row' # row
             PROVE  Lifecycle!Next
  OBVIOUS
<1>1. \/ \E w \in Workers : Persist(w)
      \/ Recover
  <2>1. CASE \E w \in Workers : Step(w)
    <3>1. PICK w \in Workers : Step(w)
      BY <2>1
    <3>2. QED
      BY <3>1 DEF Step, GuardSelect, GuardCache, Lookup, Publish, Snapshot, Place, PollFilled,
                  PollPartial, PollUnseen, FinalUnfilled, FinalUnseen, WaitRaises, Cancel, Infer, db
  <2>2. CASE \E w \in Workers : \E k \in Keys : StartBuy(w, k) \/ StartProbe(w, k) \/ StartSell(w, k)
    BY <2>2 DEF StartBuy, StartProbe, StartSell, Begin, db
  <2>3. CASE \E s \in Symbols : GuardExpire(s)
    BY <2>3 DEF GuardExpire, db
  <2>4. CASE \E o \in Orders : Fill(o)
    BY <2>4 DEF Fill, db
  <2>5. CASE \E k \in Keys : Grow(k)
    BY <2>5 DEF Grow
  <2>6. CASE Crash
    BY <2>6 DEF Crash, db
  <2>7. CASE UNCHANGED vars
    BY <2>7 DEF vars
  <2>8. QED
    BY <2>1, <2>2, <2>3, <2>4, <2>5, <2>6, <2>7 DEF Next
<1>2. QED
  BY <1>1, PersistRefines, RecoverRefines

\* The rows of order_state live as OrderLifecycle says, for any number of
\* threads, keys, orders and crashes, under the assumptions of the guard: each
\* is taken only when no other BUY of its stock is open, and settled only from
\* SUBMITTED or by a restart.
THEOREM TableImplementsLifecycle ==
    ASSUME OneBuyerPerSymbol, Spared({"db_error", "foreign_probe"})
    PROVE  Spec => ImplementsLifecycle
<1>1. GuardAssumed
  BY DEF GuardAssumed
<1>2. Init => TypeInv /\ GuardInv /\ Lifecycle!Init
  BY TypeInit, GuardInit DEF Init, Lifecycle!Init
<1>3. TypeInv /\ GuardInv /\ [Next]_vars => (TypeInv /\ GuardInv)' /\ [Lifecycle!Next]_row
  BY <1>1, TypeStep, GuardStep, StepRefines
<1>4. QED
  BY <1>2, <1>3, PTL DEF Spec, ImplementsLifecycle, Lifecycle!Spec
-----------------------------------------------------------------------------
(***************************************************************************)
(* Live orders, for a broker that answers: every order it takes is         *)
(* acknowledged, its inquiries show the order, and it cancels when asked.  *)
(***************************************************************************)
LiveAssumed == GuardAssumed /\ Spared({"lost_reply", "no_rows", "cancel_fail", "api_error"})

\* A live order that no restart has given up.
Watched(o) == ord[o].st = "live" /\ ord[o].key \notin given

\* What a thread that works on the key of such an order is doing: it asks for
\* leave, which the row refuses, or it attends to that very order.
Attends(label, r, o) ==
    \/ label \in {"query", "cache", "lookup"}
    \/ /\ r.order = o
       /\ \/ label \in {"wait", "cancel"}
          \/ label \in {"publish", "persist"} /\ r.status = "SUBMITTED"

LiveOrders ==
    \A o \in Orders : ord[o].st = "live" => ord[o].key \in Keys /\ ord[o].filled < Qty

AttendedTo ==
    \A o \in Orders : Watched(o) =>
        /\ row[ord[o].key] \in Open
        /\ \A w \in Workers : pc[w] # "idle" /\ K(w) = ord[o].key => Attends(pc[w], loc[w], o)

OnePerKey ==
    \A o1, o2 \in Orders : Watched(o1) /\ Watched(o2) /\ ord[o1].key = ord[o2].key => o1 = o2

LiveInv == LiveOrders /\ AttendedTo /\ OnePerKey

\* The broker has no order for the key of the thread.
Unordered(w) == \A o \in Orders : Watched(o) => ord[o].key # K(w)

\* Before its order goes out and after it has ended, a thread has none.
LEMMA NothingToAttend ==
    ASSUME NEW w \in Workers, LiveInv,
           \/ pc[w] \in {"snapshot", "place", "infer"}
           \/ pc[w] \in {"publish", "persist"} /\ loc[w].status # "SUBMITTED"
    PROVE  Unordered(w)
BY DEF Unordered, LiveInv, AttendedTo, Attends

\* A step of a thread that leaves the table and the broker alone.
LEMMA MoveLive ==
    ASSUME TypeInv, LiveInv, NEW w \in Workers, NEW r, NEW l, Move(w, r, l),
           UNCHANGED <<row, given, ord>>,
           \A o \in Orders : Watched(o) /\ ord[o].key = r.key => l = "idle" \/ Attends(l, r, o)
    PROVE  LiveInv'
<1>1. /\ pc'[w] = l /\ loc'[w] = r
      /\ \A v \in Workers \ {w} : pc'[v] = pc[v] /\ loc'[v] = loc[v]
  BY DEF Move, TypeInv, TypeOK
<1>2. \A o \in Orders : Watched(o)' = Watched(o)
  BY DEF Watched
<1>3. ASSUME NEW o \in Orders, Watched(o), NEW v \in Workers, pc'[v] # "idle", K(v)' = ord[o].key
      PROVE  Attends(pc'[v], loc'[v], o)
  <2>1. CASE v = w
    BY <1>1, <1>3, <2>1 DEF K
  <2>2. CASE v # w
    BY <1>1, <1>3, <2>2 DEF K, LiveInv, AttendedTo
  <2>3. QED
    BY <2>1, <2>2
<1>4. AttendedTo'
  BY <1>2, <1>3 DEF AttendedTo, LiveInv
<1>5. LiveOrders' /\ OnePerKey'
  BY <1>2 DEF LiveOrders, OnePerKey, LiveInv
<1>6. QED
  BY <1>4, <1>5 DEF LiveInv

\* Where the broker has no order of its key, a thread may go anywhere with it.
LEMMA UnorderedLive ==
    ASSUME TypeInv, LiveInv, NEW w \in Workers, NEW r, NEW l, Move(w, r, l), r.key = K(w),
           UNCHANGED <<row, given, ord>>, Unordered(w)
    PROVE  LiveInv'
BY MoveLive DEF Unordered

\* Only the thread itself works on its key.
LEMMA OwnKey ==
    ASSUME GuardInv, NEW v \in Workers, NEW w \in Workers,
           pc[v] # "idle", pc[w] # "idle", K(v) = K(w)
    PROVE  v = w
BY DEF GuardInv, ThreadOK

LEMMA LiveInit == Init => LiveInv
BY DEF Init, LiveInv, LiveOrders, AttendedTo, OnePerKey, Watched

\* A fill told from the holdings keeps the key.
LEMMA LookForFillMoves ==
    ASSUME NEW w \in Workers, NEW r, NEW l, LookForFill(w, Move(w, r, l)), TypeInv, r.key = K(w)
    PROVE  \E q, m : Move(w, q, m) /\ q.key = K(w)
<1>1. CASE Move(w, r, l)
  BY <1>1
<1>2. CASE \E view \in {hold, hcache} : InferFrom(w, view)
  <2>1. PICK st, n : Settling(w, st, n, "publish")
    BY <1>2 DEF InferFrom
  <2>2. [loc[w] EXCEPT !.status = st, !.filled = n].key = K(w)
    BY DEF TypeInv, TypeOK, Locals, K
  <2>3. QED
    BY <2>1, <2>2 DEF Settling
<1>3. QED
  BY <1>1, <1>2 DEF LookForFill

\* The write of a row.
LEMMA PersistLive ==
    ASSUME GuardAssumed, TypeInv, GuardInv, LiveInv, NEW w \in Workers, Persist(w)
    PROVE  LiveInv'
<1> DEFINE st == loc[w].status
<1>1. /\ pc[w] = "persist" /\ K(w) \in Keys /\ UNCHANGED <<ord, given>>
      /\ row' = [row EXCEPT ![K(w)] = st]
  BY SymbolsOK DEF Persist, GuardAssumed, Spared, broker
<1>2. /\ pc'[w] = AfterPersist(st) /\ loc' = loc
      /\ \A v \in Workers \ {w} : pc'[v] = pc[v]
  BY DEF Persist, Goto, Move, TypeInv, TypeOK
<1>3. row'[K(w)] = st /\ \A k \in Keys : k # K(w) => row'[k] = row[k]
  BY <1>1 DEF TypeInv, TypeOK
<1>4. \A o \in Orders : Watched(o)' = Watched(o)
  BY <1>1 DEF Watched
<1>5. ASSUME NEW o \in Orders, Watched(o)
      PROVE  /\ row'[ord[o].key] \in Open
             /\ \A v \in Workers : pc'[v] # "idle" /\ K(v)' = ord[o].key => Attends(pc'[v], loc'[v], o)
  <2>1. ord[o].key \in Keys /\ row[ord[o].key] \in Open
    BY <1>5 DEF LiveInv, LiveOrders, AttendedTo, Watched
  <2>2. K(w) = ord[o].key => st = "SUBMITTED" /\ loc[w].order = o
    BY <1>1, <1>5 DEF LiveInv, AttendedTo, Attends
  <2>3. row'[ord[o].key] \in Open
    BY <1>3, <2>1, <2>2 DEF Open
  <2>4. ASSUME NEW v \in Workers, pc'[v] # "idle", K(v)' = ord[o].key
        PROVE  Attends(pc'[v], loc'[v], o)
    <3>1. CASE v = w
      BY <1>2, <2>2, <2>4, <3>1 DEF K, AfterPersist, Attends
    <3>2. CASE v # w
      BY <1>2, <1>5, <2>4, <3>2 DEF K, LiveInv, AttendedTo
    <3>3. QED
      BY <3>1, <3>2
  <2>5. QED
    BY <2>3, <2>4
<1>6. AttendedTo'
  BY <1>1, <1>4, <1>5 DEF AttendedTo
<1>7. LiveOrders' /\ OnePerKey'
  BY <1>1, <1>4 DEF LiveOrders, OnePerKey, LiveInv
<1>8. QED
  BY <1>6, <1>7 DEF LiveInv

\* The order goes out.
LEMMA PlaceLive ==
    ASSUME LiveAssumed, TypeInv, GuardInv, LiveInv, NEW w \in Workers, Place(w)
    PROVE  LiveInv'
<1>1. /\ pc[w] = "place" /\ UNCHANGED <<row, given>> /\ Unordered(w)
  BY NothingToAttend DEF Place, db
<1>2. CASE Settling(w, "FAILED", 0, "publish") /\ UNCHANGED ord
  <2>1. [loc[w] EXCEPT !.status = "FAILED", !.filled = 0].key = K(w)
    BY DEF TypeInv, TypeOK, Locals, K
  <2>2. QED
    BY <1>1, <1>2, <2>1, UnorderedLive DEF Settling
<1>3. ASSUME NEW o \in Orders, BrokerTakes(w, o),
             Move(w, [loc[w] EXCEPT !.order = o, !.status = "SUBMITTED"], "publish")
      PROVE  LiveInv'
  <2>1. /\ ord[o].st = "none"
        /\ ord'[o] = [st |-> "live", key |-> K(w), filled |-> 0, cancel |-> "no"]
        /\ \A p \in Orders : p # o => ord'[p] = ord[p]
    BY <1>3 DEF BrokerTakes, TypeInv, TypeOK
  <2>2. /\ pc'[w] = "publish" /\ \A v \in Workers \ {w} : pc'[v] = pc[v] /\ loc'[v] = loc[v]
        /\ loc'[w].key = K(w) /\ loc'[w].order = o /\ loc'[w].status = "SUBMITTED"
    <3>1. loc[w] \in Locals
      BY DEF TypeInv, TypeOK
    <3>2. loc'[w] = [loc[w] EXCEPT !.order = o, !.status = "SUBMITTED"]
      BY <1>3 DEF Move, TypeInv, TypeOK
    <3>3. QED
      BY <1>3, <3>1, <3>2 DEF Move, TypeInv, TypeOK, Locals, K
  <2>3. /\ K(w) \in Keys /\ row[K(w)] = "PENDING"
    BY <1>1, SymbolsOK DEF GuardInv, ThreadOK, RowFor
  <2>4. ~Watched(o)
    BY <2>1 DEF Watched
  <2>5. ASSUME NEW p \in Orders, p # o
        PROVE  Watched(p)' = Watched(p) /\ ord'[p] = ord[p]
    BY <1>1, <2>1, <2>5 DEF Watched
  <2>6. LiveOrders'
    BY <2>1, <2>3, NumbersAssumption DEF LiveOrders, LiveInv
  <2>7. ASSUME NEW p \in Orders, Watched(p)'
        PROVE  /\ row'[ord'[p].key] \in Open
               /\ \A v \in Workers : pc'[v] # "idle" /\ K(v)' = ord'[p].key => Attends(pc'[v], loc'[v], p)
    <3>1. CASE p = o
      <4>1. row'[ord'[p].key] \in Open
        BY <1>1, <2>1, <2>3, <3>1 DEF Open
      <4>2. ASSUME NEW v \in Workers, pc'[v] # "idle", K(v)' = K(w)
            PROVE  v = w
        BY <1>1, <2>2, <4>2, OwnKey DEF K
      <4>3. Attends(pc'[w], loc'[w], p)
        BY <2>2, <3>1 DEF Attends
      <4>4. QED
        BY <2>1, <3>1, <4>1, <4>2, <4>3
    <3>2. CASE p # o
      <4>1. Watched(p) /\ ord'[p] = ord[p] /\ ord[p].key # K(w)
        BY <1>1, <2>5, <2>7, <3>2 DEF Unordered
      <4>2. QED
        BY <1>1, <2>2, <4>1 DEF K, LiveInv, AttendedTo
    <3>3. QED
      BY <3>1, <3>2
  <2>8. ASSUME NEW p \in Orders, NEW q \in Orders, Watched(p)', Watched(q)', ord'[p].key = ord'[q].key
        PROVE  p = q
    <3>1. ASSUME NEW x \in Orders, x # o, Watched(x)' PROVE ord'[x].key # K(w) /\ Watched(x) /\ ord'[x] = ord[x]
      BY <1>1, <2>5, <3>1 DEF Unordered
    <3>2. CASE p = o \/ q = o
      BY <2>1, <2>8, <3>1, <3>2
    <3>3. CASE p # o /\ q # o
      BY <2>8, <3>1, <3>3 DEF LiveInv, OnePerKey
    <3>4. QED
      BY <3>2, <3>3
  <2>9. AttendedTo'
    BY <2>7 DEF AttendedTo
  <2>10. OnePerKey'
    BY <2>8 DEF OnePerKey
  <2>11. QED
    BY <2>6, <2>9, <2>10 DEF LiveInv
<1>4. QED
  BY <1>2, <1>3 DEF Place, LiveAssumed, Spared

\* The broker cancels the rest of an order.
LEMMA CancelLive ==
    ASSUME LiveAssumed, TypeInv, LiveInv, NEW w \in Workers, Cancel(w)
    PROVE  LiveInv'
<1> DEFINE o == loc[w].order
           r == [loc[w] EXCEPT !.status = "CANCELLED", !.filled = loc[w].seen]
<1>1. pc[w] = "cancel" /\ UNCHANGED <<row, given>> /\ o \in Orders
  BY DEF Cancel, db, TypeInv, AllFit, Fits
<1>2. ord' = [ord EXCEPT ![o] = [@ EXCEPT !.cancel = "tried", !.st = "dead"]]
  BY DEF Cancel, LiveAssumed, Spared
<1>3. ord'[o].st = "dead" /\ \A p \in Orders : p # o => ord'[p] = ord[p]
  <2>1. ord[o] \in OrderRecord
    BY <1>1 DEF TypeInv, TypeOK
  <2>2. [ord[o] EXCEPT !.cancel = "tried", !.st = "dead"].st = "dead"
    BY <2>1 DEF OrderRecord
  <2>3. QED
    BY <1>1, <1>2, <2>2 DEF TypeInv, TypeOK
<1>4. \E q, l : Move(w, q, l) /\ q.key = K(w)
  BY TimedOutLocals DEF Cancel, Goto, TimesOut, Settling, K
<1>5. /\ K(w)' = K(w)
      /\ \A v \in Workers \ {w} : pc'[v] = pc[v] /\ loc'[v] = loc[v]
  BY <1>4 DEF Move, TypeInv, TypeOK, K
<1>6. ASSUME NEW p \in Orders, Watched(p)'
      PROVE  Watched(p) /\ ord'[p] = ord[p] /\ ord[p].key # K(w)
  <2>1. p # o /\ Watched(p) /\ ord'[p] = ord[p]
    BY <1>1, <1>3, <1>6 DEF Watched
  <2>2. ord[p].key # K(w)
    BY <1>1, <2>1 DEF LiveInv, AttendedTo, Attends
  <2>3. QED
    BY <2>1, <2>2
<1>7. LiveOrders'
  BY <1>3 DEF LiveOrders, LiveInv
<1>8. AttendedTo'
  BY <1>1, <1>5, <1>6 DEF AttendedTo, LiveInv, K
<1>9. OnePerKey'
  BY <1>6 DEF OnePerKey, LiveInv
<1>10. QED
  BY <1>7, <1>8, <1>9 DEF LiveInv

\* The broker fills some of an order.
LEMMA FillLive ==
    ASSUME TypeInv, LiveInv, NEW o \in Orders, Fill(o)
    PROVE  LiveInv'
<1>1. /\ UNCHANGED <<row, given, pc, loc>> /\ ord[o].st = "live"
      /\ \A p \in Orders : p # o => ord'[p] = ord[p]
  BY DEF Fill, db, TypeInv, TypeOK
<1>2. ord'[o].key = ord[o].key /\ (ord'[o].st = "live" => ord'[o].filled < Qty)
  <2>1. ord[o] \in OrderRecord
    BY DEF TypeInv, TypeOK
  <2>2. PICK n \in 1..(Qty - ord[o].filled) :
          ord'[o] = [ord[o] EXCEPT !.filled = ord[o].filled + n,
                                   !.st = IF ord[o].filled + n = Qty THEN "dead" ELSE "live"]
    BY DEF Fill, TypeInv, TypeOK
  <2>3. /\ ord'[o].key = ord[o].key /\ ord'[o].filled = ord[o].filled + n
        /\ ord'[o].st = IF ord[o].filled + n = Qty THEN "dead" ELSE "live"
    BY <2>1, <2>2 DEF OrderRecord
  <2>4. ord[o].filled \in Nat
    BY <2>1 DEF OrderRecord
  <2>5. QED
    BY <2>2, <2>3, <2>4, NumbersAssumption
<1>3. \A p \in Orders : Watched(p)' => Watched(p) /\ ord'[p].key = ord[p].key
  BY <1>1, <1>2 DEF Watched
<1>4. LiveOrders'
  BY <1>1, <1>2 DEF LiveOrders, LiveInv
<1>5. AttendedTo'
  BY <1>1, <1>3 DEF AttendedTo, LiveInv, K
<1>6. OnePerKey'
  BY <1>3 DEF OnePerKey, LiveInv
<1>7. QED
  BY <1>4, <1>5, <1>6 DEF LiveInv

\* A restart gives up some rows, and the orders behind them.
LEMMA RecoverLive ==
    ASSUME GuardAssumed, LiveInv, Recover
    PROVE  LiveInv'
<1>1. UNCHANGED <<pc, loc, ord>> /\ Clean(StaleRows)
  BY DEF Recover, broker, GuardAssumed, Spared
<1>2. \A o \in Orders : Watched(o)' => Watched(o) /\ ord[o].key \notin StaleRows
  BY <1>1 DEF Clean, Watched
<1>3. \A k \in Keys : k \notin StaleRows => row'[k] = row[k]
  BY <1>1 DEF Clean
<1>4. LiveOrders' /\ OnePerKey'
  BY <1>1, <1>2 DEF LiveOrders, OnePerKey, LiveInv
<1>5. AttendedTo'
  BY <1>1, <1>2, <1>3 DEF AttendedTo, LiveInv, LiveOrders, Watched, K
<1>6. QED
  BY <1>4, <1>5 DEF LiveInv

LEMMA LiveStep == LiveAssumed /\ TypeInv /\ GuardInv /\ LiveInv /\ [Next]_vars => LiveInv'
<1> SUFFICES ASSUME LiveAssumed, TypeInv, GuardInv, LiveInv, [Next]_vars PROVE LiveInv'
  OBVIOUS
<1>0. GuardAssumed
  BY DEF LiveAssumed
<1>1. ASSUME NEW w \in Workers, NEW k \in Keys, StartBuy(w, k) \/ StartProbe(w, k) \/ StartSell(w, k)
      PROVE  LiveInv'
  <2>1. PICK why \in {"order", "probe"}, l \in {"query", "lookup"} : Begin(w, k, why, l)
    BY <1>1 DEF StartBuy, StartProbe, StartSell
  <2>2. QED
    BY <2>1, MoveLive DEF Begin, Attends, db, broker
<1>2. ASSUME NEW w \in Workers, GuardSelect(w) PROVE LiveInv'
  <2>1. PICK answer \in GuardState : Move(w, [loc[w] EXCEPT !.answer = answer], "cache")
    BY <1>2 DEF GuardSelect
  <2>2. QED
    BY <1>2, <2>1, MoveLive DEF GuardSelect, Attends, db, broker
<1>3. ASSUME NEW w \in Workers, GuardCache(w) PROVE LiveInv'
  <2>1. PICK l \in {"idle", "lookup"} : Move(w, loc[w], l)
    BY <1>3 DEF GuardCache, Goto
  <2>2. QED
    BY <1>3, <2>1, MoveLive DEF GuardCache, Attends, db, broker
<1>4. ASSUME NEW w \in Workers, Lookup(w) PROVE LiveInv'
  <2>1. UNCHANGED <<row, given, ord>>
    BY <1>4 DEF Lookup, db, broker
  <2>2. CASE Goto(w, "idle")
    BY <2>1, <2>2, MoveLive DEF Goto
  <2>3. CASE row[K(w)] \notin Duplicates /\ Settling(w, "PENDING", 0, "publish")
    <3>1. Unordered(w)
      BY <2>3 DEF Unordered, LiveInv, AttendedTo, Duplicates
    <3>2. [loc[w] EXCEPT !.status = "PENDING", !.filled = 0].key = K(w)
      BY DEF TypeInv, TypeOK, Locals, K
    <3>3. QED
      BY <2>1, <2>3, <3>1, <3>2, UnorderedLive DEF Settling
  <2>4. QED
    BY <1>0, <1>4, <2>2, <2>3 DEF Lookup, GuardAssumed, Spared
<1>5. ASSUME NEW w \in Workers, Publish(w) PROVE LiveInv'
  <2>1. pc[w] = "publish" /\ Move(w, loc[w], "persist") /\ UNCHANGED <<row, given, ord>>
    BY <1>5 DEF Publish, Goto, db, broker
  <2>2. \A o \in Orders : Watched(o) /\ ord[o].key = loc[w].key => Attends("persist", loc[w], o)
    BY <2>1 DEF LiveInv, AttendedTo, Attends, K
  <2>3. QED
    BY <2>1, <2>2, MoveLive
<1>6. ASSUME NEW w \in Workers, Snapshot(w) PROVE LiveInv'
  <2>1. Unordered(w) /\ UNCHANGED <<row, given, ord>>
    BY <1>6, NothingToAttend DEF Snapshot, db, broker
  <2>2. \A n : [loc[w] EXCEPT !.before = n].key = K(w)
    BY DEF TypeInv, TypeOK, Locals, K
  <2>3. PICK r : Move(w, r, "place") /\ r.key = K(w)
    BY <1>6, <2>2 DEF Snapshot, Goto, K
  <2>4. QED
    BY <2>1, <2>3, UnorderedLive
<1>7. ASSUME NEW w \in Workers, PollFilled(w) PROVE LiveInv'
  <2>1. /\ pc[w] = "wait" /\ Executed(w) >= Qty /\ UNCHANGED <<row, given, ord>>
        /\ Settling(w, "FILLED", Executed(w), "publish")
    BY <1>7 DEF PollFilled, db, broker
  <2>2. Unordered(w)
    <3>1. ASSUME NEW o \in Orders, Watched(o), ord[o].key = K(w) PROVE FALSE
      <4>1. loc[w].order = o /\ ord[o].filled < Qty
        BY <2>1, <3>1 DEF LiveInv, LiveOrders, AttendedTo, Attends, Watched
      <4>2. ord[o].filled \in Nat
        BY DEF TypeInv, TypeOK, OrderRecord
      <4>3. QED
        BY <2>1, <4>1, <4>2, NumbersAssumption DEF Executed
    <3>2. QED
      BY <3>1 DEF Unordered
  <2>3. [loc[w] EXCEPT !.status = "FILLED", !.filled = Executed(w)].key = K(w)
    BY DEF TypeInv, TypeOK, Locals, K
  <2>4. QED
    BY <2>1, <2>2, <2>3, UnorderedLive DEF Settling
<1>8. ASSUME NEW w \in Workers, NEW r, NEW l \in {"wait", "cancel"}, pc[w] = "wait", Move(w, r, l),
             r.key = K(w), r.order = loc[w].order, UNCHANGED <<row, given, ord>>
      PROVE  LiveInv'
  <2>1. \A o \in Orders : Watched(o) /\ ord[o].key = K(w) => Attends(l, r, o)
    BY <1>8 DEF LiveInv, AttendedTo, Attends
  <2>2. QED
    BY <1>8, <2>1, MoveLive
<1>9. ASSUME NEW w \in Workers, PollPartial(w) PROVE LiveInv'
  <2> DEFINE r == [loc[w] EXCEPT !.seen = Executed(w)]
  <2>1. r.key = K(w) /\ r.order = loc[w].order
    BY DEF TypeInv, TypeOK, Locals, K
  <2>2. pc[w] = "wait" /\ Move(w, r, "wait") /\ UNCHANGED <<row, given, ord>>
    BY <1>9 DEF PollPartial, db, broker
  <2> HIDE DEF r
  <2>3. QED
    BY <1>8, <2>1, <2>2
<1>10. ASSUME NEW w \in Workers, FinalUnfilled(w) PROVE LiveInv'
  <2>1. PICK st : Settling(w, st, Executed(w), "cancel")
    BY <1>10 DEF FinalUnfilled
  <2> DEFINE r == [loc[w] EXCEPT !.status = st, !.filled = Executed(w)]
  <2>2. r.key = K(w) /\ r.order = loc[w].order
    BY DEF TypeInv, TypeOK, Locals, K
  <2>3. pc[w] = "wait" /\ Move(w, r, "cancel") /\ UNCHANGED <<row, given, ord>>
    BY <1>10, <2>1 DEF FinalUnfilled, Settling, db, broker
  <2> HIDE DEF r
  <2>4. QED
    BY <1>8, <2>2, <2>3
<1>11. ASSUME NEW w \in Workers, PollUnseen(w) \/ FinalUnseen(w) PROVE FALSE
  BY <1>11 DEF PollUnseen, FinalUnseen, LiveAssumed, Spared
<1>12. ASSUME NEW w \in Workers, WaitRaises(w) PROVE LiveInv'
  BY <1>12, MoveLive DEF WaitRaises, Goto, db, broker
<1>13. ASSUME NEW w \in Workers, Infer(w) PROVE LiveInv'
  <2>1. Unordered(w) /\ UNCHANGED <<row, given, ord>>
    BY <1>13, NothingToAttend DEF Infer, db, broker
  <2>2. LookForFill(w, Move(w, loc[w], "publish")) /\ loc[w].key = K(w)
    BY <1>13 DEF Infer, Goto, K
  <2>3. PICK q, m : Move(w, q, m) /\ q.key = K(w)
    BY <2>2, LookForFillMoves
  <2>4. QED
    BY <2>1, <2>3, UnorderedLive
<1>14. ASSUME NEW w \in Workers, Step(w) PROVE LiveInv'
  BY <1>0, <1>2, <1>3, <1>4, <1>5, <1>6, <1>7, <1>9, <1>10, <1>11, <1>12, <1>13, <1>14,
     PersistLive, PlaceLive, CancelLive DEF Step
<1>15. ASSUME UNCHANGED <<row, given, ord, pc, loc>> PROVE LiveInv'
  BY <1>15 DEF LiveInv, LiveOrders, AttendedTo, OnePerKey, Watched, K
<1>16. ASSUME NEW s \in Symbols, GuardExpire(s) PROVE LiveInv'
  BY <1>15, <1>16 DEF GuardExpire, db, broker
<1>17. ASSUME NEW k \in Keys, Grow(k) PROVE LiveInv'
  BY <1>15, <1>17 DEF Grow, broker
<1>18. CASE Crash
  <2>1. UNCHANGED <<row, given, ord>> /\ \A w \in Workers : pc'[w] = "idle"
    BY <1>18 DEF Crash, db, broker
  <2>2. QED
    BY <2>1 DEF LiveInv, LiveOrders, AttendedTo, OnePerKey, Watched
<1>19. CASE UNCHANGED vars
  BY <1>15, <1>19 DEF vars
<1>20. QED
  BY <1>0, <1>1, <1>14, <1>16, <1>17, <1>18, <1>19, FillLive, RecoverLive DEF Next

\* The three invariants hold together.
LEMMA LiveHolds == ASSUME LiveAssumed PROVE Spec => [](TypeInv /\ GuardInv /\ LiveInv)
<1>1. Init => TypeInv /\ GuardInv /\ LiveInv
  BY TypeInit, GuardInit, LiveInit
<1>2. TypeInv /\ GuardInv /\ LiveInv /\ [Next]_vars => (TypeInv /\ GuardInv /\ LiveInv)'
  <2>1. GuardAssumed
    BY DEF LiveAssumed
  <2>2. QED
    BY <2>1, TypeStep, GuardStep, LiveStep
<1>3. QED
  BY <1>1, <1>2, PTL DEF Spec

\* An order the broker still works on has an unfinished row, or one that a
\* restart gave up, whatever threads, crashes, stale holdings and exceptions
\* there are, if the broker answers and cancels.
THEOREM LiveOrdersAreRecorded ==
    ASSUME OneBuyerPerSymbol,
           Spared({"db_error", "foreign_probe", "lost_reply", "no_rows", "cancel_fail", "api_error"})
    PROVE  Spec => []LiveIsRecorded
<1>1. LiveAssumed
  BY DEF LiveAssumed, GuardAssumed, Spared
<1>2. LiveInv => LiveIsRecorded
  BY DEF LiveInv, AttendedTo, Watched, LiveIsRecorded, Live
<1>3. Spec => [](TypeInv /\ GuardInv /\ LiveInv)
  BY <1>1, LiveHolds
<1>4. QED
  BY <1>2, <1>3, PTL

\* So the broker never works on two BUY orders of one stock, but for those a
\* restart gave up: their rows would both be unfinished, which the guard
\* excludes, or one and the same.
THEOREM OneLiveBuyOnly ==
    ASSUME OneBuyerPerSymbol,
           Spared({"db_error", "foreign_probe", "lost_reply", "no_rows", "cancel_fail", "api_error"})
    PROVE  Spec => []OneLiveBuy
<1>1. LiveAssumed
  BY DEF LiveAssumed, GuardAssumed, Spared
<1>2. GuardInv /\ LiveInv => OneLiveBuy
  <2> SUFFICES ASSUME GuardInv, LiveInv, NEW o1 \in Orders, NEW o2 \in Orders,
                      ord[o1].st = "live", ord[o1].key \in BuyKeys \ given,
                      ord[o2].st = "live", ord[o2].key \in BuyKeys \ given,
                      Symbol[ord[o1].key] = Symbol[ord[o2].key]
               PROVE  o1 = o2
    BY DEF OneLiveBuy
  <2>1. Watched(o1) /\ Watched(o2)
    BY DEF Watched
  <2>2. row[ord[o1].key] \in Open /\ row[ord[o2].key] \in Open
    BY <2>1 DEF LiveInv, AttendedTo
  <2>3. Symbol[ord[o1].key] \in Symbols
    BY KeysAssumption
  <2>4. ord[o1].key = ord[o2].key
    BY <2>2, <2>3 DEF GuardInv, NoSecondOpenBuy, OpenBuys
  <2>5. QED
    BY <2>1, <2>4 DEF LiveInv, OnePerKey
<1>3. Spec => [](TypeInv /\ GuardInv /\ LiveInv)
  BY <1>1, LiveHolds
<1>4. QED
  BY <1>2, <1>3, PTL
-----------------------------------------------------------------------------
(***************************************************************************)
(* The reports, for fresh views of the holdings and one buying thread per  *)
(* symbol.  Whatever a BUY may yet report (the shares its order has        *)
(* executed, those the account has gained since its snapshot, a result     *)
(* that was settled) is no more than was bought and is not reported yet;   *)
(* only the stock's own buyer reports, once for each call.                 *)
(***************************************************************************)
ReportAssumed == OneBuyerPerSymbol /\ Spared({"stale_holdings"})

Asking        == {"query", "cache", "lookup"}
Unreported(s) == bought[s] - reported[s]

\* Orders go out in a thread's own name only.
Own(w, label, r) ==
    label # "idle" =>
        /\ r.why = "order" => Owner[r.key] = w
        /\ label \notin {"query", "cache"} => r.why = "order"

\* The thread has an order of its own, whose end it has not seen.
Ordered(label, r) ==
    \/ label \in {"wait", "cancel"}
    \/ label \in {"publish", "persist"} /\ r.status = "SUBMITTED"

\* What a BUY at a label may yet report.
Covered(label, r) ==
    label \notin {"idle"} \cup Asking /\ r.key \in BuyKeys =>
        /\ r.before # Unknown => hold[Symbol[r.key]] - r.before <= Unreported(Symbol[r.key])
        /\ Ordered(label, r) =>
              /\ ord[r.order].st # "none" /\ ord[r.order].key = r.key
              /\ ord[r.order].filled <= Unreported(Symbol[r.key])
        /\ r.status \in {"FILLED", "PARTIAL"} => r.filled <= Unreported(Symbol[r.key])

Sound(w, label, r) ==
    /\ Own(w, label, r)
    /\ label \in Asking => r.before = Unknown
    /\ Covered(label, r)

ReportInv ==
    /\ NoPhantomFills
    /\ \A w \in Workers : Sound(w, pc[w], loc[w])

LEMMA ReportInit == Init => ReportInv
BY DEF Init, ReportInv, NoPhantomFills, Sound, Own, Covered, Asking

\* A step of a thread that leaves shares and orders alone.
LEMMA MoveReports ==
    ASSUME TypeInv, ReportInv, NEW w \in Workers, NEW r, NEW l, Move(w, r, l), Sound(w, l, r),
           UNCHANGED <<ord, hold, bought, reported>>
    PROVE  ReportInv'
<1>1. /\ pc'[w] = l /\ loc'[w] = r
      /\ \A v \in Workers \ {w} : pc'[v] = pc[v] /\ loc'[v] = loc[v]
  BY DEF Move, TypeInv, TypeOK
<1>2. ASSUME NEW v \in Workers PROVE Sound(v, pc[v], loc[v])'
  <2>1. CASE v = w
    BY <1>1, <2>1 DEF Sound, Own, Covered, Unreported, Ordered
  <2>2. CASE v # w
    BY <1>1, <2>2 DEF ReportInv, Sound, Own, Covered, Unreported, Ordered
  <2>3. QED
    BY <2>1, <2>2
<1>3. NoPhantomFills'
  BY DEF ReportInv, NoPhantomFills
<1>4. QED
  BY <1>2, <1>3 DEF ReportInv

\* A result leaves the rest of the locals alone.
LEMMA SettledLocals ==
    ASSUME TypeInv, NEW w \in Workers, NEW st, NEW n
    PROVE  LET r == [loc[w] EXCEPT !.status = st, !.filled = n]
           IN  /\ r.key = loc[w].key /\ r.why = loc[w].why /\ r.before = loc[w].before
               /\ r.order = loc[w].order /\ r.status = st /\ r.filled = n
BY DEF TypeInv, TypeOK, Locals

\* A settled result that the shares cover.
LEMMA SettlingReports ==
    ASSUME TypeInv, ReportInv, NEW w \in Workers, NEW st, NEW n, NEW l, Settling(w, st, n, l),
           pc[w] # "idle", pc[w] \notin {"query", "cache"},
           l \notin {"idle", "wait"} \cup Asking, st # "SUBMITTED",
           l = "cancel" => pc[w] = "wait",
           st \in {"FILLED", "PARTIAL"} /\ Buys(w) => n <= Unreported(S(w)),
           UNCHANGED <<ord, hold, bought, reported>>
    PROVE  ReportInv'
<1> DEFINE r == [loc[w] EXCEPT !.status = st, !.filled = n]
<1>1. /\ r.key = loc[w].key /\ r.why = loc[w].why /\ r.before = loc[w].before
      /\ r.order = loc[w].order /\ r.status = st /\ r.filled = n
  BY SettledLocals
<1>2. Move(w, r, l)
  BY DEF Settling
<1> HIDE DEF r
<1>3. Sound(w, pc[w], loc[w])
  BY DEF ReportInv
<1>4. Own(w, l, r) /\ (l \in Asking => r.before = Unknown)
  BY <1>1, <1>3 DEF Sound, Own, Asking
<1>5. ASSUME r.key \in BuyKeys, r.before # Unknown
      PROVE  hold[Symbol[r.key]] - r.before <= Unreported(Symbol[r.key])
  BY <1>1, <1>3, <1>5 DEF Sound, Covered, Asking
<1>6. ASSUME r.key \in BuyKeys, Ordered(l, r)
      PROVE  /\ ord[r.order].st # "none" /\ ord[r.order].key = r.key
             /\ ord[r.order].filled <= Unreported(Symbol[r.key])
  BY <1>1, <1>3, <1>6 DEF Sound, Covered, Ordered, Asking
<1>7. ASSUME r.key \in BuyKeys, r.status \in {"FILLED", "PARTIAL"}
      PROVE  r.filled <= Unreported(Symbol[r.key])
  BY <1>1, <1>7 DEF Buys, K, S
<1>8. Sound(w, l, r)
  BY <1>4, <1>5, <1>6, <1>7 DEF Sound, Covered
<1>9. QED
  BY <1>2, <1>8, MoveReports

\* A fresh view of the holdings shows no more shares gained than were bought.
LEMMA InferReports ==
    ASSUME ReportAssumed, TypeInv, ReportInv, NEW w \in Workers, pc[w] \in {"wait", "infer"},
           NEW view \in {hold, hcache}, ReadHoldings(view), InferFrom(w, view),
           UNCHANGED <<ord, hold, bought, reported>>
    PROVE  ReportInv'
<1>1. view = hold
  BY DEF ReadHoldings, ReportAssumed, Spared
<1>2. PICK st \in {"FILLED", "PARTIAL"} :
        Settling(w, st, Least(Moved(w, view), Qty), "publish") /\ loc[w].before # Unknown
  BY DEF InferFrom
<1>3. Sound(w, pc[w], loc[w])
  BY DEF ReportInv
<1>4. ASSUME Buys(w) PROVE Least(Moved(w, view), Qty) <= Unreported(S(w))
  <2>1. S(w) \in Symbols
    BY SymbolsOK
  <2>2. hold[S(w)] - loc[w].before <= Unreported(S(w))
    BY <1>2, <1>3, <1>4 DEF Sound, Covered, Asking, Buys, K, S
  <2>3. Moved(w, view) = hold[S(w)] - loc[w].before
    BY <1>1, <1>4 DEF Moved
  <2>4. hold[S(w)] \in Int /\ loc[w].before \in Int /\ Unreported(S(w)) \in Int
    BY <2>1 DEF TypeInv, TypeOK, Locals, Unreported
  <2>5. QED
    BY <2>2, <2>3, <2>4, NumbersAssumption DEF Least
<1>5. QED
  BY <1>2, <1>4, SettlingReports DEF Asking

\* Looking for a fill, whichever way it ends.
LEMMA LookForFillReports ==
    ASSUME ReportAssumed, TypeInv, ReportInv, NEW w \in Workers, pc[w] \in {"wait", "infer"},
           NEW r, NEW l, LookForFill(w, Move(w, r, l)), Sound(w, l, r),
           UNCHANGED <<ord, hold, bought, reported>>
    PROVE  ReportInv'
<1>1. CASE Move(w, r, l)
  BY <1>1, MoveReports
<1>2. CASE \E view \in {hold, hcache} : ReadHoldings(view) /\ InferFrom(w, view)
  BY <1>2, InferReports
<1>3. QED
  BY <1>1, <1>2 DEF LookForFill

\* A wait that times out has nothing to report.
LEMMA TimesOutSound ==
    ASSUME TypeInv, ReportInv, NEW w \in Workers, pc[w] = "wait",
           NEW l \in {"infer", "publish"}
    PROVE  Sound(w, l, [loc[w] EXCEPT !.status = "CANCELLED", !.filled = loc[w].seen])
<1> DEFINE r == [loc[w] EXCEPT !.status = "CANCELLED", !.filled = loc[w].seen]
<1>1. /\ r.key = loc[w].key /\ r.why = loc[w].why /\ r.before = loc[w].before
      /\ r.status = "CANCELLED"
  BY SettledLocals
<1> HIDE DEF r
<1>2. Sound(w, pc[w], loc[w])
  BY DEF ReportInv
<1>3. Sound(w, l, r)
  BY <1>1, <1>2 DEF Sound, Own, Covered, Ordered, Asking
<1>4. QED
  BY <1>3 DEF r

\* The write of a row, and with it the report.
LEMMA PersistReports ==
    ASSUME ReportAssumed, TypeInv, ReportInv, NEW w \in Workers, Persist(w)
    PROVE  ReportInv'
<1> DEFINE r == loc[w]
           reports == Buys(w) /\ r.status \in {"FILLED", "PARTIAL"}
<1>1. /\ pc[w] = "persist" /\ UNCHANGED <<ord, hold, bought>>
      /\ K(w) \in Keys /\ S(w) \in Symbols /\ r.filled \in Int
  BY SymbolsOK DEF Persist, broker, TypeInv, TypeOK, Locals
<1>2. /\ loc' = loc /\ pc'[w] = AfterPersist(r.status)
      /\ \A v \in Workers \ {w} : pc'[v] = pc[v]
  BY DEF Persist, Goto, Move, TypeInv, TypeOK
<1>3. /\ reports => reported'[S(w)] = reported[S(w)] + r.filled
      /\ \A s \in Symbols : s # S(w) \/ ~reports => reported'[s] = reported[s]
  BY <1>1 DEF Persist, TypeInv, TypeOK
<1>4. /\ bought \in [Symbols -> Nat] /\ reported \in [Symbols -> Int]
      /\ reported' \in [Symbols -> Int]
  BY <1>1 DEF Persist, TypeInv, TypeOK
<1>5. \A v \in Workers : Sound(v, pc[v], loc[v])
  BY DEF ReportInv
<1>6. reports => r.filled <= Unreported(S(w))
  BY <1>1, <1>5 DEF Sound, Covered, Asking, Buys, K, S
<1>7. NoPhantomFills'
  <2>1. ASSUME NEW s \in Symbols PROVE reported'[s] <= bought[s]
    <3>1. bought[s] \in Int /\ reported[s] \in Int
      BY <1>4
    <3>2. CASE reports /\ s = S(w)
      BY <1>1, <1>3, <1>6, <3>1, <3>2 DEF Unreported
    <3>3. CASE ~(reports /\ s = S(w))
      BY <1>3, <3>3 DEF ReportInv, NoPhantomFills
    <3>4. QED
      BY <3>2, <3>3
  <2>2. QED
    BY <1>1, <2>1 DEF NoPhantomFills
<1>8. ASSUME NEW v \in Workers PROVE Sound(v, pc[v], loc[v])'
  <2>1. CASE v # w
    <3>1. pc'[v] = pc[v] /\ loc'[v] = loc[v] /\ Sound(v, pc[v], loc[v])
      BY <1>2, <1>5, <2>1
    <3>2. CASE pc[v] \notin {"idle"} \cup Asking /\ K(v) \in BuyKeys
      <4>1. K(v) \in Keys /\ S(v) \in Symbols /\ Owner[K(v)] = v /\ Owner[K(w)] = w
        BY <1>1, <1>5, <3>1, <3>2, SymbolsOK DEF Sound, Own, Asking, K
      <4>2. reports => S(v) # S(w)
        BY <2>1, <3>2, <4>1 DEF ReportAssumed, OneBuyerPerSymbol, Buys, S
      <4>3. reported'[S(v)] = reported[S(v)]
        BY <1>3, <4>1, <4>2
      <4>4. QED
        BY <1>1, <3>1, <4>3 DEF Sound, Own, Covered, Ordered, Unreported, K, S
    <3>3. CASE pc[v] \in {"idle"} \cup Asking \/ K(v) \notin BuyKeys
      BY <3>1, <3>3 DEF Sound, Own, Covered, K
    <3>4. QED
      BY <3>2, <3>3
  <2>2. CASE v = w /\ AfterPersist(r.status) = "idle"
    BY <1>2, <2>2 DEF Sound, Own, Covered, Asking
  <2>3. CASE v = w /\ AfterPersist(r.status) # "idle"
    <3>1. \/ r.status = "PENDING" /\ pc'[w] = "snapshot"
          \/ r.status = "SUBMITTED" /\ pc'[w] = "wait"
      BY <1>2, <2>3 DEF AfterPersist
    <3>2. \A s \in Symbols : reported'[s] = reported[s]
      BY <1>3, <3>1
    <3>3. reported' = reported
      BY <1>4, <3>2
    <3>4. QED
      BY <1>1, <1>2, <1>5, <2>3, <3>1, <3>3 DEF Sound, Own, Covered, Ordered, Unreported, Asking
  <2>4. QED
    BY <2>1, <2>2, <2>3
<1>9. QED
  BY <1>7, <1>8 DEF ReportInv

\* The order goes out; the number it gets is new, so nobody waits for it.
LEMMA PlaceReports ==
    ASSUME TypeInv, ReportInv, NEW w \in Workers, Place(w)
    PROVE  ReportInv'
<1>1. pc[w] = "place" /\ UNCHANGED <<hold, bought, reported>>
  BY DEF Place
<1>2. CASE Settling(w, "FAILED", 0, "publish") /\ UNCHANGED ord
  BY <1>1, <1>2, SettlingReports DEF Asking
<1>3. ASSUME NEW o \in Orders, BrokerTakes(w, o), NEW r, Move(w, r, "publish"),
             r.key = K(w), r.why = loc[w].why, r.before = loc[w].before,
             \/ r.status = "SUBMITTED" /\ r.order = o
             \/ r.status = "FAILED"
      PROVE  ReportInv'
  <2>1. /\ ord[o].st = "none" /\ ord'[o].st = "live" /\ ord'[o].key = K(w) /\ ord'[o].filled = 0
        /\ \A p : p # o => ord'[p] = ord[p]
    BY <1>3 DEF BrokerTakes, TypeInv, TypeOK
  <2>2. /\ pc'[w] = "publish" /\ loc'[w] = r
        /\ \A v \in Workers \ {w} : pc'[v] = pc[v] /\ loc'[v] = loc[v]
    BY <1>3 DEF Move, TypeInv, TypeOK
  <2>3. \A v \in Workers : Sound(v, pc[v], loc[v])
    BY DEF ReportInv
  <2>4. 0 <= Unreported(S(w))
    BY <1>1, SymbolsOK DEF ReportInv, NoPhantomFills, Unreported, TypeInv, TypeOK
  <2>5. ASSUME NEW v \in Workers, v # w PROVE Sound(v, pc[v], loc[v])'
    <3>1. Sound(v, pc[v], loc[v]) /\ pc'[v] = pc[v] /\ loc'[v] = loc[v]
      BY <2>2, <2>3, <2>5
    <3>2. Ordered(pc[v], loc[v]) /\ loc[v].key \in BuyKeys => loc[v].order # o
      BY <2>1, <3>1 DEF Sound, Covered, Ordered, Asking
    <3>3. QED
      BY <1>1, <2>1, <3>1, <3>2 DEF Sound, Own, Covered, Ordered, Unreported
  <2>6. Sound(w, "publish", r)'
    <3>1. Sound(w, pc[w], loc[w])
      BY <2>3
    <3>2. Own(w, "publish", r) /\ "publish" \notin Asking
      BY <1>1, <1>3, <3>1 DEF Sound, Own, Asking, K
    <3>3. r.key \in BuyKeys /\ r.before # Unknown
            => hold[Symbol[r.key]] - r.before <= Unreported(Symbol[r.key])
      BY <1>1, <1>3, <3>1 DEF Sound, Covered, Asking, K
    <3>4. Ordered("publish", r) => r.order = o
      BY <1>3 DEF Ordered
    <3>5. QED
      BY <1>1, <1>3, <2>1, <2>4, <3>2, <3>3, <3>4 DEF Sound, Own, Covered, Unreported, S
  <2>7. NoPhantomFills'
    BY <1>1 DEF ReportInv, NoPhantomFills
  <2>8. QED
    BY <2>2, <2>5, <2>6, <2>7 DEF ReportInv
<1>4. ASSUME NEW o \in Orders, BrokerTakes(w, o),
             Move(w, [loc[w] EXCEPT !.order = o, !.status = "SUBMITTED"], "publish")
      PROVE  ReportInv'
  <2> DEFINE r == [loc[w] EXCEPT !.order = o, !.status = "SUBMITTED"]
  <2>1. /\ r.key = K(w) /\ r.why = loc[w].why /\ r.before = loc[w].before
        /\ r.status = "SUBMITTED" /\ r.order = o
    BY DEF TypeInv, TypeOK, Locals, K
  <2>2. Move(w, r, "publish")
    BY <1>4
  <2> HIDE DEF r
  <2>3. QED
    BY <1>3, <1>4, <2>1, <2>2
<1>5. ASSUME NEW o \in Orders, BrokerTakes(w, o), Settling(w, "FAILED", 0, "publish")
      PROVE  ReportInv'
  <2> DEFINE r == [loc[w] EXCEPT !.status = "FAILED", !.filled = 0]
  <2>1. /\ r.key = K(w) /\ r.why = loc[w].why /\ r.before = loc[w].before /\ r.status = "FAILED"
    BY SettledLocals DEF K
  <2>2. Move(w, r, "publish")
    BY <1>5 DEF Settling
  <2> HIDE DEF r
  <2>3. QED
    BY <1>3, <1>5, <2>1, <2>2
<1>6. QED
  BY <1>2, <1>4, <1>5 DEF Place

\* Cancelling changes neither what was executed nor whose order it is.
LEMMA CancelReports ==
    ASSUME TypeInv, ReportInv, NEW w \in Workers, Cancel(w)
    PROVE  ReportInv'
<1> DEFINE o == loc[w].order
<1>1. pc[w] = "cancel" /\ UNCHANGED <<hold, bought, reported>> /\ o \in Orders
      /\ loc[w].status \in {"PARTIAL", "CANCELLED"}
  BY DEF Cancel, TypeInv, AllFit, Fits
<1>2. PICK st \in {"dead", ord[o].st} :
        ord' = [ord EXCEPT ![o] = [@ EXCEPT !.cancel = "tried", !.st = st]]
  BY DEF Cancel
<1>3. \A p \in Orders : /\ ord'[p].key = ord[p].key /\ ord'[p].filled = ord[p].filled
                        /\ ord[p].st # "none" => ord'[p].st # "none"
  <2>1. ord \in [Orders -> OrderRecord]
    BY DEF TypeInv, TypeOK
  <2>2. /\ [ord[o] EXCEPT !.cancel = "tried", !.st = st].key = ord[o].key
        /\ [ord[o] EXCEPT !.cancel = "tried", !.st = st].filled = ord[o].filled
        /\ [ord[o] EXCEPT !.cancel = "tried", !.st = st].st = st
    BY <1>1, <2>1 DEF OrderRecord
  <2>3. QED
    BY <1>1, <1>2, <2>1, <2>2
<1>4. PICK r, l :
        /\ l \in {"infer", "publish"} /\ Move(w, r, l)
        /\ r.key = K(w) /\ r.why = loc[w].why /\ r.before = loc[w].before
        /\ \/ r.status = "CANCELLED"
           \/ r.status = loc[w].status /\ r.filled = loc[w].filled
  <2>1. CASE Goto(w, IF Buys(w) /\ loc[w].status = "CANCELLED" THEN "infer" ELSE "publish")
    BY <2>1 DEF Goto, K
  <2>2. CASE TimesOut(w)
    <3> DEFINE q == [loc[w] EXCEPT !.status = "CANCELLED", !.filled = loc[w].seen]
    <3>1. /\ q.key = loc[w].key /\ q.why = loc[w].why /\ q.before = loc[w].before
          /\ q.status = "CANCELLED"
      BY SettledLocals
    <3>2. Move(w, q, IF Buys(w) THEN "infer" ELSE "publish")
      BY <2>2 DEF TimesOut, Settling
    <3> HIDE DEF q
    <3>3. QED
      BY <3>1, <3>2 DEF K
  <2>3. QED
    BY <2>1, <2>2 DEF Cancel
<1>5. /\ pc'[w] = l /\ loc'[w] = r
      /\ \A v \in Workers \ {w} : pc'[v] = pc[v] /\ loc'[v] = loc[v]
  BY <1>4 DEF Move, TypeInv, TypeOK
<1>6. \A v \in Workers : Sound(v, pc[v], loc[v])
  BY DEF ReportInv
<1>7. ASSUME NEW v \in Workers, v # w PROVE Sound(v, pc[v], loc[v])'
  <2>1. Sound(v, pc[v], loc[v]) /\ pc'[v] = pc[v] /\ loc'[v] = loc[v]
    BY <1>5, <1>6, <1>7
  <2>2. Ordered(pc[v], loc[v]) => loc[v].order \in Orders
    BY DEF Ordered, TypeInv, AllFit, Fits
  <2>3. QED
    BY <1>1, <1>3, <2>1, <2>2 DEF Sound, Own, Covered, Ordered, Unreported
<1>8. Sound(w, l, r)'
  <2>1. Sound(w, pc[w], loc[w])
    BY <1>6
  <2>2. Own(w, l, r) /\ l \notin Asking /\ ~Ordered(l, r)
    BY <1>1, <1>4, <2>1 DEF Sound, Own, Asking, Ordered, K
  <2>3. QED
    BY <1>1, <1>4, <2>1, <2>2 DEF Sound, Own, Covered, Unreported, Asking, Ordered, K
<1>9. NoPhantomFills'
  BY <1>1 DEF ReportInv, NoPhantomFills
<1>10. QED
  BY <1>5, <1>7, <1>8, <1>9 DEF ReportInv

\* What the broker executes of a BUY is bought, and is in the account.
LEMMA FillReports ==
    ASSUME TypeInv, ReportInv, NEW o \in Orders, Fill(o)
    PROVE  ReportInv'
<1> DEFINE s == Symbol[ord[o].key]
           buy == ord[o].key \in BuyKeys
<1>1. UNCHANGED <<pc, loc, reported>>
  BY DEF Fill
<1>2. PICK n \in 1..(Qty - ord[o].filled) :
        /\ ord' = [ord EXCEPT ![o] =
                     [@ EXCEPT !.filled = ord[o].filled + n,
                               !.st = IF ord[o].filled + n = Qty THEN "dead" ELSE "live"]]
        /\ hold' = [hold EXCEPT ![s] = IF buy THEN @ + n ELSE @ - n]
        /\ bought' = [bought EXCEPT ![s] = IF buy THEN @ + n ELSE @]
  BY DEF Fill
<1>3. ord[o] \in OrderRecord /\ ord[o].filled \in Nat /\ n \in Nat
  <2>1. ord[o] \in OrderRecord
    BY DEF TypeInv, TypeOK
  <2>2. QED
    BY <2>1, NumbersAssumption DEF OrderRecord
<1>4. /\ ord'[o].key = ord[o].key /\ ord'[o].filled = ord[o].filled + n /\ ord'[o].st # "none"
      /\ \A p \in Orders : p # o => ord'[p] = ord[p]
  BY <1>2, <1>3 DEF OrderRecord, TypeInv, TypeOK
<1>5. ASSUME NEW t \in Symbols
      PROVE  /\ bought'[t] >= bought[t] /\ hold'[t] - hold[t] <= bought'[t] - bought[t]
             /\ buy /\ s = t => bought'[t] = bought[t] + n
             /\ bought'[t] \in Int /\ hold'[t] \in Int
  <2>1. bought \in [Symbols -> Nat] /\ hold \in [Symbols -> Nat]
    BY DEF TypeInv, TypeOK
  <2>2. bought[t] \in Nat /\ hold[t] \in Nat
    BY <2>1
  <2>3. /\ bought'[t] = IF s = t /\ buy THEN bought[t] + n ELSE bought[t]
        /\ hold'[t] = IF s = t THEN IF buy THEN hold[t] + n ELSE hold[t] - n ELSE hold[t]
    BY <1>2, <2>1
  <2>4. QED
    BY <1>3, <2>2, <2>3
<1>6. ASSUME NEW t \in Symbols, NEW x \in Int
      PROVE  /\ x <= Unreported(t) => x <= bought'[t] - reported[t]
             /\ buy /\ s = t /\ x <= Unreported(t) => x + n <= bought'[t] - reported[t]
             /\ hold[t] - x <= Unreported(t) => hold'[t] - x <= bought'[t] - reported[t]
  <2>1. bought[t] \in Int /\ reported[t] \in Int /\ hold[t] \in Int
    BY DEF TypeInv, TypeOK
  <2>2. QED
    BY <1>3, <1>5, <2>1 DEF Unreported
<1>7. NoPhantomFills'
  <2>1. ASSUME NEW t \in Symbols PROVE reported[t] <= bought'[t]
    <3>1. bought[t] \in Int /\ reported[t] \in Int /\ reported[t] <= bought[t]
      BY DEF TypeInv, TypeOK, ReportInv, NoPhantomFills
    <3>2. QED
      BY <1>5, <3>1
  <2>2. QED
    BY <1>1, <2>1 DEF NoPhantomFills
<1>8. ASSUME NEW v \in Workers PROVE Sound(v, pc[v], loc[v])'
  <2> DEFINE l == pc[v]
             r == loc[v]
  <2>1. Sound(v, l, r) /\ r \in Locals
    BY DEF ReportInv, TypeInv, TypeOK
  <2>2. r.before \in Int /\ r.filled \in Int
    BY <2>1 DEF Locals
  <2>3. ASSUME l \notin {"idle"} \cup Asking, r.key \in BuyKeys
        PROVE  Covered(l, r)'
    <3>1. Symbol[r.key] \in Symbols /\ Covered(l, r)
      BY <2>1, <2>3, KeysAssumption DEF Sound
    <3>2. r.before # Unknown => (hold[Symbol[r.key]] - r.before <= Unreported(Symbol[r.key]))'
      BY <1>1, <1>6, <2>2, <2>3, <3>1 DEF Covered, Unreported
    <3>3. r.status \in {"FILLED", "PARTIAL"} => (r.filled <= Unreported(Symbol[r.key]))'
      BY <1>1, <1>6, <2>2, <2>3, <3>1 DEF Covered, Unreported
    <3>4. ASSUME Ordered(l, r)
          PROVE  /\ ord'[r.order].st # "none" /\ ord'[r.order].key = r.key
                 /\ (ord[r.order].filled <= Unreported(Symbol[r.key]))'
      <4>1. /\ ord[r.order].st # "none" /\ ord[r.order].key = r.key /\ r.order \in Orders
            /\ ord[r.order].filled <= Unreported(Symbol[r.key])
        BY <2>3, <3>1, <3>4 DEF Covered, Ordered, TypeInv, AllFit, Fits
      <4>2. ord[r.order].filled \in Int
        BY <4>1 DEF TypeInv, TypeOK, OrderRecord
      <4>3. CASE r.order = o
        BY <1>1, <1>4, <1>6, <2>3, <3>1, <4>1, <4>2, <4>3 DEF Unreported
      <4>4. CASE r.order # o
        BY <1>1, <1>4, <1>6, <3>1, <4>1, <4>2, <4>4 DEF Unreported
      <4>5. QED
        BY <4>3, <4>4
    <3>5. QED
      BY <1>1, <3>2, <3>3, <3>4 DEF Covered, Ordered
  <2>4. QED
    BY <1>1, <2>1, <2>3 DEF Sound, Own, Covered
<1>9. QED
  BY <1>1, <1>7, <1>8 DEF ReportInv

LEMMA ReportStep == ReportAssumed /\ TypeInv /\ ReportInv /\ [Next]_vars => ReportInv'
<1> SUFFICES ASSUME ReportAssumed, TypeInv, ReportInv, [Next]_vars PROVE ReportInv'
  OBVIOUS
<1>0. \A w \in Workers : Sound(w, pc[w], loc[w])
  BY DEF ReportInv
<1>1. ASSUME NEW w \in Workers, NEW k \in Keys, StartBuy(w, k) \/ StartProbe(w, k) \/ StartSell(w, k)
      PROVE  ReportInv'
  <2>1. PICK why \in {"order", "probe"}, l \in {"query", "lookup"} :
          Begin(w, k, why, l) /\ (why = "order" => Owner[k] = w) /\ (l = "lookup" => why = "order")
    BY <1>1 DEF StartBuy, StartProbe, StartSell
  <2> DEFINE r == [NoLocals(k) EXCEPT !.why = why]
  <2>2. r.key = k /\ r.why = why /\ r.before = Unknown
    BY DEF NoLocals
  <2>3. Move(w, r, l) /\ UNCHANGED <<ord, hold, bought, reported>>
    BY <2>1 DEF Begin, broker
  <2> HIDE DEF r
  <2>4. Sound(w, l, r)
    BY <2>1, <2>2 DEF Sound, Own, Covered, Asking
  <2>5. QED
    BY <2>3, <2>4, MoveReports
<1>2. ASSUME NEW w \in Workers, GuardSelect(w) PROVE ReportInv'
  <2>1. PICK answer \in GuardState : Move(w, [loc[w] EXCEPT !.answer = answer], "cache")
    BY <1>2 DEF GuardSelect
  <2> DEFINE r == [loc[w] EXCEPT !.answer = answer]
  <2>2. r.key = loc[w].key /\ r.why = loc[w].why /\ r.before = loc[w].before
    BY DEF TypeInv, TypeOK, Locals
  <2>3. pc[w] = "query" /\ Move(w, r, "cache") /\ UNCHANGED <<ord, hold, bought, reported>>
    BY <1>2, <2>1 DEF GuardSelect, broker
  <2> HIDE DEF r
  <2>4. Sound(w, "cache", r)
    BY <1>0, <2>2, <2>3 DEF Sound, Own, Covered, Asking
  <2>5. QED
    BY <2>3, <2>4, MoveReports
<1>3. ASSUME NEW w \in Workers, GuardCache(w) PROVE ReportInv'
  <2>1. PICK l \in {"idle", "lookup"} : /\ Move(w, loc[w], l)
                                        /\ l = "lookup" => loc[w].why # "probe"
    BY <1>3 DEF GuardCache, Goto
  <2>2. pc[w] = "cache" /\ loc[w].why \in {"order", "probe"}
        /\ UNCHANGED <<ord, hold, bought, reported>>
    BY <1>3 DEF GuardCache, broker, TypeInv, TypeOK, Locals
  <2>3. Sound(w, l, loc[w])
    BY <1>0, <2>1, <2>2 DEF Sound, Own, Covered, Asking
  <2>4. QED
    BY <2>1, <2>2, <2>3, MoveReports
<1>4. ASSUME NEW w \in Workers, NEW r, Move(w, r, "idle"), UNCHANGED <<ord, hold, bought, reported>>
      PROVE  ReportInv'
  <2>1. Sound(w, "idle", r)
    BY DEF Sound, Own, Covered, Asking
  <2>2. QED
    BY <1>4, <2>1, MoveReports
<1>5. ASSUME NEW w \in Workers, Lookup(w) PROVE ReportInv'
  <2>1. pc[w] = "lookup" /\ UNCHANGED <<ord, hold, bought, reported>>
    BY <1>5 DEF Lookup, broker
  <2>2. CASE Goto(w, "idle")
    BY <1>4, <2>1, <2>2 DEF Goto
  <2>3. CASE Settling(w, "PENDING", 0, "publish")
    <3> DEFINE r == [loc[w] EXCEPT !.status = "PENDING", !.filled = 0]
    <3>1. r.key = loc[w].key /\ r.why = loc[w].why /\ r.before = loc[w].before /\ r.status = "PENDING"
      BY SettledLocals
    <3>2. Move(w, r, "publish")
      BY <2>3 DEF Settling
    <3> HIDE DEF r
    <3>3. Sound(w, "publish", r)
      BY <1>0, <2>1, <3>1 DEF Sound, Own, Covered, Ordered, Asking
    <3>4. QED
      BY <2>1, <3>2, <3>3, MoveReports
  <2>4. QED
    BY <1>5, <2>2, <2>3 DEF Lookup
<1>6. ASSUME NEW w \in Workers, Publish(w) PROVE ReportInv'
  <2>1. pc[w] = "publish" /\ Move(w, loc[w], "persist") /\ UNCHANGED <<ord, hold, bought, reported>>
    BY <1>6 DEF Publish, Goto, broker
  <2>2. Sound(w, "persist", loc[w])
    BY <1>0, <2>1 DEF Sound, Own, Covered, Ordered, Asking
  <2>3. QED
    BY <2>1, <2>2, MoveReports
<1>7. ASSUME NEW w \in Workers, Snapshot(w) PROVE ReportInv'
  <2>1. pc[w] = "snapshot" /\ UNCHANGED <<ord, hold, bought, reported>>
    BY <1>7 DEF Snapshot, broker
  <2>2. CASE Goto(w, "place")
    <3>1. Sound(w, "place", loc[w])
      BY <1>0, <2>1 DEF Sound, Own, Covered, Ordered, Asking
    <3>2. QED
      BY <2>1, <2>2, <3>1, MoveReports DEF Goto
  <2>3. CASE Move(w, [loc[w] EXCEPT !.before = hold[S(w)]], "place")
    <3> DEFINE r == [loc[w] EXCEPT !.before = hold[S(w)]]
    <3>1. r.key = loc[w].key /\ r.why = loc[w].why /\ r.before = hold[S(w)]
          /\ r.status = loc[w].status /\ r.filled = loc[w].filled
      BY DEF TypeInv, TypeOK, Locals
    <3>2. Move(w, r, "place")
      BY <2>3
    <3> HIDE DEF r
    <3>3. S(w) \in Symbols
      BY <2>1, SymbolsOK
    <3>4. hold[S(w)] - hold[S(w)] <= Unreported(S(w))
      BY <3>3 DEF TypeInv, TypeOK, ReportInv, NoPhantomFills, Unreported
    <3>5. Sound(w, "place", r)
      BY <1>0, <2>1, <3>1, <3>4 DEF Sound, Own, Covered, Ordered, Asking, S, K
    <3>6. QED
      BY <2>1, <3>2, <3>5, MoveReports
  <2>4. QED
    BY <1>7, <2>2, <2>3 DEF Snapshot, ReadHoldings, ReportAssumed, Spared
<1>8. ASSUME NEW w \in Workers, pc[w] = "wait" PROVE Buys(w) => Executed(w) <= Unreported(S(w))
  BY <1>0, <1>8 DEF Sound, Covered, Ordered, Asking, Executed, Buys, S, K
<1>9. ASSUME NEW w \in Workers, PollFilled(w) PROVE ReportInv'
  <2>1. /\ pc[w] = "wait" /\ Settling(w, "FILLED", Executed(w), "publish")
        /\ UNCHANGED <<ord, hold, bought, reported>>
    BY <1>9 DEF PollFilled, broker
  <2>2. QED
    BY <1>8, <2>1, SettlingReports DEF Asking
<1>10. ASSUME NEW w \in Workers, FinalUnfilled(w) PROVE ReportInv'
  <2>1. PICK st \in {"PARTIAL", "CANCELLED"} : Settling(w, st, Executed(w), "cancel")
    BY <1>10 DEF FinalUnfilled
  <2>2. pc[w] = "wait" /\ UNCHANGED <<ord, hold, bought, reported>>
    BY <1>10 DEF FinalUnfilled, broker
  <2>3. QED
    BY <1>8, <2>1, <2>2, SettlingReports DEF Asking
<1>11. ASSUME NEW w \in Workers, PollPartial(w) PROVE ReportInv'
  <2> DEFINE r == [loc[w] EXCEPT !.seen = Executed(w)]
  <2>1. /\ r.key = loc[w].key /\ r.why = loc[w].why /\ r.before = loc[w].before
        /\ r.order = loc[w].order /\ r.status = loc[w].status /\ r.filled = loc[w].filled
    BY DEF TypeInv, TypeOK, Locals
  <2>2. pc[w] = "wait" /\ Move(w, r, "wait") /\ UNCHANGED <<ord, hold, bought, reported>>
    BY <1>11 DEF PollPartial, broker
  <2> HIDE DEF r
  <2>3. Sound(w, "wait", r)
    BY <1>0, <2>1, <2>2 DEF Sound, Own, Covered, Ordered, Asking
  <2>4. QED
    BY <2>2, <2>3, MoveReports
<1>12. ASSUME NEW w \in Workers, PollUnseen(w) PROVE ReportInv'
  <2>1. /\ pc[w] = "wait" /\ LookForFill(w, Move(w, loc[w], "wait"))
        /\ UNCHANGED <<ord, hold, bought, reported>>
    BY <1>12 DEF PollUnseen, Goto, broker
  <2>2. Sound(w, "wait", loc[w])
    BY <1>0, <2>1
  <2>3. QED
    BY <2>1, <2>2, LookForFillReports
<1>13. ASSUME NEW w \in Workers, FinalUnseen(w) PROVE ReportInv'
  <2> DEFINE r == [loc[w] EXCEPT !.status = "CANCELLED", !.filled = loc[w].seen]
             l == IF Buys(w) THEN "infer" ELSE "publish"
  <2>1. pc[w] = "wait" /\ UNCHANGED <<ord, hold, bought, reported>>
    BY <1>13 DEF FinalUnseen, broker
  <2>2. Sound(w, l, r)
    BY <2>1, TimesOutSound
  <2>3. LookForFill(w, Move(w, r, l)) \/ Move(w, r, l)
    BY <1>13 DEF FinalUnseen, TimesOut, Settling
  <2> HIDE DEF r, l
  <2>4. QED
    BY <2>1, <2>2, <2>3, LookForFillReports, MoveReports
<1>14. ASSUME NEW w \in Workers, WaitRaises(w) PROVE ReportInv'
  BY <1>4, <1>14 DEF WaitRaises, Goto, broker
<1>15. ASSUME NEW w \in Workers, Infer(w) PROVE ReportInv'
  <2>1. /\ pc[w] = "infer" /\ LookForFill(w, Move(w, loc[w], "publish"))
        /\ UNCHANGED <<ord, hold, bought, reported>>
    BY <1>15 DEF Infer, Goto, broker
  <2>2. loc[w].status \in {"PARTIAL", "CANCELLED"}
    BY <2>1 DEF TypeInv, AllFit, Fits
  <2>3. Sound(w, "publish", loc[w])
    BY <1>0, <2>1, <2>2 DEF Sound, Own, Covered, Ordered, Asking
  <2>4. QED
    BY <2>1, <2>3, LookForFillReports
<1>16. ASSUME NEW w \in Workers, Step(w) PROVE ReportInv'
  BY <1>2, <1>3, <1>5, <1>6, <1>7, <1>9, <1>10, <1>11, <1>12, <1>13, <1>14, <1>15, <1>16,
     PersistReports, PlaceReports, CancelReports DEF Step
<1>17. ASSUME UNCHANGED <<pc, loc, ord, hold, bought, reported>> PROVE ReportInv'
  BY <1>17 DEF ReportInv, NoPhantomFills, Sound, Own, Covered, Ordered, Unreported
<1>18. ASSUME NEW s \in Symbols, GuardExpire(s) PROVE ReportInv'
  BY <1>17, <1>18 DEF GuardExpire, broker
<1>19. ASSUME NEW k \in Keys, Grow(k) PROVE ReportInv'
  BY <1>17, <1>19 DEF Grow, broker
<1>20. CASE Crash
  <2>1. UNCHANGED <<bought, reported>> /\ \A w \in Workers : pc'[w] = "idle"
    BY <1>20 DEF Crash, broker
  <2>2. QED
    BY <2>1 DEF ReportInv, NoPhantomFills, Sound, Own, Covered, Asking
<1>21. CASE Recover
  BY <1>17, <1>21 DEF Recover, broker
<1>22. CASE UNCHANGED vars
  BY <1>17, <1>22 DEF vars
<1>23. QED
  BY <1>1, <1>16, <1>18, <1>19, <1>20, <1>21, <1>22, FillReports DEF Next

\* What BUY results report was bought, and is reported once, for any number of
\* threads, stocks, keys and orders, whatever the database, the broker's
\* answers, exceptions and crashes do, if one thread buys a stock and the
\* holdings it compares are those of the moment.
THEOREM NoFillIsInvented ==
    ASSUME OneBuyerPerSymbol, Spared({"stale_holdings"})
    PROVE  Spec => []NoPhantomFills
<1>1. ReportAssumed
  BY DEF ReportAssumed
<1>2. Init => TypeInv /\ ReportInv
  BY TypeInit, ReportInit
<1>3. TypeInv /\ ReportInv /\ [Next]_vars => (TypeInv /\ ReportInv)'
  BY <1>1, TypeStep, ReportStep
<1>4. ReportInv => NoPhantomFills
  BY DEF ReportInv
<1>5. QED
  BY <1>2, <1>3, <1>4, PTL DEF Spec
=============================================================================
