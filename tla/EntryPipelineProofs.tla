------------------------- MODULE EntryPipelineProofs -------------------------
(***************************************************************************)
(* Proofs about EntryPipeline, for every set of strategies, queue size,    *)
(* limit of the stock's intents and number of intents.                     *)
(***************************************************************************)
EXTENDS EntryPipeline, FiniteSetTheorems, TLAPS

\* A thread has an intent in its hands exactly while it works on one.
HandsInv ==
    /\ pc.timing \in {"askrows", "askpos", "put", "enqueue"} <=> offered # None
    /\ pc.worker \in {"loop", "get", "ended"} <=> taken = None

\* An intent under way is in one place only.
PlaceInv ==
    /\ pc.timing = "enqueue" => offered \notin queue /\ offered # taken
    /\ taken \notin queue

KeysInv == IsFiniteSet(active) /\ PlaceInv /\ KeysMatch

\* Who is inside execute_buy is there alone, with no shares, and sends only
\* when no BUY row is left.
InsideInv ==
    ~crossed =>
        /\ ~Crosses(pc)
        /\ \A b \in Buyers :
              /\ Inside(pc[b]) => ~pos
              /\ pc[b] = "send" => rows = {}
              /\ pc[b] = "wait" => rows = {b}

USE NumbersAssumption, NoneAssumption

\* No thread has an intent when the pipeline starts.
LEMMA InitTypes == Init => TypeOK /\ HandsInv
<1> SUFFICES ASSUME Init
             PROVE  TypeOK /\ HandsInv
    OBVIOUS
<1>1. pc \in PC
    BY DEF Init, PC
<1>2. HandsInv
    BY DEF Init, HandsInv
<1>3. pos \in BOOLEAN /\ stop \in BOOLEAN /\ crossed \in BOOLEAN
    BY DEF Init
<1> QED
    BY <1>1, <1>2, <1>3 DEF Init, TypeOK

\* Each step keeps the types, and hands an intent on with the work on it.
LEMMA StepTypes ==
    ASSUME TypeOK, HandsInv, [Next]_vars
    PROVE  TypeOK' /\ HandsInv'
<1> USE DEF TypeOK, HandsInv, PC, Go, intents, buffer, trade
<1>1. ASSUME NEW t \in Tags, Watch(t)
      PROVE  TypeOK' /\ HandsInv'
    <2>1. [id |-> made + 1, tag |-> t] \in Intent
        BY DEF Intent
    <2> QED
        BY <1>1, <2>1 DEF Watch
<1>2. CASE Look
    BY <1>2 DEF Look
<1>3. CASE Reserve
    <2>1. offered \in Intent
        BY <1>3 DEF Reserve
    <2> QED
        BY <1>3, <2>1 DEF Reserve, Key, Intent
<1>4. CASE Enqueue
    <2>1. offered \in Intent /\ Fewer \in Nat
        BY <1>4 DEF Enqueue, Fewer
    <2> QED
        BY <1>4, <2>1 DEF Enqueue
<1>5. CASE TimingEnds
    BY <1>5 DEF TimingEnds
<1>6. CASE TimingFails
    BY <1>6 DEF TimingFails
<1>7. CASE Loop
    BY <1>7 DEF Loop
<1>8. CASE Get
    BY <1>8 DEF Get
<1>9. CASE Check
    BY <1>9 DEF Check
<1>10. CASE Dispatch
    BY <1>10 DEF Dispatch
<1>11. CASE Complete
    <2>1. taken \in Intent /\ Fewer \in Nat
        BY <1>11 DEF Complete, Fewer
    <2> QED
        BY <1>11, <2>1 DEF Complete, Release
<1>12. CASE WorkerFails
    BY <1>12 DEF WorkerFails
<1>13. ASSUME NEW b \in Buyers, BuyStep(b)
       PROVE  TypeOK' /\ HandsInv'
    <2>1. /\ pc' \in PC
          /\ HandsInv'
        <3>1. CASE b = "worker"
            BY <1>13, <3>1 DEF BuyStep, Buy, Guard, Send, Result, Leave
        <3>2. CASE b = "main"
            BY <1>13, <3>2 DEF BuyStep, Buy, Guard, Send, Result, Leave
        <3> QED
            BY <3>1, <3>2 DEF Buyers
    <2>2. crossed' \in BOOLEAN
        BY <1>13 DEF BuyStep, Buy, Guard, Send, Result, Leave
    <2> QED
        BY <1>13, <2>1, <2>2 DEF BuyStep, Buy, Guard, Send, Result, Leave
<1>14. CASE MainBuys
    BY <1>14 DEF MainBuys
<1>15. CASE MainSells
    BY <1>15 DEF MainSells
<1>16. CASE SetEntryControl
    BY <1>16 DEF SetEntryControl
<1>17. CASE StopPipeline
    BY <1>17 DEF StopPipeline
<1>18. CASE UNCHANGED vars
    BY <1>18 DEF vars
<1> QED
    BY <1>1, <1>2, <1>3, <1>4, <1>5, <1>6, <1>7, <1>8, <1>9, <1>10, <1>11,
       <1>12, <1>13, <1>14, <1>15, <1>16, <1>17, <1>18
       DEF Next, TimingStep, WorkerStep

\* The pipeline keeps its types, whatever its threads do.
THEOREM TypesHold == Spec => []TypeOK
<1> QED
    BY InitTypes, StepTypes, PTL DEF Spec

\* What a step that leaves the intents and the keys alone does to them.
LEMMA KeysStay ==
    ASSUME KeysInv, UnderWay' = UnderWay, PlaceInv', UNCHANGED <<active, count>>
    PROVE  KeysInv'
    BY DEF KeysInv, KeysMatch

\* An intent that leaves takes its key and one of the count with it.
LEMMA KeyLeaves ==
    ASSUME TypeOK, KeysInv, PlaceInv', NEW i \in UnderWay,
           UnderWay' = UnderWay \ {i},
           active' = active \ {i.tag}, count' = Fewer
    PROVE  KeysInv'
<1> USE DEF KeysInv, KeysMatch
<1>1. i.tag \in active
    OBVIOUS
<1>2. active' = {j.tag : j \in UnderWay'}
    OBVIOUS
<1>3. \A j, k \in UnderWay' : j.tag = k.tag => j = k
    OBVIOUS
<1>4. IsFiniteSet(active') /\ Cardinality(active') = Cardinality(active) - 1
    BY <1>1, FS_RemoveElement
<1>5. count' = Cardinality(active') /\ count' <= count
    BY <1>4, FS_CardinalityType DEF TypeOK, Fewer
<1> QED
    BY <1>2, <1>3, <1>4, <1>5 DEF TypeOK

\* Only Reserve, a full queue and Complete change the keys, each with an intent.
LEMMA StepKeys ==
    ASSUME TypeOK, HandsInv, KeysInv, [Next]_vars
    PROVE  KeysInv'
<1> USE DEF TypeOK, PC, Go, HandsInv, intents, buffer, trade
<1> USE DEF Reserved, Working, UnderWay
<1>1. ASSUME NEW t \in Tags, Watch(t)
      PROVE  KeysInv'
    BY <1>1, KeysStay DEF Watch, KeysInv, PlaceInv
<1>2. CASE Look
    BY <1>2, KeysStay DEF Look, KeysInv, PlaceInv
<1>3. CASE Reserve
    <2>1. CASE Refuses
        BY <1>3, <2>1, KeysStay DEF Reserve, KeysInv, PlaceInv
    <2>2. CASE ~Refuses
        <3>1. offered \in Intent /\ offered.tag \notin active
            BY <1>3, <2>2 DEF Reserve, Refuses, Key
        <3>2. offered \notin UnderWay
            BY <3>1 DEF KeysInv, KeysMatch
        <3>3. /\ pc'.timing = "enqueue" /\ pc.timing = "put"
              /\ UNCHANGED <<offered, taken, queue>>
              /\ active' = active \cup {offered.tag} /\ count' = count + 1
            BY <1>3, <2>2 DEF Reserve, Key
        <3>4. UnderWay' = UnderWay \cup {offered}
            BY <3>3
        <3>5. PlaceInv'
            BY <3>1, <3>2, <3>3 DEF PlaceInv, KeysInv
        <3>6. /\ active' = {i.tag : i \in UnderWay'}
              /\ \A i, j \in UnderWay' : i.tag = j.tag => i = j
            BY <3>1, <3>3, <3>4 DEF KeysInv, KeysMatch
        <3>7. /\ IsFiniteSet(active')
              /\ Cardinality(active') = Cardinality(active) + 1
            BY <3>1, <3>3, FS_AddElement DEF KeysInv
        <3>8. count' = Cardinality(active')
            BY <3>3, <3>7 DEF KeysInv, KeysMatch
        <3>9. MaxPending > 0 => count' <= MaxPending
            BY <2>2, <3>3 DEF Refuses, Capped
        <3> QED
            BY <3>5, <3>6, <3>7, <3>8, <3>9 DEF KeysInv, KeysMatch
    <2> QED
        BY <2>1, <2>2
<1>4. CASE Enqueue
    <2>1. offered \in Intent /\ offered \in UnderWay
        BY <1>4 DEF Enqueue
    <2>2. PlaceInv'
        BY <1>4 DEF Enqueue, KeysInv, PlaceInv
    <2>3. CASE Full
        <3>1. UnderWay' = UnderWay \ {offered}
            BY <1>4, <2>3 DEF Enqueue, KeysInv, PlaceInv
        <3> QED
            BY <1>4, <2>1, <2>2, <2>3, <3>1, KeyLeaves DEF Enqueue, Key
    <2>4. CASE ~Full
        <3>1. UnderWay' = UnderWay
            BY <1>4, <2>4 DEF Enqueue
        <3> QED
            BY <1>4, <2>2, <2>4, <3>1, KeysStay DEF Enqueue
    <2> QED
        BY <2>3, <2>4
<1>5. CASE TimingEnds
    BY <1>5, KeysStay DEF TimingEnds, KeysInv, PlaceInv
<1>6. CASE TimingFails
    BY <1>6, KeysStay DEF TimingFails, KeysInv, PlaceInv
<1>7. CASE Get
    <2>1. CASE queue = {}
        BY <1>7, <2>1, KeysStay DEF Get, KeysInv, PlaceInv
    <2>2. CASE queue # {}
        <3>1. PICK i \in queue : taken' = i /\ queue' = queue \ {i}
            BY <1>7, <2>2 DEF Get
        <3>2. i \in Intent /\ taken = None
            BY <1>7, <3>1 DEF Get
        <3>3. UnderWay' = UnderWay
            BY <1>7, <3>1, <3>2 DEF Get
        <3>4. PlaceInv'
            BY <1>7, <3>1, <3>2 DEF Get, KeysInv, PlaceInv
        <3> QED
            BY <1>7, <3>3, <3>4, KeysStay DEF Get
    <2> QED
        BY <2>1, <2>2
<1>8. CASE Complete
    <2>1. taken \in Intent /\ taken \in UnderWay
        BY <1>8 DEF Complete
    <2>2. PlaceInv'
        BY <1>8 DEF Complete, KeysInv, PlaceInv
    <2>3. UnderWay' = UnderWay \ {taken}
        BY <1>8, <2>1 DEF Complete, KeysInv, PlaceInv
    <2> QED
        BY <1>8, <2>1, <2>2, <2>3, KeyLeaves DEF Complete, Release
<1>9. CASE Loop \/ Check \/ Dispatch \/ WorkerFails
    BY <1>9, KeysStay DEF Loop, Check, Dispatch, WorkerFails, KeysInv, PlaceInv
<1>10. ASSUME NEW b \in Buyers, BuyStep(b)
       PROVE  KeysInv'
    <2>1. UNCHANGED <<offered, taken, queue, active, count>>
        BY <1>10 DEF BuyStep, Buy, Guard, Send, Result
    <2>2. pc'.timing = pc.timing
        <3>1. CASE b = "worker"
            BY <1>10, <3>1 DEF BuyStep, Buy, Guard, Send, Result, Leave
        <3>2. CASE b = "main"
            BY <1>10, <3>2 DEF BuyStep, Buy, Guard, Send, Result, Leave
        <3> QED
            BY <3>1, <3>2 DEF Buyers
    <2> QED
        BY <2>1, <2>2, KeysStay DEF KeysInv, PlaceInv
<1>11. CASE MainBuys \/ MainSells \/ SetEntryControl \/ StopPipeline
    BY <1>11, KeysStay
       DEF MainBuys, MainSells, SetEntryControl, StopPipeline, KeysInv, PlaceInv
<1>12. CASE UNCHANGED vars
    BY <1>12, KeysStay DEF vars, KeysInv, PlaceInv
<1> QED
    BY <1>1, <1>2, <1>3, <1>4, <1>5, <1>6, <1>7, <1>8, <1>9, <1>10, <1>11,
       <1>12 DEF Next, TimingStep, WorkerStep

\* Whatever a reject, a full queue, an exception or the stop does, the keys
\* held back are those of the intents under way, one each, and the count of
\* the stock stays within its limit.
THEOREM KeysAreHeld == Spec => []KeysMatch
<1>1. Init => KeysInv
    <2> SUFFICES ASSUME Init
                 PROVE  KeysInv
        OBVIOUS
    <2>1. UnderWay = {} /\ active = {} /\ count = 0
        BY DEF Init, UnderWay, Reserved, Working
    <2>2. PlaceInv
        BY DEF Init, PlaceInv
    <2> QED
        BY <2>1, <2>2, FS_EmptySet DEF KeysInv, KeysMatch
<1>2. TypeOK /\ HandsInv /\ KeysInv /\ [Next]_vars
        => TypeOK' /\ HandsInv' /\ KeysInv'
    BY StepTypes, StepKeys
<1>3. KeysInv => KeysMatch
    BY DEF KeysInv
<1> QED
    BY <1>1, <1>2, <1>3, InitTypes, PTL DEF Spec

\* Two threads inside execute_buy are noticed, and one alone asks in order.
LEMMA StepInside ==
    ASSUME TypeOK, InsideInv, [Next]_vars
    PROVE  InsideInv'
<1> USE DEF TypeOK, PC, Go, Inside, Crosses, intents, buffer, trade
<1>1. ASSUME NEW b \in Buyers, BuyStep(b)
      PROVE  InsideInv'
    <2>1. CASE Buy(b)
        <3>1. CASE b = "worker"
            BY <2>1, <3>1 DEF Buy, Holds, Leave, InsideInv, Buyers
        <3>2. CASE b = "main"
            BY <2>1, <3>2 DEF Buy, Holds, Leave, InsideInv, Buyers
        <3> QED
            BY <3>1, <3>2 DEF Buyers
    <2>2. CASE Guard(b)
        <3>1. CASE b = "worker"
            BY <2>2, <3>1 DEF Guard, Leave, InsideInv, Buyers
        <3>2. CASE b = "main"
            BY <2>2, <3>2 DEF Guard, Leave, InsideInv, Buyers
        <3> QED
            BY <3>1, <3>2 DEF Buyers
    <2>3. CASE Send(b)
        <3>1. CASE b = "worker"
            BY <2>3, <3>1 DEF Send, InsideInv, Buyers
        <3>2. CASE b = "main"
            BY <2>3, <3>2 DEF Send, InsideInv, Buyers
        <3> QED
            BY <3>1, <3>2 DEF Buyers
    <2>4. CASE Result(b)
        <3>1. CASE b = "worker"
            BY <2>4, <3>1 DEF Result, Leave, InsideInv, Buyers
        <3>2. CASE b = "main"
            BY <2>4, <3>2 DEF Result, Leave, InsideInv, Buyers
        <3> QED
            BY <3>1, <3>2 DEF Buyers
    <2> QED
        BY <1>1, <2>1, <2>2, <2>3, <2>4 DEF BuyStep
<1>2. CASE MainBuys
    BY <1>2 DEF MainBuys, InsideInv, Buyers
<1>3. CASE MainSells
    BY <1>3 DEF MainSells, InsideInv, Buyers
<1>4. CASE SetEntryControl \/ StopPipeline
    BY <1>4 DEF SetEntryControl, StopPipeline, InsideInv
<1>5. CASE (\E t \in Tags : Watch(t)) \/ TimingStep \/ TimingFails
    BY <1>5 DEF Watch, TimingStep, Look, Reserve, Enqueue, TimingEnds,
                TimingFails, InsideInv, Buyers
<1>6. CASE WorkerStep \/ WorkerFails
    BY <1>6 DEF WorkerStep, Loop, Get, Check, Dispatch, Complete, WorkerFails,
                InsideInv, Buyers
<1>7. CASE UNCHANGED vars
    BY <1>7 DEF vars, InsideInv
<1> QED
    BY <1>1, <1>2, <1>3, <1>4, <1>5, <1>6, <1>7 DEF Next

\* Unless the order worker and the main loop are inside execute_buy together,
\* a BUY is under way only without shares and without another BUY row.
THEOREM OneEntryHolds == Spec => []OneEntry
<1>1. Init => InsideInv
    BY DEF Init, InsideInv, Inside, Crosses, Buyers
<1>2. TypeOK /\ HandsInv /\ InsideInv /\ [Next]_vars
        => TypeOK' /\ HandsInv' /\ InsideInv'
    BY StepTypes, StepInside
<1>3. InsideInv => OneEntry
    BY DEF InsideInv, OneEntry, Inside
<1> QED
    BY <1>1, <1>2, <1>3, InitTypes, PTL DEF Spec
=============================================================================
