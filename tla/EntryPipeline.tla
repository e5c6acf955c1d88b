---------------------------- MODULE EntryPipeline ----------------------------
(***************************************************************************)
(* engine/pullback_pipeline_workers.py and pullback_pipeline_stores.py with *)
(* the part of engine/multiday_executor.py that starts and stops them: the  *)
(* threaded entry of one stock.  The timing worker turns a strategy's       *)
(* candidate into an intent and puts it into the EntryIntentQueue, the      *)
(* order worker takes the intents one by one and calls execute_buy, which   *)
(* the main loop calls as well for the signals it does not leave to the     *)
(* pipeline.  The setup worker arms candidates and the clean-up expires     *)
(* them whenever they like, so any strategy may have one at any time, and   *)
(* an intent may be past its expires_at whenever it is looked at.           *)
(*                                                                         *)
(* execute_buy is seen as its two questions (a position? an unfinished BUY  *)
(* row?), the sending and the result; PositionControl and OrderSync have    *)
(* the rest.  Nothing locks the executor: its steps interleave freely.      *)
(*                                                                         *)
(* A definition with an underscore in its name is the one it precedes with *)
(* a mistake in it, which shows that a property depends on the code.       *)
(***************************************************************************)
EXTENDS Integers, FiniteSets

CONSTANTS
    Tags,       \* the strategies the pipeline runs: one intent key each
    None,       \* no intent
    MaxSize,    \* the queue's maxsize
    MaxPending, \* MAX_PENDING_INTENTS_PER_SYMBOL, 0 for no limit
    MaxIntents  \* how many intents are made (a bound)

ASSUME NumbersAssumption ==
    /\ MaxSize \in Nat \ {0}
    /\ MaxPending \in Nat
    /\ MaxIntents \in Nat

Intent == [id : Nat, tag : Tags]
ASSUME NoneAssumption == None \notin Intent

VARIABLES
    pc,       \* where each thread is
    left,     \* the strategies the pass under way at the stop may still look at
    made,     \* intents made so far
    offered,  \* the intent in the timing worker's hands
    taken,    \* the intent in the order worker's hands
    queue,    \* _queue: the intents waiting; get takes the oldest
    active,   \* _active_keys
    count,    \* _active_symbol_counts of the stock
    rows,     \* the threads whose BUY has an unfinished row in order_state
    pos,      \* strategy.has_position
    entry,    \* may a BUY be sent: "allowed", "blocked", or "sticky"
    stop,     \* _pullback_pipeline_stop_event
    crossed   \* two threads were in execute_buy at once, and what they sent
              \* has not been sold and finished since (history)

intents == <<left, made, offered, taken>>
buffer  == <<queue, active, count>>
trade   == <<rows, pos, crossed>>
vars    == <<pc, intents, buffer, trade, entry, stop>>

Buyers  == {"worker", "main"}
Threads == Buyers \cup {"timing"}
PC == [timing : {"watch", "askrows", "askpos", "put", "enqueue", "ended"},
       worker : {"loop", "get", "check", "dispatch", "buy", "guard", "send",
                 "wait", "complete", "fail", "ended"},
       main   : {"idle", "buy", "guard", "send", "wait"}]

Go(t, label) == pc' = [pc EXCEPT ![t] = label]

\* execute_buy has answered its first question and has no result yet.
Inside(label) == label \in {"guard", "send", "wait"}
Crosses(labels) == Inside(labels.worker) /\ Inside(labels.main)

Init ==
    /\ pc = [timing |-> "watch", worker |-> "loop", main |-> "idle"]
    /\ left = Tags /\ made = 0 /\ offered = None /\ taken = None
    /\ queue = {} /\ active = {} /\ count = 0
    /\ rows = {} /\ pos \in BOOLEAN /\ crossed = FALSE
    /\ entry \in {"allowed", "blocked", "sticky"}
    /\ stop = FALSE
-----------------------------------------------------------------------------
(***************************************************************************)
(* The timing worker.  A pass looks at the strategies in turn and at the   *)
(* stop only before the first.  What it has read of the executor may have  *)
(* changed when the intent is in the queue.                                *)
(***************************************************************************)
\* A strategy with a candidate.  The pullback asks for the position first and
\* then for an unfinished BUY row, the others the other way round.
Watch(t) ==
    /\ pc.timing = "watch"
    /\ t \in left /\ left' = IF stop THEN left \ {t} ELSE left
    /\ made < MaxIntents
    /\ \/ ~pos /\ Go("timing", "askrows")
       \/ rows = {} /\ Go("timing", "askpos")
    /\ made' = made + 1
    /\ offered' = [id |-> made + 1, tag |-> t]
    /\ UNCHANGED <<taken, buffer, trade, entry, stop>>

\* The second question.  An unconfirmed timing, the degraded mode or a queue
\* beyond MAX_INTENT_QUEUE_DEPTH: no intent.
Look ==
    /\ \/ pc.timing = "askrows" /\ rows = {} /\ Go("timing", "put") /\ UNCHANGED offered
       \/ pc.timing = "askpos" /\ ~pos /\ Go("timing", "put") /\ UNCHANGED offered
       \/ /\ pc.timing \in {"askrows", "askpos"}
          /\ Go("timing", "watch") /\ offered' = None
    /\ UNCHANGED <<left, made, taken, buffer, trade, entry, stop>>

\* put_if_absent, first half: the key is taken under the queue's lock.
Capped == MaxPending > 0 /\ count >= MaxPending
Key_Whole == offered
Key == offered.tag
Refuses_Uncapped == Key \in active
Refuses == Key \in active \/ Capped

Reserve ==
    /\ pc.timing = "put"
    /\ IF Refuses
       THEN Go("timing", "watch") /\ offered' = None /\ UNCHANGED <<active, count>>
       ELSE /\ Go("timing", "enqueue")
            /\ active' = active \cup {Key}
            /\ count' = count + 1
            /\ UNCHANGED offered
    /\ UNCHANGED <<left, made, taken, queue, trade, entry, stop>>

\* The second half: put_nowait, or the key is given back.  The queue is an
\* authoritative one, so it never drops an older intent for a newer one.
Fewer == IF count > 0 THEN count - 1 ELSE 0    \* _dec_symbol_count
Full == Cardinality(queue) >= MaxSize
Enqueue ==
    /\ pc.timing = "enqueue"
    /\ Go("timing", "watch") /\ offered' = None
    /\ IF Full
       THEN /\ active' = active \ {Key}
            /\ count' = Fewer
            /\ UNCHANGED queue
       ELSE queue' = queue \cup {offered} /\ UNCHANGED <<active, count>>
    /\ UNCHANGED <<left, made, taken, trade, entry, stop>>

TimingEnds ==
    /\ pc.timing = "watch" /\ stop
    /\ Go("timing", "ended")
    /\ UNCHANGED <<intents, buffer, trade, entry, stop>>

\* An exception ends the worker and stops the whole pipeline.
TimingFails ==
    /\ pc.timing \in {"watch", "askrows", "askpos"}
    /\ Go("timing", "ended") /\ stop' = TRUE /\ offered' = None
    /\ UNCHANGED <<left, made, taken, buffer, trade, entry>>
-----------------------------------------------------------------------------
(***************************************************************************)
(* The order worker.                                                       *)
(***************************************************************************)
Loop_Unheeding ==
    /\ pc.worker = "loop"
    /\ Go("worker", "get")
    /\ UNCHANGED <<intents, buffer, trade, entry, stop>>
Loop ==
    /\ pc.worker = "loop"
    /\ Go("worker", IF stop THEN "ended" ELSE "get")
    /\ UNCHANGED <<intents, buffer, trade, entry, stop>>

\* get waits half a second, also past the stop.
Get ==
    /\ pc.worker = "get"
    /\ IF queue = {}
       THEN Go("worker", "loop") /\ UNCHANGED <<taken, queue>>
       ELSE \E i \in queue :
              /\ \A j \in queue : i.id <= j.id
              /\ Go("worker", "check")
              /\ taken' = i
              /\ queue' = queue \ {i}
    /\ UNCHANGED <<left, made, offered, active, count, trade, entry, stop>>

\* _common_precheck: an intent that is late or pointless is completed.
Pointless == pos \/ rows # {}
Check ==
    /\ pc.worker = "check"
    /\ \/ ~Pointless /\ Go("worker", "dispatch")
       \/ Go("worker", "complete")
    /\ UNCHANGED <<intents, buffer, trade, entry, stop>>

\* The strategy looks at a fresh quote once more; no signal, no call.
Dispatch ==
    /\ pc.worker = "dispatch"
    /\ \E label \in {"buy", "complete"} : Go("worker", label)
    /\ UNCHANGED <<intents, buffer, trade, entry, stop>>

\* An exception: on_error stops the pipeline, the finally completes the intent.
WorkerFails_Unseen ==
    /\ pc.worker \in {"check", "dispatch", "buy", "guard"}
    /\ Go("worker", "ended")
    /\ UNCHANGED <<intents, buffer, trade, entry, stop>>
WorkerFails ==
    /\ pc.worker \in {"check", "dispatch", "buy", "guard"}
    /\ Go("worker", "fail") /\ stop' = TRUE
    /\ UNCHANGED <<intents, buffer, trade, entry>>

Release_KeepsCount == active' = active \ {taken.tag} /\ UNCHANGED count
Release == active' = active \ {taken.tag} /\ count' = Fewer

Complete ==
    /\ pc.worker \in {"complete", "fail"}
    /\ Go("worker", IF pc.worker = "fail" THEN "ended" ELSE "loop")
    /\ Release
    /\ taken' = None
    /\ UNCHANGED <<left, made, offered, queue, trade, entry, stop>>
-----------------------------------------------------------------------------
(***************************************************************************)
(* execute_buy, by the order worker or by the main loop.                   *)
(***************************************************************************)
Leave(b) == Go(b, IF b = "worker" THEN "complete" ELSE "idle")

Holds_Unasked == FALSE
Holds == pos
Buy(b) ==
    /\ pc[b] = "buy"
    /\ IF Holds THEN Leave(b) ELSE Go(b, "guard")
    /\ crossed' = (crossed \/ Crosses(pc'))
    /\ UNCHANGED <<intents, buffer, rows, pos, entry, stop>>

\* The risk, market and regime checks may refuse; the guard refuses while any
\* BUY of the stock is unfinished.
Guard(b) ==
    /\ pc[b] = "guard"
    /\ \/ rows = {} /\ Go(b, "send")
       \/ Leave(b)
    /\ UNCHANGED <<intents, buffer, trade, entry, stop>>

Send(b) ==
    /\ pc[b] = "send"
    /\ Go(b, "wait")
    /\ rows' = rows \cup {b}
    /\ UNCHANGED <<intents, buffer, pos, crossed, entry, stop>>

\* Shares or none; a PARTIAL row stays unfinished.
Result(b) ==
    /\ pc[b] = "wait"
    /\ Leave(b)
    /\ \/ pos' = TRUE /\ rows' \in {rows, rows \ {b}}
       \/ UNCHANGED pos /\ rows' = rows \ {b}
    /\ UNCHANGED <<intents, buffer, crossed, entry, stop>>
-----------------------------------------------------------------------------
(***************************************************************************)
(* The main loop: its own BUY signals, its exits, the entry control, and   *)
(* the end of run(), which stops the pipeline.                             *)
(***************************************************************************)
MainBuys ==
    /\ pc.main = "idle" /\ entry = "allowed"
    /\ Go("main", "buy")
    /\ UNCHANGED <<intents, buffer, trade, entry, stop>>

MainSells ==
    /\ pc.main = "idle" /\ pos
    /\ pos' = FALSE
    /\ crossed' = (crossed /\ (rows # {} \/ Inside(pc.worker)))
    /\ UNCHANGED <<pc, intents, buffer, rows, entry, stop>>

\* Only a repeated reconciliation that succeeds lifts the sticky block.
SetEntryControl ==
    /\ pc.main = "idle"
    /\ entry' \in IF entry = "sticky" THEN {"allowed"} ELSE {"allowed", "blocked"}
    /\ UNCHANGED <<pc, intents, buffer, trade, stop>>

StopPipeline ==
    /\ pc.main = "idle" /\ ~stop
    /\ stop' = TRUE
    /\ UNCHANGED <<pc, intents, buffer, trade, entry>>

TimingStep == Look \/ Reserve \/ Enqueue \/ TimingEnds
WorkerStep == Loop \/ Get \/ Check \/ Dispatch \/ Complete
BuyStep(b) == Buy(b) \/ Guard(b) \/ Send(b) \/ Result(b)

Next ==
    \/ \E t \in Tags : Watch(t)
    \/ TimingStep \/ TimingFails
    \/ WorkerStep \/ WorkerFails
    \/ \E b \in Buyers : BuyStep(b)
    \/ MainBuys \/ MainSells \/ SetEntryControl \/ StopPipeline

Spec == Init /\ [][Next]_vars

\* Started threads go on, and execute_buy returns: the wait for an execution
\* is bounded (OrdersSettle).  No signal has to come.
FairSpec ==
    /\ Spec
    /\ WF_vars(TimingStep)
    /\ WF_vars(WorkerStep \/ BuyStep("worker"))
    /\ WF_vars(BuyStep("main"))
-----------------------------------------------------------------------------
TypeOK ==
    /\ pc \in PC
    /\ left \subseteq Tags /\ made \in Nat
    /\ offered \in Intent \cup {None} /\ taken \in Intent \cup {None}
    /\ queue \subseteq Intent /\ active \subseteq Tags /\ count \in Nat
    /\ rows \subseteq Buyers
    /\ pos \in BOOLEAN /\ crossed \in BOOLEAN /\ stop \in BOOLEAN
    /\ entry \in {"allowed", "blocked", "sticky"}

\* Every key that _active_keys holds back is that of one intent under way: in
\* the timing worker's hands, in the queue or in the order worker's; the
\* count of the stock is theirs and within its limit.  A key without an
\* intent would keep its strategy out for good.
Reserved == IF pc.timing = "enqueue" THEN {offered} ELSE {}
Working  == IF taken # None THEN {taken} ELSE {}
UnderWay == Reserved \cup queue \cup Working
KeysMatch ==
    /\ active = {i.tag : i \in UnderWay}
    /\ \A i, j \in UnderWay : i.tag = j.tag => i = j
    /\ count = Cardinality(active)
    /\ MaxPending > 0 => count <= MaxPending

\* A BUY is under way only while no shares are held and every other BUY of
\* the stock is finished, although the timing worker, the precheck and
\* execute_buy look at different times: unless the two threads were inside
\* execute_buy together.
OneEntry ==
    ~crossed => \A b \in Buyers : pc[b] = "wait" => ~pos /\ rows = {b}

\* A strategy's key is free again in the end, unless the pipeline stops.
KeysAreFreed == \A t \in Tags : (t \in active) ~> (t \notin active \/ stop)

\* Once the stop event is set both workers come to their end.
StopEnds == stop ~> (pc.timing = "ended" /\ pc.worker = "ended")
=============================================================================
