----------------------------- MODULE OrderSync ------------------------------
(***************************************************************************)
(* engine/order_synchronizer.py, class OrderSynchronizer, with the waiting *)
(* loop of api/kis_api.py: how an order is guarded, recorded, sent, waited *)
(* for and settled, by several threads of one process that may crash.      *)
(*                                                                         *)
(* The database table order_state survives a crash, the process-wide guard *)
(* store and the cached holdings do not, and the broker goes on by itself. *)
(* Every access to one of them is a step of its own, so that threads, the  *)
(* broker and a crash interleave exactly where the code lets them.         *)
(*                                                                         *)
(* SELL entries of the guard store are written but nothing in the engine   *)
(* reads them, so "mem" keeps the BUY entry of each symbol only.           *)
(*                                                                         *)
(* A definition with an underscore in its name is the one it precedes with *)
(* a mistake in it, which shows that a property depends on the code.       *)
(***************************************************************************)
EXTENDS Integers, FiniteSets

CONSTANTS
    Workers,    \* threads that trade: the main loop, the order worker
    Symbols,    \* stock codes
    Keys,       \* idempotency keys: one (side, stock, quantity, signal_id) each
    BuyKeys,    \* the keys of BUY orders; the others are SELL orders
    Symbol,     \* the stock of each key
    Owner,      \* the thread whose signals carry the key
    Orders,     \* order numbers the broker can give out (a bound)
    NoOrder,    \* no order number
    NoKey,      \* the key of an unused order number
    Qty,        \* shares every order asks for
    Held,       \* shares of each symbol held at the start
    MaxCrashes, \* how often the process may crash (a bound)
    Env         \* what may go wrong around the process, a subset of Mishaps

(***************************************************************************)
(*   db_error       a query of order_state fails, an upsert is lost        *)
(*   lost_reply     the broker takes an order but the answer does not come *)
(*   no_rows        the execution inquiry does not show the order (yet)    *)
(*   cancel_fail    cancel_order does not reach the broker                 *)
(*   stale_holdings get_holdings answers from its two-second cache         *)
(*   api_error      get_holdings or the final inquiry fails                *)
(*   exception      wait_for_execution raises something not a KISApiError  *)
(*   foreign_probe  a thread asks for the guard of another thread's symbol *)
(***************************************************************************)
Mishaps == {"db_error", "lost_reply", "no_rows", "cancel_fail",
            "stale_holdings", "api_error", "exception", "foreign_probe"}

ASSUME KeysAssumption ==
    /\ BuyKeys \subseteq Keys
    /\ Symbol \in [Keys -> Symbols]
    /\ Owner \in [Keys -> Workers]
    /\ NoKey \notin Keys
    /\ NoOrder \notin Orders
ASSUME NumbersAssumption ==
    /\ Qty \in Nat \ {0}
    /\ Held \in [Symbols -> Nat]
    /\ MaxCrashes \in Nat
    /\ Env \subseteq Mishaps

VARIABLES
    row,        \* order_state: the status of each key's row, "NONE" if absent
    age,        \* order_state: how long ago each row was updated
    given,      \* the keys whose rows a restart has given up (history)
    mem,        \* the guard store's BUY entry of each symbol
    up,         \* the process is running
    crashes,    \* crashes so far
    pc,         \* where each thread is in execute_*_order
    loc,        \* the local variables of each thread
    ord,        \* the broker's orders
    hold,       \* the broker's holdings
    hcache,     \* the holdings get_holdings has cached, NoCache if none
    bought,     \* shares of each symbol the broker has bought (history)
    reported    \* shares of each symbol BUY results have reported (history)

db     == <<row, age, given>>
broker == <<ord, hold, bought>>
vars   == <<row, age, given, mem, up, crashes, pc, loc, ord, hold, hcache, bought, reported>>

Open       == {"PENDING", "SUBMITTED", "PARTIAL"}
Status     == {"NONE", "FILLED", "CANCELLED", "FAILED"} \cup Open
Duplicates_NotFilled == Open
Duplicates == Open \cup {"FILLED"}

\* Guard entries: set by an upsert ("open", "clear") or, for a few seconds,
\* by a query ("db_open", "db_clear") or by a failed one ("unknown").
Timed      == {"db_open", "db_clear", "unknown"}
GuardState == {"absent", "open", "clear"} \cup Timed
Passes     == {"clear", "db_clear"}

Ages == {"fresh", "no_order_stale", "stale"}

\* A holdings snapshot that could not be taken, and an empty cache.
Unknown == -1
NoCache == [s \in Symbols |-> Unknown]

PC == {"idle", "query", "cache", "lookup", "publish", "persist", "snapshot",
       "place", "wait", "cancel", "infer"}

NoLocals(k) == [key |-> k, why |-> "order", answer |-> "absent", status |-> "NONE",
                order |-> NoOrder, before |-> Unknown, seen |-> 0, filled |-> 0]

K(w)   == loc[w].key
S(w)   == Symbol[K(w)]
Buys(w) == K(w) \in BuyKeys

Least(a, b) == IF a < b THEN a ELSE b

\* A step of a thread: to a place in the code, with new values for its locals.
Move(w, locals, label) ==
    /\ loc' = [loc EXCEPT ![w] = locals]
    /\ pc'  = [pc EXCEPT ![w] = label]
Goto(w, label) == Move(w, loc[w], label)
Settling(w, status, filled, label) ==
    Move(w, [loc[w] EXCEPT !.status = status, !.filled = filled], label)
-----------------------------------------------------------------------------
Init ==
    /\ row      = [k \in Keys |-> "NONE"]
    /\ age      = [k \in Keys |-> "fresh"]
    /\ given    = {}
    /\ mem      = [s \in Symbols |-> "absent"]
    /\ up       = FALSE
    /\ crashes  = 0
    /\ pc       = [w \in Workers |-> "idle"]
    /\ loc      = [w \in Workers |-> NoLocals(NoKey)]
    /\ ord      = [o \in Orders |-> [st |-> "none", key |-> NoKey, filled |-> 0,
                                     cancel |-> "no"]]
    /\ hold     = Held
    /\ hcache   = NoCache
    /\ bought   = [s \in Symbols |-> 0]
    /\ reported = [s \in Symbols |-> 0]

(***************************************************************************)
(* The guard: get_pending_order_guard_state.  The store answers if it has  *)
(* an entry; otherwise the table is queried and the answer cached, two     *)
(* steps between which another thread may write the entry.                 *)
(***************************************************************************)
Begin(w, k, why, label) ==
    /\ up /\ pc[w] = "idle"
    /\ Move(w, [NoLocals(k) EXCEPT !.why = why], label)
    /\ UNCHANGED <<db, mem, up, crashes, broker, hcache, reported>>

StartBuy_Unguarded(w, k) ==
    k \in BuyKeys /\ Owner[k] = w /\ Begin(w, k, "order", "lookup")

\* execute_buy_order: an entry that blocks ends the call at once.
StartBuy(w, k) ==
    /\ k \in BuyKeys /\ Owner[k] = w
    /\ \/ mem[Symbol[k]] \in Passes  /\ Begin(w, k, "order", "lookup")
       \/ mem[Symbol[k]] = "absent" /\ Begin(w, k, "order", "query")

\* _has_active_pending_buy_order: the guard is asked, no order follows.
StartProbe(w, k) ==
    /\ k \in BuyKeys
    /\ Owner[k] = w \/ "foreign_probe" \in Env
    /\ mem[Symbol[k]] = "absent"
    /\ Begin(w, k, "probe", "query")

\* execute_sell_order has no guard.
StartSell(w, k) ==
    /\ k \in Keys \ BuyKeys /\ Owner[k] = w
    /\ Begin(w, k, "order", "lookup")

OpenBuys(s) == {k \in BuyKeys : Symbol[k] = s /\ row[k] \in Open}

GuardSelect(w) ==
    /\ pc[w] = "query"
    /\ \E answer \in GuardState :
         /\ \/ answer = IF OpenBuys(S(w)) = {} THEN "db_clear" ELSE "db_open"
            \/ answer = "unknown" /\ "db_error" \in Env
         /\ Move(w, [loc[w] EXCEPT !.answer = answer], "cache")
    /\ UNCHANGED <<db, mem, up, crashes, broker, hcache, reported>>

GuardCache(w) ==
    /\ pc[w] = "cache"
    /\ mem' = [mem EXCEPT ![S(w)] = loc[w].answer]
    /\ Goto(w, IF loc[w].why = "probe" \/ loc[w].answer # "db_clear" THEN "idle" ELSE "lookup")
    /\ UNCHANGED <<db, up, crashes, broker, hcache, reported>>

\* The time to live of a queried entry runs out; the next reader drops it.
GuardExpire(s) ==
    /\ up /\ mem[s] \in Timed
    /\ mem' = [mem EXCEPT ![s] = "absent"]
    /\ UNCHANGED <<db, up, crashes, pc, loc, broker, hcache, reported>>
-----------------------------------------------------------------------------
(***************************************************************************)
(* The idempotency check and the write-ahead of the PENDING row.  A failed *)
(* lookup counts as no row.                                                *)
(***************************************************************************)
Lookup(w) ==
    /\ pc[w] = "lookup"
    /\ \/ row[K(w)] \in Duplicates /\ Goto(w, "idle")
       \/ /\ row[K(w)] \notin Duplicates \/ "db_error" \in Env
          /\ Settling(w, "PENDING", 0, "publish")
    /\ UNCHANGED <<db, mem, up, crashes, broker, hcache, reported>>

Publish_PartialClears(w) ==
    /\ pc[w] = "publish"
    /\ mem' = IF Buys(w)
                THEN [mem EXCEPT ![S(w)] =
                        IF loc[w].status \in {"PENDING", "SUBMITTED"} THEN "open" ELSE "clear"]
                ELSE mem
    /\ Goto(w, "persist")
    /\ UNCHANGED <<db, up, crashes, broker, hcache, reported>>

Publish_StoresStatus(w) ==
    /\ pc[w] = "publish"
    /\ mem' = IF Buys(w) THEN [mem EXCEPT ![S(w)] = loc[w].status] ELSE mem
    /\ Goto(w, "persist")
    /\ UNCHANGED <<db, up, crashes, broker, hcache, reported>>

\* _upsert_order_state: the guard store first, then the table; an error of
\* the second half is logged and forgotten.
Publish(w) ==
    /\ pc[w] = "publish"
    /\ mem' = IF Buys(w)
                THEN [mem EXCEPT ![S(w)] = IF loc[w].status \in Open THEN "open" ELSE "clear"]
                ELSE mem
    /\ Goto(w, "persist")
    /\ UNCHANGED <<db, up, crashes, broker, hcache, reported>>

AfterPersist(status) ==
    CASE status = "PENDING"   -> "snapshot"
      [] status = "SUBMITTED" -> "wait"
      [] OTHER                -> "idle"

\* A BUY that ends FILLED or PARTIAL tells its caller how many shares it got.
Persist(w) ==
    /\ pc[w] = "persist"
    /\ \/ /\ row' = [row EXCEPT ![K(w)] = loc[w].status]
          /\ age' = [age EXCEPT ![K(w)] = "fresh"]
          /\ given' = given
       \/ "db_error" \in Env /\ UNCHANGED db
    /\ reported' = IF Buys(w) /\ loc[w].status \in {"FILLED", "PARTIAL"}
                     THEN [reported EXCEPT ![S(w)] = @ + loc[w].filled]
                     ELSE reported
    /\ Goto(w, AfterPersist(loc[w].status))
    /\ UNCHANGED <<mem, up, crashes, broker, hcache>>

\* get_holdings: the cache while it lives, else the broker, which refills the
\* cache unless it holds nothing (and, where no read comes soon enough to be
\* answered from the cache, to no effect).
ReadHoldings(view) ==
    \/ view = hcache /\ hcache # NoCache /\ "stale_holdings" \in Env /\ UNCHANGED hcache
    \/ /\ view = hold
       /\ hcache' = IF "stale_holdings" \in Env /\ \E s \in Symbols : hold[s] > 0
                      THEN hold ELSE NoCache

\* _get_holding_snapshot before the order goes out.
Snapshot(w) ==
    /\ pc[w] = "snapshot"
    /\ \/ \E view \in {hold, hcache} :
            /\ ReadHoldings(view)
            /\ Move(w, [loc[w] EXCEPT !.before = view[S(w)]], "place")
       \/ "api_error" \in Env /\ Goto(w, "place") /\ UNCHANGED hcache
    /\ UNCHANGED <<db, mem, up, crashes, broker, reported>>

\* place_buy_order, place_sell_order: sent once, never repeated.
BrokerTakes(w, o) ==
    /\ ord[o].st = "none"
    /\ Buys(w) \/ hold[S(w)] >= Qty
    /\ ord' = [ord EXCEPT ![o] = [st |-> "live", key |-> K(w), filled |-> 0, cancel |-> "no"]]

Place(w) ==
    /\ pc[w] = "place"
    /\ \/ \E o \in Orders :
            /\ BrokerTakes(w, o)
            /\ \/ Move(w, [loc[w] EXCEPT !.order = o, !.status = "SUBMITTED"], "publish")
               \/ "lost_reply" \in Env /\ Settling(w, "FAILED", 0, "publish")
       \/ Settling(w, "FAILED", 0, "publish") /\ UNCHANGED ord
    /\ UNCHANGED <<db, mem, up, crashes, hold, bought, hcache, reported>>
-----------------------------------------------------------------------------
(***************************************************************************)
(* wait_for_execution.  The time it waits is not modelled: its final check *)
(* may come at any moment.                                                 *)
(***************************************************************************)
Executed(w) == ord[loc[w].order].filled

PollFilled_AnyShare(w) ==
    /\ pc[w] = "wait" /\ Executed(w) > 0
    /\ Settling(w, "FILLED", Executed(w), "publish")
    /\ UNCHANGED <<db, mem, up, crashes, broker, hcache, reported>>

PollFilled(w) ==
    /\ pc[w] = "wait" /\ Executed(w) >= Qty
    /\ Settling(w, "FILLED", Executed(w), "publish")
    /\ UNCHANGED <<db, mem, up, crashes, broker, hcache, reported>>

PollPartial(w) ==
    /\ pc[w] = "wait" /\ Executed(w) > loc[w].seen /\ Executed(w) < Qty
    /\ Move(w, [loc[w] EXCEPT !.seen = Executed(w)], "wait")
    /\ UNCHANGED <<db, mem, up, crashes, broker, hcache, reported>>

Moved_Total(w, view) == IF Buys(w) THEN view[S(w)] ELSE loc[w].before - view[S(w)]

\* The shares gained (BUY) or lost (SELL) since the snapshot.
Moved(w, view) ==
    IF Buys(w) THEN view[S(w)] - loc[w].before ELSE loc[w].before - view[S(w)]

\* A fill told from the holdings, when the order itself is not to be seen.
InferFrom(w, view) ==
    /\ loc[w].before # Unknown
    /\ Moved(w, view) > 0
    /\ LET got == Least(Moved(w, view), Qty)
       IN  Settling(w, IF got >= Qty THEN "FILLED" ELSE "PARTIAL", got, "publish")

\* Such a fill is looked for; a SELL may lack the price to report one.
LookForFill(w, otherwise) ==
    \/ \E view \in {hold, hcache} :
         /\ loc[w].before # Unknown
         /\ ReadHoldings(view)
         /\ \/ InferFrom(w, view)
            \/ (Moved(w, view) <= 0 \/ ~Buys(w)) /\ otherwise
    \/ (loc[w].before = Unknown \/ "api_error" \in Env) /\ UNCHANGED hcache /\ otherwise

PollUnseen(w) ==
    /\ pc[w] = "wait" /\ "no_rows" \in Env
    /\ LookForFill(w, Goto(w, "wait"))
    /\ UNCHANGED <<db, mem, up, crashes, broker, reported>>

\* The final check sees the order unfinished and will cancel the rest.
FinalUnfilled(w) ==
    /\ pc[w] = "wait" /\ Executed(w) < Qty
    /\ Settling(w, IF Executed(w) > 0 THEN "PARTIAL" ELSE "CANCELLED", Executed(w), "cancel")
    /\ UNCHANGED <<db, mem, up, crashes, broker, hcache, reported>>

\* The final check does not see the order, or fails: nothing is cancelled.
TimesOut(w) ==
    Settling(w, "CANCELLED", loc[w].seen, IF Buys(w) THEN "infer" ELSE "publish")

FinalUnseen(w) ==
    /\ pc[w] = "wait"
    /\ \/ "no_rows" \in Env /\ LookForFill(w, TimesOut(w))
       \/ "api_error" \in Env /\ TimesOut(w) /\ UNCHANGED hcache
    /\ UNCHANGED <<db, mem, up, crashes, broker, reported>>

\* An exception no caller below the executor handles.
WaitRaises(w) ==
    /\ pc[w] = "wait" /\ "exception" \in Env
    /\ Goto(w, "idle")
    /\ UNCHANGED <<db, mem, up, crashes, broker, hcache, reported>>

\* cancel_order, whose result is only logged; if it raises, the wait ends as
\* if the order had not been seen.
Cancel(w) ==
    /\ pc[w] = "cancel"
    /\ \E st \in {"dead"} \cup IF "cancel_fail" \in Env THEN {ord[loc[w].order].st} ELSE {} :
         ord' = [ord EXCEPT ![loc[w].order] = [@ EXCEPT !.cancel = "tried", !.st = st]]
    /\ \/ Goto(w, IF Buys(w) /\ loc[w].status = "CANCELLED" THEN "infer" ELSE "publish")
       \/ "exception" \in Env /\ TimesOut(w)
    /\ UNCHANGED <<db, mem, up, crashes, hold, bought, hcache, reported>>

Infer_ResultLost(w) ==
    /\ pc[w] = "infer"
    /\ LookForFill(w, Goto(w, "idle"))
    /\ UNCHANGED <<db, mem, up, crashes, broker, reported>>

\* _infer_buy_fill_from_holdings: the last word on a BUY that was not filled.
Infer(w) ==
    /\ pc[w] = "infer"
    /\ LookForFill(w, Goto(w, "publish"))
    /\ UNCHANGED <<db, mem, up, crashes, broker, reported>>
-----------------------------------------------------------------------------
\* The broker fills some of a live order; it never sells what is not held.
Fill(o) ==
    /\ ord[o].st = "live"
    /\ \E n \in 1..(Qty - ord[o].filled) :
         LET s == Symbol[ord[o].key]
             buy == ord[o].key \in BuyKeys
         IN  /\ buy \/ hold[s] >= n
             /\ ord' = [ord EXCEPT ![o] =
                          [@ EXCEPT !.filled = ord[o].filled + n,
                                    !.st = IF ord[o].filled + n = Qty THEN "dead" ELSE "live"]]
             /\ hold' = [hold EXCEPT ![s] = IF buy THEN @ + n ELSE @ - n]
             /\ bought' = [bought EXCEPT ![s] = IF buy THEN @ + n ELSE @]
    /\ UNCHANGED <<db, mem, up, crashes, pc, loc, hcache, reported>>

\* Time passes over an unfinished row: 15 minutes, then 240.  Only a start
\* reads the age, so it stands still when no start can come any more.
Grow(k) ==
    /\ crashes < MaxCrashes \/ ~up
    /\ row[k] \in Open /\ age[k] # "stale"
    /\ age' = [age EXCEPT ![k] = IF @ = "fresh" THEN "no_order_stale" ELSE "stale"]
    /\ UNCHANGED <<row, given, mem, up, crashes, pc, loc, broker, hcache, reported>>

Crash ==
    /\ up /\ crashes < MaxCrashes
    /\ up' = FALSE
    /\ crashes' = crashes + 1
    /\ mem'    = [s \in Symbols |-> "absent"]
    /\ pc'     = [w \in Workers |-> "idle"]
    /\ loc'    = [w \in Workers |-> NoLocals(NoKey)]
    /\ hcache' = NoCache
    /\ UNCHANGED <<db, broker, reported>>

\* _cleanup_stale_pending_orders: 240 minutes, or 15 for a row that has no
\* order number, which is what PENDING means.
StaleRows == {k \in Keys : /\ row[k] \in Open
                           /\ \/ age[k] = "stale"
                              \/ row[k] = "PENDING" /\ age[k] # "fresh"}

Clean(stale) == /\ row' = [k \in Keys |-> IF k \in stale THEN "CANCELLED" ELSE row[k]]
                /\ age' = [k \in Keys |-> IF k \in stale THEN "fresh" ELSE age[k]]
                /\ given' = given \cup stale

\* recover_pending_orders at the start of a process, before any thread trades.
\* The clean-up and the query can fail one without the other.
Recover ==
    /\ ~up
    /\ up' = TRUE
    /\ \/ Clean(StaleRows)
       \/ "db_error" \in Env /\ UNCHANGED db
    /\ \/ mem' = [s \in Symbols |->
                    IF \E k \in BuyKeys : Symbol[k] = s /\ row'[k] \in Open
                      THEN "open" ELSE "absent"]
       \/ "db_error" \in Env /\ UNCHANGED mem
    /\ UNCHANGED <<crashes, pc, loc, broker, hcache, reported>>

Step(w) ==
    \/ GuardSelect(w) \/ GuardCache(w)
    \/ Lookup(w) \/ Publish(w) \/ Persist(w) \/ Snapshot(w) \/ Place(w)
    \/ PollFilled(w) \/ PollPartial(w) \/ PollUnseen(w)
    \/ FinalUnfilled(w) \/ FinalUnseen(w) \/ WaitRaises(w)
    \/ Cancel(w) \/ Infer(w)

Next ==
    \/ \E w \in Workers :
         \/ Step(w)
         \/ \E k \in Keys : StartBuy(w, k) \/ StartProbe(w, k) \/ StartSell(w, k)
    \/ \E s \in Symbols : GuardExpire(s)
    \/ \E o \in Orders : Fill(o)
    \/ \E k \in Keys : Grow(k)
    \/ Crash \/ Recover

Spec == Init /\ [][Next]_vars

\* A thread that runs goes on.  Nothing obliges a signal to come, the broker
\* to fill an order or the process to crash or to be started.
FairSpec == Spec /\ \A w \in Workers : WF_vars(Step(w))
-----------------------------------------------------------------------------
Locals == [key : Keys \cup {NoKey}, why : {"order", "probe"}, answer : GuardState, status : Status,
           order : Orders \cup {NoOrder}, before : Int, seen : Nat, filled : Int]
OrderRecord == [st : {"none", "live", "dead"}, key : Keys \cup {NoKey},
                filled : Nat, cancel : {"no", "tried"}]

\* Every variable has the values its comment names.
TypeOK ==
    /\ row \in [Keys -> Status]
    /\ age \in [Keys -> Ages]
    /\ given \subseteq Keys
    /\ mem \in [Symbols -> GuardState]
    /\ up \in BOOLEAN
    /\ crashes \in Nat
    /\ pc \in [Workers -> PC]
    /\ loc \in [Workers -> Locals]
    /\ ord \in [Orders -> OrderRecord]
    /\ hold \in [Symbols -> Nat]
    /\ hcache \in [Symbols -> Int]
    /\ bought \in [Symbols -> Nat]
    /\ reported \in [Symbols -> Int]

\* The assumptions under which the guard and the reports can be trusted.
OneBuyerPerSymbol == \A k1, k2 \in BuyKeys : Symbol[k1] = Symbol[k2] => Owner[k1] = Owner[k2]
Spared(mishaps)   == Env \cap mishaps = {}

\* The guard of get_pending_order_guard_state keeps its promise: a symbol never
\* has two unfinished BUY rows, whatever is cached, expired, crashed or
\* recovered in between.
NoSecondOpenBuy == \A s \in Symbols : \A k1, k2 \in OpenBuys(s) : k1 = k2

\* What BUY results report as executed was bought: a fill told from a change of
\* the holdings is never invented, nor reported a second time.
NoPhantomFills == \A s \in Symbols : reported[s] <= bought[s]

\* An order the broker still works on has an unfinished row, which is what
\* blocks the next one: nothing but the clean-up of a restart forgets it.
Live(k) == \E o \in Orders : ord[o].st = "live" /\ ord[o].key = k
LiveIsRecorded == \A k \in Keys : Live(k) => row[k] \in Open \/ k \in given

\* The broker works on at most one BUY order of a symbol, unless a restart has
\* given an order up: a new one goes out only when the last has ended.
OneLiveBuy ==
    \A o1, o2 \in Orders :
        /\ ord[o1].st = "live" /\ ord[o1].key \in BuyKeys \ given
        /\ ord[o2].st = "live" /\ ord[o2].key \in BuyKeys \ given
        /\ Symbol[ord[o1].key] = Symbol[ord[o2].key]
        => o1 = o2

\* The rows live as OrderLifecycle says: taken once, submitted, settled, and
\* taken again only after CANCELLED or FAILED.
Lifecycle == INSTANCE OrderLifecycle WITH Keys <- Keys, BuyKeys <- BuyKeys, Symbol <- Symbol,
                                         row <- row
ImplementsLifecycle == Lifecycle!Spec

\* Every order that is under way gets its result into the table.
OrdersSettle == \A k \in Keys : (row[k] \in {"PENDING", "SUBMITTED"}) ~>
                                (row[k] \notin {"PENDING", "SUBMITTED"})
-----------------------------------------------------------------------------
(***************************************************************************)
(* What comments and documents say, and the code does not do.              *)
(***************************************************************************)
\* "On a timeout the unfilled order is cancelled" (wait_for_execution): a row
\* that says CANCELLED has no order left at the broker.
TimeoutCancels == \A k \in Keys : row[k] = "CANCELLED" => ~Live(k)
=============================================================================
