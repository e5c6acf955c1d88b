------------------------ MODULE PositionControlProofs ------------------------
(***************************************************************************)
(* Proofs about PositionControl, for every order quantity, set of exit     *)
(* reasons, number of orders and of stops, and every set of mishaps.       *)
(***************************************************************************)
EXTENDS PositionControl, TLAPS

\* The shares a position accounts for.
Shares(p) == IF p = None THEN 0 ELSE p.qty

\* Only an executor that is up and reconciled has a position, and an order is
\* waited for with the state its sending checked.
PhaseInv ==
    /\ phase = "down" => pos = None /\ entry = "allowed"
    /\ entry = "sticky" => pos = None
    /\ phase = "buying" => pos = None /\ entry = "allowed" /\ row
    /\ phase = "selling" => pos # None /\ order.why \in Reasons

\* Where no row blocks the entry, no stray order buys and the position, the
\* shares sold by the order waited for included, covers the account.
KnownInv ==
    ~misled =>
        /\ (phase = "idle" /\ entry # "sticky" /\ ~row)
              => strayBuy = 0 /\ held <= Shares(pos)
        /\ (phase = "selling" /\ ~row)
              => strayBuy = 0 /\ held + order.done <= Shares(pos)
        /\ phase = "buying" => strayBuy = 0 /\ held <= order.done

IInv == TypeOK /\ PhaseInv /\ KnownInv /\ FileIsCurrent /\ PendingBelongs

USE NumbersAssumption, NoneAssumption

\* A position made of a fill is a position of that many shares.
LEMMA Boughts ==
    ASSUME NEW n \in Nat \ {0}, NEW price \in Prices
    PROVE  /\ Bought(n, price) \in Position
           /\ Bought(n, price) # None
           /\ Bought(n, price).qty = n
<1>1. Bought(n, price) \in Position /\ Bought(n, price).qty = n
    BY DEF Bought, Position, Terms
<1> QED
    BY <1>1

\* The reconciliation stores the shares the account holds.
LEMMA Reconciles ==
    ASSUME TypeOK, held > 0
    PROVE  Reconciled \in Position /\ Reconciled # None /\ Reconciled.qty = held
<1>1. held \in Nat \ {0} /\ "theirs" \in Prices
    BY DEF TypeOK, Prices
<1>2. CASE file = None
    <2>1. Rebuilt(held) \in Position /\ Rebuilt(held).qty = held
        BY <1>1 DEF Rebuilt, Position, Terms
    <2> QED
        BY <1>2, <2>1 DEF Reconciled
<1>3. CASE file # None
    <2>1. file \in Position
        BY <1>3 DEF TypeOK, PositionOrNone
    <2>2. [file EXCEPT !.qty = held, !.price = "theirs"] \in Position
        BY <1>1, <2>1 DEF Position
    <2>3. [file EXCEPT !.qty = held, !.price = "theirs"].qty = held
        BY <2>1 DEF Position
    <2> QED
        BY <1>3, <2>2, <2>3 DEF Reconciled
<1> QED
    BY <1>2, <1>3

OrderRec == [rest : Nat, done : Nat, why : Reasons \cup {None}]

\* The broker executes one share of an order that has one left.
LEMMA Executes ==
    ASSUME NEW o \in OrderRec, o.rest > 0
    PROVE  /\ [o EXCEPT !.rest = @ - 1, !.done = @ + 1] \in OrderRec
           /\ [o EXCEPT !.rest = @ - 1, !.done = @ + 1].done = o.done + 1
<1>1. o.rest - 1 \in Nat /\ o.done + 1 \in Nat /\ o.why \in Reasons \cup {None}
    BY DEF OrderRec
<1>2. \A i, j \in Nat : [o EXCEPT !.rest = i, !.done = j] \in OrderRec
    BY DEF OrderRec
<1>3. \A i, j \in Nat : [o EXCEPT !.rest = i, !.done = j].done = j
    BY DEF OrderRec
<1> QED
    BY <1>1, <1>2, <1>3

\* A pending exit stays one when its backoff ends or begins again.
LEMMA Pendings ==
    ASSUME NEW p \in PendingOrNone
    PROVE  /\ Over(p) \in PendingOrNone
           /\ Over(p) = None <=> p = None
           /\ p # None => [p EXCEPT !.wait = "yes"] \in Pending
BY DEF Over, PendingOrNone, Pending

\* Before the first start there is nothing to know or to store.
THEOREM InitIInv == Init => IInv
<1> SUFFICES ASSUME Init PROVE IInv
    OBVIOUS
<1>1. NoOrder \in [rest : Nat, done : Nat, why : Reasons \cup {None}]
    BY DEF NoOrder
<1>2. TypeOK
    BY <1>1 DEF Init, TypeOK, PositionOrNone, PendingOrNone, Phases
<1> QED
    BY <1>2 DEF Init, IInv, PhaseInv, KnownInv, FileIsCurrent, PendingBelongs
-----------------------------------------------------------------------------
\* A start that reconciles knows every share, one that cannot blocks the entry.
LEMMA StartKeeps == IInv /\ Start => IInv'
<1> SUFFICES ASSUME IInv, Start PROVE IInv'
    OBVIOUS
<1>1. TypeOK /\ pos = None
    BY DEF IInv, PhaseInv, Start
<1>2. TypeOK'
    <2>1. row' \in BOOLEAN /\ resting' \in Reasons \cup {None}
        BY <1>1 DEF Start, CleanUp, StartUnanswered, NothingHeld, Restore,
                    AdjustAverage, LoadPending, TypeOK
    <2>2. pending' \in PendingOrNone /\ fpending' \in PendingOrNone
        BY <1>1 DEF Start, StartUnanswered, NothingHeld, Restore, AdjustAverage,
                    LoadPending, KeepPending, DropPending, Loaded, TypeOK, PendingOrNone
    <2>3. pos' \in PositionOrNone /\ file' \in PositionOrNone
        BY <1>1, Reconciles DEF Start, StartUnanswered, NothingHeld, Restore,
                    AdjustAverage, TypeOK, PositionOrNone
    <2>4. misled' \in BOOLEAN /\ entry' \in {"allowed", "blocked", "sticky"}
        BY <1>1 DEF Start, StartUnanswered, NothingHeld, Restore, AdjustAverage,
                    Knows, TypeOK
    <2> QED
        BY <1>1, <2>1, <2>2, <2>3, <2>4 DEF Start, TypeOK, account, counts, Phases
<1>3. CASE StartUnanswered
    BY <1>1, <1>2, <1>3 DEF Start, StartUnanswered, DropPending, KeepPending, IInv,
       PhaseInv, KnownInv, FileIsCurrent, PendingBelongs, account
<1>4. CASE NothingHeld
    <2>1. /\ phase' = "idle" /\ misled' = (strayBuy > 0 /\ ~row')
          /\ strayBuy' = strayBuy /\ strayBuy \in Nat
          /\ held' = 0 /\ pos' = None /\ file' = None
          /\ pending' = None /\ fpending' = None /\ entry' = "allowed"
        BY <1>1, <1>4 DEF Start, NothingHeld, DropPending, KeepPending, Knows, account,
                          TypeOK, IInv, PhaseInv
    <2>2. PhaseInv' /\ FileIsCurrent' /\ PendingBelongs'
        BY <2>1 DEF PhaseInv, FileIsCurrent, PendingBelongs
    <2>3. Shares(pos)' = 0
        BY <2>1 DEF Shares
    <2>4. ASSUME ~misled', ~row' PROVE strayBuy' = 0
        <3>1. ~(strayBuy > 0)
            BY <2>1, <2>4
        <3> QED
            BY <2>1, <3>1
    <2>5. KnownInv'
        BY <2>1, <2>3, <2>4 DEF KnownInv
    <2> QED
        BY <1>2, <2>2, <2>5 DEF IInv
<1>5. CASE Restore
    <2>1. pos' = Reconciled /\ Reconciled # None /\ Reconciled.qty = held
        BY <1>1, <1>5, Reconciles DEF Restore
    <2>2. pos' # None /\ pos'.qty = held /\ held' = held /\ held \in Nat
          /\ strayBuy' = strayBuy
        BY <1>1, <2>1 DEF Start, account, TypeOK
    <2>3. phase' = "idle" /\ misled' = (strayBuy > 0 /\ ~row') /\ strayBuy \in Nat
        BY <1>1, <1>5 DEF Start, Restore, Knows, TypeOK
    <2>4. PhaseInv'
        BY <1>1, <1>5, <2>1, <2>3 DEF PhaseInv, IInv, Restore, TypeOK, Start
    <2>a. Shares(pos)' = held
        BY <2>2 DEF Shares
    <2>b. ASSUME ~misled', ~row' PROVE strayBuy' = 0
        <3>1. ~(strayBuy > 0)
            BY <2>3, <2>b
        <3> QED
            BY <2>2, <2>3, <3>1
    <2>5. KnownInv'
        BY <2>2, <2>3, <2>a, <2>b DEF KnownInv
    <2>6. FileIsCurrent' /\ PendingBelongs'
        BY <1>5, <2>1 DEF Restore, LoadPending, KeepPending, FileIsCurrent, PendingBelongs
    <2> QED
        BY <1>2, <2>4, <2>5, <2>6 DEF IInv
<1>6. CASE AdjustAverage
    BY <1>1, <1>2, <1>6 DEF Start, AdjustAverage, IInv, PhaseInv, KnownInv,
       FileIsCurrent, PendingBelongs
<1> QED
    BY <1>3, <1>4, <1>5, <1>6 DEF Start

\* A retried reconciliation is a mishap: from then on less is claimed.
LEMMA RetryUnblockKeeps == IInv /\ RetryUnblock => IInv'
<1> SUFFICES ASSUME IInv, RetryUnblock PROVE IInv'
    OBVIOUS
<1>1. TypeOK'
    BY Reconciles DEF IInv, TypeOK, RetryUnblock, ClearFile, account, counts,
       PositionOrNone, PendingOrNone
<1> QED
    BY <1>1 DEF IInv, TypeOK, PhaseInv, KnownInv, FileIsCurrent, PendingBelongs, RetryUnblock

\* The entry control changes nothing but the entry.
LEMMA SetEntryControlKeeps == IInv /\ SetEntryControl => IInv'
BY DEF IInv, TypeOK, PhaseInv, KnownInv, FileIsCurrent, PendingBelongs,
       SetEntryControl, account, stored, history, counts, Shares
-----------------------------------------------------------------------------
\* A BUY is sent only by an executor that holds nothing.
LEMMA StartBuyKeeps == IInv /\ StartBuy => IInv'
BY DEF IInv, TypeOK, PhaseInv, KnownInv, FileIsCurrent, PendingBelongs, StartBuy,
       account, memory, stored, history, Phases, Shares

\* Shares bought by the order waited for are counted with it.
LEMMA FillBuyKeeps == IInv /\ FillBuy => IInv'
<1> SUFFICES ASSUME IInv, FillBuy PROVE IInv'
    OBVIOUS
<1>1. /\ order \in [rest : Nat, done : Nat, why : Reasons \cup {None}]
      /\ held \in Nat /\ held' = held + 1 /\ phase = "buying" /\ order.rest > 0
      /\ order' = [order EXCEPT !.rest = @ - 1, !.done = @ + 1]
    BY DEF FillBuy, IInv, TypeOK
<1>2. order' \in [rest : Nat, done : Nat, why : Reasons \cup {None}]
      /\ order'.done = order.done + 1
    BY <1>1, Executes DEF OrderRec
<1>3. UNCHANGED <<strayBuy, straySell, row, phase, pos, pending, entry, file, fpending,
                  resting, misled, orders, stops>>
    BY DEF FillBuy, memory, stored, history, counts
<1>4. TypeOK' /\ PhaseInv' /\ FileIsCurrent' /\ PendingBelongs'
    BY <1>1, <1>2, <1>3 DEF IInv, TypeOK, PhaseInv, FileIsCurrent, PendingBelongs
<1>5. KnownInv'
    BY <1>1, <1>2, <1>3 DEF IInv, KnownInv
<1> QED
    BY <1>4, <1>5 DEF IInv

\* Shares bought by an order left behind come while its row blocks.
LEMMA FillStrayBuyKeeps == IInv /\ FillStrayBuy => IInv'
BY DEF IInv, TypeOK, PhaseInv, KnownInv, FileIsCurrent, PendingBelongs, FillStrayBuy,
       memory, stored, history, counts, Shares

\* Shares sold by an order left behind only lessen the account.
LEMMA FillStraySellKeeps == IInv /\ FillStraySell => IInv'
<1> SUFFICES ASSUME IInv, FillStraySell PROVE IInv'
    OBVIOUS
<1>1. UNCHANGED <<strayBuy, row, phase, order, pos, pending, entry, file, fpending,
                  resting, misled, orders, stops>>
    BY DEF FillStraySell, memory, stored, history, counts
<1>2. TypeOK' /\ PhaseInv' /\ FileIsCurrent' /\ PendingBelongs'
    BY <1>1 DEF IInv, TypeOK, PhaseInv, FileIsCurrent, PendingBelongs, FillStraySell
<1>3. held' = held - 1 /\ held \in Nat /\ order.done \in Nat
    BY DEF FillStraySell, IInv, TypeOK
<1>4. Shares(pos) \in Nat /\ Shares(pos)' = Shares(pos)
    BY <1>1 DEF Shares, IInv, TypeOK, PositionOrNone, Position
<1>5. KnownInv'
    BY <1>1, <1>3, <1>4 DEF KnownInv, IInv
<1> QED
    BY <1>2, <1>5 DEF IInv

\* Orders that end at the broker change no belief.
LEMMA StraysEndKeeps == IInv /\ StraysEnd => IInv'
BY DEF IInv, TypeOK, PhaseInv, KnownInv, FileIsCurrent, PendingBelongs, StraysEnd,
       memory, stored, history, counts, Shares
-----------------------------------------------------------------------------
\* What a report says: between one share and all those executed.
LEMMA BuyReportedKeeps == ASSUME NEW n \in 1 .. OrderQty
                          PROVE  IInv /\ BuyReported(n) => IInv'
<1> SUFFICES ASSUME IInv, BuyReported(n) PROVE IInv'
    OBVIOUS
<1>1. /\ order.rest \in Nat /\ order.done \in Nat /\ held \in Nat /\ strayBuy \in Nat
      /\ n \in Nat \ {0} /\ n <= order.done
      /\ phase = "buying" /\ phase' = "idle" /\ order' = NoOrder
      /\ row' = ~(order.rest = 0 /\ n = order.done)
      /\ strayBuy' \in {strayBuy, strayBuy + order.rest}
    BY DEF BuyReported, Reports, Full, IInv, TypeOK
<1>2. UNCHANGED <<held, straySell, pending, entry, resting, orders, stops>>
    BY DEF BuyReported, counts
<1>3. \/ /\ pos' \in Position /\ pos'.qty = n /\ file' = pos'
         /\ fpending' = (IF pending # None THEN pending ELSE fpending)
         /\ misled' = misled
      \/ misled' = TRUE /\ UNCHANGED <<pos, file, fpending>>
    BY <1>1, Boughts DEF BuyReported, Save, stored
<1>4. NoOrder \in [rest : Nat, done : Nat, why : Reasons \cup {None}]
    BY DEF NoOrder
<1>5. TypeOK'
    <2>1. strayBuy' \in Nat /\ misled' \in BOOLEAN
        <3>1. strayBuy' \in Nat
            BY <1>1
        <3>2. misled' \in BOOLEAN
            BY <1>3 DEF IInv, TypeOK
        <3> QED
            BY <3>1, <3>2
    <2>3. row' \in BOOLEAN
        BY <1>1
    <2>2. /\ pos' \in PositionOrNone /\ file' \in PositionOrNone
          /\ fpending' \in PendingOrNone
        BY <1>3 DEF IInv, TypeOK, PositionOrNone
    <2> QED
        BY <1>1, <1>2, <1>4, <2>1, <2>2, <2>3 DEF IInv, TypeOK, Phases
<1>6. PhaseInv' /\ FileIsCurrent' /\ PendingBelongs'
    BY <1>1, <1>2, <1>3 DEF IInv, PhaseInv, FileIsCurrent, PendingBelongs
<1>7. KnownInv'
    <2> SUFFICES ASSUME ~misled', ~row' PROVE strayBuy' = 0 /\ held' <= Shares(pos)'
        BY <1>1 DEF KnownInv
    <2>1. ~misled /\ pos' # None /\ pos'.qty = n
        BY <1>3
    <2>2. strayBuy = 0 /\ held <= order.done
        BY <1>1, <2>1 DEF IInv, KnownInv
    <2>3. order.rest = 0 /\ n = order.done
        BY <1>1
    <2>4. Shares(pos)' = n
        BY <2>1 DEF Shares
    <2>5. strayBuy' = 0
        BY <1>1, <2>2, <2>3
    <2> QED
        BY <1>1, <1>2, <2>2, <2>3, <2>4, <2>5
<1> QED
    BY <1>5, <1>6, <1>7 DEF IInv

\* A BUY that executed nothing and is rejected leaves the account as it was.
LEMMA BuyRejectedKeeps == IInv /\ BuyRejected => IInv'
<1> SUFFICES ASSUME IInv, BuyRejected PROVE IInv'
    OBVIOUS
<1>1. NoOrder \in [rest : Nat, done : Nat, why : Reasons \cup {None}]
    BY DEF NoOrder
<1>2. UNCHANGED <<held, strayBuy, straySell, pos, pending, entry, file, fpending,
                  resting, misled, orders, stops>>
    BY DEF BuyRejected, account, memory, stored, history, counts
<1>3. /\ phase = "buying" /\ phase' = "idle" /\ order.done = 0
      /\ order' = NoOrder /\ row' = FALSE
    BY DEF BuyRejected
<1>4. TypeOK' /\ PhaseInv' /\ FileIsCurrent' /\ PendingBelongs'
    BY <1>1, <1>2, <1>3 DEF IInv, TypeOK, PhaseInv, FileIsCurrent, PendingBelongs, Phases
<1>5. KnownInv'
    BY <1>2, <1>3 DEF IInv, KnownInv, Shares, PhaseInv
<1> QED
    BY <1>4, <1>5 DEF IInv

\* A BUY without a fill is followed by a question to the account.
LEMMA BuyEndsKeeps == IInv /\ BuyEnds => IInv'
<1> SUFFICES ASSUME IInv, BuyEnds PROVE IInv'
    OBVIOUS
<1>1. NoOrder \in [rest : Nat, done : Nat, why : Reasons \cup {None}]
    BY DEF NoOrder
<1>2. /\ phase = "buying" /\ phase' = "idle" /\ order' = NoOrder /\ row' = FALSE
      /\ UNCHANGED <<held, straySell, pending, entry, resting, orders, stops>>
    BY DEF BuyEnds, counts
<1>3. strayBuy' \in Nat
    BY DEF BuyEnds, IInv, TypeOK
<1>4. PICK n \in Seen : /\ BuyReconciles(n)
                        /\ misled' = (misled \/ n # held \/ strayBuy' # strayBuy)
    BY DEF BuyEnds
<1>5. n \in Nat
    BY DEF Seen, IInv, TypeOK
<1>6. pos = None
    BY <1>2 DEF IInv, PhaseInv
<1>7. \/ /\ n > 0 /\ pos' \in Position /\ pos'.qty = n /\ file' = pos'
         /\ fpending' = (IF pending # None THEN pending ELSE fpending)
      \/ n = 0 /\ UNCHANGED <<pos, file, fpending>>
    BY <1>4, <1>5, Boughts DEF BuyReconciles, Save, stored, Prices
<1>8. TypeOK'
    BY <1>1, <1>2, <1>3, <1>4, <1>7
       DEF IInv, TypeOK, PositionOrNone, PendingOrNone, Phases
<1>9. PhaseInv' /\ FileIsCurrent' /\ PendingBelongs'
    BY <1>2, <1>4, <1>7 DEF IInv, PhaseInv, FileIsCurrent, PendingBelongs
<1>10. KnownInv'
    <2> SUFFICES ASSUME ~misled' PROVE strayBuy' = 0 /\ held' <= Shares(pos)'
        BY <1>2 DEF KnownInv
    <2>1. ~misled /\ n = held /\ strayBuy' = strayBuy
        BY <1>4
    <2>2. strayBuy = 0 /\ held' = n
        BY <1>2, <2>1 DEF IInv, KnownInv
    <2>3. Shares(pos)' = n
        BY <1>6, <1>7 DEF Shares
    <2> QED
        BY <1>5, <2>1, <2>2, <2>3
<1> QED
    BY <1>8, <1>9, <1>10 DEF IInv
-----------------------------------------------------------------------------
\* A sell is sent with the reason of the exit.
LEMMA StartSellKeeps == ASSUME NEW r \in Reasons
                        PROVE  IInv /\ StartSell(r) => IInv'
<1> SUFFICES ASSUME IInv, StartSell(r) PROVE IInv'
    OBVIOUS
<1>1. /\ phase = "idle" /\ phase' = "selling" /\ pos # None /\ pos \in Position
      /\ order' = [rest |-> pos.qty, done |-> 0, why |-> r]
      /\ orders' = orders + 1
      /\ resting' \in Reasons \cup {None}
      /\ UNCHANGED <<held, strayBuy, straySell, row, pos, file, entry, misled, stops>>
    BY DEF StartSell, account, IInv, TypeOK, PositionOrNone
<1>2. pos.qty \in Nat
    BY <1>1 DEF Position
<1>3. order' \in [rest : Nat, done : Nat, why : Reasons \cup {None}] /\ order'.done = 0
    BY <1>1, <1>2
<1>4. \/ pending' = None /\ fpending' = None
      \/ UNCHANGED <<pending, fpending>>
    BY DEF StartSell, DropPending, KeepPending
<1>5. TypeOK'
    BY <1>1, <1>3, <1>4 DEF IInv, TypeOK, Phases, PendingOrNone
<1>6. PhaseInv' /\ FileIsCurrent' /\ PendingBelongs'
    BY <1>1, <1>4 DEF IInv, PhaseInv, FileIsCurrent, PendingBelongs
<1>7. KnownInv'
    BY <1>1, <1>2, <1>3 DEF IInv, KnownInv, PhaseInv, Shares, TypeOK
<1> QED
    BY <1>5, <1>6, <1>7 DEF IInv

\* An exit that waits stays pending.
LEMMA PutOffKeeps == IInv /\ PutOff => IInv'
<1> SUFFICES ASSUME IInv, PutOff PROVE IInv'
    OBVIOUS
<1>1. [pending EXCEPT !.wait = "yes"] \in Pending /\ pending.why \in Reasons
    BY Pendings DEF PutOff, IInv, TypeOK, PendingOrNone, Pending
<1>2. /\ pending' \in Pending /\ fpending' = pending' /\ resting' \in Reasons
      /\ pos # None
      /\ UNCHANGED <<held, strayBuy, straySell, row, phase, order, pos, file, entry,
                     misled, orders, stops>>
    BY <1>1 DEF PutOff, KeepPending, account, counts
<1>3. TypeOK' /\ PhaseInv' /\ FileIsCurrent' /\ PendingBelongs'
    BY <1>2 DEF IInv, TypeOK, PhaseInv, FileIsCurrent, PendingBelongs, PendingOrNone
<1>4. KnownInv'
    BY <1>2 DEF IInv, KnownInv, Shares
<1> QED
    BY <1>3, <1>4 DEF IInv

\* Shares sold by the order waited for leave the account with it.
LEMMA FillSellKeeps == IInv /\ FillSell => IInv'
<1> SUFFICES ASSUME IInv, FillSell PROVE IInv'
    OBVIOUS
<1>1. /\ order \in [rest : Nat, done : Nat, why : Reasons \cup {None}]
      /\ held \in Nat /\ held > 0 /\ held' = held - 1
      /\ phase = "selling" /\ order.rest > 0
      /\ order' = [order EXCEPT !.rest = @ - 1, !.done = @ + 1]
    BY DEF FillSell, IInv, TypeOK
<1>2. order' \in [rest : Nat, done : Nat, why : Reasons \cup {None}]
      /\ order'.done = order.done + 1
    BY <1>1, Executes DEF OrderRec
<1>3. UNCHANGED <<strayBuy, straySell, row, phase, pos, pending, entry, file, fpending,
                  resting, misled, orders, stops>>
    BY DEF FillSell, memory, stored, history, counts
<1>4. TypeOK' /\ PhaseInv' /\ FileIsCurrent' /\ PendingBelongs'
    BY <1>1, <1>2, <1>3 DEF IInv, TypeOK, PhaseInv, FileIsCurrent, PendingBelongs
<1>5. KnownInv'
    BY <1>1, <1>2, <1>3 DEF IInv, KnownInv, Shares
<1> QED
    BY <1>4, <1>5 DEF IInv
-----------------------------------------------------------------------------
\* What every end of a sell leaves and keeps.
LEMMA Ends ==
    ASSUME IInv, NEW rests \in Nat, EndSell(rests)
    PROVE  /\ phase = "selling" /\ phase' = "idle" /\ order' = NoOrder
           /\ NoOrder \in [rest : Nat, done : Nat, why : Reasons \cup {None}]
           /\ straySell' \in Nat
           /\ order.rest \in Nat /\ order.done \in Nat /\ held \in Nat
           /\ order.why \in Reasons \cup {None}
           /\ pos # None /\ pos \in Position
           /\ UNCHANGED <<held, strayBuy, row, entry, misled, orders, stops>>
BY DEF EndSell, counts, IInv, TypeOK, PhaseInv, PositionOrNone, NoOrder

\* A sell that leaves position and file as they were.
LEMMA UnchangedEnds ==
    ASSUME IInv, NEW rests \in Nat, EndSell(rests),
           UNCHANGED <<pos, pending, file, fpending, resting>>
    PROVE  IInv'
<1>1. TypeOK' /\ PhaseInv' /\ FileIsCurrent' /\ PendingBelongs'
    BY Ends DEF IInv, TypeOK, PhaseInv, FileIsCurrent, PendingBelongs, Phases
<1>2. pos.qty \in Nat
    BY Ends DEF Position
<1>3. KnownInv'
    BY Ends, <1>2 DEF IInv, KnownInv, Shares
<1> QED
    BY <1>1, <1>3 DEF IInv

\* A sell that closes the position, with no share left that has no row.
LEMMA ClosedEnds ==
    ASSUME IInv, NEW rests \in Nat, EndSell(rests), SellClosed, resting' = None,
           (~misled /\ ~row /\ strayBuy = 0 /\ held + order.done <= pos.qty) => held = 0
    PROVE  IInv'
<1>1. pos' = None /\ file' = None /\ fpending' = None /\ pending' = None
    BY DEF SellClosed, ClearFile
<1>2. TypeOK' /\ PhaseInv' /\ FileIsCurrent' /\ PendingBelongs'
    BY Ends, <1>1 DEF IInv, TypeOK, PhaseInv, FileIsCurrent, PendingBelongs, Phases,
                      PositionOrNone, PendingOrNone
<1>3. KnownInv'
    BY Ends, <1>1 DEF IInv, KnownInv, Shares
<1> QED
    BY <1>2, <1>3 DEF IInv

\* A reported sell closes or reduces the position and the file.
LEMMA SellReportedKeeps == ASSUME NEW n \in 1 .. order.done
                           PROVE  IInv /\ SellReported(n) => IInv'
<1> SUFFICES ASSUME IInv, SellReported(n) PROVE IInv'
    OBVIOUS
<1>1. EndSell(order.rest) /\ order.rest \in Nat /\ order.done \in Nat
    BY DEF SellReported, IInv, TypeOK
<1>2. n \in Nat \ {0} /\ n <= order.done
    BY <1>1
<1>3. held \in Nat /\ pos \in Position /\ pos # None /\ phase = "selling"
    BY <1>1, Ends
<1>4. pos.qty \in Nat \ {0}
    BY <1>3 DEF Position
<1>5. CASE Closes(n) /\ SellClosed /\ resting' = None
    <2>1. (held + order.done <= pos.qty) => held = 0
        BY <1>1, <1>2, <1>3, <1>4, <1>5 DEF Closes
    <2> QED
        BY <1>1, <1>5, <2>1, ClosedEnds
<1>6. CASE ~Closes(n) /\ SellReduced(n) /\ UNCHANGED resting
    <2> DEFINE left == [pos EXCEPT !.qty = @ - n]
    <2>1. pos.qty - n \in Nat \ {0}
        BY <1>2, <1>4, <1>6 DEF Closes
    <2>2. left \in Position /\ left.qty = pos.qty - n
        BY <1>3, <2>1 DEF Position
    <2>3. /\ pos' = left /\ file' = left /\ pending' = pending
          /\ fpending' = (IF pending # None THEN pending ELSE fpending)
        BY <1>6 DEF SellReduced, Save
    <2> HIDE DEF left
    <2>4. pos' \in Position /\ pos' # None /\ pos'.qty = pos.qty - n /\ file' = pos'
        BY <2>2, <2>3
    <2>5. TypeOK'
        BY <1>1, <1>6, <2>3, <2>4, Ends
           DEF IInv, TypeOK, Phases, PositionOrNone, PendingOrNone
    <2>6. PhaseInv' /\ FileIsCurrent' /\ PendingBelongs'
        BY <1>1, <2>3, <2>4, Ends DEF IInv, PhaseInv, FileIsCurrent, PendingBelongs
    <2>7. Shares(pos)' = pos.qty - n /\ Shares(pos) = pos.qty
        BY <1>3, <2>4 DEF Shares
    <2>8. KnownInv'
        <3> SUFFICES ASSUME ~misled', ~row' PROVE strayBuy' = 0 /\ held' <= Shares(pos)'
            BY <1>1, Ends DEF KnownInv
        <3>1. strayBuy = 0 /\ held + order.done <= pos.qty
            BY <1>1, <1>3, <2>7, Ends DEF IInv, KnownInv
        <3>2. strayBuy' = strayBuy /\ held' = held
            BY <1>1, Ends
        <3> QED
            BY <1>1, <1>2, <1>3, <1>4, <2>7, <3>1, <3>2
    <2> QED
        BY <2>5, <2>6, <2>8 DEF IInv
<1>7. CASE UNCHANGED <<pos, pending, stored, resting>>
    BY <1>1, <1>7, UnchangedEnds DEF stored
<1> QED
    BY <1>5, <1>6, <1>7 DEF SellReported

\* A refused exit is stored with its backoff.
LEMMA SellUnavailableKeeps == IInv /\ SellUnavailable => IInv'
<1> SUFFICES ASSUME IInv, SellUnavailable PROVE IInv'
    OBVIOUS
<1>1. EndSell(0) /\ 0 \in Nat
    BY DEF SellUnavailable
<1> DEFINE p == [why |-> order.why, wait |-> "yes"]
<1>2. pending' = p /\ fpending' = p /\ resting' = order.why /\ UNCHANGED <<pos, file>>
    BY DEF SellUnavailable, Activate, KeepPending
<1>3. order.why \in Reasons
    BY <1>1 DEF SellUnavailable, EndSell, IInv, PhaseInv
<1>4. p \in Pending
    BY <1>3 DEF Pending
<1> HIDE DEF p
<1>5. TypeOK'
    BY <1>1, <1>2, <1>3, <1>4, Ends DEF IInv, TypeOK, Phases, PendingOrNone
<1>6. PhaseInv' /\ FileIsCurrent' /\ PendingBelongs'
    BY <1>1, <1>2, Ends DEF IInv, PhaseInv, FileIsCurrent, PendingBelongs
<1>7. pos.qty \in Nat
    BY <1>1, Ends DEF Position
<1>8. KnownInv'
    BY <1>1, <1>2, <1>7, Ends DEF IInv, KnownInv, Shares
<1> QED
    BY <1>5, <1>6, <1>8 DEF IInv

\* A sell that executed nothing and is rejected keeps the position.
LEMMA SellRejectedKeeps == IInv /\ SellRejected => IInv'
<1> SUFFICES ASSUME IInv, SellRejected PROVE IInv'
    OBVIOUS
<1>1. 0 \in Nat
    OBVIOUS
<1> QED
    BY <1>1, UnchangedEnds DEF SellRejected, stored

\* The account never answers "no".
LEMMA SellFailsKeeps == IInv /\ SellFails => IInv'
<1> SUFFICES ASSUME IInv, SellFails PROVE IInv'
    OBVIOUS
<1>1. order.rest \in Nat
    BY DEF IInv, TypeOK
<1>2. UNCHANGED <<pos, pending, file, fpending, resting>>
    BY DEF SellFails, HasHolding, stored
<1> QED
    BY <1>1, <1>2, UnchangedEnds DEF SellFails
-----------------------------------------------------------------------------
\* The end of a backoff changes only whether the exit waits.
LEMMA BackoffEndsKeeps == IInv /\ BackoffEnds => IInv'
<1> SUFFICES ASSUME IInv, BackoffEnds PROVE IInv'
    OBVIOUS
<1>1. /\ pending' \in PendingOrNone /\ fpending' \in PendingOrNone
      /\ pending' = None <=> pending = None
      /\ pending = fpending => pending' = fpending'
    BY Pendings DEF BackoffEnds, IInv, TypeOK
<1>2. /\ UNCHANGED <<held, strayBuy, straySell, row, phase, order, pos, file, entry,
                     misled, orders, stops>>
      /\ resting' = None
    BY DEF BackoffEnds, account, counts
<1>3. TypeOK' /\ PhaseInv' /\ FileIsCurrent' /\ PendingBelongs'
    BY <1>1, <1>2 DEF IInv, TypeOK, PhaseInv, FileIsCurrent, PendingBelongs
<1>4. KnownInv'
    BY <1>2 DEF IInv, KnownInv, Shares
<1> QED
    BY <1>3, <1>4 DEF IInv

\* A process that ends forgets its memory and leaves its orders to the broker.
LEMMA LeaveKeeps ==
    ASSUME IInv, Leave, file' \in PositionOrNone, fpending' \in PendingOrNone,
           resting' \in Reasons \cup {None}
    PROVE  IInv'
<1>1. NoOrder \in [rest : Nat, done : Nat, why : Reasons \cup {None}]
    BY DEF NoOrder
<1>2. strayBuy' \in Nat /\ straySell' \in Nat
    BY DEF Leave, IInv, TypeOK
<1>3. TypeOK'
    BY <1>1, <1>2 DEF Leave, IInv, TypeOK, Phases, PositionOrNone, PendingOrNone
<1> QED
    BY <1>3 DEF Leave, IInv, PhaseInv, KnownInv, FileIsCurrent, PendingBelongs

\* A stop rewrites the file.
LEMMA StopKeeps == IInv /\ Stop => IInv'
<1> SUFFICES ASSUME IInv, Stop PROVE IInv'
    OBVIOUS
<1>1. /\ file' \in PositionOrNone /\ fpending' \in PendingOrNone
      /\ resting' \in Reasons \cup {None}
    BY DEF Stop, SaveOnExit, Save, ClearFile, IInv, TypeOK, PositionOrNone, PendingOrNone
<1> QED
    BY <1>1, LeaveKeeps DEF Stop

\* A crash leaves the file as it is.
LEMMA CrashKeeps == IInv /\ Crash => IInv'
<1> SUFFICES ASSUME IInv, Crash PROVE IInv'
    OBVIOUS
<1>1. /\ file' \in PositionOrNone /\ fpending' \in PendingOrNone
      /\ resting' \in Reasons \cup {None}
    BY DEF Crash, stored, IInv, TypeOK
<1> QED
    BY <1>1, LeaveKeeps DEF Crash
-----------------------------------------------------------------------------
\* Every step keeps the inductive invariant.
THEOREM StepIInv == IInv /\ [Next]_vars => IInv'
<1> SUFFICES ASSUME IInv, [Next]_vars PROVE IInv'
    OBVIOUS
<1>1. CASE UNCHANGED vars
    BY <1>1 DEF vars, IInv, TypeOK, PhaseInv, KnownInv, FileIsCurrent,
                PendingBelongs, Shares
<1>2. CASE Start \/ RetryUnblock \/ SetEntryControl
    BY <1>2, StartKeeps, RetryUnblockKeeps, SetEntryControlKeeps
<1>3. CASE StartBuy \/ FillBuy \/ FillStrayBuy \/ FillStraySell \/ StraysEnd
    BY <1>3, StartBuyKeeps, FillBuyKeeps, FillStrayBuyKeeps, FillStraySellKeeps,
       StraysEndKeeps
<1>4. CASE (\E n \in 1 .. OrderQty : BuyReported(n)) \/ BuyRejected \/ BuyEnds
    BY <1>4, BuyReportedKeeps, BuyRejectedKeeps, BuyEndsKeeps
<1>5. CASE (\E r \in Reasons : StartSell(r)) \/ PutOff \/ FillSell
    BY <1>5, StartSellKeeps, PutOffKeeps, FillSellKeeps
<1>6. CASE \E n \in 1 .. order.done : SellReported(n)
    BY <1>6, SellReportedKeeps
<1>7. CASE SellUnavailable \/ SellRejected \/ SellFails \/ BackoffEnds
    BY <1>7, SellUnavailableKeeps, SellRejectedKeeps, SellFailsKeeps, BackoffEndsKeeps
<1>8. CASE Stop \/ Crash
    BY <1>8, StopKeeps, CrashKeeps
<1> QED
    BY <1>1, <1>2, <1>3, <1>4, <1>5, <1>6, <1>7, <1>8 DEF Next

\* The inductive invariant holds in every reachable state.
THEOREM IInvHolds == Spec => []IInv
<1> QED
    BY InitIInv, StepIInv, PTL DEF Spec

\* Every variable of PositionControl keeps its type.
THEOREM PositionTypes == Spec => []TypeOK
<1>1. IInv => TypeOK
    BY DEF IInv
<1> QED
    BY <1>1, IInvHolds, PTL

\* The entry never adds to shares the executor does not know of (execute_buy,
\* restore_position_on_start), short of the mishaps Next marks.
THEOREM EntryNeverBlind == Spec => []NoBlindEntry
<1>1. IInv => NoBlindEntry
    <2> SUFFICES ASSUME IInv, phase = "idle", entry = "allowed", pos = None, ~row, ~misled
                 PROVE  held = 0 /\ strayBuy = 0
        BY DEF NoBlindEntry
    <2>1. strayBuy = 0 /\ held <= Shares(pos) /\ held \in Nat
        BY DEF IInv, KnownInv, TypeOK
    <2> QED
        BY <2>1 DEF Shares
<1> QED
    BY <1>1, IInvHolds, PTL

\* Whenever the process may crash, the file has what the process has
\* (every handler that changes the position saves it).
THEOREM FileStaysCurrent == Spec => []FileIsCurrent
<1>1. IInv => FileIsCurrent
    BY DEF IInv
<1> QED
    BY <1>1, IInvHolds, PTL

\* A pending exit never outlives its position.
THEOREM PendingHasPosition == Spec => []PendingBelongs
<1>1. IInv => PendingBelongs
    BY DEF IInv
<1> QED
    BY <1>1, IInvHolds, PTL

\* The stored position, and with it the stop and target of the entry, leaves
\* the file only with the shares: each step, by the invariant, is one of
\* StoredTermsLast's four cases.
THEOREM StoredTermsStay == Spec => StoredTermsLast
<1> DEFINE Lasts == file # None =>
        \/ file' # None /\ file'.terms = file.terms
        \/ held = 0
        \/ phase = "selling" /\ order.done >= file.qty
        \/ entry = "sticky" \/ misled
<1>1. IInv /\ [Next]_vars => [Lasts]_vars
    <2> SUFFICES ASSUME IInv, Next, file # None, held # 0, entry # "sticky", ~misled
                 PROVE  \/ file' # None /\ file'.terms = file.terms
                        \/ phase = "selling" /\ order.done >= file.qty
        BY DEF vars
    <2>1. file \in Position /\ TypeOK
        BY DEF IInv, TypeOK, PositionOrNone
    <2>2. phase # "down" => file = pos
        BY DEF IInv, FileIsCurrent
    <2>3. CASE UNCHANGED file
        BY <2>3
    <2>4. CASE Start
        <3>1. held > 0
            BY <2>1 DEF TypeOK
        <3>2. Reconciled.terms = file.terms
            BY <2>1 DEF Reconciled, Position
        <3>3. file' = Reconciled \/ file' = file
            BY <2>4 DEF Start, StartUnanswered, NothingHeld, Restore, AdjustAverage
        <3> QED
            BY <2>1, <3>1, <3>2, <3>3, Reconciles
    <2>5. CASE BuyEnds \/ \E n \in 1 .. OrderQty : BuyReported(n)
        BY <2>2, <2>5 DEF BuyEnds, BuyReported, IInv, PhaseInv
    <2>6. ASSUME NEW n \in 1 .. order.done, SellReported(n)
          PROVE  \/ file' # None /\ file'.terms = file.terms
                 \/ phase = "selling" /\ order.done >= file.qty
        <3>1. phase = "selling" /\ file = pos /\ order.done \in Nat
            BY <2>1, <2>2, <2>6 DEF SellReported, EndSell, TypeOK
        <3>2. pos \in Position /\ pos.qty \in Nat \ {0} /\ n <= order.done /\ n \in Nat
            BY <2>1, <3>1 DEF Position
        <3>3. CASE Closes(n)
            BY <3>1, <3>2, <3>3 DEF Closes
        <3>4. CASE ~Closes(n) /\ SellReduced(n)
            <4> DEFINE left == [pos EXCEPT !.qty = @ - n]
            <4>1. pos.qty - n \in Nat \ {0}
                BY <3>2, <3>4 DEF Closes
            <4>2. left \in Position /\ left.terms = pos.terms
                BY <3>2, <4>1 DEF Position
            <4>3. file' = left
                BY <3>4 DEF SellReduced, Save
            <4> HIDE DEF left
            <4> QED
                BY <3>1, <4>2, <4>3
        <3>5. CASE UNCHANGED stored
            BY <3>5 DEF stored
        <3> QED
            BY <2>6, <3>3, <3>4, <3>5 DEF SellReported
    <2>7. CASE Stop
        BY <2>2, <2>7 DEF Stop, Leave, SaveOnExit, Save
    <2>8. CASE RetryUnblock
        BY <2>8 DEF RetryUnblock
    <2>9. CASE \/ SetEntryControl \/ StartBuy \/ FillBuy \/ FillStrayBuy
               \/ FillStraySell \/ StraysEnd \/ BuyRejected
        BY <2>3, <2>9 DEF SetEntryControl, StartBuy, FillBuy, FillStrayBuy,
           FillStraySell, StraysEnd, BuyRejected, stored
    <2>10. CASE \/ \E r \in Reasons : StartSell(r)
                \/ PutOff \/ FillSell \/ SellUnavailable \/ SellRejected \/ SellFails
                \/ BackoffEnds \/ Crash
        BY <2>3, <2>10 DEF StartSell, PutOff, FillSell, SellUnavailable, SellRejected,
           SellFails, HasHolding, BackoffEnds, Crash, stored
    <2> QED
        BY <2>4, <2>5, <2>6, <2>7, <2>8, <2>9, <2>10 DEF Next
<1> QED
    BY <1>1, IInvHolds, PTL DEF Spec, StoredTermsLast
-----------------------------------------------------------------------------
(***************************************************************************)
(* An exit whose backoff runs is the pending one: in the file, and while   *)
(* the process is up in memory too; an executor that could not reconcile   *)
(* has none, nor does one that waits for an exit order.                    *)
(***************************************************************************)
Rests(r) == [why |-> r, wait |-> "yes"]
RestInv ==
    resting # None =>
        /\ fpending = Rests(resting)
        /\ phase # "down" => pending = Rests(resting)
        /\ entry # "sticky" /\ phase # "selling"

\* What is pending for a reason is something pending that waits.
LEMMA RestsPending ==
    ASSUME NEW r \in Reasons
    PROVE  Rests(r) \in Pending /\ Rests(r) # None /\ Rests(r).why = r /\ Rests(r).wait = "yes"
BY DEF Rests, Pending

\* Nothing rests before the first start.
LEMMA InitRests == Init => RestInv
BY DEF Init, RestInv

\* A start keeps the stored pending exit, and lets it rest on, or drops it.
LEMMA StartRests == IInv /\ RestInv /\ Start => RestInv'
<1> SUFFICES ASSUME IInv, RestInv, Start, resting' # None
             PROVE  /\ fpending' = Rests(resting')
                    /\ pending' = Rests(resting')
                    /\ entry' # "sticky" /\ phase' # "selling"
    BY DEF RestInv
<1>1. PICK p \in Loaded : LoadPending(p) /\ entry' = entry /\ phase' = "idle"
    BY DEF Start, StartUnanswered, NothingHeld, Restore, AdjustAverage
<1>2. p = fpending /\ resting' = resting /\ pending' = p /\ fpending' = p
    BY <1>1 DEF LoadPending, KeepPending
<1> QED
    BY <1>1, <1>2 DEF RestInv

\* An entry saves what is pending with the position, and leaves it pending.
LEMMA EntryRests ==
    ASSUME IInv, RestInv, BuyEnds \/ BuyRejected \/ \E n \in 1 .. OrderQty : BuyReported(n)
    PROVE  RestInv'
<1>1. /\ phase = "buying" /\ phase' = "idle"
      /\ pending' = pending /\ entry' = entry /\ resting' = resting
    BY DEF BuyEnds, BuyRejected, BuyReported, memory, history
<1>2. fpending' \in {pending, fpending}
    BY DEF BuyEnds, BuyReconciles, BuyRejected, BuyReported, Save, stored
<1> QED
    BY <1>1, <1>2 DEF RestInv

\* An exit is sent for another reason than the resting one, which ends it.
LEMMA StartSellRests ==
    ASSUME IInv, RestInv, NEW r \in Reasons, StartSell(r)
    PROVE  resting # r /\ resting' = None
<1>1. phase = "idle" /\ r # None
    BY DEF StartSell
<1>2. SUFFICES ASSUME resting = r PROVE FALSE
    BY DEF StartSell
<1>3. pending = Rests(r)
    BY <1>1, <1>2 DEF RestInv
<1> QED
    BY <1>3, RestsPending DEF StartSell, Attempts

\* The end of an exit order leaves an exit that rests only with both copies.
LEMMA SellRests ==
    ASSUME IInv, RestInv,
           SellUnavailable \/ SellRejected \/ SellFails
           \/ \E n \in 1 .. order.done : SellReported(n)
    PROVE  RestInv'
<1>1. /\ phase = "selling" /\ phase' = "idle" /\ entry' = entry
      /\ entry # "sticky" /\ resting = None
    BY DEF SellUnavailable, SellRejected, SellFails, SellReported, EndSell,
           IInv, PhaseInv, RestInv
<1>2. CASE SellUnavailable
    BY <1>1, <1>2 DEF SellUnavailable, Activate, KeepPending, Rests, RestInv
<1>3. CASE resting' = None
    BY <1>3 DEF RestInv
<1> QED
    BY <1>1, <1>2, <1>3 DEF SellRejected, SellFails, SellReported

\* A stop writes what is pending; a crash leaves what was written.
LEMMA LeaveRests ==
    ASSUME IInv, RestInv, Stop \/ Crash
    PROVE  RestInv'
<1> SUFFICES ASSUME resting' # None
             PROVE  fpending' = Rests(resting') /\ entry' # "sticky" /\ phase' = "down"
    BY DEF RestInv
<1>1. phase # "down" /\ phase' = "down" /\ entry' = "allowed"
    BY DEF Stop, Crash, Leave
<1>2. resting' = resting /\ fpending' \in {pending, fpending}
    BY DEF Stop, Crash, SaveOnExit, Save, stored
<1> QED
    BY <1>1, <1>2 DEF RestInv

\* Every step keeps it.
LEMMA StepRests == IInv /\ RestInv /\ [Next]_vars => RestInv'
<1> SUFFICES ASSUME IInv, RestInv, [Next]_vars PROVE RestInv'
    OBVIOUS
<1>1. CASE UNCHANGED vars
    BY <1>1 DEF vars, RestInv
<1>2. CASE \/ StartBuy \/ FillBuy \/ FillStrayBuy \/ FillStraySell \/ StraysEnd
           \/ SetEntryControl \/ FillSell
    <2>1. /\ resting' = resting /\ pending' = pending /\ fpending' = fpending
          /\ phase' = phase \/ (phase = "idle" /\ phase' = "buying")
          /\ entry' = entry \/ entry' # "sticky"
        BY <1>2 DEF StartBuy, FillBuy, FillStrayBuy, FillStraySell, StraysEnd,
           SetEntryControl, FillSell, memory, stored, history
    <2> QED
        BY <2>1 DEF RestInv
<1>3. CASE RetryUnblock
    BY <1>3 DEF RetryUnblock, RestInv
<1>4. CASE PutOff
    <2>1. /\ pending \in Pending /\ entry # "sticky" /\ phase = "idle"
        BY <1>4 DEF PutOff, IInv, TypeOK, PhaseInv, PendingOrNone
    <2>2. [pending EXCEPT !.wait = "yes"] = Rests(pending.why)
        BY <2>1 DEF Pending, Rests
    <2> QED
        BY <1>4, <2>1, <2>2 DEF PutOff, KeepPending, RestInv
<1>5. CASE BackoffEnds
    BY <1>5 DEF BackoffEnds, RestInv
<1>6. ASSUME NEW r \in Reasons, StartSell(r) PROVE RestInv'
    BY <1>6, StartSellRests DEF RestInv
<1> QED
    BY <1>1, <1>2, <1>3, <1>4, <1>5, <1>6, StartRests, EntryRests, SellRests,
       LeaveRests DEF Next

\* An exit the market refused is not tried again for the same reason before its
\* backoff is over, across crashes and restarts (_should_attempt_exit_order,
\* with what _activate_pending_exit stores).
THEOREM BackoffAlwaysHolds == Spec => BackoffHolds
<1> DEFINE Holds == (phase = "idle" /\ phase' = "selling") => order'.why # resting
<1>1. IInv /\ RestInv /\ [Next]_vars => [Holds]_vars
    <2> SUFFICES ASSUME IInv, RestInv, Next, phase = "idle", phase' = "selling"
                 PROVE  order'.why # resting
        OBVIOUS
    <2>1. \E r \in Reasons : StartSell(r)
        BY DEF Next, Start, RetryUnblock, SetEntryControl, StartBuy, FillBuy,
           FillStrayBuy, FillStraySell, StraysEnd, BuyReported, BuyRejected, BuyEnds,
           PutOff, FillSell, SellReported, SellUnavailable, SellRejected, SellFails,
           EndSell, BackoffEnds, Stop, Crash, Leave
    <2>2. PICK r \in Reasons : StartSell(r)
        BY <2>1
    <2>3. order'.why = r
        BY <2>2 DEF StartSell
    <2> QED
        BY <2>2, <2>3, StartSellRests
<1>2. Spec => []RestInv
    BY InitRests, StepRests, IInvHolds, PTL DEF Spec
<1> QED
    BY <1>1, <1>2, IInvHolds, PTL DEF Spec, BackoffHolds
=============================================================================
