--------------------------- MODULE OrderLifecycle ---------------------------
(***************************************************************************)
(* What the order_state table promises to a reader: the life of the row of *)
(* one idempotency key, and that a symbol never has two unfinished BUY     *)
(* rows.  OrderSync is the detailed specification that implements it.      *)
(***************************************************************************)
EXTENDS Naturals

CONSTANTS Keys,      \* idempotency keys
          BuyKeys,   \* the keys of BUY orders; the others are SELL orders
          Symbol     \* the stock each key trades, a function on Keys

VARIABLE row         \* [Keys -> Status], "NONE" when the key has no row

Open       == {"PENDING", "SUBMITTED", "PARTIAL"}
Closed     == {"FILLED", "CANCELLED", "FAILED"}
Status     == {"NONE"} \cup Open \cup Closed
\* The rows that refuse a second order of the same key.
Duplicates == Open \cup {"FILLED"}

Become(k, from, to) ==
    /\ row[k] \in from
    /\ row' = [row EXCEPT ![k] = to]

Init == row = [k \in Keys |-> "NONE"]

\* A key is taken, unless it is already running or done, or another BUY of
\* its symbol is unfinished.
Take(k) ==
    /\ Become(k, Status \ Duplicates, "PENDING")
    /\ k \in BuyKeys =>
         \A k2 \in BuyKeys : Symbol[k2] = Symbol[k] => row[k2] \notin Open

\* The broker refuses or acknowledges the order.
Fail(k)   == Become(k, {"PENDING"}, "FAILED")
Submit(k) == Become(k, {"PENDING"}, "SUBMITTED")

\* The acknowledged order ends.
Settle(k) == \E s \in {"FILLED", "PARTIAL", "CANCELLED"} : Become(k, {"SUBMITTED"}, s)

\* A restart gives up on some unfinished rows.
Clean == \E S \in SUBSET {k \in Keys : row[k] \in Open} :
            row' = [k \in Keys |-> IF k \in S THEN "CANCELLED" ELSE row[k]]

Next == Clean \/ \E k \in Keys : Take(k) \/ Fail(k) \/ Submit(k) \/ Settle(k)

Spec == Init /\ [][Next]_row
=============================================================================
