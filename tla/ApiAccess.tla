------------------------------ MODULE ApiAccess ------------------------------
(***************************************************************************)
(* How the threads of a process call the broker (api/kis_api.py): the      *)
(* token of a client, its file and its lock; a request with its retries    *)
(* and its one renewal of a refused token; and the inquiry of the account, *)
(* which all clients of a process share, behind three caches of the same   *)
(* life.  The answers themselves are the matter of OrderSync.  A login is  *)
(* one step with its own retries, and so is an account number refused by   *)
(* mistake, which is asked again.                                          *)
(***************************************************************************)
EXTENDS Integers

CONSTANTS
    Callers,     \* threads that call the broker
    Clients,     \* objects of class KISApi, of one account
    Api,         \* the client each thread calls through
    Life,        \* ACCOUNT_BALANCE_CACHE_TTL_SEC, ACCOUNT_HOLDINGS_CACHE_TTL_SEC
    Retries      \* MAX_RETRIES

\* What the constants are; Components assumes it of its settings.
ApiLimits ==
    /\ Api \in [Callers -> Clients] /\ Life \in Nat \ {0} /\ Retries \in Nat \ {0}

VARIABLES
    caller,      \* of each thread: where its call is, and how the last one ended
    usable,      \* of each client: its token is far from its end
    saved,       \* so is the token in the file
    inflight,    \* the account is in _shared_balance_payload_inflight
    shared,      \* _shared_balance_payload_cache
    raw,         \* of each client: _balance_raw_cache
    listed         \* of each client: _holdings_cache and _balance_cache

apiVars == <<caller, usable, saved, inflight, shared, raw, listed>>

Lists  == {"holdings", "balance"}
Wants  == Lists \cup {"order", "prewarm"}
\* A cached answer: the time since it was stamped, and since the broker gave it.
Old    == [stamp |-> Life, age |-> 0]
New    == [stamp |-> 0, age |-> 0]
Idle   == [at |-> "idle", wants |-> "order", tries |-> 0, renewed |-> FALSE, got |-> "nothing", age |-> 0]

ApiInit ==
    /\ caller = [c \in Callers |-> Idle]
    /\ usable = [i \in Clients |-> FALSE] /\ saved \in BOOLEAN
    /\ inflight = FALSE /\ shared = Old
    /\ raw = [i \in Clients |-> Old] /\ listed = [i \in Clients |-> [l \in Lists |-> Old]]

IsFresh(s) == s.stamp < Life
Goes(c, at) == caller' = [caller EXCEPT ![c].at = at]
CallEnds(c, got, age) == caller' = [caller EXCEPT ![c] = [Idle EXCEPT !.wants = caller[c].wants, !.got = got, !.age = age]]
\* get_holdings, get_account_balance: the list made of a payload is stamped anew.
Delivers(c, payload) ==
    /\ CallEnds(c, "data", payload.age)
    /\ listed' = [listed EXCEPT ![Api[c]][caller[c].wants] = [stamp |-> 0, age |-> payload.age]]

Call(c, wants) ==
    /\ caller[c].at = "idle"
    /\ caller' = [caller EXCEPT ![c] =
         IF wants \in Lists /\ IsFresh(listed[Api[c]][wants])
         THEN [Idle EXCEPT !.wants = wants, !.got = "data", !.age = listed[Api[c]][wants].age]
         ELSE [Idle EXCEPT !.wants = wants, !.at = IF wants \in Lists THEN "account" ELSE "headers"]]
    /\ UNCHANGED <<usable, saved, inflight, shared, raw, listed>>

\* _request_balance_payload up to the call: the client's cache, then under the
\* lock the shared one, then whether another thread is asking; a thread that
\* finds one asking looks again when it is done, or a while later.
Reused_Restamped(s) == [s EXCEPT !.stamp = 0]
Reused(s) == s
Look(c) ==
    /\ caller[c].at = "account"
    /\ IF IsFresh(raw[Api[c]])
       THEN Delivers(c, raw[Api[c]]) /\ UNCHANGED <<raw, inflight>>
       ELSE IF IsFresh(shared)
       THEN /\ raw' = [raw EXCEPT ![Api[c]] = Reused(shared)]
            /\ Delivers(c, shared) /\ UNCHANGED inflight
       ELSE ~inflight /\ inflight' = TRUE /\ Goes(c, "headers") /\ UNCHANGED <<raw, listed>>
    /\ UNCHANGED <<usable, saved, shared>>

\* _get_auth_headers and get_access_token: the token, the file under the
\* client's lock, then a login, whose failure is raised to the caller.
TokenLockFree(i) == \A c \in Callers : Api[c] = i => caller[c].at \notin {"login", "relogin"}
Serves(c) == IF caller[c].wants = "prewarm" THEN CallEnds(c, "data", 0) ELSE Goes(c, "send")
Headers(c) ==
    /\ caller[c].at = "headers"
    /\ IF usable[Api[c]] THEN Serves(c) /\ UNCHANGED usable
       ELSE /\ TokenLockFree(Api[c])
            /\ IF saved THEN Serves(c) /\ usable' = [usable EXCEPT ![Api[c]] = TRUE]
               ELSE Goes(c, "login") /\ UNCHANGED usable
    /\ UNCHANGED <<saved, inflight, shared, raw, listed>>

LoggedIn(c) == usable' = [usable EXCEPT ![Api[c]] = TRUE] /\ saved' \in {TRUE, saved}
\* A login that fails is raised before the try that would take the mark back.
Login(c) ==
    /\ caller[c].at = "login"
    /\ (LoggedIn(c) /\ Serves(c)) \/ (CallEnds(c, "KISApiError", 0) /\ UNCHANGED <<usable, saved>>)
    /\ UNCHANGED <<inflight, shared, raw, listed>>

\* _request_with_retry, which an order goes through once.
Limit(c) == IF caller[c].wants = "order" THEN 0 ELSE Retries
Unmark(c) == inflight' = (inflight /\ caller[c].wants \notin Lists)
TriesAgain(c, renewed, error) ==
    IF caller[c].tries < Limit(c)
    THEN /\ caller' = [caller EXCEPT ![c].at = "send", ![c].tries = @ + 1, ![c].renewed = renewed]
         /\ UNCHANGED inflight
    ELSE CallEnds(c, error, 0) /\ Unmark(c)

Answered(c) ==
    /\ Unmark(c)
    /\ IF caller[c].wants \in Lists
       THEN raw' = [raw EXCEPT ![Api[c]] = New] /\ shared' = New /\ Delivers(c, New)
       ELSE CallEnds(c, "data", 0) /\ UNCHANGED <<raw, shared, listed>>
NotAnswered(c) ==
    /\ \/ TriesAgain(c, caller[c].renewed, "KISApiError")
       \/ CallEnds(c, "KISApiError", 0) /\ Unmark(c)
       \/ ~caller[c].renewed /\ Goes(c, "denied") /\ UNCHANGED inflight
    /\ UNCHANGED <<shared, raw, listed>>
SendRequest(c) ==
    /\ caller[c].at = "send" /\ (Answered(c) \/ NotAnswered(c))
    /\ UNCHANGED <<usable, saved>>

\* A refused token is renewed once, whatever the file says; a renewal in the
\* only attempt leaves no exception to raise.
LoginAgain(c) ==
    /\ caller[c].at = "denied" /\ TokenLockFree(Api[c]) /\ Goes(c, "relogin")
    /\ UNCHANGED <<usable, saved, inflight, shared, raw, listed>>
Relogin(c) ==
    /\ caller[c].at = "relogin"
    /\ \/ LoggedIn(c) /\ TriesAgain(c, TRUE, IF caller[c].tries = 0 THEN "TypeError" ELSE "KISApiError")
       \/ TriesAgain(c, TRUE, "KISApiError") /\ UNCHANGED <<usable, saved>>
    /\ UNCHANGED <<shared, raw, listed>>

\* Time passes; a token comes near its end.
Aged(s) == IF s.stamp + 1 >= Life THEN Old ELSE [stamp |-> s.stamp + 1, age |-> s.age + 1]
CachesAge ==
    /\ shared' = Aged(shared) /\ raw' = [i \in Clients |-> Aged(raw[i])]
    /\ listed' = [i \in Clients |-> [l \in Lists |-> Aged(listed[i][l])]]
    /\ UNCHANGED <<caller, usable, saved, inflight>>
TokenEnds ==
    /\ usable' \in {[usable EXCEPT ![i] = FALSE] : i \in Clients} /\ saved' \in {saved, FALSE}
    /\ UNCHANGED <<caller, inflight, shared, raw, listed>>

Proceeds(c) == Look(c) \/ Headers(c) \/ Login(c) \/ SendRequest(c) \/ LoginAgain(c) \/ Relogin(c)
ApiNext ==
    \/ \E c \in Callers : Proceeds(c) \/ \E wants \in Wants : Call(c, wants)
    \/ CachesAge \/ TokenEnds

\* A thread that can go on does, a lock it waits for is given to it in the end.
ApiSpec ==
    /\ ApiInit /\ [][ApiNext]_apiVars
    /\ \A c \in Callers : SF_apiVars(Proceeds(c))
-----------------------------------------------------------------------------
Cached == [stamp : 0 .. Life, age : 0 .. 2 * Life]
ApiTypes ==
    /\ caller \in [Callers -> [at : {"idle", "account", "headers", "login", "send", "denied", "relogin"},
                               wants : Wants, tries : 0 .. Retries, renewed : BOOLEAN,
                               got : {"nothing", "data", "KISApiError", "TypeError"}, age : 0 .. 2 * Life]]
    /\ usable \in [Clients -> BOOLEAN] /\ saved \in BOOLEAN /\ inflight \in BOOLEAN
    /\ shared \in Cached /\ raw \in [Clients -> Cached] /\ listed \in [Clients -> [Lists -> Cached]]

\* No thread is told holdings or a balance of two lives of the cache ago or
\* more, by whichever of the three caches, and of whoever asked the broker: a
\* list may be made at the end of the life of its payload and is kept for
\* another, but a payload taken over from another client keeps its time.
AccountIsRecent == \A c \in Callers : caller[c].got = "data" => caller[c].age <= 2 * (Life - 1)

\* README.md: a token that cannot be issued again is raised to the caller.  Then
\* every call ends, with an answer or an error.
BalanceCallsReturn == \A c \in Callers : caller[c].at = "account" ~> caller[c].at = "idle"
=============================================================================
