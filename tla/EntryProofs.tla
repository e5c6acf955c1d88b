---------------------------- MODULE EntryProofs -----------------------------
(***************************************************************************)
(* What stands between a signal and an order, for all values of the        *)
(* constants: the checks of an entry, the setups it is made on, the        *)
(* opening range, the rules of a position, and the broker's answers about  *)
(* the account.                                                            *)
(***************************************************************************)
EXTENDS EntryChecks, Candidates, OpeningRange, PositionRules, ApiAccess, WellFoundedInduction,
        TLAPS

-----------------------------------------------------------------------------
(***************************************************************************)
(* A validated pullback BUY knows an account that is recent, for every     *)
(* life of the snapshot, length of a call and age of what it finds in a    *)
(* cache.  Whoever says that the stock is not held was told so no longer   *)
(* before its time than an answer may be kept; once the entry is checked,  *)
(* what it was checked against and the time since grow together.           *)
(***************************************************************************)

Snapshots == [known : BOOLEAN, has : BOOLEAN, age : Nat]
Calls     == [on : BOOLEAN, age : Nat]
Accounts  == [held : BOOLEAN, last : [BOOLEAN -> Nat]]
Entries   == [at : {"none", "signal", "checked", "quoted", "sent"}, by : {"trend", "pullback"},
              since : Nat]

\* How long ago the broker could last answer that none is held.
Free == account.last[FALSE]

\* What a snapshot is worth: it is of no use, too old, or as true as it is old.
Worth(s, free) == s.known /\ ~s.has /\ s.age <= HoldingsLife => free <= s.age + AnswerLife

CheckShapes ==
    /\ account \in Accounts
    /\ store \in Snapshots
    /\ reads \in [Readers -> Calls]
    /\ entry \in Entries

Validated == entry.by = "pullback" /\ mode = "REAL" /\ checks = "light"
RecentlyKnown ==
    /\ Worth(store, Free)
    /\ \A r \in Readers : reads[r].on => reads[r].age <= CallTime
    /\ OnItsWay /\ Validated => Free <= AnswerLife + JudgedAge + entry.since

Knows == CheckShapes /\ RecentlyKnown

LEMMA LimitTypes ==
    ASSUME CheckLimits
    PROVE  /\ QuoteLife \in Nat /\ HoldingsLife \in Nat /\ CallTime \in Nat
           /\ AnswerLife \in Nat /\ OrderTime \in Nat /\ JudgedAge \in Nat /\ LongestAge \in Nat
           /\ HoldingsLife <= JudgedAge /\ CallTime <= JudgedAge
<1>1. {QuoteLife, HoldingsLife, CallTime, AnswerLife, OrderTime} \subseteq Nat
    BY DEF CheckLimits
<1>2. /\ JudgedAge \in Nat /\ HoldingsLife <= JudgedAge /\ CallTime <= JudgedAge
    BY <1>1 DEF JudgedAge
<1> QED
    BY <1>1, <1>2 DEF LongestAge

LEMMA FreeType == CheckShapes => Free \in Nat
BY DEF CheckShapes, Accounts, Free

\* What a call brings is as true as it is old.
LEMMA AnswersWorth ==
    ASSUME CheckLimits, Knows, NEW r \in Readers, reads[r].on, NEW s \in Answers(r)
    PROVE  /\ s \in Snapshots /\ s.known /\ s.age <= CallTime
           /\ ~s.has => Free <= s.age + AnswerLife
<1>1. PICK h \in BOOLEAN : Possible(h, r) /\ s = Answer(h, r)
    BY DEF Answers
<1>2. reads[r] \in Calls /\ reads[r].age <= CallTime
    BY DEF Knows, CheckShapes, RecentlyKnown
<1>3. s = [known |-> TRUE, has |-> h, age |-> reads[r].age]
    BY <1>1 DEF Answer
<1>4. s \in Snapshots /\ s.known /\ s.age = reads[r].age /\ s.has = h
    BY <1>2, <1>3 DEF Snapshots, Calls
<1>5. CASE h = FALSE
    BY <1>1, <1>2, <1>4, <1>5 DEF Possible, Free
<1>6. CASE h = TRUE
    BY <1>2, <1>4, <1>6
<1> QED
    BY <1>5, <1>6

\* The snapshot before the first call.
LEMMA AbsentSnapshot ==
    ASSUME CheckLimits
    PROVE  Absent \in Snapshots /\ ~Absent.known
<1>1. [known |-> FALSE, has |-> FALSE, age |-> HoldingsLife + 1] \in Snapshots
    BY LimitTypes DEF Snapshots
<1> QED
    BY <1>1 DEF Absent

LEMMA InitKnows == CheckLimits /\ ChecksInit => Knows
<1> SUFFICES ASSUME CheckLimits, ChecksInit
             PROVE  Knows
    OBVIOUS
<1>1. account \in Accounts
    <2>1. LongestAge + 1 \in Nat /\ 0 \in Nat
        BY LimitTypes
    <2>2. [h \in BOOLEAN |-> IF h THEN LongestAge + 1 ELSE 0] \in [BOOLEAN -> Nat]
        BY <2>1
    <2> QED
        BY <2>2 DEF ChecksInit, Accounts
<1>2. reads \in [Readers -> Calls] /\ \A r \in Readers : ~reads[r].on
    BY DEF ChecksInit, NoRead, Calls
<1>3. entry \in Entries /\ ~OnItsWay
    BY DEF ChecksInit, NoEntry, Entries, OnItsWay
<1>4. store \in Snapshots /\ Worth(store, Free)
    BY AbsentSnapshot DEF ChecksInit, Worth
<1> QED
    BY <1>1, <1>2, <1>3, <1>4 DEF Knows, CheckShapes, RecentlyKnown

\* A call begins.
LEMMA AskKnows ==
    ASSUME Knows, NEW r \in Readers, Ask(r), CheckLimits,
           UNCHANGED <<mode, checks, account, store, entry>>
    PROVE  Knows'
<1>1. reads' \in [Readers -> Calls] /\ \A q \in Readers : q # r => reads'[q] = reads[q]
    BY DEF Ask, Knows, CheckShapes, Calls
<1>2. reads'[r] = [on |-> TRUE, age |-> 0]
    BY DEF Ask, Knows, CheckShapes
<1>3. \A q \in Readers : reads'[q].on => reads'[q].age <= CallTime
    <2> SUFFICES ASSUME NEW q \in Readers, reads'[q].on
                 PROVE  reads'[q].age <= CallTime
        OBVIOUS
    <2>1. CASE q = r
        BY <1>2, <2>1, LimitTypes
    <2>2. CASE q # r
        BY <1>1, <2>2 DEF Knows, RecentlyKnown
    <2> QED
        BY <2>1, <2>2
<1> QED
    BY <1>1, <1>3 DEF Knows, CheckShapes, RecentlyKnown, Worth, Free, Validated, OnItsWay

\* A call ends.
LEMMA DoneKnows ==
    ASSUME Knows, NEW r \in Readers, Done(r)
    PROVE  /\ reads' \in [Readers -> Calls]
           /\ \A q \in Readers : reads'[q].on => reads[q].on /\ reads'[q].age = reads[q].age
<1> QED
    BY DEF Done, NoRead, Knows, CheckShapes, Calls

\* A judgement leaves the entry, refuses it or checks it; it checks one of REAL
\* only against a snapshot that is known and has none.
LEMMA JudgeKnows ==
    ASSUME Knows, NEW s \in Snapshots, Judge(s), UNCHANGED mode
    PROVE  /\ entry' \in Entries
           /\ OnItsWay' /\ mode' = "REAL" => s.known /\ ~s.has
<1>1. CASE entry' = NoEntry
    BY <1>1 DEF NoEntry, Entries, OnItsWay
<1>2. CASE entry' # NoEntry
    <2>1. entry' = [entry EXCEPT !.at = "checked"] /\ ~((s.known /\ s.has) \/ (~s.known /\ mode = "REAL"))
        BY <1>2 DEF Judge, Checked
    <2> QED
        BY <2>1 DEF Knows, CheckShapes, Entries
<1> QED
    BY <1>1, <1>2

LEMMA ValidateKnows == CheckLimits /\ Knows /\ Validate => Knows'
<1> SUFFICES ASSUME CheckLimits, Knows, Validate
             PROVE  Knows'
    OBVIOUS
<1>1. UNCHANGED <<mode, checks, account>> /\ Free' = Free
    BY DEF Validate, Free
<1>2. ASSUME store' \in Snapshots, Worth(store', Free), entry' \in Entries,
             reads' \in [Readers -> Calls],
             \A q \in Readers : reads'[q].on => reads[q].on /\ reads'[q].age = reads[q].age,
             (OnItsWay /\ Validated)' => Free <= AnswerLife + JudgedAge
      PROVE  Knows'
    <2>1. entry'.since \in Nat /\ Free \in Nat
        BY <1>2, FreeType DEF Entries, Knows
    <2>2. (OnItsWay /\ Validated)' => Free <= AnswerLife + JudgedAge + entry'.since
        BY <1>2, <2>1, LimitTypes
    <2> QED
        BY <1>1, <1>2, <2>2 DEF Knows, CheckShapes, RecentlyKnown
<1>3. CASE entry.by = "trend" \/ checks # "light"
    <2>1. Checked /\ UNCHANGED <<store, reads>>
        BY <1>3 DEF Validate
    <2>2. entry' \in Entries /\ ~Validated'
        BY <1>1, <1>3, <2>1 DEF Checked, Knows, CheckShapes, Entries, Validated
    <2> QED
        BY <1>2, <2>1, <2>2 DEF Knows, CheckShapes, RecentlyKnown
<1>4. CASE ~(entry.by = "trend" \/ checks # "light") /\ reads["order"].on
    <2>1. Done("order")
        BY <1>4 DEF Validate
    <2>2. /\ reads' \in [Readers -> Calls]
          /\ \A q \in Readers : reads'[q].on => reads[q].on /\ reads'[q].age = reads[q].age
        BY <2>1, DoneKnows DEF Readers
    <2>3. CASE \E s \in Answers("order") : store' = s /\ Judge(s)
        <3>1. PICK s \in Answers("order") : store' = s /\ Judge(s)
            BY <2>3
        <3>2. /\ s \in Snapshots /\ s.known /\ s.age <= CallTime
              /\ ~s.has => Free <= s.age + AnswerLife
            BY <1>4, AnswersWorth DEF Readers
        <3>3. /\ entry' \in Entries
              /\ (OnItsWay /\ Validated)' => ~s.has
            BY <1>1, <3>1, <3>2, JudgeKnows DEF Validated
        <3>4. (OnItsWay /\ Validated)' => Free <= AnswerLife + JudgedAge
            BY <3>2, <3>3, LimitTypes, FreeType DEF Knows, Snapshots
        <3> QED
            BY <1>2, <2>2, <3>1, <3>2, <3>3, <3>4 DEF Worth
    <2>4. CASE store' = store /\ Judge(Absent)
        <3>1. Absent \in Snapshots /\ ~Absent.known
            BY AbsentSnapshot
        <3>2. entry' \in Entries /\ ~(OnItsWay /\ Validated)'
            BY <1>1, <2>4, <3>1, JudgeKnows DEF Validated
        <3> QED
            BY <1>2, <2>2, <2>4, <3>2 DEF Knows, CheckShapes, RecentlyKnown
    <2> QED
        BY <1>4, <2>3, <2>4 DEF Validate
<1>5. CASE ~(entry.by = "trend" \/ checks # "light") /\ ~reads["order"].on /\ Usable(store)
    <2>1. Judge(store) /\ UNCHANGED <<store, reads>>
        BY <1>5 DEF Validate
    <2>2. /\ entry' \in Entries
          /\ OnItsWay' /\ mode' = "REAL" => store.known /\ ~store.has
        BY <1>1, <2>1, JudgeKnows DEF Knows, CheckShapes
    <2>3. mode = "REAL" => store.age <= HoldingsLife
        BY <1>5 DEF Usable
    <2>4. (OnItsWay /\ Validated)' => Free <= AnswerLife + JudgedAge
        BY <1>1, <2>2, <2>3, LimitTypes, FreeType
        DEF Knows, CheckShapes, RecentlyKnown, Worth, Snapshots, Validated
    <2> QED
        BY <1>2, <2>1, <2>2, <2>4 DEF Knows, CheckShapes, RecentlyKnown
<1>6. CASE ~(entry.by = "trend" \/ checks # "light") /\ ~reads["order"].on /\ ~Usable(store)
    BY <1>1, <1>6, AskKnows DEF Validate, Readers
<1> QED
    BY <1>3, <1>4, <1>5, <1>6

\* Time makes everything older by as much, up to where it is too old to count.
LEMMA PassesKnows == CheckLimits /\ Knows /\ Passes => Knows'
<1> SUFFICES ASSUME CheckLimits, Knows, Passes
             PROVE  Knows'
    OBVIOUS
<1>1. UNCHANGED <<mode, checks>>
    BY DEF Passes
<1>2. account' \in Accounts /\ Free' <= Free + 1 /\ Free' \in Nat /\ Free \in Nat
    <2> DEFINE next == [h \in BOOLEAN |->
                            IF h = account.held THEN 0 ELSE Older(account.last[h], LongestAge)]
    <2>1. account' = [account EXCEPT !.last = next]
        BY DEF Passes
    <2>2. account \in Accounts
        BY DEF Knows, CheckShapes
    <2>3. \A n \in Nat : Older(n, LongestAge) \in Nat /\ Older(n, LongestAge) <= n + 1
        BY LimitTypes DEF Older
    <2>4. \A h \in BOOLEAN : account.last[h] \in Nat
        BY <2>2 DEF Accounts
    <2>5. next \in [BOOLEAN -> Nat] /\ next[FALSE] <= account.last[FALSE] + 1
        <3>1. ASSUME NEW h \in BOOLEAN
              PROVE  next[h] \in Nat /\ next[h] <= account.last[h] + 1
            <4>1. next[h] = IF h = account.held THEN 0 ELSE Older(account.last[h], LongestAge)
                OBVIOUS
            <4>2. account.last[h] \in Nat
                BY <2>4
            <4> HIDE DEF next
            <4>3. next[h] = 0 \/ next[h] = Older(account.last[h], LongestAge)
                BY <4>1
            <4> QED
                BY <2>3, <4>2, <4>3
        <3>2. next = [h \in BOOLEAN |-> next[h]]
            OBVIOUS
        <3> HIDE DEF next
        <3>3. FALSE \in BOOLEAN
            OBVIOUS
        <3>4. next \in [BOOLEAN -> Nat]
            BY <3>1, <3>2
        <3> QED
            BY <3>1, <3>3, <3>4
    <2>6. account' \in Accounts /\ account'.last = next
        BY <2>1, <2>2, <2>5 DEF Accounts
    <2> QED
        BY <2>4, <2>5, <2>6 DEF Free
<1>3. /\ store' \in Snapshots /\ store'.known = store.known /\ store'.has = store.has
      /\ store'.age <= HoldingsLife => store'.age = store.age + 1
      /\ store'.age >= store.age
    BY LimitTypes DEF Passes, Older, Knows, CheckShapes, Snapshots
<1>4. /\ reads' \in [Readers -> Calls]
      /\ \A r \in Readers : reads'[r].on => reads'[r].age <= CallTime
    <2> SUFFICES ASSUME NEW r \in Readers
                 PROVE  reads'[r] \in Calls /\ (reads'[r].on => reads'[r].age <= CallTime)
        BY DEF Passes
    <2>1. reads'[r] = IF reads[r].on THEN [reads[r] EXCEPT !.age = @ + 1] ELSE NoRead
        BY DEF Passes
    <2>2. reads[r] \in Calls
        BY DEF Knows, CheckShapes
    <2>3. NoRead \in Calls /\ ~NoRead.on
        BY DEF NoRead, Calls
    <2>4. CASE reads[r].on
        <3>1. reads'[r] = [reads[r] EXCEPT !.age = @ + 1]
            BY <2>1, <2>4
        <3>2. reads[r].age < CallTime
            BY <2>4 DEF Passes
        <3> QED
            BY <2>2, <2>4, <3>1, <3>2, LimitTypes DEF Calls
    <2>5. CASE ~reads[r].on
        BY <2>1, <2>3, <2>5
    <2> QED
        BY <2>4, <2>5
<1>5. Worth(store', Free')
    BY <1>2, <1>3, LimitTypes DEF Worth, Knows, CheckShapes, RecentlyKnown, Snapshots
<1>6. /\ entry' \in Entries /\ entry'.by = entry.by /\ entry'.at = entry.at
      /\ OnItsWay => entry'.since = entry.since + 1
    BY DEF Passes, Knows, CheckShapes, Entries
<1>7. (OnItsWay /\ Validated)' => Free' <= AnswerLife + JudgedAge + entry'.since
    <2> SUFFICES ASSUME OnItsWay', Validated'
                 PROVE  Free' <= AnswerLife + JudgedAge + entry'.since
        OBVIOUS
    <2>1. OnItsWay /\ Validated
        BY <1>1, <1>6 DEF OnItsWay, Validated
    <2>2. Free <= AnswerLife + JudgedAge + entry.since /\ entry.since \in Nat
        BY <2>1 DEF Knows, RecentlyKnown, CheckShapes, Entries
    <2> QED
        BY <1>2, <1>6, <2>1, <2>2, LimitTypes
<1> QED
    BY <1>1, <1>2, <1>3, <1>4, <1>5, <1>6, <1>7 DEF Knows, CheckShapes, RecentlyKnown

\* The account comes to hold the stock or not to, or is said to hold none.
LEMMA AccountKnows ==
    ASSUME CheckLimits, Knows, account' \in Accounts, Free' <= Free,
           UNCHANGED <<mode, checks, store, reads>>,
           entry' = entry \/ entry' = NoEntry
    PROVE  Knows'
<1>1. Free \in Nat /\ Free' \in Nat
    BY FreeType DEF Knows, Accounts, Free
<1>2. entry' \in Entries
    BY DEF Knows, CheckShapes, Entries, NoEntry
<1>3. Worth(store', Free')
    BY <1>1, LimitTypes DEF Knows, RecentlyKnown, CheckShapes, Snapshots, Worth
<1>4. OnItsWay' => entry' = entry
    BY DEF OnItsWay, NoEntry
<1>5. (OnItsWay /\ Validated)' => Free' <= AnswerLife + JudgedAge + entry'.since
    <2> SUFFICES ASSUME OnItsWay', Validated'
                 PROVE  Free' <= AnswerLife + JudgedAge + entry'.since
        OBVIOUS
    <2>1. entry' = entry
        BY <1>4
    <2>2. OnItsWay /\ Validated
        BY <2>1 DEF OnItsWay, Validated
    <2>3. Free <= AnswerLife + JudgedAge + entry.since /\ entry.since \in Nat
        BY <2>2 DEF Knows, RecentlyKnown, CheckShapes, Entries
    <2> QED
        BY <1>1, <2>1, <2>3, LimitTypes
<1> QED
    BY <1>2, <1>3, <1>5 DEF Knows, CheckShapes, RecentlyKnown

LEMMA HoldsKnows ==
    ASSUME Knows, NEW h \in BOOLEAN, Holds(h)
    PROVE  account' \in Accounts /\ Free' <= Free
<1>1. account \in Accounts /\ account.last \in [BOOLEAN -> Nat]
    BY DEF Knows, CheckShapes, Accounts
<1>2. account'.last = [account.last EXCEPT ![h] = 0] /\ account'.held = h
    BY DEF Holds
<1>3. [account.last EXCEPT ![h] = 0] \in [BOOLEAN -> Nat]
    BY <1>1
<1> DEFINE new == [account.last EXCEPT ![h] = 0][FALSE]
           old == account.last[FALSE]
<1>4. new <= old
    <2>1. FALSE \in BOOLEAN
        OBVIOUS
    <2>2. old \in Nat
        BY <1>1, <2>1
    <2>3. CASE h = FALSE
        <3>1. new = 0
            BY <1>1, <2>1, <2>3
        <3> HIDE DEF new, old
        <3> QED
            BY <2>2, <3>1
    <2>4. CASE h # FALSE
        <3>1. new = old
            BY <1>1, <2>1, <2>4
        <3> HIDE DEF new, old
        <3> QED
            BY <2>2, <3>1
    <2> QED
        BY <2>3, <2>4
<1> QED
    BY <1>2, <1>3, <1>4 DEF Holds, Accounts, Free

LEMMA StepKnows == CheckLimits /\ Knows /\ [ChecksNext]_checkVars => Knows'
<1> SUFFICES ASSUME CheckLimits, Knows, [ChecksNext]_checkVars
             PROVE  Knows'
    OBVIOUS
<1>1. CASE Passes
    BY <1>1, PassesKnows
<1>2. CASE Evaluate
    <2>1. NoEntry \in Entries
        BY DEF NoEntry, Entries
    <2>2. PICK by \in {"trend", "pullback"} : entry' = [NoEntry EXCEPT !.at = "signal", !.by = by]
        BY <1>2 DEF Evaluate
    <2>3. entry' \in Entries /\ ~OnItsWay'
        BY <2>1, <2>2 DEF Entries, OnItsWay
    <2> QED
        BY <1>2, <2>3 DEF Evaluate, Knows, CheckShapes, RecentlyKnown, Worth, Free
<1>3. CASE ThreadAsks
    BY <1>3, AskKnows DEF ThreadAsks, Readers
<1>4. CASE ThreadAnswers
    <2>1. /\ reads' \in [Readers -> Calls]
          /\ \A q \in Readers : reads'[q].on => reads[q].on /\ reads'[q].age = reads[q].age
        BY <1>4, DoneKnows DEF ThreadAnswers, Readers
    <2>2. store' \in Snapshots /\ Worth(store', Free)
        <3>1. CASE store' = store
            BY <3>1 DEF Knows, CheckShapes, RecentlyKnown
        <3>2. CASE store' \in Answers("thread")
            BY <1>4, <3>2, AnswersWorth DEF ThreadAnswers, Readers, Worth
        <3> QED
            BY <1>4, <3>1, <3>2 DEF ThreadAnswers
    <2> QED
        BY <1>4, <2>1, <2>2
        DEF ThreadAnswers, Knows, CheckShapes, RecentlyKnown, Free, OnItsWay, Validated
<1>5. CASE Validate
    BY <1>5, ValidateKnows
<1>6. CASE Quoted \/ Send
    <2>1. entry' \in Entries
        BY <1>6 DEF Quoted, Send, NoEntry, Knows, CheckShapes, Entries
    <2>2. OnItsWay' => OnItsWay /\ entry'.by = entry.by /\ entry'.since = entry.since
        BY <1>6 DEF Quoted, Send, NoEntry, OnItsWay, Knows, CheckShapes, Entries
    <2> QED
        BY <1>6, <2>1, <2>2
        DEF Quoted, Send, Knows, CheckShapes, RecentlyKnown, Worth, Free, Validated
<1>7. CASE Outcome
    <2>1. account' \in Accounts /\ Free' <= Free
        <3>1. CASE Holds(TRUE)
            BY <3>1, HoldsKnows
        <3>2. CASE UNCHANGED account
            <4>1. Free' = Free
                BY <3>2 DEF Free
            <4> QED
                BY <3>2, <4>1, FreeType DEF Knows, CheckShapes
        <3> QED
            BY <1>7, <3>1, <3>2 DEF Outcome
    <2> QED
        BY <1>7, <2>1, AccountKnows DEF Outcome
<1>8. CASE Elsewhere
    <2>1. PICK h \in BOOLEAN : Holds(h)
        <3>1. ASSUME NEW h, Holds(h), h = ~account.held
              PROVE  h \in BOOLEAN
            BY <3>1
        <3> QED
            BY <1>8, <3>1 DEF Elsewhere
    <2>2. account' \in Accounts /\ Free' <= Free
        BY <2>1, HoldsKnows
    <2> QED
        BY <1>8, <2>2, AccountKnows DEF Elsewhere
<1>9. CASE AnswersWithout
    <2>1. account.last \in [BOOLEAN -> Nat] /\ account \in Accounts /\ FALSE \in BOOLEAN
        BY DEF Knows, CheckShapes, Accounts
    <2>2. account' = [account EXCEPT !.last = [account.last EXCEPT ![FALSE] = 0]]
        BY <1>9 DEF AnswersWithout
    <2>3. /\ [account.last EXCEPT ![FALSE] = 0] \in [BOOLEAN -> Nat]
          /\ [account.last EXCEPT ![FALSE] = 0][FALSE] = 0
        BY <2>1
    <2>4. account' \in Accounts /\ Free' = 0
        BY <2>1, <2>2, <2>3 DEF Accounts, Free
    <2>5. account' \in Accounts /\ Free' <= Free
        BY <2>4, FreeType DEF Knows
    <2> QED
        BY <1>9, <2>5, AccountKnows DEF AnswersWithout
<1>10. CASE Quotes
    BY <1>10 DEF Quotes, Knows, CheckShapes, RecentlyKnown, Worth, Free, OnItsWay, Validated
<1>11. CASE UNCHANGED checkVars
    BY <1>11 DEF checkVars, Knows, CheckShapes, RecentlyKnown, Worth, Free, OnItsWay, Validated
<1> QED
    BY <1>1, <1>2, <1>3, <1>4, <1>5, <1>6, <1>7, <1>8, <1>9, <1>10, <1>11 DEF ChecksNext

\* A validated pullback BUY in REAL is sent only if the broker could say that
\* none is held, no longer ago than an answer is kept, the snapshot lives or a
\* call lasts, and the order has taken.
LEMMA KnowsAccount == Knows => EntryKnowsAccount
BY DEF Knows, RecentlyKnown, EntryKnowsAccount, Free, OnItsWay, Validated

\* The types of the checks: every age stops one step past its limit.
LEMMA OlderStays ==
    ASSUME NEW limit \in Nat, NEW most \in Nat, limit <= most, NEW age \in 0 .. most + 1
    PROVE  Older(age, limit) \in 0 .. most + 1
BY DEF Older

AccountTypes == [held : BOOLEAN, last : [BOOLEAN -> 0 .. LongestAge + 1]]
StoreTypes == [known : BOOLEAN, has : BOOLEAN, age : 0 .. JudgedAge + 1]
CallTypes  == [on : BOOLEAN, age : 0 .. CallTime]
EntryTypes == [at : {"none", "signal", "checked", "quoted", "sent"}, by : {"trend", "pullback"},
               since : 0 .. OrderTime]

LEMMA AbsentTyped ==
    ASSUME CheckLimits
    PROVE  Absent \in StoreTypes /\ NoRead \in CallTypes /\ NoEntry \in EntryTypes
<1>1. HoldingsLife + 1 \in 0 .. JudgedAge + 1 /\ 0 \in 0 .. CallTime /\ 0 \in 0 .. OrderTime
    BY LimitTypes
<1> QED
    BY <1>1 DEF Absent, NoRead, NoEntry, StoreTypes, CallTypes, EntryTypes

LEMMA InitChecksTypes == CheckLimits /\ ChecksInit => ChecksTypes
<1> SUFFICES ASSUME CheckLimits, ChecksInit
             PROVE  ChecksTypes
    OBVIOUS
<1>1. tick \in [age : 0 .. QuoteLife + 1, up : BOOLEAN]
    <2>1. QuoteLife + 1 \in 0 .. QuoteLife + 1
        BY LimitTypes
    <2> QED
        BY <2>1 DEF ChecksInit
<1>2. account \in AccountTypes
    <2>1. LongestAge + 1 \in 0 .. LongestAge + 1 /\ 0 \in 0 .. LongestAge + 1
        BY LimitTypes
    <2>2. [h \in BOOLEAN |-> IF h THEN LongestAge + 1 ELSE 0] \in [BOOLEAN -> 0 .. LongestAge + 1]
        BY <2>1
    <2> QED
        BY <2>2 DEF ChecksInit, AccountTypes
<1> QED
    BY <1>1, <1>2, AbsentTyped
    DEF ChecksInit, ChecksTypes, AccountTypes, StoreTypes, CallTypes, EntryTypes

LEMMA AskTypes ==
    ASSUME CheckLimits, reads \in [Readers -> CallTypes], NEW r \in Readers, Ask(r)
    PROVE  reads' \in [Readers -> CallTypes]
<1>1. 0 \in 0 .. CallTime
    BY LimitTypes
<1>2. [on |-> TRUE, age |-> 0] \in CallTypes
    BY <1>1 DEF CallTypes
<1> QED
    BY <1>2 DEF Ask

LEMMA AnswersTypes ==
    ASSUME CheckLimits, reads \in [Readers -> CallTypes], NEW r \in Readers, NEW s \in Answers(r)
    PROVE  s \in StoreTypes
<1>1. PICK h \in BOOLEAN : s = [known |-> TRUE, has |-> h, age |-> reads[r].age]
    BY DEF Answers, Answer
<1>2. reads[r].age \in 0 .. CallTime
    BY DEF CallTypes
<1>3. reads[r].age \in 0 .. JudgedAge + 1
    BY <1>2, LimitTypes
<1> QED
    BY <1>1, <1>3 DEF StoreTypes

LEMMA JudgeTypes ==
    ASSUME CheckLimits, entry \in EntryTypes, Checked \/ \E s : Judge(s)
    PROVE  entry' \in EntryTypes
BY AbsentTyped DEF Checked, Judge, EntryTypes

ChecksTyped ==
    /\ mode \in {"REAL", "PAPER"} /\ feed \in {"ws", "rest"} /\ checks \in {"off", "thread", "light"}
    /\ tick \in [age : 0 .. QuoteLife + 1, up : BOOLEAN]
    /\ account \in AccountTypes
    /\ store \in StoreTypes
    /\ reads \in [Readers -> CallTypes]
    /\ entry \in EntryTypes

LEMMA ChecksTypesAre == ChecksTypes <=> ChecksTyped
BY DEF ChecksTypes, ChecksTyped, AccountTypes, StoreTypes, CallTypes, EntryTypes

LEMMA ChecksTypesThen == ChecksTyped' => ChecksTypes'
BY DEF ChecksTypes, ChecksTyped, AccountTypes, StoreTypes, CallTypes, EntryTypes

LEMMA PassesTypes == CheckLimits /\ ChecksTyped /\ Passes => ChecksTyped'
<1> SUFFICES ASSUME CheckLimits, ChecksTyped, Passes
             PROVE  ChecksTyped'
    OBVIOUS
<1>1. tick' \in [age : 0 .. QuoteLife + 1, up : BOOLEAN]
    <2>1. Older(tick.age, QuoteLife) \in 0 .. QuoteLife + 1
        BY LimitTypes, OlderStays DEF ChecksTyped
    <2> QED
        BY <2>1 DEF Passes, ChecksTyped
<1>2. store' \in StoreTypes
    <2>1. Older(store.age, HoldingsLife) \in 0 .. JudgedAge + 1
        BY LimitTypes, OlderStays DEF ChecksTyped, StoreTypes
    <2> QED
        BY <2>1 DEF Passes, ChecksTyped, StoreTypes
<1>3. reads' \in [Readers -> CallTypes]
    <2> SUFFICES ASSUME NEW r \in Readers
                 PROVE  (IF reads[r].on THEN [reads[r] EXCEPT !.age = @ + 1] ELSE NoRead) \in CallTypes
        BY DEF Passes
    <2>1. CASE reads[r].on
        <3>1. reads[r].age + 1 \in 0 .. CallTime
            BY <2>1, LimitTypes DEF Passes, ChecksTyped, CallTypes
        <3> QED
            BY <2>1, <3>1 DEF ChecksTyped, CallTypes
    <2>2. CASE ~reads[r].on
        BY <2>2, AbsentTyped
    <2> QED
        BY <2>1, <2>2
<1>4. account' \in AccountTypes
    <2>1. \A h \in BOOLEAN : account.last[h] \in 0 .. LongestAge + 1
        BY DEF ChecksTyped, AccountTypes
    <2>2. \A h \in BOOLEAN : Older(account.last[h], LongestAge) \in 0 .. LongestAge + 1
        <3>1. \A n \in 0 .. LongestAge + 1 : Older(n, LongestAge) \in 0 .. LongestAge + 1
            BY LimitTypes, OlderStays
        <3> QED
            BY <2>1, <3>1
    <2>3. 0 \in 0 .. LongestAge + 1
        BY LimitTypes
    <2> QED
        BY <2>2, <2>3 DEF Passes, ChecksTyped, AccountTypes
<1>5. entry' \in EntryTypes
    <2>1. CASE OnItsWay
        <3>1. entry.since + 1 \in 0 .. OrderTime
            BY <2>1, LimitTypes DEF Passes, ChecksTyped, EntryTypes
        <3> QED
            BY <2>1, <3>1 DEF Passes, ChecksTyped, EntryTypes
    <2>2. CASE ~OnItsWay
        BY <2>2 DEF Passes, ChecksTyped
    <2> QED
        BY <2>1, <2>2
<1> QED
    BY <1>1, <1>2, <1>3, <1>4, <1>5 DEF Passes, ChecksTyped

LEMMA ValidateTypes == CheckLimits /\ ChecksTyped /\ Validate => ChecksTyped'
<1> SUFFICES ASSUME CheckLimits, ChecksTyped, Validate
             PROVE  ChecksTyped'
    OBVIOUS
<1>1. NoRead \in CallTypes /\ "order" \in Readers
    BY AbsentTyped DEF Readers
<1>2. \/ UNCHANGED <<store, reads>> /\ (Checked \/ \E s : Judge(s))
      \/ Ask("order") /\ UNCHANGED <<store, entry>>
      \/ Done("order") /\ store' \in Answers("order") \cup {store} /\ \E s : Judge(s)
    BY DEF Validate
<1>3. entry' \in EntryTypes
    BY <1>2, JudgeTypes DEF ChecksTyped
<1>4. store' \in StoreTypes
    BY <1>1, <1>2, AnswersTypes DEF ChecksTyped
<1>5. reads' \in [Readers -> CallTypes]
    BY <1>1, <1>2, AskTypes DEF Done, ChecksTyped
<1> QED
    BY <1>3, <1>4, <1>5 DEF Validate, ChecksTyped

LEMMA StepChecksTypes == CheckLimits /\ ChecksTypes /\ [ChecksNext]_checkVars => ChecksTypes'
<1> SUFFICES ASSUME CheckLimits, ChecksTyped, [ChecksNext]_checkVars
             PROVE  ChecksTyped'
    BY ChecksTypesAre, ChecksTypesThen
<1>1. CASE Evaluate
    BY <1>1, AbsentTyped DEF Evaluate, ChecksTyped, EntryTypes
<1>2. CASE ThreadAsks
    BY <1>2, AskTypes DEF ThreadAsks, Readers, ChecksTyped
<1>3. CASE ThreadAnswers
    <2>1. "thread" \in Readers /\ NoRead \in CallTypes
        BY AbsentTyped DEF Readers
    <2>2. store' \in StoreTypes
        BY <1>3, <2>1, AnswersTypes DEF ThreadAnswers, ChecksTyped
    <2>3. reads' \in [Readers -> CallTypes]
        BY <1>3, <2>1 DEF ThreadAnswers, Done, ChecksTyped
    <2> QED
        BY <1>3, <2>2, <2>3 DEF ThreadAnswers, ChecksTyped
<1>4. CASE Quoted \/ Send
    <2>1. entry' \in EntryTypes
        BY <1>4, AbsentTyped DEF Quoted, Send, ChecksTyped, EntryTypes
    <2> QED
        BY <1>4, <2>1 DEF Quoted, Send, ChecksTyped
<1>5. ASSUME NEW h \in BOOLEAN, Holds(h)
      PROVE  account' \in AccountTypes
    <2>1. 0 \in 0 .. LongestAge + 1
        BY LimitTypes
    <2> QED
        BY <1>5, <2>1 DEF Holds, ChecksTyped, AccountTypes
<1>6. CASE Outcome
    <2>1. account' \in AccountTypes
        BY <1>5, <1>6 DEF Outcome, ChecksTyped
    <2> QED
        BY <1>6, <2>1, AbsentTyped DEF Outcome, ChecksTyped
<1>7. CASE Elsewhere
    <2>1. account' \in AccountTypes
        BY <1>5, <1>7 DEF Elsewhere
    <2> QED
        BY <1>7, <2>1 DEF Elsewhere, ChecksTyped
<1>8. CASE AnswersWithout
    <2>1. 0 \in 0 .. LongestAge + 1
        BY LimitTypes
    <2> QED
        BY <1>8, <2>1 DEF AnswersWithout, ChecksTyped, AccountTypes
<1>9. CASE Quotes
    <2>1. 0 \in 0 .. QuoteLife + 1
        BY LimitTypes
    <2> DEFINE T == [age : 0 .. QuoteLife + 1, up : BOOLEAN]
    <2>2. [age |-> 0, up |-> TRUE] \in T
        BY <2>1
    <2>3. \A t \in T, b \in BOOLEAN : [t EXCEPT !.up = b] \in T
        OBVIOUS
    <2>4. tick \in T
        BY DEF ChecksTyped
    <2> HIDE DEF T
    <2>5. tick' \in T
        BY <1>9, <2>2, <2>3, <2>4 DEF Quotes
    <2> QED
        BY <1>9, <2>5 DEF Quotes, ChecksTyped, T
<1>10. CASE UNCHANGED checkVars
    BY <1>10 DEF checkVars, ChecksTyped
<1> QED
    BY <1>1, <1>2, <1>3, <1>4, <1>6, <1>7, <1>8, <1>9, <1>10, PassesTypes, ValidateTypes
    DEF ChecksNext

-----------------------------------------------------------------------------
(***************************************************************************)
(* The setups.  Wherever one is, in the store, with a worker, in the queue *)
(* or in the snapshot on disk, it was made in a session and on data that   *)
(* was fresh then.  It does not outlive its session by a night, so whoever *)
(* finds it alive in a session finds it in the one it was made in.  While  *)
(* the order worker has an intent, its setup expired no longer ago than it *)
(* has been underway since its precheck.                                   *)
(***************************************************************************)
Buyings == [at : {"queue", "prechecked", "evaluated", "ordered"}, since : 0 .. EntryTime]

SetupSound(s, t) ==
    \/ s = NoSetup
    \/ /\ s \in [made : Nat, data : Int] /\ s.made <= t
       /\ s.made % DayLength < Session
       /\ s.made - s.data <= DataLife

SetupInv ==
    /\ clock \in Nat
    /\ daily \in [at : Int, day : Int]
    /\ \A s \in {armed, waiting, file.setup, kept} : SetupSound(s, clock)
    /\ looking # Nobody => SetupSound(looking.setup, clock)
    /\ buying \in Buyings
    /\ Underway => waiting # NoSetup /\ clock < Expiry(waiting) + buying.since

\* A time is its place in its day.
LEMMA PlaceInDay ==
    ASSUME SetupTimes, NEW t \in Nat
    PROVE  /\ t % DayLength \in Nat /\ Day(t) \in Nat
           /\ t = DayLength * Day(t) + (t % DayLength)
           /\ t % DayLength < DayLength
BY DEF SetupTimes, Day

\* Two sessions are further apart than a candidate lives and its order takes.
LEMMA SessionsApart ==
    ASSUME SetupTimes, NEW made \in Nat, NEW now \in Nat,
           made <= now, now < made + SetupLife + EntryTime, made % DayLength < Session
    PROVE  Day(made) = Day(now)
<1> DEFINE a == Day(made)
           b == Day(now)
           x == made % DayLength
           y == now % DayLength
<1>1. /\ a \in Nat /\ b \in Nat /\ x \in Nat /\ y \in Nat
      /\ made = DayLength * a + x /\ now = DayLength * b + y
      /\ x < DayLength /\ y < DayLength /\ x < Session
    BY PlaceInDay
<1> HIDE DEF a, b, x, y
<1>2. /\ DayLength \in Nat /\ SetupLife \in Nat /\ EntryTime \in Nat /\ Session \in Nat
      /\ SetupLife + EntryTime + Session <= DayLength
    BY DEF SetupTimes
<1>3. CASE a < b
    <2>1. DayLength * b >= DayLength * (a + 1)
        BY <1>1, <1>2, <1>3
    <2>2. DayLength * (a + 1) = DayLength * a + DayLength
        BY <1>1, <1>2
    <2> QED
        BY <1>1, <1>2, <2>1, <2>2
<1>4. CASE b < a
    <2>1. DayLength * a >= DayLength * (b + 1)
        BY <1>1, <1>2, <1>4
    <2>2. DayLength * (b + 1) = DayLength * b + DayLength
        BY <1>1, <1>2
    <2> QED
        BY <1>1, <1>2, <2>1, <2>2
<1> QED
    BY <1>1, <1>3, <1>4 DEF a, b

LEMMA InitSetup == SetupTimes /\ SetupInit => SetupInv
<1> SUFFICES ASSUME SetupTimes, SetupInit
             PROVE  SetupInv
    OBVIOUS
<1>1. buying \in Buyings /\ ~Underway
    BY DEF SetupTimes, SetupInit, NotYet, Buyings, Underway
<1> QED
    BY <1>1 DEF SetupInit, SetupInv, SetupSound, NoDaily, Never

LEMMA StepSetup == SetupTimes /\ SetupInv /\ [SetupNext]_setupVars => SetupInv'
<1> SUFFICES ASSUME SetupTimes, SetupInv, [SetupNext]_setupVars
             PROVE  SetupInv'
    OBVIOUS
<1>0. ASSUME UNCHANGED <<clock, waiting, buying>>
      PROVE  /\ buying' \in Buyings
             /\ Underway' => waiting' # NoSetup /\ clock' < Expiry(waiting)' + buying.since'
    BY <1>0 DEF SetupInv, Underway, Expiry
<1>00. NotYet \in Buyings /\ NotYet.at = "queue"
    BY DEF NotYet, Buyings, SetupTimes
<1>1. CASE Refresh
    <2>1. Day(clock) \in Int
        BY PlaceInDay DEF SetupInv
    <2> QED
        BY <1>0, <1>1, <2>1 DEF Refresh, entries, disk, SetupInv
<1>2. CASE QuoteArrives \/ Saves \/ Monitors \/ BusyChanges \/ UNCHANGED setupVars
    BY <1>0, <1>2 DEF QuoteArrives, Saves, Monitors, Cleans, BusyChanges, setupVars, entries, disk,
                      data, Snapshot, SetupInv, SetupSound
<1>3. CASE Arms
    <2>1. SetupSound(NewSetup, clock)
        BY <1>3 DEF Arms, Armable, Valid, InSession, NewSetup, SetupSound, SetupInv, SetupTimes
    <2> QED
        BY <1>0, <1>3, <2>1 DEF Arms, data, entries, disk, SetupInv
<1>4. CASE Disarms
    BY <1>0, <1>4 DEF Disarms, data, entries, disk, SetupInv, SetupSound
<1>5. CASE Ends
    BY <1>00, <1>5 DEF Ends, NoDaily, Never, SetupInv, SetupSound, Underway
<1>6. CASE Takes
    BY <1>0, <1>6 DEF Takes, data, disk, SetupInv, SetupSound
<1>7. CASE Judges
    <2>1. waiting # NoSetup => waiting' = waiting
        BY <1>7 DEF Judges, Admits
    <2>2. Underway' => waiting' # NoSetup /\ clock' < Expiry(waiting)' + buying.since'
        BY <1>7, <2>1 DEF Judges, Underway, Expiry, SetupInv
    <2> QED
        BY <1>7, <2>2 DEF Judges, data, disk, SetupInv, SetupSound
<1>8. CASE Prechecks
    <2>1. buying' = [at |-> "prechecked", since |-> 0] /\ buying' \in Buyings
        BY <1>8 DEF Prechecks, Buyings, SetupTimes
    <2>2. waiting # NoSetup /\ waiting.made \in Nat
        BY <1>8 DEF Prechecks, SetupInv, SetupSound
    <2>3. clock < Expiry(waiting) + 0
        BY <1>8, <2>2 DEF Prechecks, Refused, Expiry, SetupInv, SetupTimes
    <2>4. clock' < Expiry(waiting)' + buying.since'
        BY <1>8, <2>1, <2>3 DEF Prechecks, Expiry
    <2> QED
        BY <1>8, <2>1, <2>2, <2>4 DEF Prechecks, data, disk, SetupInv, SetupSound
<1>9. CASE EvaluatesAgain
    <2>1. buying' \in Buyings /\ buying.since' = buying.since /\ Underway
        BY <1>9 DEF EvaluatesAgain, SetupInv, Buyings, Underway
    <2>2. waiting' # NoSetup /\ clock' < Expiry(waiting)' + buying.since'
        BY <1>9, <2>1 DEF EvaluatesAgain, SetupInv, Expiry
    <2> QED
        BY <1>9, <2>1, <2>2 DEF EvaluatesAgain, data, disk, SetupInv, SetupSound
<1>10. CASE Orders
    <2>1. buying' \in Buyings /\ ~Underway'
        BY <1>10 DEF Orders, Buyings, SetupTimes, Underway
    <2> QED
        BY <1>10, <2>1 DEF Orders, data, disk, SetupInv, SetupSound
<1>11. CASE Completes
    BY <1>00, <1>11 DEF Completes, data, disk, SetupInv, SetupSound, Underway
<1>12. CASE Boots \/ Starts
    BY <1>0, <1>12 DEF Boots, Starts, Recovery, data, entries, disk, SetupInv, SetupSound
<1>13. CASE Ticks
    <2>1. \A s : SetupSound(s, clock) => SetupSound(s, clock + 1)
        BY DEF SetupInv, SetupSound
    <2>2. /\ buying' \in Buyings
          /\ Underway' => waiting' # NoSetup /\ clock' < Expiry(waiting)' + buying.since'
        <3>1. CASE Underway
            <4>1. /\ buying' \in Buyings /\ buying.since' = buying.since + 1
                  /\ buying.since \in Nat
                BY <1>13, <3>1 DEF Ticks, SetupInv, Buyings, SetupTimes
            <4>2. waiting # NoSetup /\ waiting.made \in Nat /\ clock < Expiry(waiting) + buying.since
                BY <3>1 DEF SetupInv, SetupSound
            <4>3. Expiry(waiting) \in Nat /\ Expiry(waiting)' = Expiry(waiting)
                BY <1>13, <4>2 DEF Ticks, Expiry, SetupTimes
            <4>4. clock' = clock + 1 /\ clock \in Nat
                BY <1>13 DEF Ticks, SetupInv
            <4>5. clock' < Expiry(waiting)' + buying.since'
                BY <4>1, <4>2, <4>3, <4>4
            <4> QED
                BY <1>13, <4>1, <4>2, <4>5 DEF Ticks
        <3>2. CASE ~Underway
            BY <1>13, <3>2 DEF Ticks, Underway, SetupInv
        <3> QED
            BY <3>1, <3>2
    <2> QED
        BY <1>13, <2>1, <2>2 DEF Ticks, data, disk, SetupInv
<1> QED
    BY <1>1, <1>2, <1>3, <1>4, <1>5, <1>6, <1>7, <1>8, <1>9, <1>10, <1>11, <1>12, <1>13 DEF SetupNext

\* An order goes out on the setup of its intent, which was alive when the order
\* began, and in the session that it was made in.
LEMMA SetupsAreCurrent == SetupTimes /\ SetupInv /\ [SetupNext]_setupVars => BuysOnCurrentSetup
<1> SUFFICES ASSUME SetupTimes, SetupInv, buying.at = "evaluated"
             PROVE  /\ clock < Expiry(waiting) + buying.since /\ Day(waiting.made) = Day(clock)
                    /\ waiting.made - waiting.data <= DataLife
    BY DEF BuysOnCurrentSetup
<1>1. Underway /\ waiting # NoSetup /\ clock < Expiry(waiting) + buying.since
    BY DEF SetupInv, Underway
<1>2. /\ waiting \in [made : Nat, data : Int] /\ waiting.made <= clock
      /\ waiting.made % DayLength < Session
      /\ waiting.made - waiting.data <= DataLife
    BY <1>1 DEF SetupInv, SetupSound
<1>3. clock < waiting.made + SetupLife + EntryTime
    BY <1>1, <1>2 DEF Expiry, SetupInv, SetupTimes, Buyings
<1> QED
    BY <1>1, <1>2, <1>3, SessionsApart DEF SetupInv

(***************************************************************************)
(* The types of the setups.  A candidate's data is from a time that was,   *)
(* because the data of no time at all are of no day.                       *)
(***************************************************************************)
LEMMA DaysGrow ==
    ASSUME SetupTimes, NEW s \in Nat, NEW t \in Nat, s <= t
    PROVE  Day(s) \in Nat /\ Day(t) \in Nat /\ Day(s) <= Day(t)
<1> DEFINE a == Day(s)
           b == Day(t)
           x == s % DayLength
           y == t % DayLength
<1>1. /\ a \in Nat /\ b \in Nat /\ x \in Nat /\ y \in Nat
      /\ s = DayLength * a + x /\ t = DayLength * b + y
      /\ x < DayLength /\ y < DayLength /\ DayLength \in Nat
    BY PlaceInDay DEF SetupTimes
<1> HIDE DEF a, b, x, y
<1>2. CASE b < a
    <2>1. a = b + 1 + (a - b - 1) /\ a - b - 1 \in Nat
        BY <1>1, <1>2
    <2>2. DayLength * a = DayLength * b + DayLength + DayLength * (a - b - 1)
        BY <1>1, <2>1
    <2>3. DayLength * (a - b - 1) >= 0 /\ DayLength * b \in Nat
        BY <1>1, <2>1
    <2> QED
        BY <1>1, <2>2, <2>3
<1> QED
    BY <1>1, <1>2 DEF a, b

DailyTypes == [at : Never .. LastTime, day : Never .. Day(LastTime)]
SetupTyped ==
    /\ clock \in 0 .. LastTime /\ refreshing \in BOOLEAN
    /\ daily \in DailyTypes
    /\ quoteAt \in Never .. LastTime
    /\ {armed, looking.setup, waiting, file.setup, kept} \subseteq Setup \cup {NoSetup}
    /\ buying \in Buyings
    /\ busy \in BOOLEAN /\ degraded \in BOOLEAN
    /\ life \in {"down", "booted", "up"}
DaysAreDated == daily.at = Never => daily.day = Never

LEMMA SetupTypesAre == SetupTypes <=> SetupTyped
BY DEF SetupTypes, SetupTyped, DailyTypes, Buyings

LEMMA SetupTypesThen == SetupTyped' => SetupTypes'
BY DEF SetupTypes, SetupTyped, DailyTypes, Buyings

LEMMA NotYetTyped == SetupTimes => NotYet \in Buyings
BY DEF SetupTimes, NotYet, Buyings

LEMMA NoDailyTyped ==
    ASSUME SetupTimes
    PROVE  /\ NoDaily \in DailyTypes /\ NoDaily.at = Never /\ NoDaily.day = Never
           /\ Never \in Never .. LastTime /\ 0 \in 0 .. LastTime
<1>1. LastTime \in Nat /\ Day(LastTime) \in Nat
    BY PlaceInDay DEF SetupTimes
<1> QED
    BY <1>1 DEF NoDaily, DailyTypes, Never

LEMMA InitSetupTypes == SetupTimes /\ SetupInit => SetupTypes /\ DaysAreDated
<1> SUFFICES ASSUME SetupTimes, SetupInit
             PROVE  SetupTyped /\ DaysAreDated
    BY SetupTypesAre
<1>1. looking.setup = NoSetup /\ file.setup = NoSetup
    BY DEF SetupInit, Nobody
<1> QED
    BY <1>1, NoDailyTyped, NotYetTyped DEF SetupInit, SetupTyped, DaysAreDated

LEMMA RefreshTypes ==
    ASSUME SetupTimes, SetupTyped, Refresh
    PROVE  daily' \in DailyTypes /\ DaysAreDated'
<1>1. PICK d \in {Day(clock), Day(clock) - 1} : daily' = [at |-> clock, day |-> d]
    BY DEF Refresh
<1>2. clock \in Nat /\ clock <= LastTime /\ LastTime \in Nat
    BY DEF SetupTyped, SetupTimes
<1>3. d \in Never .. Day(LastTime)
    BY <1>2, DaysGrow DEF Never
<1>4. clock \in Never .. LastTime /\ clock # Never
    BY <1>2 DEF Never
<1> QED
    BY <1>1, <1>3, <1>4 DEF DailyTypes, DaysAreDated

LEMMA ArmsTypes ==
    ASSUME SetupTimes, SetupTyped, DaysAreDated, Arms
    PROVE  armed' \in Setup
<1>1. clock \in 0 .. LastTime /\ Day(clock) \in Nat
    BY PlaceInDay DEF SetupTyped
<1>2. refreshing => daily.at \in 0 .. LastTime
    BY <1>1 DEF Arms, Armable, Valid, DaysAreDated, SetupTyped, DailyTypes, Never
<1>3. (IF refreshing THEN daily.at ELSE clock) \in 0 .. LastTime
    BY <1>1, <1>2
<1> QED
    BY <1>1, <1>3 DEF Arms, NewSetup, Setup

LEMMA StepSetupTypes ==
    SetupTimes /\ SetupTypes /\ DaysAreDated /\ [SetupNext]_setupVars => SetupTypes' /\ DaysAreDated'
<1> SUFFICES ASSUME SetupTimes, SetupTyped, DaysAreDated, [SetupNext]_setupVars
             PROVE  SetupTyped' /\ DaysAreDated'
    BY SetupTypesAre, SetupTypesThen
<1> USE DEF data, entries, disk
<1>1. CASE Refresh
    BY <1>1, RefreshTypes DEF Refresh, SetupTyped
<1>2. CASE QuoteArrives \/ Starts
    <2>1. quoteAt' \in Never .. LastTime
        BY <1>2, NoDailyTyped DEF QuoteArrives, Starts, SetupTyped, Never
    <2> QED
        BY <1>2, <2>1 DEF QuoteArrives, Starts, SetupTyped, DaysAreDated
<1>3. CASE Arms
    BY <1>3, ArmsTypes DEF Arms, SetupTyped, DaysAreDated
<1>4. CASE Disarms \/ Takes \/ Judges
    BY <1>4 DEF Disarms, Takes, Judges, Nobody, SetupTyped, DaysAreDated
<1>5. CASE Prechecks \/ EvaluatesAgain \/ Orders \/ Completes \/ BusyChanges
    <2>1. buying' \in Buyings
        <3>1. 0 \in 0 .. EntryTime
            BY DEF SetupTimes
        <3>2. buying \in Buyings
            BY DEF SetupTyped
        <3> QED
            BY <1>5, <3>1, <3>2, NotYetTyped
            DEF Prechecks, EvaluatesAgain, Orders, Completes, BusyChanges, Buyings
    <2> QED
        BY <1>5, <2>1
        DEF Prechecks, EvaluatesAgain, Orders, Completes, BusyChanges, SetupTyped, DaysAreDated
<1>6. CASE Monitors \/ Saves \/ UNCHANGED setupVars
    BY <1>6 DEF Monitors, Degrades, Cleans, Saves, Snapshot, setupVars, SetupTyped, DaysAreDated
<1>7. CASE Ends
    BY <1>7, NoDailyTyped, NotYetTyped DEF Ends, Nobody, SetupTyped, DaysAreDated
<1>8. CASE Boots
    BY <1>8 DEF Boots, Recovery, SetupTyped, DaysAreDated
<1>9. CASE Ticks
    <2>1. clock' \in 0 .. LastTime
        BY <1>9 DEF Ticks, SetupTyped, SetupTimes
    <2>2. buying' \in Buyings
        <3>1. CASE Underway
            BY <1>9, <3>1 DEF Ticks, SetupTyped, SetupTimes, Buyings
        <3>2. CASE ~Underway
            BY <1>9, <3>2 DEF Ticks, SetupTyped
        <3> QED
            BY <3>1, <3>2
    <2> QED
        BY <1>9, <2>1, <2>2 DEF Ticks, SetupTyped, DaysAreDated
<1> QED
    BY <1>1, <1>2, <1>3, <1>4, <1>5, <1>6, <1>7, <1>8, <1>9 DEF SetupNext

-----------------------------------------------------------------------------
(***************************************************************************)
(* The opening-range breakout.  An order is "sent" only at the minute, on  *)
(* the bars and at the quote on which the order worker decided: whatever   *)
(* changes one of them takes the word back.                                *)
(***************************************************************************)
LEMMA InitRange == RangeInit => PathsAgree
BY DEF RangeInit, PathsAgree

LEMMA StepRange == PathsAgree /\ [RangeNext]_rangeVars => PathsAgree'
<1> SUFFICES ASSUME PathsAgree, [RangeNext]_rangeVars
             PROVE  PathsAgree'
    OBVIOUS
<1>1. CASE MinutePasses \/ MarketChanges \/ BarsAreLost
    BY <1>1 DEF MinutePasses, MarketChanges, BarsAreLost, PathsAgree
<1>2. ASSUME UNCHANGED <<minute, bars, quote, ready, obstacle>>
      PROVE  Inline => Inline'
    BY <1>2 DEF Inline, InWindow, BreaksOut, RangeHigh, BelowVwap
<1>3. CASE SetupRuns \/ TimingRuns \/ UNCHANGED rangeVars
    BY <1>2, <1>3 DEF SetupRuns, TimingRuns, rangeVars, PathsAgree
<1>4. CASE OrderRuns
    <2>1. order' = "sent" => Inline
        BY <1>4 DEF OrderRuns, SetsUp, FreshBars, Confirms, Candidate, Inline
    <2> QED
        BY <1>2, <1>4, <2>1 DEF OrderRuns, PathsAgree
<1> QED
    BY <1>1, <1>3, <1>4 DEF RangeNext

(***************************************************************************)
(* The types of the opening range.  The high of a range is one of its      *)
(* bars', because a sequence of numbers has a largest: the shortest that   *)
(* has none would be longer than one that has.                             *)
(***************************************************************************)
LEMMA LeastNumber ==
    ASSUME NEW S \in SUBSET Nat, S # {}
    PROVE  \E n \in S : \A m \in S : n <= m
<1> DEFINE R == OpToRel(<, Nat)
<1>1. IsWellFoundedOn(R, Nat)
    BY NatLessThanWellFounded
<1>2. \A x, y \in Nat : x < y => <<x, y>> \in R
    BY DEF OpToRel
<1> HIDE DEF R
<1>3. \E n \in S : \A m \in S : ~(<<m, n>> \in R)
    BY <1>1, WFMin
<1>4. PICK n \in S : \A m \in S : ~(<<m, n>> \in R)
    BY <1>3
<1>5. \A m \in S : n <= m
    <2> SUFFICES ASSUME NEW m \in S
                 PROVE  n <= m
        OBVIOUS
    <2>1. m \in Nat /\ n \in Nat
        OBVIOUS
    <2>2. ~(m < n)
        BY <1>2, <1>4, <2>1
    <2> QED
        BY <2>1, <2>2
<1> QED
    BY <1>5

Bounded(n) == \A f \in [1 .. n -> Nat] : \E top \in Nat : \A i \in 1 .. n : f[i] <= top

LEMMA AllBounded == \A n \in Nat : Bounded(n)
<1> DEFINE S == {n \in Nat : ~Bounded(n)}
<1> SUFFICES ASSUME S # {}
             PROVE  FALSE
    OBVIOUS
<1> HIDE DEF S
<1>0. S \in SUBSET Nat
    BY DEF S
<1>1. PICK n \in S : \A m \in S : n <= m
    BY <1>0, LeastNumber
<1>2. n \in Nat /\ ~Bounded(n)
    BY <1>1 DEF S
<1>3. PICK f \in [1 .. n -> Nat] : ~\E top \in Nat : \A i \in 1 .. n : f[i] <= top
    BY <1>2 DEF Bounded
<1>4. n # 0
    <2>1. n = 0 => 1 .. n = {}
        BY <1>2
    <2>2. 0 \in Nat
        OBVIOUS
    <2> QED
        BY <1>3, <2>1, <2>2
<1>5. n - 1 \in Nat /\ n - 1 < n
    BY <1>2, <1>4
<1>6. Bounded(n - 1)
    BY <1>1, <1>2, <1>5 DEF S
<1> DEFINE g == [i \in 1 .. n - 1 |-> f[i]]
<1>7. g \in [1 .. n - 1 -> Nat]
    <2>1. \A i \in 1 .. n - 1 : i \in 1 .. n
        BY <1>2
    <2> QED
        BY <1>3, <2>1
<1>8. PICK top \in Nat : \A i \in 1 .. n - 1 : g[i] <= top
    BY <1>6, <1>7 DEF Bounded
<1>9. f[n] \in Nat
    BY <1>2, <1>3, <1>4
<1> DEFINE most == IF top > f[n] THEN top ELSE f[n]
<1>10. most \in Nat /\ \A i \in 1 .. n : f[i] <= most
    <2>1. \A i \in 1 .. n : i = n \/ i \in 1 .. n - 1
        BY <1>2
    <2>2. \A i \in 1 .. n - 1 : f[i] <= top
        BY <1>8
    <2>3. \A i \in 1 .. n : f[i] \in Nat
        BY <1>3
    <2> QED
        BY <1>8, <1>9, <2>1, <2>2, <2>3
<1> QED
    BY <1>3, <1>10

\* A set of numbers that has a bound has a largest.
LEMMA LargestIs ==
    ASSUME NEW T \in SUBSET Nat, T # {}, NEW top \in Nat, \A x \in T : x <= top
    PROVE  Max(T) \in T
<1> DEFINE S == {top - x : x \in T}
<1>1. \A x \in T : top - x \in Nat
    OBVIOUS
<1>2. S \in SUBSET Nat /\ S # {}
    BY <1>1
<1>3. PICK n \in S : \A m \in S : n <= m
    <2> HIDE DEF S
    <2> QED
        BY <1>2, LeastNumber
<1>4. PICK x \in T : n = top - x
    BY <1>3
<1>5. \A y \in T : x >= y
    <2> SUFFICES ASSUME NEW y \in T
                 PROVE  x >= y
        OBVIOUS
    <2>1. n <= top - y
        BY <1>3
    <2> QED
        BY <1>4, <2>1
<1> QED
    BY <1>4, <1>5 DEF Max

BarTypes == [at : 0 .. LastMinute, high : Levels, close : Levels]

LEMMA HighIsALevel ==
    ASSUME RangeData, bars \in Seq(BarTypes), Len(bars) >= RangeBars
    PROVE  RangeHigh \in Levels
<1>1. RangeBars \in Nat \ {0} /\ Levels \subseteq Nat /\ Len(bars) \in Nat
    BY DEF RangeData
<1> DEFINE old == Oldest(RangeBars, bars)
           k == Len(old)
           f == [i \in 1 .. k |-> old[i].high]
           T == {b.high : b \in ToSet(old)}
<1>2. old \in Seq(BarTypes) /\ k \in Nat /\ k # 0
    <2> DEFINE m == IF RangeBars < Len(bars) THEN RangeBars ELSE Len(bars)
    <2>1. m \in 1 .. Len(bars) /\ old = SubSeq(bars, 1, m)
        BY <1>1 DEF Oldest
    <2> HIDE DEF m, old
    <2>2. old \in Seq(BarTypes) /\ Len(old) = m
        BY <1>1, <2>1
    <2> QED
        BY <1>1, <2>1, <2>2
<1> HIDE DEF old
<1>3. \A i \in 1 .. k : old[i].high \in Levels
    <2>1. \A i \in 1 .. k : old[i] \in BarTypes
        BY <1>2
    <2> QED
        BY <2>1 DEF BarTypes
<1>4. f \in [1 .. k -> Nat]
    BY <1>1, <1>3
<1>5. T = {old[i].high : i \in 1 .. k}
    BY <1>2 DEF ToSet
<1>6. PICK top \in Nat : \A i \in 1 .. k : f[i] <= top
    BY <1>2, <1>4, AllBounded DEF Bounded
<1>7. T \in SUBSET Nat /\ \A x \in T : x <= top
    BY <1>1, <1>3, <1>5, <1>6
<1>8. T # {} /\ T \subseteq Levels
    <2>1. 1 \in 1 .. k
        BY <1>2
    <2> QED
        BY <1>3, <1>5, <2>1
<1> HIDE DEF T
<1>9. Max(T) \in T
    BY <1>6, <1>7, <1>8, LargestIs
<1> QED
    BY <1>8, <1>9 DEF RangeHigh, T, old

QuoteTypes == [price : QuotePrices, at : 0 .. LastMinute]
RangeTyped ==
    /\ minute \in 0 .. LastMinute /\ quote \in QuoteTypes /\ ready \in BOOLEAN
    /\ obstacle \in Obstacles /\ intent \in BOOLEAN
    /\ bars \in Seq(BarTypes)
    /\ setup \in [high : Levels, expires : Nat] \cup {NoCandidate}
    /\ order \in {"none", "sent", "refused"}

LEMMA RangeTypesAre == RangeTypes <=> RangeTyped
BY DEF RangeTypes, RangeTyped, BarTypes, QuoteTypes

LEMMA RangeTypesThen == RangeTyped' => RangeTypes'
BY DEF RangeTypes, RangeTyped, BarTypes, QuoteTypes

LEMMA InitRangeTypes == RangeData /\ RangeInit => RangeTypes
<1> SUFFICES ASSUME RangeData, RangeInit
             PROVE  RangeTyped
    BY RangeTypesAre
<1>1. 0 \in 0 .. LastMinute
    BY DEF RangeData
<1>2. quote \in QuoteTypes
    BY <1>1 DEF RangeInit, QuoteTypes
<1>3. bars \in Seq(BarTypes)
    BY DEF RangeInit
<1> QED
    BY <1>1, <1>2, <1>3 DEF RangeInit, RangeTyped, Obstacles

LEMMA MinuteTypes == RangeData /\ RangeTyped /\ MinutePasses => RangeTyped'
<1> SUFFICES ASSUME RangeData, RangeTyped, MinutePasses
             PROVE  RangeTyped'
    OBVIOUS
<1>1. minute \in 0 .. LastMinute /\ minute' \in 0 .. LastMinute
    BY DEF RangeData, RangeTyped, MinutePasses
<1>2. quote' \in QuoteTypes
    BY <1>1 DEF MinutePasses, RangeTyped, QuoteTypes
<1>3. Bars \subseteq BarTypes
    BY <1>1 DEF Bars, BarTypes
<1>4. bars' \in Seq(BarTypes)
    BY <1>3 DEF MinutePasses, RangeTyped
<1> QED
    BY <1>1, <1>2, <1>4 DEF MinutePasses, RangeTyped

LEMMA SetupOfTyped ==
    ASSUME RangeData, RangeTyped
    PROVE  SetupOf \in [high : Levels, expires : Nat] \cup {NoCandidate}
<1>1. CASE SetsUp
    <2>1. RangeHigh \in Levels
        BY <1>1, HighIsALevel DEF SetsUp, FreshBars, RangeTyped
    <2>2. \A a, b \in Nat : Max({a, b}) \in Nat
        <3> SUFFICES ASSUME NEW a \in Nat, NEW b \in Nat
                     PROVE  Max({a, b}) \in Nat
            OBVIOUS
        <3> DEFINE T == {a, b}
        <3>1. /\ T \in SUBSET Nat /\ T # {} /\ a + b \in Nat
              /\ \A x \in T : x <= a + b
            OBVIOUS
        <3> HIDE DEF T
        <3>2. Max(T) \in Nat
            BY <3>1, LargestIs
        <3> QED
            BY <3>2 DEF T
    <2>3. ClosesAt \in Nat
        BY <2>2 DEF ClosesAt, OpensAt, RangeData
    <2> QED
        BY <1>1, <2>1, <2>3 DEF SetupOf, Candidate
<1> QED
    BY <1>1 DEF SetupOf

LEMMA StepRangeTypes == RangeData /\ RangeTypes /\ [RangeNext]_rangeVars => RangeTypes'
<1> SUFFICES ASSUME RangeData, RangeTyped, [RangeNext]_rangeVars
             PROVE  RangeTyped'
    BY RangeTypesAre, RangeTypesThen
<1>1. CASE SetupRuns
    BY <1>1, SetupOfTyped DEF SetupRuns, RangeTyped
<1>2. CASE MarketChanges \/ TimingRuns \/ OrderRuns \/ UNCHANGED rangeVars
    BY <1>2 DEF MarketChanges, TimingRuns, OrderRuns, rangeVars, RangeTyped
<1>3. CASE BarsAreLost
    <2>1. bars' \in Seq(BarTypes)
        BY <1>3 DEF BarsAreLost
    <2> QED
        BY <1>3, <2>1 DEF BarsAreLost, RangeTyped
<1> QED
    BY <1>1, <1>2, <1>3, MinuteTypes DEF RangeNext

-----------------------------------------------------------------------------
(***************************************************************************)
(* The exits.  The stop of a position the strategy has is at no loss of    *)
(* more than MaxLossPct of its entry price: a fill that moves the entry    *)
(* moves the stop, and what a restart or a recovery makes passes the guard *)
(* before the strategy has it.  The saved position may be worse.           *)
(***************************************************************************)
RuledPositions ==
    [entry : Nat, qty : Int, atr : Int, stop : Int, take : Int, trail : Int, high : Int, date : Int]

Least(e) == e * (100 - MaxLossPct)

Cut(q) == q \in RuledPositions /\ q.stop >= Least(q.entry)

RulesInv ==
    /\ shares \in [qty : Nat, avg : Nat] /\ day \in Nat
    /\ posFile # Nothing => posFile \in RuledPositions
    /\ pos # Nothing \/ verdict.says = "SELL" => Cut(pos)
    /\ verdict.price \in Nat /\ verdict.atr \in Int
    /\ pos # Nothing /\ verdict.says = "HOLD" => 100 * verdict.price > pos.stop

\* Of three numbers the maximum is one, and none is larger.
LEMMA MaxOfThree ==
    ASSUME NEW a \in Int, NEW b \in Int, NEW c \in Int
    PROVE  Max({a, b, c}) \in Int /\ Max({a, b, c}) >= b
<1>1. \E x \in {a, b, c} : \A y \in {a, b, c} : x >= y
    <2>1. CASE a >= b /\ a >= c
        BY <2>1
    <2>2. CASE b >= a /\ b >= c
        BY <2>2
    <2>3. CASE c >= a /\ c >= b
        BY <2>3
    <2> QED
        BY <2>1, <2>2, <2>3
<1> DEFINE m == CHOOSE x \in {a, b, c} : \A y \in {a, b, c} : x >= y
<1>2. m \in {a, b, c} /\ \A y \in {a, b, c} : m >= y
    BY <1>1
<1> QED
    BY <1>2 DEF Max

LEMMA StopIsCut ==
    ASSUME RulesData, NEW e \in Nat, NEW atr \in Int
    PROVE  StopLoss(e, atr) \in Int /\ StopLoss(e, atr) >= Least(e)
<1>1. StopFactor \in Nat /\ MaxLossPct \in Nat
    BY DEF RulesData
<1>2. 100 * e - 100 * StopFactor * atr \in Int /\ e * (100 - MaxLossPct) \in Int
    BY <1>1
<1> QED
    BY <1>2, MaxOfThree DEF StopLoss, Least
LEMMA RuleNumbers ==
    ASSUME RulesData
    PROVE  /\ Prices \subseteq Nat /\ Atrs \subseteq Nat
           /\ StopFactor \in Nat /\ TakeFactor \in Nat /\ TrailFactor \in Nat /\ MaxLossPct \in Nat
BY DEF RulesData

LEMMA ResolvedType ==
    ASSUME NEW e \in Nat, NEW atr \in Int
    PROVE  Resolved(e, atr) \in Int
BY DEF Resolved, Larger

LEMMA MeanType ==
    ASSUME NEW e \in Nat, NEW n \in Nat, NEW p \in Nat
    PROVE  Mean(e, n, p, 1) \in Nat
<1>1. e * n + p * 1 \in Nat /\ n + 1 \in Nat \ {0}
    OBVIOUS
<1> QED
    BY <1>1 DEF Mean

LEMMA OpenedCut ==
    ASSUME RulesData, NEW e, e \in Nat, NEW n, n \in Int, NEW atr, atr \in Int, day \in Nat
    PROVE  Cut(Opened(e, n, atr)) /\ Opened(e, n, atr).qty = n
<1> DEFINE a == Resolved(e, atr)
<1>1. a \in Int
    BY ResolvedType
<1> HIDE DEF a
<1>2. StopLoss(e, a) \in Int /\ StopLoss(e, a) >= Least(e)
    BY <1>1, StopIsCut
<1>3. TakeProfit(e, a) \in Int
    BY <1>1, RuleNumbers DEF TakeProfit
<1>4. Opened(e, n, atr) = [entry |-> e, qty |-> n, atr |-> a, stop |-> StopLoss(e, a),
                           take |-> TakeProfit(e, a), trail |-> StopLoss(e, a), high |-> e, date |-> day]
    BY DEF Opened, a
<1> QED
    BY <1>1, <1>2, <1>3, <1>4 DEF Cut, RuledPositions

LEMMA LargerType ==
    ASSUME NEW x \in Int, NEW y \in Int
    PROVE  Larger(x, y) \in Int
BY DEF Larger

LEMMA AveragedCut ==
    ASSUME RulesData, NEW q, Cut(q), q.qty \in Nat, NEW p, p \in Nat
    PROVE  Cut(Averaged(q, p, 1))
<1> DEFINE e == Mean(q.entry, q.qty, p, 1)
           n == q.qty + 1
           a == Resolved(e, q.atr)
           stop == StopLoss(e, a)
           take == TakeProfit(e, a)
           trail == Larger(q.trail, stop)
           high == Larger(q.high, p)
<1>1. /\ q \in RuledPositions /\ q.entry \in Nat /\ q.atr \in Int /\ q.trail \in Int
      /\ q.high \in Int /\ n \in Int
    BY DEF Cut, RuledPositions
<1>2. e \in Nat
    BY <1>1, MeanType
<1>3. a \in Int
    BY <1>1, <1>2, ResolvedType
<1> HIDE DEF e, a, n
<1>4. stop \in Int /\ stop >= Least(e)
    BY <1>2, <1>3, StopIsCut
<1>5. take \in Int
    BY <1>2, <1>3, RuleNumbers DEF TakeProfit
<1>6. trail \in Int /\ high \in Int
    <2> HIDE DEF stop
    <2>1. trail \in Int
        BY <1>1, <1>4, LargerType
    <2>2. high \in Int
        BY <1>1 DEF Larger
    <2> QED
        BY <2>1, <2>2
<1>7. Averaged(q, p, 1) = [q EXCEPT !.entry = e, !.qty = n, !.atr = a, !.stop = stop,
                                    !.take = take, !.trail = trail, !.high = high]
    BY DEF Averaged, e, a, n
<1> HIDE DEF stop, take, trail, high
<1>8. q \in RuledPositions /\ n \in Int
    BY <1>1
<1>9. Averaged(q, p, 1) \in RuledPositions
    <2>1. e \in Nat /\ stop \in Int
        BY <1>2, <1>4
    <2> QED
        BY <1>3, <1>5, <1>6, <1>7, <1>8, <2>1 DEF RuledPositions
<1>10. Averaged(q, p, 1).stop = stop
    BY <1>7, <1>8 DEF RuledPositions
<1>11. Averaged(q, p, 1).entry = e
    BY <1>7, <1>8 DEF RuledPositions
<1> QED
    BY <1>4, <1>9, <1>10, <1>11 DEF Cut

LEMMA GuardedCut ==
    ASSUME RulesData, NEW q \in RuledPositions
    PROVE  Cut(Guarded(q))
<1> DEFINE a == Resolved(q.entry, q.atr)
           least == StopLoss(q.entry, a)
           trail == Larger(q.trail, least)
<1>1. q.entry \in Nat /\ q.atr \in Int /\ q.stop \in Int /\ q.trail \in Int
    BY DEF RuledPositions
<1>2. a \in Int
    BY <1>1, ResolvedType
<1> HIDE DEF a
<1>3. least \in Int /\ least >= Least(q.entry)
    BY <1>1, <1>2, StopIsCut
<1>4. trail \in Int
    BY <1>1, <1>3, LargerType
<1>5. Guarded(q) = IF q.stop >= least THEN q ELSE [q EXCEPT !.stop = least, !.trail = trail]
    BY DEF Guarded, a
<1> HIDE DEF least, trail
<1>6. CASE q.stop >= least
    <2>1. Least(q.entry) \in Int
        BY <1>1, RuleNumbers DEF Least
    <2> QED
        BY <1>1, <1>3, <1>5, <1>6, <2>1 DEF Cut
<1>7. CASE ~(q.stop >= least)
    <2>1. /\ Guarded(q) \in RuledPositions
          /\ Guarded(q).stop = least /\ Guarded(q).entry = q.entry
        BY <1>3, <1>4, <1>5, <1>7 DEF RuledPositions
    <2> QED
        BY <1>3, <2>1 DEF Cut
<1> QED
    BY <1>6, <1>7

LEMMA RaisedCut ==
    ASSUME RulesData, NEW q, Cut(q), NEW p, p \in Nat
    PROVE  Cut(Raised(q, p)) /\ Raised(q, p).stop = q.stop
<1> DEFINE trail == Larger(q.trail, TrailingStop(p, q.atr))
<1>1. q \in RuledPositions /\ q.trail \in Int /\ q.atr \in Int
    BY DEF Cut, RuledPositions
<1>2. TrailingStop(p, q.atr) \in Int
    BY <1>1, RuleNumbers DEF TrailingStop
<1>3. trail \in Int
    BY <1>1, <1>2, LargerType
<1>4. Raised(q, p) = IF p <= q.high THEN q ELSE [q EXCEPT !.high = p, !.trail = trail]
    BY DEF Raised
<1> HIDE DEF trail
<1>5. CASE p <= q.high
    BY <1>4, <1>5
<1>6. CASE ~(p <= q.high)
    <2>1. Raised(q, p) = [q EXCEPT !.high = p, !.trail = trail]
        BY <1>4, <1>6
    <2>2. p \in Int
        OBVIOUS
    <2>3. Raised(q, p) \in RuledPositions
        BY <1>1, <1>3, <2>1, <2>2 DEF RuledPositions
    <2>4. Raised(q, p).stop = q.stop /\ Raised(q, p).entry = q.entry
        BY <1>1, <2>1 DEF RuledPositions
    <2> QED
        BY <2>3, <2>4 DEF Cut
<1> QED
    BY <1>5, <1>6

LEMMA InitRules == RulesData /\ RulesInit => RulesInv
BY DEF RulesInit, RulesInv, NoVerdict

LEMMA StartsHoldingKeeps == RulesData /\ RulesInv /\ StartsHolding => RulesInv'
<1> SUFFICES ASSUME RulesData, RulesInv, StartsHolding
             PROVE  RulesInv'
    OBVIOUS
<1>1. UNCHANGED <<shares, day>> /\ verdict' = NoVerdict
    BY DEF StartsHolding
<1>2. CASE posFile' = Nothing /\ pos' = Nothing
    BY <1>1, <1>2 DEF RulesInv, NoVerdict
<1>3. ASSUME posFile' \in RuledPositions, pos' \in {Nothing, Guarded(posFile')}
      PROVE  RulesInv'
    BY <1>1, <1>3, GuardedCut DEF RulesInv, NoVerdict
<1>4. ASSUME NEW now \in Prices, posFile' = FromHolding(now), pos' = Guarded(posFile')
      PROVE  RulesInv'
    <2>1. shares.avg \in Nat /\ shares.qty \in Nat /\ day \in Nat /\ now \in Nat
        BY <1>4, RuleNumbers DEF RulesInv
    <2>2. FromHolding(now) \in RuledPositions
        BY <2>1 DEF FromHolding, RuledPositions, Larger
    <2> QED
        BY <1>3, <1>4, <2>2
<1>5. CASE shares.qty > 0 /\ posFile # Nothing
    <2>1. /\ posFile' = [posFile EXCEPT !.qty = shares.qty, !.entry = shares.avg]
          /\ pos' \in {Nothing, Guarded(posFile')}
        BY <1>5 DEF StartsHolding, RulesInv
    <2>2. posFile \in RuledPositions /\ shares.qty \in Int /\ shares.avg \in Nat
        BY <1>5 DEF RulesInv
    <2>3. posFile' \in RuledPositions
        BY <2>1, <2>2 DEF RuledPositions
    <2> QED
        BY <1>3, <2>1, <2>3
<1>6. CASE shares.qty = 0 \/ posFile = Nothing
    BY <1>2, <1>4, <1>6 DEF StartsHolding, Keeps, RulesInv
<1> QED
    BY <1>5, <1>6 DEF RulesInv
LEMMA EvaluatesKeeps == RulesData /\ RulesInv /\ Evaluates => RulesInv'
<1> SUFFICES ASSUME RulesData, RulesInv, Evaluates
             PROVE  RulesInv'
    OBVIOUS
<1>1. UNCHANGED <<posFile, shares, day>>
    BY DEF Evaluates
<1>2. PICK p \in Prices :
        \/ /\ pos # Nothing
           /\ pos' = Raised(pos, p)
           /\ \E prevClose \in Prices, broken \in BOOLEAN :
                 verdict' = [says |-> IF Exits(pos', p, prevClose, broken) THEN "SELL" ELSE "HOLD",
                             price |-> p, atr |-> pos.atr]
        \/ /\ pos = Nothing
           /\ \E atr \in Atrs, buys \in Outcomes :
                 verdict' = [says |-> IF buys THEN "BUY" ELSE "HOLD", price |-> p, atr |-> atr]
           /\ UNCHANGED pos
    BY DEF Evaluates
<1>3. p \in Nat
    BY RuleNumbers
<1>4. CASE pos # Nothing
    <2>1. PICK prevClose \in Prices, broken \in BOOLEAN :
             verdict' = [says |-> IF Exits(pos', p, prevClose, broken) THEN "SELL" ELSE "HOLD",
                         price |-> p, atr |-> pos.atr]
        BY <1>2, <1>4
    <2>2. Cut(pos') /\ pos'.stop \in Int
        <3>1. Cut(pos')
            BY <1>2, <1>3, <1>4, RaisedCut DEF RulesInv
        <3> QED
            BY <3>1 DEF Cut, RuledPositions
    <2>3. pos.atr \in Int
        BY <1>4 DEF RulesInv, Cut, RuledPositions
    <2>4. verdict'.says = "HOLD" => ~Exits(pos', p, prevClose, broken)
        BY <2>1
    <2>5. verdict'.says = "HOLD" => 100 * p > pos'.stop
        BY <1>3, <2>2, <2>4 DEF Exits
    <2> QED
        BY <1>1, <1>3, <2>1, <2>2, <2>3, <2>5 DEF RulesInv
<1>5. CASE pos = Nothing
    <2>1. PICK atr \in Atrs, says \in {"BUY", "HOLD"} :
             verdict' = [says |-> says, price |-> p, atr |-> atr] /\ UNCHANGED pos
        BY <1>2, <1>5
    <2>2. verdict'.price \in Nat /\ verdict'.atr \in Int
        BY <1>3, <2>1, RuleNumbers
    <2> QED
        BY <1>1, <1>5, <2>1, <2>2 DEF RulesInv
<1> QED
    BY <1>4, <1>5

LEMMA AddsType ==
    ASSUME RulesData, shares \in [qty : Nat, avg : Nat], NEW p \in Prices
    PROVE  Adds(p) \in [qty : Nat, avg : Nat]
<1>1. p \in Nat /\ shares.avg \in Nat /\ shares.qty \in Nat
    BY RuleNumbers
<1>2. Mean(shares.avg, shares.qty, p, 1) \in Nat
    BY <1>1, MeanType
<1> QED
    BY <1>1, <1>2 DEF Adds

LEMMA BuysSharesKeeps == RulesData /\ RulesInv /\ BuysShares => RulesInv'
<1> SUFFICES ASSUME RulesData, RulesInv, BuysShares
             PROVE  RulesInv'
    OBVIOUS
<1>1. PICK p \in Prices, more \in Prices, both \in BOOLEAN, told \in BOOLEAN :
        LET one == Opened(p, 1, verdict.atr)
            acc == Adds(p)
        IN  /\ shares' = IF both THEN [qty |-> acc.qty + 1, avg |-> Mean(acc.avg, acc.qty, more, 1)]
                         ELSE acc
            /\ Keeps(IF both /\ told THEN Averaged(one, more, 1) ELSE one)
    BY DEF BuysShares
<1> DEFINE one == Opened(p, 1, verdict.atr)
           acc == Adds(p)
<1>2. /\ p \in Nat /\ more \in Nat /\ verdict.atr \in Int /\ day \in Nat
      /\ shares \in [qty : Nat, avg : Nat]
    BY RuleNumbers DEF RulesInv
<1>3. Cut(one) /\ one.qty = 1
    <2>1. 1 \in Int
        OBVIOUS
    <2> QED
        BY <1>2, <2>1, OpenedCut, Zenon
<1>4. acc.qty \in Nat /\ acc.avg \in Nat /\ acc \in [qty : Nat, avg : Nat]
    <2>1. acc \in [qty : Nat, avg : Nat]
        BY <1>2, AddsType
    <2> HIDE DEF acc
    <2> QED
        BY <2>1
<1> HIDE DEF one, acc
<1>5. Cut(Averaged(one, more, 1))
    BY <1>2, <1>3, AveragedCut
<1>6. shares' \in [qty : Nat, avg : Nat]
    <2>1. Mean(acc.avg, acc.qty, more, 1) \in Nat
        BY <1>2, <1>4, MeanType
    <2> QED
        BY <1>1, <1>4, <2>1 DEF acc
<1>7. Cut(pos') /\ posFile' = pos'
    BY <1>1, <1>3, <1>5 DEF Keeps, one
<1>8. posFile' \in RuledPositions
    BY <1>7 DEF Cut
<1> QED
    BY <1>2, <1>6, <1>7, <1>8 DEF BuysShares, NoVerdict, RulesInv

LEMMA BuyBreaksOffKeeps == RulesData /\ RulesInv /\ BuyBreaksOff => RulesInv'
<1> SUFFICES ASSUME RulesData, RulesInv, BuyBreaksOff
             PROVE  RulesInv'
    OBVIOUS
<1>1. shares' \in [qty : Nat, avg : Nat]
    BY AddsType DEF BuyBreaksOff, RulesInv
<1>2. CASE UNCHANGED <<pos, posFile>>
    BY <1>1, <1>2 DEF BuyBreaksOff, RulesInv, NoVerdict
<1>3. CASE Keeps(Opened(shares'.avg, shares'.qty, verdict.atr))
    <2>1. Cut(pos') /\ posFile' = pos'
        <3>1. /\ shares'.avg \in Nat /\ shares'.qty \in Int /\ verdict.atr \in Int /\ day \in Nat
            BY <1>1 DEF RulesInv
        <3> QED
            BY <1>3, <3>1, OpenedCut DEF Keeps
    <2>2. posFile' \in RuledPositions
        BY <2>1 DEF Cut
    <2> QED
        BY <1>1, <2>1, <2>2 DEF BuyBreaksOff, RulesInv, NoVerdict
<1> QED
    BY <1>2, <1>3 DEF BuyBreaksOff

LEMMA SellsSharesKeeps == RulesData /\ RulesInv /\ SellsShares => RulesInv'
<1> SUFFICES ASSUME RulesData, RulesInv, SellsShares
             PROVE  RulesInv'
    OBVIOUS
<1>1. shares' \in [qty : Nat, avg : Nat]
    <2>1. shares \in [qty : Nat, avg : Nat]
        BY DEF RulesInv
    <2>2. CASE shares' = [qty |-> 0, avg |-> 0]
        BY <2>2
    <2>3. ASSUME NEW n \in 1 .. shares.qty, shares' = [shares EXCEPT !.qty = @ - n]
          PROVE  shares' \in [qty : Nat, avg : Nat]
        <3>1. shares.qty - n \in Nat
            BY <2>1
        <3> QED
            BY <2>1, <2>3, <3>1
    <2> QED
        BY <2>2, <2>3 DEF SellsShares
<1>2. CASE Keeps(Nothing)
    BY <1>1, <1>2 DEF SellsShares, Keeps, RulesInv, NoVerdict
<1>3. ASSUME NEW n \in Int, Keeps([pos EXCEPT !.qty = @ - n])
      PROVE  RulesInv'
    <2>1. Cut(pos) /\ pos.qty - n \in Int
        BY DEF SellsShares, RulesInv, Cut, RuledPositions
    <2>2. pos' \in RuledPositions /\ pos'.stop = pos.stop /\ pos'.entry = pos.entry
        BY <1>3, <2>1 DEF Keeps, Cut, RuledPositions
    <2>3. Cut(pos') /\ posFile' = pos'
        BY <1>3, <2>1, <2>2 DEF Keeps, Cut
    <2> QED
        BY <1>1, <2>2, <2>3 DEF SellsShares, RulesInv, NoVerdict
<1>4. ASSUME NEW n \in 1 .. shares.qty,
             Keeps(IF n >= pos.qty THEN Nothing ELSE [pos EXCEPT !.qty = @ - n])
      PROVE  RulesInv'
    <2>1. n \in Int
        BY DEF RulesInv
    <2> QED
        BY <1>2, <1>3, <1>4, <2>1
<1> QED
    BY <1>2, <1>4 DEF SellsShares
LEMMA StepRules == RulesData /\ RulesInv /\ [RulesNext]_ruleVars => RulesInv'
<1> SUFFICES ASSUME RulesData, RulesInv, [RulesNext]_ruleVars
             PROVE  RulesInv'
    OBVIOUS
<1>1. CASE AverageMoves
    <2>1. shares' \in [qty : Nat, avg : Nat]
        BY <1>1 DEF AverageMoves, RulesInv
    <2> QED
        BY <1>1, <2>1 DEF AverageMoves, RulesInv
<1>2. CASE EndsHolding
    BY <1>2 DEF EndsHolding, NoVerdict, RulesInv, Cut
<1>3. CASE NextDay \/ UNCHANGED ruleVars
    BY <1>3 DEF NextDay, ruleVars, RulesInv
<1> QED
    BY <1>1, <1>2, <1>3, StartsHoldingKeeps, EvaluatesKeeps, BuysSharesKeeps, BuyBreaksOffKeeps,
       SellsSharesKeeps
    DEF RulesNext

\* A price above the stop is above the loss that is not allowed.
LEMMA RulesCutLosses == RulesData /\ RulesInv => LossesAreCut
<1> SUFFICES ASSUME RulesData, RulesInv, pos # Nothing, verdict.says = "HOLD"
             PROVE  100 * verdict.price > pos.entry * (100 - MaxLossPct)
    BY DEF LossesAreCut
<1>1. 100 * verdict.price > pos.stop /\ pos.stop >= Least(pos.entry)
    BY DEF RulesInv, Cut
<1>2. pos.stop \in Int /\ Least(pos.entry) \in Int /\ 100 * verdict.price \in Int
    BY RuleNumbers DEF RulesInv, Cut, RuledPositions, Least
<1>3. 100 * verdict.price > Least(pos.entry)
    BY <1>1, <1>2
<1> QED
    BY <1>3 DEF Least

(***************************************************************************)
(* The types of the exits: no position has more shares than the account    *)
(* may buy, nor none, and no stop or target is below zero.                 *)
(***************************************************************************)
Counts == 1 .. MaxShares
Days   == 1 .. LastDay
Held   == [entry : Nat, qty : Counts, atr : Nat, stop : Nat, take : Nat, trail : Int,
           high : Nat, date : Days]
Verdicts == [says : {"none", "HOLD", "SELL", "BUY"}, price : Nat, atr : Nat]

RulesTyped ==
    /\ pos \in Held \cup {Nothing} /\ posFile \in Held \cup {Nothing}
    /\ shares \in [qty : 0 .. MaxShares, avg : Nat] /\ day \in Days /\ opening \in Prices
    /\ verdict \in Verdicts
    /\ running \in BOOLEAN

\* Only what is held is sold.
SellsHeld == verdict.says = "SELL" => pos \in Held

LEMMA RulesTypesAre == RulesTypes <=> RulesTyped
BY DEF RulesTypes, RulesTyped, HeldPositions, Held, Counts, Days, Verdicts

LEMMA RulesTypesThen == RulesTyped' => RulesTypes'
BY DEF RulesTypes, RulesTyped, HeldPositions, Held, Counts, Days, Verdicts

LEMMA NoVerdictTyped == NoVerdict \in Verdicts /\ NoVerdict.says = "none"
BY DEF NoVerdict, Verdicts

LEMMA InitRulesTypes == RulesData /\ RulesInit => RulesTypes /\ SellsHeld
<1> SUFFICES ASSUME RulesData, RulesInit
             PROVE  RulesTyped /\ SellsHeld
    BY RulesTypesAre
<1>1. shares \in [qty : 0 .. MaxShares, avg : Nat] /\ day \in Days
    BY DEF RulesData, RulesInit, Days
<1> QED
    BY <1>1, NoVerdictTyped DEF RulesInit, RulesTyped, SellsHeld

LEMMA StopTyped ==
    ASSUME RulesData, NEW e \in Nat, NEW atr \in Nat
    PROVE  StopLoss(e, atr) \in Nat
<1>1. StopFactor \in Nat /\ MaxLossPct \in Nat
    BY DEF RulesData
<1> DEFINE a == 100 * e - 100 * StopFactor * atr
           b == e * (100 - MaxLossPct)
<1>2. a \in Int /\ b \in Int
    BY <1>1
<1> HIDE DEF a, b
<1>3. {a, b, 0} = {a, 0, b}
    OBVIOUS
<1>4. Max({a, 0, b}) \in Int /\ Max({a, 0, b}) >= 0
    BY <1>2, MaxOfThree
<1>5. Max({a, 0, b}) \in Nat
    BY <1>4
<1> QED
    BY <1>3, <1>5 DEF StopLoss, a, b

LEMMA ResolvedTyped ==
    ASSUME NEW e \in Nat, NEW atr \in Nat
    PROVE  Resolved(e, atr) \in Nat
BY DEF Resolved, Larger

LEMMA LargerTyped ==
    ASSUME NEW x \in Nat, NEW y \in Nat
    PROVE  Larger(x, y) \in Nat
BY DEF Larger

LEMMA TakeTyped ==
    ASSUME RulesData, NEW e \in Nat, NEW atr \in Nat
    PROVE  TakeProfit(e, atr) \in Nat
<1>1. TakeFactor * atr \in Nat
    BY RuleNumbers
<1> QED
    BY <1>1 DEF TakeProfit

LEMMA OpenedTyped ==
    ASSUME RulesData, day \in Days, NEW e, e \in Nat, NEW n, n \in Counts, NEW atr, atr \in Nat
    PROVE  Opened(e, n, atr) \in Held /\ Opened(e, n, atr).qty = n
<1> DEFINE a == Resolved(e, atr)
           stop == StopLoss(e, a)
           take == TakeProfit(e, a)
<1>1. a \in Nat
    BY ResolvedTyped
<1>2. Opened(e, n, atr) = [entry |-> e, qty |-> n, atr |-> a, stop |-> stop, take |-> take,
                           trail |-> stop, high |-> e, date |-> day]
    BY DEF Opened
<1> HIDE DEF a
<1>3. stop \in Nat /\ take \in Nat /\ stop \in Int
    <2>1. stop \in Nat
        BY <1>1, StopTyped
    <2>2. take \in Nat
        BY <1>1, TakeTyped
    <2> HIDE DEF stop
    <2> QED
        BY <2>1, <2>2
<1> HIDE DEF stop, take
<1> QED
    BY <1>1, <1>2, <1>3 DEF Held

\* A held position with other figures of the same types is a held position.
LEMMA HeldUpdated ==
    ASSUME NEW q \in Held, NEW e \in Nat, NEW n \in Counts, NEW a \in Nat, NEW stop \in Nat,
           NEW take \in Nat, NEW trail \in Int, NEW high \in Nat
    PROVE  [q EXCEPT !.entry = e, !.qty = n, !.atr = a, !.stop = stop,
                     !.take = take, !.trail = trail, !.high = high] \in Held
BY DEF Held

LEMMA AveragedTyped ==
    ASSUME RulesData, NEW q, q \in Held, NEW p, p \in Nat, q.qty + 1 \in Counts
    PROVE  Averaged(q, p, 1) \in Held
<1> DEFINE e == Mean(q.entry, q.qty, p, 1)
           n == q.qty + 1
           a == Resolved(e, q.atr)
           stop == StopLoss(e, a)
           take == TakeProfit(e, a)
           trail == Larger(q.trail, stop)
           high == Larger(q.high, p)
<1>1. q.entry \in Nat /\ q.atr \in Nat /\ q.trail \in Int /\ q.high \in Nat /\ q.qty \in Nat
    BY DEF Held, Counts, RulesData
<1>2. e \in Nat
    BY <1>1, MeanType
<1> HIDE DEF e
<1>3. a \in Nat
    BY <1>1, <1>2, ResolvedTyped
<1>4. Averaged(q, p, 1) = [q EXCEPT !.entry = e, !.qty = n, !.atr = a, !.stop = stop,
                                    !.take = take, !.trail = trail, !.high = high]
    BY DEF Averaged, e
<1> HIDE DEF a
<1>5. stop \in Nat /\ take \in Nat
    BY <1>2, <1>3, StopTyped, TakeTyped
<1> HIDE DEF stop, take
<1>6. trail \in Int
    <2>1. stop \in Int
        BY <1>5
    <2> QED
        BY <1>1, <2>1, LargerType
<1>7. high \in Nat
    BY <1>1, LargerTyped
<1>8. n \in Counts
    OBVIOUS
<1> HIDE DEF trail, high, n
<1>9. [q EXCEPT !.entry = e, !.qty = n, !.atr = a, !.stop = stop,
                !.take = take, !.trail = trail, !.high = high] \in Held
    BY <1>2, <1>3, <1>5, <1>6, <1>7, <1>8, HeldUpdated
<1> QED
    BY <1>4, <1>9

LEMMA GuardedTyped ==
    ASSUME RulesData, NEW q \in Held
    PROVE  Guarded(q) \in Held
<1> DEFINE a == Resolved(q.entry, q.atr)
           least == StopLoss(q.entry, a)
           trail == Larger(q.trail, least)
<1>1. q.entry \in Nat /\ q.atr \in Nat /\ q.trail \in Int
    BY DEF Held
<1>2. Guarded(q) = IF q.stop >= least THEN q ELSE [q EXCEPT !.stop = least, !.trail = trail]
    BY DEF Guarded
<1>3. a \in Nat
    BY <1>1, ResolvedTyped
<1> HIDE DEF a
<1>4. least \in Nat
    BY <1>1, <1>3, StopTyped
<1> HIDE DEF least
<1>5. trail \in Int
    <2>1. least \in Int
        BY <1>4
    <2> QED
        BY <1>1, <2>1, LargerType
<1> HIDE DEF trail
<1>6. [q EXCEPT !.stop = least, !.trail = trail] \in Held
    BY <1>4, <1>5 DEF Held
<1> QED
    BY <1>2, <1>6

LEMMA RaisedTyped ==
    ASSUME RulesData, NEW q, q \in Held, NEW p, p \in Nat
    PROVE  Raised(q, p) \in Held
<1> DEFINE trail == Larger(q.trail, TrailingStop(p, q.atr))
<1>1. q.trail \in Int /\ q.atr \in Nat
    BY DEF Held
<1>2. TrailingStop(p, q.atr) \in Int
    BY <1>1, RuleNumbers DEF TrailingStop
<1>3. trail \in Int
    BY <1>1, <1>2, LargerType
<1>4. Raised(q, p) = IF p <= q.high THEN q ELSE [q EXCEPT !.high = p, !.trail = trail]
    BY DEF Raised
<1> HIDE DEF trail
<1>5. [q EXCEPT !.high = p, !.trail = trail] \in Held
    BY <1>3 DEF Held
<1> QED
    BY <1>4, <1>5

LEMMA FromHoldingTyped ==
    ASSUME RulesData, RulesTyped, shares.qty > 0, NEW now, now \in Nat
    PROVE  FromHolding(now) \in Held
<1> DEFINE e == shares.avg
           n == shares.qty
           s == 95 * e
           h == Larger(e, now)
           a == Larger(e \div 100, 1)
<1>1. e \in Nat /\ n \in Counts /\ day \in Days
    BY DEF RulesTyped, Counts, RulesData
<1>2. FromHolding(now) = [entry |-> e, qty |-> n, atr |-> a, stop |-> s, take |-> 0,
                          trail |-> s, high |-> h, date |-> day]
    BY DEF FromHolding
<1> HIDE DEF e, n
<1>3. s \in Nat /\ s \in Int /\ 0 \in Nat
    BY <1>1
<1>4. h \in Nat
    BY <1>1, LargerTyped
<1>5. a \in Nat
    <2>1. e \div 100 \in Nat /\ 1 \in Nat
        BY <1>1
    <2> QED
        BY <2>1, LargerTyped
<1> HIDE DEF s, h, a
<1> QED
    BY <1>1, <1>2, <1>3, <1>4, <1>5 DEF Held

LEMMA StartsTypes == RulesData /\ RulesTyped /\ StartsHolding => RulesTyped' /\ SellsHeld'
<1> SUFFICES ASSUME RulesData, RulesTyped, StartsHolding
             PROVE  RulesTyped' /\ SellsHeld'
    OBVIOUS
<1>1. UNCHANGED <<shares, day, opening>> /\ verdict' = NoVerdict /\ running' = TRUE
    BY DEF StartsHolding
<1>2. pos' \in Held \cup {Nothing} /\ posFile' \in Held \cup {Nothing}
    <2>1. CASE shares.qty = 0 /\ Keeps(Nothing)
        BY <2>1 DEF Keeps
    <2>2. CASE /\ shares.qty > 0 /\ posFile = Nothing
               /\ \E now \in Prices : posFile' = FromHolding(now)
               /\ pos' = Guarded(posFile')
        BY <2>2, FromHoldingTyped, GuardedTyped, RuleNumbers
    <2>3. CASE /\ shares.qty > 0 /\ posFile # Nothing
               /\ posFile' = [posFile EXCEPT !.qty = shares.qty, !.entry = shares.avg]
               /\ pos' = IF posFile.qty = shares.qty /\ posFile.entry # shares.avg
                         THEN Nothing ELSE Guarded(posFile')
        <3>1. shares.qty \in Counts /\ shares.avg \in Nat
            BY <2>3 DEF RulesTyped, Counts, RulesData
        <3>2. posFile' \in Held
            BY <2>3, <3>1 DEF RulesTyped, Held
        <3> QED
            BY <2>3, <3>2, GuardedTyped
    <2> QED
        BY <2>1, <2>2, <2>3 DEF StartsHolding
<1> QED
    BY <1>1, <1>2, NoVerdictTyped DEF RulesTyped, SellsHeld

LEMMA EvaluatesTypes == RulesData /\ RulesTyped /\ Evaluates => RulesTyped' /\ SellsHeld'
<1> SUFFICES ASSUME RulesData, RulesTyped, Evaluates
             PROVE  RulesTyped' /\ SellsHeld'
    OBVIOUS
<1>1. PICK p \in Prices :
        \/ /\ pos # Nothing
           /\ pos' = Raised(pos, p)
           /\ \E says \in {"SELL", "HOLD"} : verdict' = [says |-> says, price |-> p, atr |-> pos.atr]
        \/ /\ pos = Nothing
           /\ \E atr \in Atrs, says \in {"BUY", "HOLD"} :
                 verdict' = [says |-> says, price |-> p, atr |-> atr]
           /\ UNCHANGED pos
    BY DEF Evaluates
<1>2. p \in Nat /\ Atrs \subseteq Nat
    BY RuleNumbers
<1>3. CASE pos # Nothing
    <2>1. pos' \in Held /\ pos.atr \in Nat
        BY <1>1, <1>2, <1>3, RaisedTyped DEF RulesTyped, Held
    <2>2. verdict' \in Verdicts
        BY <1>1, <1>2, <1>3, <2>1 DEF Verdicts
    <2> QED
        BY <2>1, <2>2 DEF Evaluates, RulesTyped, SellsHeld
<1>4. CASE pos = Nothing
    <2>1. verdict' \in Verdicts /\ verdict'.says # "SELL"
        <3>1. PICK atr \in Atrs, says \in {"BUY", "HOLD"} :
                verdict' = [says |-> says, price |-> p, atr |-> atr]
            BY <1>1, <1>4
        <3>2. atr \in Nat
            BY <1>2
        <3> QED
            BY <1>2, <3>1, <3>2 DEF Verdicts
    <2>2. UNCHANGED pos
        BY <1>1, <1>4
    <2> QED
        BY <2>1, <2>2 DEF Evaluates, RulesTyped, SellsHeld
<1> QED
    BY <1>3, <1>4

LEMMA AddsTyped ==
    ASSUME RulesData, RulesTyped, shares.qty < MaxShares, NEW p \in Prices
    PROVE  Adds(p) \in [qty : 0 .. MaxShares, avg : Nat] /\ Adds(p).qty = shares.qty + 1
<1>1. shares.qty \in Nat /\ shares.avg \in Nat /\ shares.qty + 1 \in 0 .. MaxShares
    BY DEF RulesTyped, RulesData
<1>2. Adds(p) \in [qty : Nat, avg : Nat]
    <2>1. shares \in [qty : Nat, avg : Nat]
        BY DEF RulesTyped, RulesData
    <2> QED
        BY <2>1, AddsType
<1> QED
    BY <1>1, <1>2 DEF Adds

LEMMA BuysTypes == RulesData /\ RulesTyped /\ BuysShares => RulesTyped' /\ SellsHeld'
<1> SUFFICES ASSUME RulesData, RulesTyped, BuysShares
             PROVE  RulesTyped' /\ SellsHeld'
    OBVIOUS
<1>1. PICK p \in Prices, more \in Prices, both \in BOOLEAN, told \in BOOLEAN :
        LET one == Opened(p, 1, verdict.atr)
            acc == Adds(p)
        IN  /\ both => shares.qty + 2 <= MaxShares
            /\ shares' = IF both THEN [qty |-> acc.qty + 1, avg |-> Mean(acc.avg, acc.qty, more, 1)]
                         ELSE acc
            /\ Keeps(IF both /\ told THEN Averaged(one, more, 1) ELSE one)
    BY DEF BuysShares
<1> DEFINE one == Opened(p, 1, verdict.atr)
           acc == Adds(p)
<1>2. /\ p \in Nat /\ more \in Nat /\ verdict.atr \in Nat /\ day \in Days
      /\ shares.qty \in Nat /\ MaxShares \in Nat /\ shares.qty < MaxShares
    BY RuleNumbers DEF RulesData, RulesTyped, Verdicts, BuysShares
<1>3. one \in Held /\ one.qty = 1
    <2>1. 1 \in Counts
        BY <1>2 DEF Counts
    <2> QED
        BY <1>2, <2>1, OpenedTyped
<1>4. acc \in [qty : 0 .. MaxShares, avg : Nat] /\ acc.qty = shares.qty + 1
    BY <1>2, AddsTyped
<1>5. /\ both => shares.qty + 2 <= MaxShares
      /\ shares' = IF both THEN [qty |-> acc.qty + 1, avg |-> Mean(acc.avg, acc.qty, more, 1)]
                   ELSE acc
      /\ Keeps(IF both /\ told THEN Averaged(one, more, 1) ELSE one)
    BY <1>1
<1> HIDE DEF one, acc
<1>6. both => Averaged(one, more, 1) \in Held
    <2>1. both => one.qty + 1 \in Counts
        BY <1>2, <1>3, <1>5 DEF Counts
    <2> QED
        BY <1>2, <1>3, <2>1, AveragedTyped
<1>7. shares' \in [qty : 0 .. MaxShares, avg : Nat]
    <2>1. CASE both
        <3>1. acc.qty \in Nat /\ acc.avg \in Nat /\ acc.qty + 1 \in 0 .. MaxShares
            BY <1>2, <1>4, <1>5, <2>1
        <3>2. Mean(acc.avg, acc.qty, more, 1) \in Nat
            BY <1>2, <3>1, MeanType
        <3> QED
            BY <1>5, <2>1, <3>1, <3>2
    <2>2. CASE ~both
        BY <1>4, <1>5, <2>2
    <2> QED
        BY <2>1, <2>2
<1>8. pos' \in Held /\ posFile' \in Held
    BY <1>3, <1>5, <1>6 DEF Keeps
<1> QED
    BY <1>7, <1>8, NoVerdictTyped DEF BuysShares, RulesTyped, SellsHeld

LEMMA BreaksOffTypes == RulesData /\ RulesTyped /\ BuyBreaksOff => RulesTyped' /\ SellsHeld'
<1> SUFFICES ASSUME RulesData, RulesTyped, BuyBreaksOff
             PROVE  RulesTyped' /\ SellsHeld'
    OBVIOUS
<1>1. shares' \in [qty : 0 .. MaxShares, avg : Nat]
    BY AddsTyped DEF BuyBreaksOff, RulesTyped
<1>2. CASE UNCHANGED <<pos, posFile>>
    BY <1>1, <1>2, NoVerdictTyped DEF BuyBreaksOff, RulesTyped, SellsHeld
<1>3. CASE shares'.qty > 0 /\ Keeps(Opened(shares'.avg, shares'.qty, verdict.atr))
    <2>1. shares'.avg \in Nat /\ shares'.qty \in Counts
        BY <1>1, <1>3 DEF Counts, RulesData
    <2>2. verdict.atr \in Nat /\ day \in Days
        BY DEF RulesTyped, Verdicts
    <2>3. pos' \in Held /\ posFile' \in Held
        BY <1>3, <2>1, <2>2, OpenedTyped DEF Keeps
    <2> QED
        BY <1>1, <2>3, NoVerdictTyped DEF BuyBreaksOff, RulesTyped, SellsHeld
<1> QED
    BY <1>2, <1>3 DEF BuyBreaksOff

LEMMA SellsTypes == RulesData /\ RulesTyped /\ SellsHeld /\ SellsShares => RulesTyped' /\ SellsHeld'
<1> SUFFICES ASSUME RulesData, RulesTyped, SellsHeld, SellsShares
             PROVE  RulesTyped' /\ SellsHeld'
    OBVIOUS
<1>1. /\ shares.qty \in Nat /\ shares.qty <= MaxShares /\ MaxShares \in Nat
      /\ shares \in [qty : 0 .. MaxShares, avg : Nat]
    BY DEF RulesData, RulesTyped
<1>2. [qty |-> 0, avg |-> 0] \in [qty : 0 .. MaxShares, avg : Nat]
    BY <1>1
<1>3. pos \in Held
    BY DEF SellsHeld, SellsShares
<1>4. ASSUME NEW n \in 1 .. shares.qty
      PROVE  /\ [shares EXCEPT !.qty = @ - n] \in [qty : 0 .. MaxShares, avg : Nat]
             /\ ~(n >= pos.qty) => [pos EXCEPT !.qty = @ - n] \in Held
    <2>1. [shares EXCEPT !.qty = @ - n] \in [qty : 0 .. MaxShares, avg : Nat]
        <3>1. shares.qty - n \in 0 .. MaxShares
            BY <1>1
        <3> QED
            BY <1>1, <3>1
    <2>2. CASE ~(n >= pos.qty)
        <3>1. pos.qty - n \in Counts
            BY <1>1, <1>3, <2>2 DEF Held, Counts
        <3> QED
            BY <1>3, <2>1, <3>1 DEF Held
    <2> QED
        BY <2>1, <2>2
<1>5. shares' \in [qty : 0 .. MaxShares, avg : Nat]
    BY <1>2, <1>4 DEF SellsShares
<1>6. pos' \in Held \cup {Nothing} /\ posFile' \in Held \cup {Nothing}
    BY <1>4 DEF SellsShares, Keeps
<1> QED
    BY <1>5, <1>6, NoVerdictTyped DEF SellsShares, RulesTyped, SellsHeld

LEMMA StepRulesTypes ==
    RulesData /\ RulesTypes /\ SellsHeld /\ [RulesNext]_ruleVars => RulesTypes' /\ SellsHeld'
<1> SUFFICES ASSUME RulesData, RulesTyped, SellsHeld, [RulesNext]_ruleVars
             PROVE  RulesTyped' /\ SellsHeld'
    BY RulesTypesAre, RulesTypesThen
<1>1. CASE AverageMoves
    <2>1. shares' \in [qty : 0 .. MaxShares, avg : Nat]
        BY <1>1 DEF AverageMoves, RulesTyped
    <2> QED
        BY <1>1, <2>1 DEF AverageMoves, RulesTyped, SellsHeld
<1>2. CASE EndsHolding
    BY <1>2, NoVerdictTyped DEF EndsHolding, RulesTyped, SellsHeld
<1>3. CASE NextDay
    <2>1. day' \in Days
        BY <1>3 DEF NextDay, RulesTyped, RulesData, Days
    <2> QED
        BY <1>3, <2>1 DEF NextDay, RulesTyped, SellsHeld
<1>4. CASE UNCHANGED ruleVars
    BY <1>4 DEF ruleVars, RulesTyped, SellsHeld
<1> QED
    BY <1>1, <1>2, <1>3, <1>4, StartsTypes, EvaluatesTypes, BuysTypes, BreaksOffTypes, SellsTypes
    DEF RulesNext

-----------------------------------------------------------------------------
(***************************************************************************)
(* The answers about the account.  A payload that is still good is as old  *)
(* as its stamp says at most, whoever asked for it and however it went     *)
(* from one cache to another; a list made of it is at most a life older.   *)
(***************************************************************************)
Payloads == [stamp : Nat, age : Nat]

PayloadSound(s) == s \in Payloads /\ (IsFresh(s) => s.age <= s.stamp)
ListSound(s)    == s \in Payloads /\ (IsFresh(s) => s.age <= s.stamp + Life - 1)
AnswerSound(a)  ==
    /\ {"at", "wants", "tries", "renewed", "got", "age"} \subseteq DOMAIN a
    /\ a.got = "data" => a.age <= 2 * (Life - 1)

PayloadsSound ==
    /\ PayloadSound(shared)
    /\ raw \in [Clients -> Payloads] /\ \A i \in Clients : PayloadSound(raw[i])
ListsSound ==
    /\ listed \in [Clients -> [Lists -> Payloads]]
    /\ \A i \in Clients, l \in Lists : ListSound(listed[i][l])
AnswersSound == DOMAIN caller = Callers /\ \A c \in Callers : AnswerSound(caller[c])

ApiInv == PayloadsSound /\ ListsSound /\ AnswersSound

LEMMA ApiNumbers == ApiLimits => Life \in Nat \ {0} /\ \A c \in Callers : Api[c] \in Clients
BY DEF ApiLimits

LEMMA FirstPayloads ==
    ASSUME ApiLimits
    PROVE  /\ PayloadSound(Old) /\ PayloadSound(New) /\ ListSound(Old)
           /\ AnswerSound(Idle)
BY ApiNumbers DEF Old, New, Idle, PayloadSound, ListSound, AnswerSound, Payloads, IsFresh

LEMMA InitApi == ApiLimits /\ ApiInit => ApiInv
BY FirstPayloads DEF ApiInit, ApiInv, PayloadsSound, ListsSound, AnswersSound, PayloadSound, ListSound

LEMMA AgedSoundly ==
    ASSUME ApiLimits, NEW s
    PROVE  /\ PayloadSound(s) => PayloadSound(Aged(s))
           /\ ListSound(s) => ListSound(Aged(s))
BY ApiNumbers, FirstPayloads DEF Aged, PayloadSound, ListSound, Payloads, IsFresh

\* A call that ends with an answer of that age, or with none.
LEMMA CallEndsSound ==
    ASSUME ApiInv, NEW c \in Callers, NEW got, NEW age, CallEnds(c, got, age),
           got = "data" => age <= 2 * (Life - 1)
    PROVE  AnswersSound'
<1> DEFINE a == [Idle EXCEPT !.wants = caller[c].wants, !.got = got, !.age = age]
<1>1. AnswerSound(a)
    BY DEF Idle, AnswerSound
<1>2. caller' = [caller EXCEPT ![c] = a]
    BY DEF CallEnds
<1> HIDE DEF a
<1> QED
    BY <1>1, <1>2 DEF ApiInv, AnswersSound

\* A call that goes on has the answer it had.
LEMMA GoesSound ==
    ASSUME ApiInv, NEW c \in Callers, NEW at, Goes(c, at)
    PROVE  AnswersSound'
<1> DEFINE a == [caller[c] EXCEPT !.at = at]
<1>1. AnswerSound(caller[c])
    BY DEF ApiInv, AnswersSound
<1>2. AnswerSound(a)
    BY <1>1 DEF AnswerSound
<1>3. caller' = [caller EXCEPT ![c] = a]
    BY DEF Goes
<1> HIDE DEF a
<1> QED
    BY <1>2, <1>3 DEF ApiInv, AnswersSound

LEMMA DeliversKeeps ==
    ASSUME ApiLimits, ApiInv, NEW c \in Callers, NEW payload, PayloadSound(payload), IsFresh(payload),
           Delivers(c, payload)
    PROVE  AnswersSound' /\ ListsSound'
<1>1. payload.age \in Nat /\ payload.age <= Life - 1 /\ Life \in Nat \ {0}
    BY ApiNumbers DEF PayloadSound, IsFresh, Payloads
<1>2. payload.age <= 2 * (Life - 1)
    BY <1>1
<1>3. AnswersSound'
    BY <1>2, CallEndsSound DEF Delivers
<1> DEFINE new == [stamp |-> 0, age |-> payload.age]
           i == Api[c]
           w == caller[c].wants
<1>4. ListSound(new) /\ new \in Payloads
    BY <1>1 DEF ListSound, Payloads, IsFresh
<1>5. listed' = [listed EXCEPT ![i] = [listed[i] EXCEPT ![w] = new]]
    BY DEF Delivers
<1>6. i \in Clients
    BY ApiNumbers
<1> HIDE DEF new, i, w
<1>7. [listed[i] EXCEPT ![w] = new] \in [Lists -> Payloads]
    BY <1>4, <1>6 DEF ApiInv, ListsSound
<1>8. \A l \in Lists : ListSound([listed[i] EXCEPT ![w] = new][l])
    BY <1>4, <1>6 DEF ApiInv, ListsSound
<1> QED
    BY <1>3, <1>5, <1>6, <1>7, <1>8 DEF ApiInv, ListsSound

LEMMA LookKeeps ==
    ASSUME ApiLimits, ApiInv, NEW c \in Callers, Look(c)
    PROVE  ApiInv'
<1> DEFINE i == Api[c]
<1>1. i \in Clients
    BY ApiNumbers
<1>2. CASE IsFresh(raw[i])
    <2>1. PayloadSound(raw[i])
        BY <1>1 DEF ApiInv, PayloadsSound
    <2>2. AnswersSound' /\ ListsSound'
        BY <1>2, <2>1, DeliversKeeps DEF Look
    <2> QED
        BY <1>2, <2>2 DEF Look, ApiInv, PayloadsSound
<1>3. CASE ~IsFresh(raw[i]) /\ IsFresh(shared)
    <2>1. PayloadSound(shared)
        BY DEF ApiInv, PayloadsSound
    <2>2. AnswersSound' /\ ListsSound'
        BY <1>3, <2>1, DeliversKeeps DEF Look
    <2>3. raw' = [raw EXCEPT ![i] = shared] /\ shared' = shared
        BY <1>3 DEF Look, Reused
    <2> HIDE DEF i
    <2>4. PayloadsSound'
        BY <1>1, <2>1, <2>3 DEF ApiInv, PayloadsSound, PayloadSound
    <2> QED
        BY <2>2, <2>4 DEF ApiInv
<1>4. CASE ~IsFresh(raw[i]) /\ ~IsFresh(shared)
    BY <1>4, GoesSound DEF Look, ApiInv, PayloadsSound, ListsSound
<1> QED
    BY <1>2, <1>3, <1>4

LEMMA CallKeeps ==
    ASSUME ApiLimits, ApiInv, NEW c \in Callers, NEW wants \in Wants, Call(c, wants)
    PROVE  ApiInv'
<1> DEFINE i == Api[c]
           cached == [Idle EXCEPT !.wants = wants, !.got = "data", !.age = listed[i][wants].age]
           asks == [Idle EXCEPT !.wants = wants, !.at = IF wants \in Lists THEN "account" ELSE "headers"]
<1>1. i \in Clients /\ Life \in Nat \ {0}
    BY ApiNumbers
<1>2. AnswerSound(asks)
    BY DEF AnswerSound, Idle
<1>3. ASSUME wants \in Lists, IsFresh(listed[i][wants])
      PROVE  AnswerSound(cached)
    <2> HIDE DEF i
    <2>1. ListSound(listed[i][wants])
        BY <1>1, <1>3 DEF ApiInv, ListsSound
    <2>2. listed[i][wants].age <= 2 * (Life - 1)
        BY <1>1, <1>3, <2>1 DEF ListSound, IsFresh, Payloads
    <2> QED
        BY <2>2 DEF AnswerSound, Idle
<1>4. \/ caller' = [caller EXCEPT ![c] = asks]
      \/ wants \in Lists /\ IsFresh(listed[i][wants]) /\ caller' = [caller EXCEPT ![c] = cached]
    BY DEF Call
<1> HIDE DEF cached, asks, i
<1>5. AnswersSound'
    BY <1>2, <1>3, <1>4 DEF ApiInv, AnswersSound
<1> QED
    BY <1>5 DEF Call, ApiInv, PayloadsSound, ListsSound

LEMMA ServesSound ==
    ASSUME ApiLimits, ApiInv, NEW c \in Callers, Serves(c)
    PROVE  AnswersSound'
<1>1. 0 <= 2 * (Life - 1)
    BY ApiNumbers
<1> QED
    BY <1>1, CallEndsSound, GoesSound DEF Serves

LEMMA TriesAgainSound ==
    ASSUME ApiInv, NEW c \in Callers, NEW renewed, NEW error, error # "data",
           TriesAgain(c, renewed, error)
    PROVE  AnswersSound'
<1>1. CASE CallEnds(c, error, 0)
    BY <1>1, CallEndsSound
<1>2. CASE ~CallEnds(c, error, 0)
    <2> DEFINE a == [caller[c] EXCEPT !.at = "send", !.tries = @ + 1, !.renewed = renewed]
    <2>1. AnswerSound(caller[c]) /\ c \in DOMAIN caller
        BY DEF ApiInv, AnswersSound
    <2>2. AnswerSound(a)
        BY <2>1 DEF AnswerSound
    <2>3. caller' = [caller EXCEPT ![c] = a]
        BY <1>2, <2>1 DEF TriesAgain, AnswerSound
    <2> HIDE DEF a
    <2> QED
        BY <2>2, <2>3 DEF ApiInv, AnswersSound
<1> QED
    BY <1>1, <1>2

LEMMA SendRequestKeeps ==
    ASSUME ApiLimits, ApiInv, NEW c \in Callers, SendRequest(c)
    PROVE  ApiInv'
<1>1. CASE Answered(c) /\ caller[c].wants \in Lists
    <2>1. PayloadSound(New) /\ IsFresh(New)
        BY FirstPayloads, ApiNumbers DEF New, IsFresh
    <2>2. AnswersSound' /\ ListsSound'
        BY <1>1, <2>1, DeliversKeeps DEF Answered
    <2>3. raw' = [raw EXCEPT ![Api[c]] = New] /\ shared' = New
        BY <1>1 DEF Answered
    <2>4. PayloadsSound'
        BY <2>1, <2>3 DEF ApiInv, PayloadsSound, PayloadSound
    <2> QED
        BY <2>2, <2>4 DEF ApiInv
<1>2. CASE Answered(c) /\ caller[c].wants \notin Lists
    <2>1. 0 <= 2 * (Life - 1)
        BY ApiNumbers
    <2>2. AnswersSound'
        BY <1>2, <2>1, CallEndsSound DEF Answered
    <2> QED
        BY <1>2, <2>2 DEF Answered, ApiInv, PayloadsSound, ListsSound
<1>3. CASE NotAnswered(c)
    <2>1. AnswersSound'
        BY <1>3, CallEndsSound, GoesSound, TriesAgainSound DEF NotAnswered
    <2> QED
        BY <1>3, <2>1 DEF NotAnswered, ApiInv, PayloadsSound, ListsSound
<1> QED
    BY <1>1, <1>2, <1>3 DEF SendRequest

LEMMA StepApi == ApiLimits /\ ApiInv /\ [ApiNext]_apiVars => ApiInv'
<1> SUFFICES ASSUME ApiLimits, ApiInv, [ApiNext]_apiVars
             PROVE  ApiInv'
    OBVIOUS
<1>1. ASSUME NEW c \in Callers, Headers(c) \/ Login(c) \/ LoginAgain(c) \/ Relogin(c)
      PROVE  ApiInv'
    <2>1. AnswersSound'
        BY <1>1, ServesSound, GoesSound, CallEndsSound, TriesAgainSound
        DEF Headers, Login, LoginAgain, Relogin
    <2> QED
        BY <1>1, <2>1 DEF Headers, Login, LoginAgain, Relogin, ApiInv, PayloadsSound, ListsSound
<1>2. CASE CachesAge
    <2>1. PayloadsSound'
        BY <1>2, AgedSoundly DEF CachesAge, ApiInv, PayloadsSound, PayloadSound
    <2>2. ListsSound'
        BY <1>2, AgedSoundly DEF CachesAge, ApiInv, ListsSound, ListSound
    <2> QED
        BY <1>2, <2>1, <2>2 DEF CachesAge, ApiInv, AnswersSound
<1>3. CASE TokenEnds \/ UNCHANGED apiVars
    BY <1>3 DEF TokenEnds, apiVars, ApiInv, PayloadsSound, ListsSound, AnswersSound
<1> QED
    BY <1>1, <1>2, <1>3, LookKeeps, CallKeeps, SendRequestKeeps DEF ApiNext, Proceeds

\* Every answer is sound, and so recent.
LEMMA ApiIsRecent == ApiInv => AccountIsRecent
BY DEF ApiInv, AnswersSound, AnswerSound, AccountIsRecent

\* The types of the calls for the account.  An answer is no older than the two
\* caches let it be, so an age stays within twice their life.
CallerTypes == [at : {"idle", "account", "headers", "login", "send", "denied", "relogin"},
                wants : Wants, tries : 0 .. Retries, renewed : BOOLEAN,
                got : {"nothing", "data", "KISApiError", "TypeError"}, age : 0 .. 2 * Life]
ApiTyped ==
    /\ caller \in [Callers -> CallerTypes]
    /\ usable \in [Clients -> BOOLEAN] /\ saved \in BOOLEAN /\ inflight \in BOOLEAN
    /\ shared \in Cached /\ raw \in [Clients -> Cached] /\ listed \in [Clients -> [Lists -> Cached]]

LEMMA ApiTypesAre == ApiTypes <=> ApiTyped
BY DEF ApiTypes, ApiTyped, CallerTypes

LEMMA ApiTypesThen == ApiTyped' => ApiTypes'
BY DEF ApiTypes, ApiTyped, CallerTypes

LEMMA ApiZeros ==
    ASSUME ApiLimits
    PROVE  /\ 0 \in 0 .. Retries /\ 0 \in 0 .. 2 * Life
           /\ Old \in Cached /\ New \in Cached
           /\ \A c \in Callers : Api[c] \in Clients
<1>1. 0 \in 0 .. Retries /\ 0 \in 0 .. 2 * Life /\ 0 \in 0 .. Life /\ Life \in 0 .. Life
    BY DEF ApiLimits
<1>2. Old \in Cached /\ New \in Cached
    BY <1>1 DEF Old, New, Cached
<1> QED
    BY <1>1, <1>2, ApiNumbers

\* A call that has ended, and one that has begun.
LEMMA IdleTyped ==
    ASSUME ApiLimits, NEW w \in Wants, NEW g \in {"nothing", "data", "KISApiError", "TypeError"},
           NEW a \in 0 .. 2 * Life
    PROVE  /\ [Idle EXCEPT !.wants = w, !.got = g, !.age = a] \in CallerTypes
           /\ Idle \in CallerTypes
           /\ \A at \in {"account", "headers"} : [Idle EXCEPT !.wants = w, !.at = at] \in CallerTypes
<1>1. Idle \in CallerTypes
    <2>1. "order" \in Wants
        BY DEF Wants
    <2> QED
        BY <2>1, ApiZeros DEF Idle, CallerTypes
<1>2. \A i \in CallerTypes : [i EXCEPT !.wants = w, !.got = g, !.age = a] \in CallerTypes
    BY DEF CallerTypes
<1>3. \A i \in CallerTypes, at \in {"account", "headers"} : [i EXCEPT !.wants = w, !.at = at] \in CallerTypes
    BY DEF CallerTypes
<1> QED
    BY <1>1, <1>2, <1>3

LEMMA InitApiTypes == ApiLimits /\ ApiInit => ApiTypes
<1> SUFFICES ASSUME ApiLimits, ApiInit
             PROVE  ApiTypes
    OBVIOUS
<1>1. Idle \in CallerTypes
    BY ApiZeros, IdleTyped DEF Wants
<1>2. caller \in [Callers -> CallerTypes]
    BY <1>1 DEF ApiInit
<1>3. shared \in Cached /\ raw \in [Clients -> Cached] /\ listed \in [Clients -> [Lists -> Cached]]
    BY ApiZeros DEF ApiInit
<1>4. usable \in [Clients -> BOOLEAN] /\ saved \in BOOLEAN /\ inflight \in BOOLEAN
    BY DEF ApiInit
<1> QED
    BY <1>2, <1>3, <1>4, ApiTypesAre DEF ApiTyped

LEMMA CallEndsTypes ==
    ASSUME ApiLimits, ApiTyped, NEW c \in Callers, NEW a \in 0 .. 2 * Life,
           NEW g \in {"nothing", "data", "KISApiError", "TypeError"}, CallEnds(c, g, a)
    PROVE  caller' \in [Callers -> CallerTypes]
<1> DEFINE e == [Idle EXCEPT !.wants = caller[c].wants, !.got = g, !.age = a]
<1>1. caller[c].wants \in Wants
    BY DEF ApiTyped, CallerTypes
<1>2. e \in CallerTypes /\ caller' = [caller EXCEPT ![c] = e]
    BY <1>1, IdleTyped DEF CallEnds
<1> HIDE DEF e
<1> QED
    BY <1>2 DEF ApiTyped

LEMMA GoesTypes ==
    ASSUME ApiTyped, NEW c \in Callers,
           NEW at \in {"idle", "account", "headers", "login", "send", "denied", "relogin"},
           Goes(c, at)
    PROVE  caller' \in [Callers -> CallerTypes]
<1> DEFINE e == [caller[c] EXCEPT !.at = at]
<1>1. e \in CallerTypes
    BY DEF ApiTyped, CallerTypes
<1>2. caller' = [caller EXCEPT ![c] = e]
    BY DEF Goes
<1> HIDE DEF e
<1> QED
    BY <1>1, <1>2 DEF ApiTyped

LEMMA DeliversTypes ==
    ASSUME ApiLimits, ApiTyped, NEW c \in Callers, NEW payload \in Cached, Delivers(c, payload)
    PROVE  caller' \in [Callers -> CallerTypes] /\ listed' \in [Clients -> [Lists -> Cached]]
<1> DEFINE new == [stamp |-> 0, age |-> payload.age]
           i == Api[c]
           w == caller[c].wants
<1>1. payload.age \in 0 .. 2 * Life /\ 0 \in 0 .. Life
    BY ApiNumbers DEF Cached
<1>2. new \in Cached
    BY <1>1 DEF Cached
<1>3. listed' = [listed EXCEPT ![i] = [listed[i] EXCEPT ![w] = new]] /\ i \in Clients
    BY ApiZeros DEF Delivers
<1>4. caller' \in [Callers -> CallerTypes]
    BY <1>1, CallEndsTypes DEF Delivers
<1> HIDE DEF new, i, w
<1>5. [listed[i] EXCEPT ![w] = new] \in [Lists -> Cached]
    BY <1>2, <1>3 DEF ApiTyped
<1> QED
    BY <1>3, <1>4, <1>5 DEF ApiTyped

\* A cached answer that is younger than its life has no more than twice its life.
LEMMA AgedTypes ==
    ASSUME ApiLimits, NEW s \in Cached, PayloadSound(s) \/ ListSound(s)
    PROVE  Aged(s) \in Cached
<1>1. CASE s.stamp + 1 >= Life
    BY <1>1, ApiZeros DEF Aged
<1>2. CASE ~(s.stamp + 1 >= Life)
    <2>1. /\ Aged(s) = [stamp |-> s.stamp + 1, age |-> s.age + 1]
          /\ s.stamp + 1 \in 0 .. Life /\ s.age + 1 \in 0 .. 2 * Life
        BY <1>2, ApiNumbers DEF Aged, Cached, PayloadSound, ListSound, IsFresh
    <2> QED
        BY <2>1 DEF Cached
<1> QED
    BY <1>1, <1>2

LEMMA LookTypes ==
    ASSUME ApiLimits, ApiTyped, NEW c \in Callers, Look(c)
    PROVE  ApiTyped'
<1> DEFINE i == Api[c]
<1>1. i \in Clients /\ raw[i] \in Cached /\ shared \in Cached
    BY ApiZeros DEF ApiTyped
<1>2. caller' \in [Callers -> CallerTypes] /\ listed' \in [Clients -> [Lists -> Cached]]
    <2>1. CASE Delivers(c, raw[i]) \/ Delivers(c, shared)
        <3> HIDE DEF i
        <3> QED
            BY <1>1, <2>1, DeliversTypes
    <2>2. CASE Goes(c, "headers") /\ UNCHANGED listed
        BY <2>2, GoesTypes DEF ApiTyped
    <2> QED
        BY <2>1, <2>2 DEF Look
<1>3. raw' \in [Clients -> Cached]
    <2>1. raw' = raw \/ raw' = [raw EXCEPT ![i] = shared]
        BY DEF Look, Reused
    <2> HIDE DEF i
    <2> QED
        BY <1>1, <2>1 DEF ApiTyped
<1>4. inflight' \in BOOLEAN
    BY DEF Look, ApiTyped
<1> QED
    BY <1>2, <1>3, <1>4 DEF Look, ApiTyped

LEMMA BeginsTypes ==
    ASSUME ApiLimits, ApiTyped, NEW c \in Callers, NEW wants \in Wants, Call(c, wants)
    PROVE  ApiTyped'
<1> DEFINE i == Api[c]
           a == listed[i][wants].age
           cached == [Idle EXCEPT !.wants = wants, !.got = "data", !.age = a]
           at == IF wants \in Lists THEN "account" ELSE "headers"
           asks == [Idle EXCEPT !.wants = wants, !.at = at]
<1>1. i \in Clients
    BY ApiZeros
<1>2. asks \in CallerTypes
    BY IdleTyped, ApiZeros
<1>3. wants \in Lists => a \in 0 .. 2 * Life
    <2> HIDE DEF i
    <2> QED
        BY <1>1 DEF ApiTyped, Cached
<1>4. wants \in Lists => cached \in CallerTypes
    <2> HIDE DEF a
    <2> QED
        BY <1>3, IdleTyped
<1>5. \/ caller' = [caller EXCEPT ![c] = asks]
      \/ wants \in Lists /\ caller' = [caller EXCEPT ![c] = cached]
    BY DEF Call
<1> HIDE DEF cached, asks
<1>6. caller' \in [Callers -> CallerTypes]
    BY <1>2, <1>4, <1>5 DEF ApiTyped
<1> QED
    BY <1>6 DEF Call, ApiTyped

LEMMA TriesTypes ==
    ASSUME ApiLimits, ApiTyped, NEW c \in Callers, NEW renewed \in BOOLEAN,
           NEW error \in {"KISApiError", "TypeError"}, TriesAgain(c, renewed, error)
    PROVE  caller' \in [Callers -> CallerTypes] /\ inflight' \in BOOLEAN
<1>1. CASE caller[c].tries < Limit(c)
    <2> DEFINE more == caller[c].tries + 1
               e == [caller[c] EXCEPT !.at = "send", !.tries = more, !.renewed = renewed]
    <2>1. more \in 0 .. Retries
        BY <1>1 DEF ApiLimits, Limit, ApiTyped, CallerTypes
    <2> HIDE DEF more
    <2>2. e \in CallerTypes
        BY <2>1 DEF ApiTyped, CallerTypes
    <2>3. caller[c] \in CallerTypes
        BY DEF ApiTyped
    <2>4. caller' = [caller EXCEPT ![c] = e] /\ UNCHANGED inflight
        BY <1>1, <2>3 DEF TriesAgain, ApiTyped, CallerTypes, more
    <2> HIDE DEF e
    <2> QED
        BY <2>2, <2>4 DEF ApiTyped
<1>2. CASE ~(caller[c].tries < Limit(c))
    <2>1. CallEnds(c, error, 0) /\ Unmark(c)
        BY <1>2 DEF TriesAgain
    <2> QED
        BY <2>1, CallEndsTypes, ApiZeros DEF Unmark, ApiTyped
<1> QED
    BY <1>1, <1>2

LEMMA SendTypes ==
    ASSUME ApiLimits, ApiTyped, NEW c \in Callers, SendRequest(c)
    PROVE  ApiTyped'
<1>1. New \in Cached /\ 0 \in 0 .. 2 * Life /\ Api[c] \in Clients
    BY ApiZeros
<1>2. caller[c].renewed \in BOOLEAN
    BY DEF ApiTyped, CallerTypes
<1>3. CASE Answered(c)
    <2>1. inflight' \in BOOLEAN
        BY <1>3 DEF Answered, Unmark, ApiTyped
    <2>2. caller' \in [Callers -> CallerTypes] /\ listed' \in [Clients -> [Lists -> Cached]]
        BY <1>1, <1>3, DeliversTypes, CallEndsTypes DEF Answered, ApiTyped
    <2>3. shared' \in Cached /\ raw' \in [Clients -> Cached]
        BY <1>1, <1>3 DEF Answered, ApiTyped
    <2> QED
        BY <2>1, <2>2, <2>3 DEF SendRequest, ApiTyped
<1>4. CASE NotAnswered(c)
    <2>1. caller' \in [Callers -> CallerTypes]
        BY <1>1, <1>2, <1>4, TriesTypes, CallEndsTypes, GoesTypes DEF NotAnswered
    <2>2. inflight' \in BOOLEAN
        BY <1>2, <1>4, TriesTypes DEF NotAnswered, Unmark, ApiTyped
    <2> QED
        BY <1>4, <2>1, <2>2 DEF NotAnswered, SendRequest, ApiTyped
<1> QED
    BY <1>3, <1>4 DEF SendRequest

LEMMA TokenTypes ==
    ASSUME ApiLimits, ApiTyped, NEW c \in Callers,
           Headers(c) \/ Login(c) \/ LoginAgain(c) \/ Relogin(c)
    PROVE  ApiTyped'
<1>1. 0 \in 0 .. 2 * Life /\ Api[c] \in Clients
    BY ApiZeros
<1>2. Serves(c) => caller' \in [Callers -> CallerTypes]
    BY <1>1, CallEndsTypes, GoesTypes DEF Serves
<1>3. ~Relogin(c) => caller' \in [Callers -> CallerTypes] /\ inflight' \in BOOLEAN
    BY <1>1, <1>2, CallEndsTypes, GoesTypes DEF Headers, Login, LoginAgain, ApiTyped
<1>4. Relogin(c) => caller' \in [Callers -> CallerTypes] /\ inflight' \in BOOLEAN
    BY TriesTypes DEF Relogin
<1>5. usable' \in [Clients -> BOOLEAN]
    BY <1>1 DEF Headers, Login, LoginAgain, Relogin, LoggedIn, ApiTyped
<1>6. saved' \in BOOLEAN
    BY DEF Headers, Login, LoginAgain, Relogin, LoggedIn, ApiTyped
<1> QED
    BY <1>3, <1>4, <1>5, <1>6 DEF Headers, Login, LoginAgain, Relogin, ApiTyped

LEMMA StepApiTypes ==
    ApiLimits /\ ApiInv /\ ApiTypes /\ [ApiNext]_apiVars => ApiTypes'
<1> SUFFICES ASSUME ApiLimits, ApiInv, ApiTyped, [ApiNext]_apiVars
             PROVE  ApiTyped'
    BY ApiTypesAre, ApiTypesThen
<1>1. CASE CachesAge
    <2>1. shared' \in Cached
        BY <1>1, AgedTypes DEF CachesAge, ApiInv, PayloadsSound, ApiTyped
    <2>2. raw' \in [Clients -> Cached]
        BY <1>1, AgedTypes DEF CachesAge, ApiInv, PayloadsSound, ApiTyped
    <2>3. listed' \in [Clients -> [Lists -> Cached]]
        BY <1>1, AgedTypes DEF CachesAge, ApiInv, ListsSound, ApiTyped
    <2> QED
        BY <1>1, <2>1, <2>2, <2>3 DEF CachesAge, ApiTyped
<1>2. CASE TokenEnds \/ UNCHANGED apiVars
    <2>1. usable' \in [Clients -> BOOLEAN] /\ saved' \in BOOLEAN
        BY <1>2 DEF TokenEnds, apiVars, ApiTyped
    <2> QED
        BY <1>2, <2>1 DEF TokenEnds, apiVars, ApiTyped
<1> QED
    BY <1>1, <1>2, LookTypes, BeginsTypes, SendTypes, TokenTypes DEF ApiNext, Proceeds
=============================================================================
