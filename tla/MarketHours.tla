---------------------------- MODULE MarketHours ----------------------------
(***************************************************************************)
(* When the Korean exchange trades (utils/market_hours.py) and the phase   *)
(* of a venue (utils/market_phase.py).  A time is a number of minutes; a   *)
(* day has DayLength of them, so that a day can be made short.             *)
(***************************************************************************)
EXTENDS Integers

CONSTANTS
    DayLength,     \* minutes of a day
    MarketOpen,    \* 09:00
    MarketClose,   \* 15:20, the end of continuous trading
    SessionClose,  \* 15:30
    PreopenMin,    \* minutes of warm-up before the opening
    PostcloseMin,  \* minutes of clean-up after the close
    Windows,       \* the auction windows, pairs <<from, until>>
    ClosedDays     \* weekends and holidays of the calendar in force

\* The time of what has not happened.
Never == -100

Sessions == {"OFF_SESSION", "PREOPEN_WARMUP", "IN_SESSION", "AUCTION_GUARD", "POSTCLOSE"}

DayOf(t)    == t \div DayLength
MinuteOf(t) == t % DayLength
IsClosed(d) == d \in ClosedDays

InAuction(m) == \E w \in Windows : w[1] <= m /\ m < w[2]

\* A closed day wins over everything, an auction window over the clock's
\* other bounds, even outside the session.
SessionAt(t) ==
    LET m == MinuteOf(t) IN
    CASE IsClosed(DayOf(t))                                    -> "OFF_SESSION"
      [] ~IsClosed(DayOf(t)) /\ InAuction(m)                   -> "AUCTION_GUARD"
      [] OTHER ->
            IF m < MarketOpen - PreopenMin THEN "OFF_SESSION"
            ELSE IF m < MarketOpen THEN "PREOPEN_WARMUP"
            ELSE IF m < SessionClose THEN "IN_SESSION"
            ELSE IF m < SessionClose + PostcloseMin THEN "POSTCLOSE"
            ELSE "OFF_SESSION"
=============================================================================
