---------------------------- MODULE MarketCalendar ----------------------------
(***************************************************************************)
(* market_hours.go: the session of the New York stock exchanges at a time  *)
(* and when it changes next.  A day is the number of days since the first  *)
(* of January of year 0 (Gregorian); the time of the day is early, session *)
(* or late.  As time goes on, usRegularMarketStatus is asked now and then, *)
(* and its answer is kept and compared with a calendar stated by its rules.*)
(***************************************************************************)
EXTENDS Integers, Sequences

CONSTANTS FirstYear, LastYear   \* bound: the years in which time goes on

ASSUME CalendarAssumption == FirstYear \in Nat /\ LastYear \in Nat

VARIABLES
    today,    \* the day
    hour,     \* "early" (before 09:30), "session", "late" (from 16:00)
    next,     \* the day the search for the next session looks at, or 0: no search
    answer    \* the last answer: status, and the day and hour until which it holds

calendarVars == <<today, hour, next, answer>>

-----------------------------------------------------------------------------
(* The calendar of package time.                                            *)

Leap(y) == y % 4 = 0 /\ (y % 100 # 0 \/ y % 400 = 0)
MonthStart == <<0, 31, 59, 90, 120, 151, 181, 212, 243, 273, 304, 334>>

\* Date(y, m, d) takes a month after December and a day out of the month, as time.Date does.
YearStart(y) == 365 * y + ((y + 3) \div 4) - ((y + 99) \div 100) + ((y + 399) \div 400)
Date(y, m, d) ==
    IF m > 12 THEN YearStart(y + 1) + d - 1
    ELSE YearStart(y) + MonthStart[m] + (IF m > 2 /\ Leap(y) THEN 1 ELSE 0) + d - 1

YearOf(day) ==
    CHOOSE y \in (FirstYear - 1)..(LastYear + 2) : YearStart(y) <= day /\ day < YearStart(y + 1)

Sunday == 0  Monday == 1  Thursday == 4  Friday == 5  Saturday == 6
Weekday(day) == (day + 6) % 7

-----------------------------------------------------------------------------
(* The rules of the code.                                                   *)

observedHoliday(day) ==
    CASE Weekday(day) = Saturday -> day - 1
      [] Weekday(day) = Sunday -> day + 1
      [] OTHER -> day

nthWeekday(y, m, weekday, n) ==
    Date(y, m, 1) + ((weekday - Weekday(Date(y, m, 1))) % 7) + (n - 1) * 7

lastWeekday(y, m, weekday) ==
    LET last == Date(y, m + 1, 0) IN last - ((Weekday(last) - weekday) % 7)

\* Mutant: the full moon is not corrected in the years that need it.
easterSunday_Uncorrected(y) ==
    LET b == y \div 100  c == y % 100
        g == (b - ((b + 8) \div 25) + 1) \div 3
        h == (19 * (y % 19) + b - (b \div 4) - g + 15) % 30
        l == (32 + 2 * (b % 4) + 2 * (c \div 4) - h - (c % 4)) % 7
    IN  Date(y, (h + l + 114) \div 31, ((h + l + 114) % 31) + 1)

easterSunday(y) ==
    LET a == y % 19  b == y \div 100  c == y % 100
        g == (b - ((b + 8) \div 25) + 1) \div 3
        h == (19 * a + b - (b \div 4) - g + 15) % 30
        l == (32 + 2 * (b % 4) + 2 * (c \div 4) - h - (c % 4)) % 7
        m == (a + 11 * h + 22 * l) \div 451
        n == h + l - 7 * m + 114
    IN  Date(y, n \div 31, (n % 31) + 1)

isUSMarketHoliday(day) ==
    LET y == YearOf(day) IN
    day \in {observedHoliday(Date(y, 1, 1)), observedHoliday(Date(y, 7, 4)),
             observedHoliday(Date(y, 12, 25)),
             nthWeekday(y, 1, Monday, 3), nthWeekday(y, 2, Monday, 3), lastWeekday(y, 5, Monday),
             nthWeekday(y, 9, Monday, 1), nthWeekday(y, 11, Thursday, 4),
             easterSunday(y) - 2,
             observedHoliday(Date(y + 1, 1, 1))}
         \cup IF y >= 2022 THEN {observedHoliday(Date(y, 6, 19))} ELSE {}

isUSTradingDay(day) == Weekday(day) \notin {Saturday, Sunday} /\ ~isUSMarketHoliday(day)

-----------------------------------------------------------------------------

NoAnswer == [status |-> "NONE", day |-> 0, hour |-> "early"]

CalendarInit ==
    /\ today = Date(FirstYear, 1, 1) /\ hour = "early"
    /\ next = 0
    /\ answer = NoAnswer

\* usRegularMarketStatus(now), to the point where it has its answer or begins the search.
Ask ==
    /\ next = 0
    /\ \/ /\ isUSTradingDay(today) /\ hour = "session"
          /\ answer' = [status |-> "OPEN", day |-> today, hour |-> "late"]
          /\ UNCHANGED next
       \/ /\ isUSTradingDay(today) /\ hour = "early"
          /\ answer' = [status |-> "CLOSED", day |-> today, hour |-> "session"]
          /\ UNCHANGED next
       \/ /\ ~isUSTradingDay(today) \/ hour = "late"
          /\ next' = today + 1
          /\ UNCHANGED answer
    /\ UNCHANGED <<today, hour>>

\* The loop over the days that follow.
Search ==
    /\ next # 0
    /\ \/ ~isUSTradingDay(next) /\ next' = next + 1 /\ UNCHANGED answer
       \/ /\ isUSTradingDay(next) /\ next' = 0
          /\ answer' = [status |-> "CLOSED", day |-> next, hour |-> "session"]
    /\ UNCHANGED <<today, hour>>

\* The time is before that hour of that day.
Before(day, h) == \/ today < day
                  \/ today = day /\ h = "late" /\ hour # "late"
                  \/ today = day /\ h = "session" /\ hour = "early"

\* Time goes on; a question takes none of it.  An answer is kept until the time it names.
TimePasses ==
    /\ next = 0
    /\ today < Date(LastYear, 12, 31)
    /\ \/ hour = "early" /\ hour' = "session" /\ UNCHANGED today
       \/ hour = "session" /\ hour' = "late" /\ UNCHANGED today
       \/ hour = "late" /\ hour' = "early" /\ today' = today + 1
    /\ answer' = IF Before(answer.day, answer.hour) THEN answer ELSE NoAnswer
    /\ UNCHANGED next

CalendarNext == Ask \/ Search \/ TimePasses

CalendarSpec == CalendarInit /\ [][CalendarNext]_calendarVars

-----------------------------------------------------------------------------
(* The calendar of the exchanges by its rules.                              *)

Within(day, y, m, first, last) == day \in Date(y, m, first)..Date(y, m, last)

\* Easter is the Sunday after the full moon of spring.  From 1900 to 2199 that full moon
\* follows the year's place in the cycle of 19 years alone.
FullMoon(y) ==
    LET age == (19 * (y % 19) + 24) % 30
    IN  Date(y, 3, 21) + (IF age = 29 \/ (age = 28 /\ y % 19 > 10) THEN age - 1 ELSE age)
GoodFriday(day) == Weekday(day) = Friday /\ day + 2 - FullMoon(YearOf(day)) \in 1..7

Fixed(day) ==
    LET y == YearOf(day) IN
    \/ day \in {Date(y, 1, 1), Date(y, 7, 4), Date(y, 12, 25)}
    \/ day = Date(y, 6, 19) /\ y >= 2022

ExchangeHoliday(day) ==
    LET y == YearOf(day) IN
    \/ Fixed(day)
    \/ Weekday(day) = Friday /\ Fixed(day + 1)
    \/ Weekday(day) = Monday /\ \/ Fixed(day - 1)
                                \/ Within(day, y, 1, 15, 21) \/ Within(day, y, 2, 15, 21)
                                \/ Within(day, y, 5, 25, 31) \/ Within(day, y, 9, 1, 7)
    \/ Weekday(day) = Thursday /\ Within(day, y, 11, 22, 28)
    \/ GoodFriday(day)

Open(day, h) == h = "session" /\ Weekday(day) \in 1..5 /\ ~ExchangeHoliday(day)

\* An answer is right until the time it names, and at that time the session really changes.
AnswerHolds ==
    answer # NoAnswer =>
        /\ Before(answer.day, answer.hour) => (Open(today, hour) <=> answer.status = "OPEN")
        /\ today = answer.day /\ hour = answer.hour =>
             (Open(today, hour) <=> answer.status # "OPEN")

=============================================================================
