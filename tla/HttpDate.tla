------------------------------ MODULE HttpDate ------------------------------
(***************************************************************************)
(* parse_http_date of time.rs, the last resort for the time: the Date      *)
(* header of a TLS server, converted to seconds since 1970 by counting the *)
(* days of years and months.  The module runs a reference calendar beside  *)
(* it, by seconds and by days, which carries into minutes, hours, days,    *)
(* months and years as a wall calendar does.                               *)
(***************************************************************************)
EXTENDS Integers

CONSTANTS
  Minute, Hour, Day,  \* seconds in each: 60, 3600, 86400
  U64,                \* u64 is 0..U64 - 1
  LeapYears,          \* the leap years of the calendar
  LastYear            \* bound: the calendar ends with this year

MonthNames == <<"Jan", "Feb", "Mar", "Apr", "May", "Jun",
                "Jul", "Aug", "Sep", "Oct", "Nov", "Dec">>

-----------------------------------------------------------------------------
(* The code.                                                               *)

\* MUTANT: every fourth year is a leap year.
is_leap_year_Julian(year) == year % 4 = 0

is_leap_year(year) == (year % 4 = 0 /\ year % 100 # 0) \/ year % 400 = 0

\* The loop over the years before this one; none for a year before 1970.
DaysBefore(year) ==
  LET days[y \in 1970..(IF year < 1970 THEN 1970 ELSE year)] ==
        IF y = 1970 THEN 0 ELSE days[y - 1] + (IF is_leap_year(y - 1) THEN 366 ELSE 365)
  IN days[IF year < 1970 THEN 1970 ELSE year]

month_days(year) ==
  <<31, IF is_leap_year(year) THEN 29 ELSE 28, 31, 30, 31, 30, 31, 31, 30, 31, 30, 31>>

DaysBeforeMonth(year, month) ==
  LET days[m \in 1..month] == IF m = 1 THEN 0 ELSE days[m - 1] + month_days(year)[m - 1]
  IN days[month]

\* None for a month that is not in the table.  The day is not checked: with u64
\* arithmetic that wraps, day 0 is the day before the first.
parse_http_date(d) ==
  {((((DaysBefore(d.year) + DaysBeforeMonth(d.year, m) + d.day + U64 - 1) % U64) * Day)
     + d.hour * Hour + d.minute * Minute + d.second) % U64 :
     m \in {k \in 1..12 : MonthNames[k] = d.month}}

-----------------------------------------------------------------------------
(* The reference calendar.                                                 *)

VARIABLES
  date,     \* what a server that has the right time writes in its header
  elapsed   \* seconds since 1970

vars == <<date, elapsed>>

MonthNumber(d) == CHOOSE k \in 1..12 : MonthNames[k] = d.month
DaysIn(d) ==
  CASE d.month \in {"Apr", "Jun", "Sep", "Nov"} -> 30
    [] d.month = "Feb" -> IF d.year \in LeapYears THEN 29 ELSE 28
    [] OTHER -> 31

NextMonth(d) ==
  IF d.month = "Dec" THEN [d EXCEPT !.month = "Jan", !.year = @ + 1]
  ELSE [d EXCEPT !.month = MonthNames[MonthNumber(d) + 1]]
NextDay(d) ==
  IF d.day < DaysIn(d) THEN [d EXCEPT !.day = @ + 1] ELSE [NextMonth(d) EXCEPT !.day = 1]
NextHour(d) ==
  IF d.hour + 1 < Day \div Hour THEN [d EXCEPT !.hour = @ + 1]
  ELSE [NextDay(d) EXCEPT !.hour = 0]
NextMinute(d) ==
  IF d.minute + 1 < Hour \div Minute THEN [d EXCEPT !.minute = @ + 1]
  ELSE [NextHour(d) EXCEPT !.minute = 0]
NextSecond(d) ==
  IF d.second + 1 < Minute THEN [d EXCEPT !.second = @ + 1]
  ELSE [NextMinute(d) EXCEPT !.second = 0]

Init ==
  /\ date = [year |-> 1970, month |-> "Jan", day |-> 1, hour |-> 0, minute |-> 0, second |-> 0]
  /\ elapsed = 0

Second ==
  /\ NextSecond(date).year <= LastYear
  /\ date' = NextSecond(date)
  /\ elapsed' = elapsed + 1

\* The same time of the next day.
Tomorrow ==
  /\ NextDay(date).year <= LastYear
  /\ date' = NextDay(date)
  /\ elapsed' = elapsed + Day

\* The last second of the calendar.
CalendarEnds == NextSecond(date).year > LastYear /\ UNCHANGED vars

Next == Second \/ Tomorrow \/ CalendarEnds

Spec == Init /\ [][Next]_vars

-----------------------------------------------------------------------------
(* Properties.                                                             *)

\* At every second the header is converted to the seconds that have passed, over leap
\* years, the turn of a century that is one (2000) and of one that is not (2100).  Day 0
\* is read as the last day of the month before, not as a time far in the future - except
\* in January 1970, where the subtraction wraps around.
DateIsElapsed ==
  /\ parse_http_date(date) = {elapsed}
  /\ date.day = 1 /\ elapsed >= Day =>
       parse_http_date([date EXCEPT !.day = 0]) = {elapsed - Day}

=============================================================================
