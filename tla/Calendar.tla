------------------------------ MODULE Calendar ------------------------------
(***************************************************************************)
(* The time library: gmtime and mktime on days that go by.  A time is its  *)
(* days since 1970 and its seconds of the day; the date of the Gregorian   *)
(* calendar goes along as the reference.  The library is for 8051 and AVR, *)
(* where int has 16 bits; tm has bytes but for the year and the day of it. *)
(***************************************************************************)
EXTENDS Integers, Sequences

CONSTANTS
  FirstDay, FirstDate, \* a day since 1970, and its date [y, m, d, yday, wday]
  LastDay,             \* bound on the days
  Clocks,              \* seconds of a day looked at
  Overruns             \* days by which a date may be past its month's end

CONSTANT IntMax        \* largest int, 2^15 - 1

VARIABLES days, date

calendarVars == <<days, date>>

-----------------------------------------------------------------------------
EveryFourth(year) == year % 4 = 0  \* mutant

is_leap_year(year) == year % 4 = 0 /\ (year % 100 # 0 \/ year % 400 = 0)

month_days == <<31, 28, 31, 30, 31, 30, 31, 31, 30, 31, 30, 31>>

\* Mutants: no leap day; hours not carried on; months from 1.
IgnoresLeap(month, leap) == month_days[month + 1]
LeavesHours(tm) == [tm EXCEPT !.tm_sec = @ % 60, !.tm_hour = @ % 24, !.tm_mon = @ % 12]
MonthFromOne(text) ==
  [tm_mday |-> 10 * text.mday[1] + text.mday[2], tm_mon |-> text.month + 1,
   tm_hour |-> 10 * text.hour[1] + text.hour[2], tm_min |-> 10 * text.min[1] + text.min[2],
   tm_sec |-> 10 * text.sec[1] + text.sec[2], tm_year |-> text.year - 1900]

\* Months count from 0, as in tm.
MonthDays(month, leap) == IF leap /\ month = 1 THEN 29 ELSE month_days[month + 1]
YearDays(year) == IF is_leap_year(year) THEN 366 ELSE 365

days_before_month == <<0, 31, 59, 90, 120, 151, 181, 212, 243, 273, 304, 334>>

\* An int that was given more than it holds.
ToInt(n) == IF n <= IntMax THEN n ELSE n - 2 * (IntMax + 1)

-----------------------------------------------------------------------------
\* gmtime_r: years are taken off the days, then months.
TakeYears[d \in Int, year \in Int] ==
  IF d < YearDays(year) THEN [rest |-> d, year |-> year]
  ELSE TakeYears[d - YearDays(year), year + 1]

TakeMonths[d \in Int, month \in 0 .. 12, leap \in BOOLEAN] ==
  IF month = 12 \/ d < MonthDays(month, leap) THEN [rest |-> d, month |-> month]
  ELSE TakeMonths[d - MonthDays(month, leap), month + 1, leap]

gmtime_r(day, clock) ==
  LET y == TakeYears[ToInt(day), 1970]
      m == TakeMonths[y.rest, 0, is_leap_year(y.year)]
      yday == y.rest + 1
  IN  [tm_mday |-> (m.rest + 1) % 256, tm_mon |-> m.month, tm_year |-> y.year - 1900,
       tm_yday |-> yday, tm_wday |-> (yday + 4) % 7,
       tm_hour |-> clock \div 3600, tm_min |-> (clock \div 60) % 60, tm_sec |-> clock % 60]

-----------------------------------------------------------------------------
\* validate_tm for fields that are too large; none can be negative.  Leap
\* years are found from tm_year, the years since 1900.
CarryUp(tm) ==
  LET min  == tm.tm_min + tm.tm_sec \div 60
      hour == tm.tm_hour + min \div 60
      mon  == tm.tm_mon
  IN  [tm EXCEPT !.tm_sec = @ % 60, !.tm_min = min % 60, !.tm_hour = hour % 24,
                 !.tm_mday = @ + hour \div 24,
                 !.tm_mon = mon % 12, !.tm_year = @ + mon \div 12]

DayTimes == [tm_mday : Nat, tm_mon : 0 .. 11, tm_year : Nat]

TakeDays[tm \in DayTimes] ==
  LET length == MonthDays(tm.tm_mon, is_leap_year(tm.tm_year))
  IN  IF tm.tm_mday <= length THEN tm
      ELSE TakeDays[[tm_mday |-> tm.tm_mday - length, tm_mon |-> (tm.tm_mon + 1) % 12,
                     tm_year |-> tm.tm_year + (IF tm.tm_mon = 11 THEN 1 ELSE 0)]]

\* A day 0 is the last of the month before; of January it is out of the table.
BackToMonth(tm) ==
  IF tm.tm_mday = 0
  THEN [tm EXCEPT !.tm_mon = @ - 1, !.tm_mday = MonthDays(tm.tm_mon - 1, is_leap_year(tm.tm_year))]
  ELSE tm

validate_tm(tm) ==
  LET up == CarryUp(tm)
      d  == TakeDays[[tm_mday |-> up.tm_mday, tm_mon |-> up.tm_mon, tm_year |-> up.tm_year]]
  IN  BackToMonth([up EXCEPT !.tm_mday = d.tm_mday, !.tm_mon = d.tm_mon, !.tm_year = d.tm_year])

\* mktime, for the years from 1970 on.  The day of the month counts whole; the
\* day this is too many makes up for 29 February 2000, which the rule misses.
DaysOfYears[year \in Nat] ==
  IF year <= 70 THEN 0 ELSE DaysOfYears[year - 1] + YearDays(year - 1)

mktime(tm) ==
  LET v == validate_tm(tm)
      yday == v.tm_mday + days_before_month[v.tm_mon + 1]
                + (IF v.tm_mon > 1 /\ is_leap_year(v.tm_year) THEN 1 ELSE 0)
      total == yday + DaysOfYears[v.tm_year]
  IN  [day |-> total, clock |-> v.tm_sec + 60 * v.tm_min + 3600 * v.tm_hour,
       yday |-> yday, wday |-> (total + 4) % 7]

\* tm_from_str on a text in the form of C's ctime, names and digits read.
tm_from_str(text) ==
  [tm_mday |-> 10 * text.mday[1] + text.mday[2], tm_mon |-> text.month,
   tm_hour |-> 10 * text.hour[1] + text.hour[2], tm_min |-> 10 * text.min[1] + text.min[2],
   tm_sec |-> 10 * text.sec[1] + text.sec[2], tm_year |-> text.year - 1900]

time_from_str(text) == mktime(tm_from_str(text))

-----------------------------------------------------------------------------
\* The reference: the next day of a calendar on the wall.
Divisors(n) == {k \in {4, 100, 400} : k * (n \div k) = n}
Leap(year) == (4 \in Divisors(year) /\ 100 \notin Divisors(year)) \/ 400 \in Divisors(year)

LengthOf(month, year) ==
  IF month = 1 THEN IF Leap(year) THEN 29 ELSE 28
  ELSE IF month \in {3, 5, 8, 10} THEN 30 ELSE 31

NextDate(d) ==
  LET newMonth == d.d = LengthOf(d.m, d.y)
      newYear  == newMonth /\ d.m = 11
  IN  [y    |-> IF newYear THEN d.y + 1 ELSE d.y,
       m    |-> IF newYear THEN 0 ELSE IF newMonth THEN d.m + 1 ELSE d.m,
       d    |-> IF newMonth THEN 1 ELSE d.d + 1,
       yday |-> IF newYear THEN 1 ELSE d.yday + 1,
       wday |-> (d.wday + 1) % 7]

CalendarInit == days = FirstDay /\ date = FirstDate

DayPasses == days < LastDay /\ days' = days + 1 /\ date' = NextDate(date)

-----------------------------------------------------------------------------
\* The first of March 2000.
SinceMarch2000 == days >= 11017

TwoDigits(n) == <<n \div 10, n % 10>>

\* gmtime gives the date of the calendar as long as the days fit an int, and the
\* right day of the week in just the years that begin with a Friday.
GmtimeIsCalendar ==
  days <= IntMax =>
    LET tm == gmtime_r(days, 0)
    IN  /\ tm.tm_year + 1900 = date.y /\ tm.tm_mon = date.m /\ tm.tm_mday = date.d
        /\ tm.tm_yday = date.yday
        /\ tm.tm_wday = date.wday <=> (date.wday - date.yday + 1) % 7 = 5

\* mktime takes back what gmtime gives, and knows the day of the week, from
\* March 2000 on; until then it is a day ahead.
MktimeInverts ==
  days <= IntMax =>
    \A c \in Clocks :
      LET t == mktime(gmtime_r(days, c))
          ahead == IF SinceMarch2000 THEN 0 ELSE 1
      IN  t.clock = c /\ t.day = days + ahead /\ t.wday = (date.wday + ahead) % 7

\* Days past the end of the month, hours past that of the day and seconds past
\* that of the minute, as many as a byte holds, are carried on, over the ends of
\* years too.
MktimeCarries ==
  SinceMarch2000 /\ days <= IntMax =>
    LET tm == gmtime_r(days, 0)
    IN  \A n \in Overruns :
          /\ mktime([tm EXCEPT !.tm_mday = @ + n]).day = days + n
          /\ mktime([tm EXCEPT !.tm_hour = @ + 24]).day = days + 1
          /\ mktime([tm EXCEPT !.tm_mon = @ + 12, !.tm_sec = 196 + n]).clock = 196 + n

\* The time a text stands for is that of its date; only the day of the year
\* is one too small in what 2000 has left.
TextIsTime ==
  SinceMarch2000 =>
    time_from_str([mday |-> TwoDigits(date.d), month |-> date.m, year |-> date.y,
                   hour |-> <<2, 3>>, min |-> <<5, 9>>, sec |-> <<0, 7>>])
      = [day |-> days, clock |-> 86347, wday |-> date.wday,
         yday |-> IF date.y = 2000 THEN date.yday - 1 ELSE date.yday]

\* The functions of the time library keep one calendar, that of the wall, as
\* far as their integers reach.
TimesAreDates == GmtimeIsCalendar /\ MktimeInverts /\ MktimeCarries /\ TextIsTime
=============================================================================
