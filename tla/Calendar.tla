------------------------------ MODULE Calendar ------------------------------
(***************************************************************************)
(* Dates as the reports compute them.  An instant is a number of half      *)
(* hours since 1970-01-01T00:00Z; a delivery or purchase date is a DATE    *)
(* column, so a day: the number of days since then.  Months count from 0,  *)
(* as in JavaScript.  A range that ends at 23:59:59.999 ends with its last *)
(* day.                                                                    *)
(***************************************************************************)
EXTENDS Integers

HalfHoursPerDay == 48

IsLeap(y) == y % 4 = 0 /\ (y % 100 # 0 \/ y % 400 = 0)

DaysIn(y, m) ==
  CASE m = 1 -> IF IsLeap(y) THEN 29 ELSE 28
    [] m \in {3, 5, 8, 10} -> 30
    [] OTHER -> 31

LeapYearsBefore(y) == (y - 1) \div 4 - (y - 1) \div 100 + (y - 1) \div 400

DaysBeforeYear(y) == 365 * (y - 1970) + LeapYearsBefore(y) - LeapYearsBefore(1970)

DaysBeforeMonth(y, m) ==
  <<0, 31, 59, 90, 120, 151, 181, 212, 243, 273, 304, 334>>[m + 1]
    + (IF m > 1 /\ IsLeap(y) THEN 1 ELSE 0)

\* Date.UTC: months beyond the year and days beyond the month run over.
DateUTC(y, m, d) ==
  LET year == y + m \div 12
      month == m % 12 IN
    DaysBeforeYear(year) + DaysBeforeMonth(year, month) + d - 1

\* getUTCFullYear, getUTCMonth and getUTCDate.
CivilOf(n) ==
  LET y == CHOOSE k \in (1970 + n \div 366) .. (1970 + n \div 365) :
             DaysBeforeYear(k) <= n /\ n < DaysBeforeYear(k + 1)
      m == CHOOSE k \in 0..11 : DateUTC(y, k, 1) <= n /\ n < DateUTC(y, k + 1, 1) IN
    [year |-> y, month |-> m, day |-> n - DateUTC(y, m, 1) + 1]

MonthOf(n) == [year |-> CivilOf(n).year, month |-> CivilOf(n).month]

\* getUTCDay: 0 is Sunday, and 1970-01-01 was a Thursday.
WeekdayOf(n) == (n + 4) % 7

\* Mutated form: the offset to India is forgotten.
GetUTCCalendarDate(now) == CivilOf(now \div HalfHoursPerDay)

IstOffset == 11

GetISTCalendarDate(now) == CivilOf((now + IstOffset) \div HalfHoursPerDay)

\* Month m (0..11) of year y, as the set of its days.
GetMonthBounds(y, m) == DateUTC(y, m, 1) .. DateUTC(y, m + 1, 0)

\* Monday to Sunday around day n.
GetWeekBounds(n) ==
  LET diffToMonday == IF WeekdayOf(n) = 0 THEN -6 ELSE 1 - WeekdayOf(n) IN
    (n + diffToMonday) .. (n + diffToMonday + 6)

=============================================================================
