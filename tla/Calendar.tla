------------------------------- MODULE Calendar -------------------------------
(***************************************************************************)
(* The conversions between the Gregorian and the Jalali calendar, and the  *)
(* month grid that the calendar route shows (core/jalali.py).  A date is   *)
(* <<year, month, day>>.                                                   *)
(***************************************************************************)
EXTENDS Integers, Sequences

\* Days before each month of a common year.
DaysBeforeMonth == <<0, 31, 59, 90, 120, 151, 181, 212, 243, 273, 304, 334>>

IsGregorianLeap(y) == (y % 4 = 0 /\ y % 100 # 0) \/ y % 400 = 0

\* What is left of a number of days when the years of a four-year cycle, of
\* which the first is the long one, are taken off.
YearsIn(days) == IF days > 365 THEN (days - 1) \div 365 ELSE 0
RestOfYear(days) == IF days > 365 THEN (days - 1) % 365 ELSE days

\* The days of gregorian_to_jalali, counted from the year 979 (1600).
DaysSince1600(date) ==
  LET gy == date[1] - 1600
      gy2 == IF date[2] > 2 THEN gy ELSE gy - 1
  IN 365 * gy + (gy2 + 3) \div 4 - (gy2 + 99) \div 100 + (gy2 + 399) \div 400
       - 80 + date[3] + DaysBeforeMonth[date[2]]

\* Day of the year, from 0, to month and day.
JalaliMonth(n) == IF n < 186 THEN 1 + n \div 31 ELSE 7 + (n - 186) \div 30
JalaliDay(n) == IF n < 186 THEN 1 + (n % 31) ELSE 1 + ((n - 186) % 30)

\* gregorian_to_jalali, after 1600
GregorianToJalali(date) ==
  LET days == DaysSince1600(date)
      inCycle == days % 12053
      inFour == inCycle % 1461
      n == RestOfYear(inFour)
  IN <<979 + 33 * (days \div 12053) + 4 * (inCycle \div 1461) + YearsIn(inFour),
       JalaliMonth(n), JalaliDay(n)>>

\* The days of jalali_to_gregorian, counted from 1600.
JalaliDays(date) ==
  LET jy == date[1] - 979
      jm == date[2]
  IN 365 * jy + (jy \div 33) * 8 + ((jy % 33) + 3) \div 4 + 78 + date[3]
       + (IF jm < 7 THEN (jm - 1) * 31 ELSE (jm - 7) * 30 + 186)

\* Mutant: a century that is no leap year keeps its 29 February.
InCenturyUncorrected(n) == n % 36524

\* The day of its century, counted as if each began with a leap year.
InCentury(n) ==
  IF n <= 36524 THEN n
  ELSE LET m == (n - 1) % 36524 IN IF m >= 365 THEN m + 1 ELSE m

\* Month and day of a day of the Gregorian year, from 0.
GregorianMonth(y, n) ==
  LET before(m) == DaysBeforeMonth[m] + (IF m > 2 /\ IsGregorianLeap(y) THEN 1 ELSE 0)
      month == CHOOSE m \in 1 .. 12 :
                 before(m) <= n /\ \A k \in m + 1 .. 12 : n < before(k)
  IN <<y, month, n - before(month) + 1>>

\* jalali_to_gregorian, after 979
JalaliToGregorian(date) ==
  LET days == JalaliDays(date)
      inEra == days % 146097
      inCentury == InCentury(inEra)
      inFour == inCentury % 1461
      year == 1600 + 400 * (days \div 146097)
                + (IF inEra > 36524 THEN 100 * ((inEra - 1) \div 36524) ELSE 0)
                + 4 * (inCentury \div 1461) + YearsIn(inFour)
  IN GregorianMonth(year, RestOfYear(inFour))

\* Mutant: every fourth year is a leap year.
IsLeapEveryFourth(jy) == jy % 4 = 3

\* is_jalali_leap_year
IsJalaliLeap(jy) == GregorianToJalali(JalaliToGregorian(<<jy, 12, 30>>)) = <<jy, 12, 30>>

\* get_days_in_jalali_month
DaysInMonth(jy, jm) ==
  IF jm <= 6 THEN 31 ELSE IF jm <= 11 \/ IsJalaliLeap(jy) THEN 30 ELSE 29

\* date.toordinal and date.weekday (Monday is 0)
DayNumber(date) ==
  LET y == date[1] - 1 IN
  365 * y + y \div 4 - y \div 100 + y \div 400 + DaysBeforeMonth[date[2]]
    + (IF date[2] > 2 /\ IsGregorianLeap(date[1]) THEN 1 ELSE 0) + date[3]

WeekDay(date) == (DayNumber(date) + 6) % 7

\* get_jalali_month_first_weekday (Saturday is 0)
FirstWeekDay(jy, jm) == (WeekDay(JalaliToGregorian(<<jy, jm, 1>>)) + 2) % 7
===============================================================================
