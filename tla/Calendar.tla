------------------------------ MODULE Calendar ------------------------------
(***************************************************************************)
(* Civil dates, their Julian day numbers and the Balinese Pawukon calendar *)
(* (internal/domain: date.go, jdn.go, pawukon.go, holidays.go), followed   *)
(* day by day along a calendar that only knows how long each month is.     *)
(***************************************************************************)
EXTENDS Integers, Sequences

\* Go's integer division and remainder truncate toward zero.
Quo(a, b) == IF a >= 0 THEN a \div b ELSE -((-a) \div b)
Rem(a, b) == a - b * Quo(a, b)

Date(y, m, d) == [y |-> y, m |-> m, d |-> d]

\* Mutant: January and February are told apart with a flooring division.
JDNFloored(date) ==
  LET a == (date.m - 14) \div 12
  IN date.d - 32075 + (1461 * (date.y + 4800 + a)) \div 4
     + (367 * (date.m - 2 - a * 12)) \div 12 - (3 * ((date.y + 4900 + a) \div 100)) \div 4

JDN(date) ==
  LET a == Quo(date.m - 14, 12)
  IN date.d - 32075 + Quo(1461 * (date.y + 4800 + a), 4)
     + Quo(367 * (date.m - 2 - a * 12), 12) - Quo(3 * Quo(date.y + 4900 + a, 100), 4)

DateFromJDN(n) ==
  LET a == n + 32044
      b == Quo(4 * a + 3, 146097)
      c == a - Quo(146097 * b, 4)
      dd == Quo(4 * c + 3, 1461)
      e == c - Quo(1461 * dd, 4)
      m == Quo(5 * e + 2, 153)
  IN Date(100 * b + dd - 4800 + Quo(m, 10), m + 3 - 12 * Quo(m, 10), e - Quo(153 * m + 2, 5) + 1)

AddDays(date, n) == DateFromJDN(JDN(date) + n)
Before(date, other) == JDN(date) < JDN(other)
After(date, other) == JDN(date) > JDN(other)

Weekday(date) == Rem(JDN(date) + 1, 7)

-----------------------------------------------------------------------------
(* Pawukon.                                                                *)

PawukonCycleDays == 210
AnchorJDN == JDN(Date(2026, 6, 17))
AnchorCycleDay == 74

\* Mutant: the remainder of a date before the anchor stays negative.
CycleDayTruncated(n) == Rem(n - AnchorJDN + AnchorCycleDay - 1, PawukonCycleDays) + 1

\* The day of the cycle, 1 .. 210, of the day number n.
CycleDay(n) ==
  LET off == Rem(n - AnchorJDN + AnchorCycleDay - 1, PawukonCycleDays)
  IN (IF off < 0 THEN off + PawukonCycleDays ELSE off) + 1

Pawukon(date) ==
  LET c == CycleDay(JDN(date))
  IN [sapta |-> Weekday(date), panca |-> Rem(c - 1, 5), wuku |-> Quo(c - 1, 7)]

PawukonHolidayDefs ==
  << [name |-> "Galungan",  sapta |-> 3, panca |-> 3, wuku |-> 10],
     [name |-> "Kuningan",  sapta |-> 6, panca |-> 3, wuku |-> 11],
     [name |-> "Saraswati", sapta |-> 6, panca |-> 4, wuku |-> 29],
     [name |-> "Pagerwesi", sapta |-> 3, panca |-> 3, wuku |-> 0] >>

\* PawukonHolidaysBetween of one day: the names of its holidays.
PawukonHolidays(date) ==
  LET p == Pawukon(date)
      Matching(i) == LET h == PawukonHolidayDefs[i]
                     IN p = [sapta |-> h.sapta, panca |-> h.panca, wuku |-> h.wuku]
  IN {PawukonHolidayDefs[i].name : i \in {j \in DOMAIN PawukonHolidayDefs :
        Matching(j) /\ \A k \in 1 .. j - 1 : ~Matching(k)}}

-----------------------------------------------------------------------------
(* The calendar on the wall.                                               *)

IsLeap(y) == y % 4 = 0 /\ (y % 100 # 0 \/ y % 400 = 0)

DaysInMonth(y, m) ==
  IF m = 2 THEN IF IsLeap(y) THEN 29 ELSE 28
  ELSE IF m \in {4, 6, 9, 11} THEN 30 ELSE 31

\* The days of the calendar.
Day == {date \in [y : Nat \ {0}, m : 1 .. 12, d : 1 .. 31] : date.d <= DaysInMonth(date.y, date.m)}

VARIABLES
  today,              \* the date on the wall
  number,             \* days counted since the epoch of the day numbers
  weeks               \* the parallel weeks, each turned day by day

wallVars == <<today, number, weeks>>

\* How many days the calendar has had before this one, counted in years and months.
DaysUpTo(date) ==
  LET p == date.y - 1
      M[m \in 0 .. 11] == IF m = 0 THEN 0 ELSE M[m - 1] + DaysInMonth(date.y, m)
  IN 365 * p + p \div 4 - p \div 100 + p \div 400 + M[date.m - 1] + date.d

\* 1 January of the year 1 has the day number 1721426, and 17 June 2026 was
\* Galungan: Buda Kliwon of the week Dunggulan.
HangUp(first) ==
  /\ today = first
  /\ number = DaysUpTo(first) + 1721425
  /\ LET since == DaysUpTo(first) - DaysUpTo(Date(2026, 6, 17))
     IN weeks = [sapta |-> (3 + since) % 7, panca |-> (3 + since) % 5,
                 wuku |-> (10 + (3 + since) \div 7) % 30]

Tomorrow(date) ==
  IF date.d < DaysInMonth(date.y, date.m) THEN [date EXCEPT !.d = @ + 1]
  ELSE IF date.m < 12 THEN Date(date.y, date.m + 1, 1) ELSE Date(date.y + 1, 1, 1)

\* A week of seven days is followed by the next of the thirty.
TurnPage ==
  /\ today' = Tomorrow(today)
  /\ number' = number + 1
  /\ weeks' = [sapta |-> (weeks.sapta + 1) % 7, panca |-> (weeks.panca + 1) % 5,
               wuku |-> IF weeks.sapta = 6 THEN (weeks.wuku + 1) % 30 ELSE weeks.wuku]

-----------------------------------------------------------------------------
(* Properties.                                                             *)

\* The closed formulas of jdn.go and its inverse count the days of the calendar,
\* across month ends, leap years and centuries.
NumbersCountDays == JDN(today) = number /\ DateFromJDN(number) = today

\* The weekday and the two Pawukon weeks computed from the day number turn one day
\* at a time, before the anchor as after it, so that each holiday of the Pawukon
\* table falls on the day that carries its three names.
WeeksTurnDaily ==
  /\ Pawukon(today) = weeks
  /\ PawukonHolidays(today) = {h.name : h \in {x \in {PawukonHolidayDefs[i] :
       i \in DOMAIN PawukonHolidayDefs} :
         x.sapta = weeks.sapta /\ x.panca = weeks.panca /\ x.wuku = weeks.wuku}}
=============================================================================
