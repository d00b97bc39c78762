------------------------- MODULE OccurrencesProofs -------------------------
(***************************************************************************)
(* Proofs about Occurrences for every occasion of every recurrence, every  *)
(* window and every list of offsets.                                       *)
(*                                                                         *)
(* The marks of an occasion are numbered; the four loops of occurrence.go  *)
(* each name the marks whose days lie in the window, whatever the window   *)
(* (Between), and each search for the next finds the least number that is  *)
(* not before the day asked about (NextIs).  The life of the occasion      *)
(* keeps the number of the mark it had last (LifeInv).                     *)
(***************************************************************************)
EXTENDS Occurrences, CalendarProofs

-----------------------------------------------------------------------------
(* Least and greatest.                                                     *)

\* Max and Min of a set with a greatest or least element are that element.
LEMMA MaxIs ==
  ASSUME NEW S \in SUBSET Int, NEW x \in S, \A y \in S : x >= y
  PROVE  Max(S) = x
<1>1. PICK z \in S : z = Max(S) /\ \A y \in S : z >= y
  BY DEF Max
<1>2. z \in Int /\ x \in Int /\ x >= z /\ z >= x
  BY <1>1
<1>3. z = x
  BY <1>2
<1> QED BY <1>1, <1>3

\* A member that no other is below is the least of a set.
LEMMA MinIs ==
  ASSUME NEW S \in SUBSET Int, NEW x \in S, \A y \in S : x <= y
  PROVE  Min(S) = x
<1>1. PICK z \in S : z = Min(S) /\ \A y \in S : z <= y
  BY DEF Min
<1>2. z \in Int /\ x \in Int /\ x <= z /\ z <= x
  BY <1>1
<1>3. z = x
  BY <1>2
<1> QED BY <1>1, <1>3

\* The greatest of two numbers is the one that is not below the other.
LEMMA MaxOfTwo == \A a, b \in Int : Max({a, b}) = IF a >= b THEN a ELSE b
<1> TAKE a, b \in Int
<1>1. CASE a >= b
  BY <1>1, MaxIs
<1>2. CASE ~(a >= b)
  BY <1>2, MaxIs
<1> QED BY <1>1, <1>2

\* The smaller of two numbers.
LEMMA MinOfTwo == \A a, b \in Int : Min({a, b}) = IF a <= b THEN a ELSE b
<1> TAKE a, b \in Int
<1>1. CASE a <= b
  BY <1>1, MinIs
<1>2. CASE ~(a <= b)
  BY <1>2, MinIs
<1> QED BY <1>1, <1>2

\* A nonempty set of numbers has its minimum, and a bounded one its maximum.
LEMMA MinIsLeast ==
  ASSUME NEW S \in SUBSET Nat, S # {}
  PROVE  Min(S) \in S /\ \A y \in S : Min(S) <= y
<1>1. PICK x \in S : \A y \in S : x <= y
  BY LeastNumber
<1>2. Min(S) = x
  BY <1>1, MinIs
<1> QED BY <1>1, <1>2

\* The maximum of numbers that have a bound.
LEMMA MaxIsGreatest ==
  ASSUME NEW b \in Nat, NEW S \in SUBSET Nat, S # {}, \A y \in S : y <= b
  PROVE  Max(S) \in S /\ \A y \in S : y <= Max(S)
<1> DEFINE T == {b - y : y \in S}
<1>1. T \in SUBSET Nat /\ T # {}
  <2>1. \A y \in S : b - y \in Nat
    OBVIOUS
  <2> QED BY <2>1
<1>2. PICK t \in T : \A u \in T : t <= u
  <2> HIDE DEF T
  <2> QED BY <1>1, LeastNumber
<1>3. PICK x \in S : t = b - x
  OBVIOUS
<1>4. \A y \in S : x >= y
  <2> TAKE y \in S
  <2>1. b - y \in T
    OBVIOUS
  <2>2. b - x <= b - y
    BY <1>2, <1>3, <2>1
  <2>3. x \in Nat /\ y \in Nat
    OBVIOUS
  <2> QED BY <2>2, <2>3
<1>5. Max(S) = x
  <2>1. S \in SUBSET Int /\ x \in S
    OBVIOUS
  <2> HIDE DEF T
  <2>2. \A y \in S : y <= x
    <3> TAKE y \in S
    <3>1. x >= y
      BY <1>4
    <3>2. x \in Nat /\ y \in Nat
      OBVIOUS
    <3> QED BY <3>1, <3>2
  <2>3. \A y \in S : x >= y
    BY <1>4
  <2> QED BY <2>1, <2>2, <2>3, MaxIs
<1>6. \A y \in S : y <= x
  <2> TAKE y \in S
  <2>1. x >= y
    BY <1>4
  <2>2. x \in Nat /\ y \in Nat
    OBVIOUS
  <2> QED BY <2>1, <2>2
<1> QED BY <1>5, <1>6

-----------------------------------------------------------------------------
(* The days of the marks.                                                  *)

\* The mark of a number.
Mark(base, rec, n) ==
  CASE rec = "once" -> Occurrence(base, "event", 0)
    [] rec = "otonan" -> Otonan(base, n)
    [] rec = "yearly" -> YearMark(base, base.y + n)
    [] OTHER -> MonthMark(base, rec, n)

\* Its day, numbered.
DayNo(base, rec, n) == JDN(Mark(base, rec, n).date)

\* The numbers an occasion uses: the base itself is no otonan.
Indexes(rec) == IF rec = "once" THEN {0} ELSE IF rec = "otonan" THEN Nat \ {0} ELSE Nat

\* What the parts of a mark are.
LEMMA MarkParts ==
  \A base, n :
    /\ Mark(base, "once", n) = Occurrence(base, "event", 0)
    /\ Mark(base, "otonan", n) = Otonan(base, n)
    /\ Mark(base, "yearly", n) = YearMark(base, base.y + n)
    /\ \A rec \in {"monthly", "anniversary"} : Mark(base, rec, n) = MonthMark(base, rec, n)
    /\ Mark(base, "once", n).date = base
    /\ Mark(base, "otonan", n).date = AddDays(base, n * PawukonCycleDays)
    /\ Mark(base, "yearly", n).date = YearlyDate(base, base.y + n)
    /\ \A rec \in {"monthly", "anniversary"} : Mark(base, rec, n).date = AddMonths(base, n)
<1> TAKE base, n
<1>1. /\ Mark(base, "once", n) = Occurrence(base, "event", 0)
      /\ Mark(base, "otonan", n) = Otonan(base, n)
      /\ Mark(base, "yearly", n) = YearMark(base, base.y + n)
  BY DEF Mark
<1>2. \A rec \in {"monthly", "anniversary"} : Mark(base, rec, n) = MonthMark(base, rec, n)
  BY DEF Mark
<1>3. \A rec \in {"monthly", "anniversary"} : MonthMark(base, rec, n).date = AddMonths(base, n)
  BY DEF MonthMark, Occurrence
<1>4. YearMark(base, base.y + n).date = YearlyDate(base, base.y + n)
      /\ Otonan(base, n).date = AddDays(base, n * PawukonCycleDays)
      /\ Occurrence(base, "event", 0).date = base
  BY DEF YearMark, Otonan, Occurrence
<1> QED BY <1>1, <1>2, <1>3, <1>4

\* AddDays moves by that many numbers, wherever the calendar reaches.
LEMMA AddsDays ==
  \A date \in Day, k \in Int :
    JDN(date) + k >= 1721426 => AddDays(date, k) \in Day /\ JDN(AddDays(date, k)) = JDN(date) + k
BY JDNIsNat, EveryNumberIsADay DEF AddDays

\* A yearly date is a day of its year; 29 February falls on 1 March.
LEMMA YearlyDates ==
  ASSUME NEW base \in Day, NEW y \in Nat \ {0}
  PROVE  /\ YearlyDate(base, y) \in Day /\ YearlyDate(base, y).y = y
         /\ IF base.m = 2 /\ base.d = 29 /\ ~IsLeap(y)
            THEN YearlyDate(base, y) = Date(y, 3, 1)
            ELSE YearlyDate(base, y) = Date(y, base.m, base.d)
<1>1. base.m \in 1 .. 12 /\ base.d \in 1 .. 31 /\ base.d <= DaysInMonth(base.y, base.m)
  BY DayParts
<1>2. CASE base.m = 2 /\ base.d = 29 /\ ~IsLeap(y)
  <2>1. YearlyDate(base, y) = Date(y, 3, 1)
    BY <1>2 DEF YearlyDate
  <2> QED BY <1>2, <2>1 DEF Day, Date, DaysInMonth
<1>3. CASE ~(base.m = 2 /\ base.d = 29 /\ ~IsLeap(y))
  <2>1. YearlyDate(base, y) = Date(y, base.m, base.d)
    BY <1>3 DEF YearlyDate
  <2>2. base.d <= DaysInMonth(y, base.m)
    BY <1>1, <1>3 DEF DaysInMonth
  <2> QED BY <1>1, <1>3, <2>1, <2>2 DEF Day, Date
<1> QED BY <1>2, <1>3

\* k months after the base it is that day of the k-th month, or its last.
LEMMA MonthDates ==
  ASSUME NEW base \in Day, NEW k \in Nat
  PROVE  LET date == AddMonths(base, k)
             last == DaysInMonth(date.y, date.m)
         IN /\ date \in Day /\ MonthNo(date) = MonthNo(base) + k
            /\ date.d = IF base.d <= last THEN base.d ELSE last
<1>1. base.y \in Nat /\ base.y > 0 /\ base.m \in 1 .. 12 /\ base.d \in 1 .. 31
  BY DayParts
<1>2. PICK total \in Nat, q \in Nat, r \in Nat :
        /\ total = base.m - 1 + k /\ q = total \div 12 /\ r = total % 12
        /\ r < 12 /\ total = 12 * q + r
  <2>1. PICK t \in Nat : t = base.m - 1 + k
    BY <1>1
  <2>2. t \div 12 \in Nat /\ t % 12 \in Nat /\ t % 12 < 12 /\ t = 12 * (t \div 12) + (t % 12)
    OBVIOUS
  <2> QED BY <2>1, <2>2
<1>8. r < 12 /\ base.m - 1 + k = 12 * q + r
  BY <1>2
<1>3. PICK y \in Nat, m \in 1 .. 12 : y = base.y + q /\ m = r + 1 /\ y > 0
  <2>1. base.y + q \in Nat /\ base.y + q > 0 /\ r + 1 \in 1 .. 12
    BY <1>1, <1>8
  <2> QED BY <2>1
<1> DEFINE last == DaysInMonth(y, m)
<1>4. last \in 28 .. 31
  BY <1>3 DEF DaysInMonth
<1>5. AddMonths(base, k) = Date(y, m, IF base.d <= last THEN base.d ELSE last)
  <2>1. AddMonths(base, k) = Date(y, m, Min({base.d, last}))
    BY <1>2, <1>3 DEF AddMonths
  <2> QED BY <1>1, <1>4, <2>1, MinOfTwo
<1>6. AddMonths(base, k) \in Day
  BY <1>1, <1>3, <1>4, <1>5 DEF Day, Date
<1>7. MonthNo(AddMonths(base, k)) = MonthNo(base) + k
  <2>1. AddMonths(base, k).y = y /\ AddMonths(base, k).m = m
    BY <1>5 DEF Date
  <2> QED BY <1>1, <1>3, <1>8, <2>1 DEF MonthNo
<1> QED BY <1>5, <1>6, <1>7 DEF Date

\* The recurrences, told apart.
LEMMA RecurrenceCases ==
  ASSUME NEW rec \in Recurrences
  PROVE  rec = "once" \/ rec = "otonan" \/ rec = "yearly" \/ rec \in {"monthly", "anniversary"}
BY DEF Recurrences

\* Every mark has a day; the first is that of the base.
LEMMA MarksAreDays ==
  ASSUME NEW base \in Day, NEW rec \in Recurrences, NEW n \in Nat
  PROVE  Mark(base, rec, n).date \in Day /\ DayNo(base, rec, n) \in Nat
<1>1. Mark(base, rec, n).date \in Day
  <2>1. CASE rec = "once"
    BY <2>1, MarkParts
  <2>2. CASE rec = "otonan"
    <3>1. PICK k \in Nat : k = n * PawukonCycleDays
      BY DEF PawukonCycleDays
    <3>2. JDN(base) + k >= 1721426
      BY JDNIsNat
    <3> QED BY <2>2, <3>1, <3>2, AddsDays, MarkParts
  <2>3. CASE rec = "yearly"
    <3>1. PICK y \in Nat \ {0} : y = base.y + n
      BY DayParts
    <3> QED BY <2>3, <3>1, YearlyDates, MarkParts
  <2>4. CASE rec \in {"monthly", "anniversary"}
    BY <2>4, MonthDates, MarkParts
  <2> QED BY <2>1, <2>2, <2>3, <2>4, RecurrenceCases
<1> QED BY <1>1, JDNIsNat DEF DayNo

\* Where the marks lie: an otonan 210 days after the other, yearly ones in the years,
\* monthly ones in the months that follow the base.
LEMMA MarksLie ==
  ASSUME NEW base \in Day, NEW n \in Nat
  PROVE  /\ DayNo(base, "once", n) = JDN(base)
         /\ DayNo(base, "otonan", n) = JDN(base) + 210 * n
         /\ Mark(base, "yearly", n).date.y = base.y + n
         /\ \A rec \in {"monthly", "anniversary"} :
              MonthNo(Mark(base, rec, n).date) = MonthNo(base) + n
<1>1. DayNo(base, "once", n) = JDN(base)
  BY MarkParts DEF DayNo
<1>2. DayNo(base, "otonan", n) = JDN(base) + 210 * n
  <2>1. PICK k \in Nat : k = n * PawukonCycleDays /\ k = 210 * n
    BY DEF PawukonCycleDays
  <2>2. JDN(base) + k >= 1721426
    BY JDNIsNat
  <2>3. JDN(AddDays(base, k)) = JDN(base) + k
    BY <2>2, AddsDays
  <2> QED BY <2>1, <2>3, MarkParts DEF DayNo
<1>3. Mark(base, "yearly", n).date.y = base.y + n
  <2>1. PICK y \in Nat \ {0} : y = base.y + n
    BY DayParts
  <2> QED BY <2>1, YearlyDates, MarkParts
<1>4. \A rec \in {"monthly", "anniversary"} :
        MonthNo(Mark(base, rec, n).date) = MonthNo(base) + n
  BY MonthDates, MarkParts
<1> QED BY <1>1, <1>2, <1>3, <1>4

\* The base has the number 0.
LEMMA BaseIsFirst ==
  ASSUME NEW base \in Day, NEW rec \in Recurrences
  PROVE  Mark(base, rec, 0).date = base /\ DayNo(base, rec, 0) = JDN(base)
<1>0. /\ base.y \in Nat \ {0} /\ base.m \in 1 .. 12 /\ base.d \in 1 .. 31
      /\ base.d <= DaysInMonth(base.y, base.m) /\ base = Date(base.y, base.m, base.d)
  BY DayParts
<1>1. Mark(base, rec, 0).date = base
  <2>1. CASE rec = "once"
    BY <2>1, MarkParts
  <2>2. CASE rec = "otonan"
    <3>1. DayNo(base, "otonan", 0) = JDN(base)
      BY MarksLie, JDNIsNat
    <3> QED BY <2>2, <3>1, MarksAreDays, JDNIsInjective DEF DayNo
  <2>3. CASE rec = "yearly"
    <3>1. ~(base.m = 2 /\ base.d = 29 /\ ~IsLeap(base.y))
      BY <1>0 DEF DaysInMonth
    <3>2. YearlyDate(base, base.y) = base
      BY <1>0, <3>1 DEF YearlyDate
    <3>3. base.y + 0 = base.y
      BY <1>0
    <3> QED BY <2>3, <3>2, <3>3, MarkParts
  <2>4. CASE rec \in {"monthly", "anniversary"}
    <3>1. PICK date \in Day : date = AddMonths(base, 0)
      BY MonthDates
    <3>2. MonthNo(date) = MonthNo(base)
      BY <3>1, MonthDates, DayParts
    <3>3. date.y = base.y /\ date.m = base.m
      BY <3>2, SameMonth
    <3>4. date.d = base.d
      BY <1>0, <3>1, <3>3, MonthDates
    <3>5. date = base
      BY <1>0, <3>3, <3>4, DayParts
    <3> QED BY <2>4, <3>1, <3>5, MarkParts
  <2> QED BY <2>1, <2>2, <2>3, <2>4, RecurrenceCases
<1> QED BY <1>1 DEF DayNo

\* Later marks have later days.
LEMMA MarksInOrder ==
  ASSUME NEW base \in Day, NEW rec \in Recurrences, rec # "once"
  PROVE  \A n, k \in Nat : n < k => DayNo(base, rec, n) < DayNo(base, rec, k)
<1> SUFFICES ASSUME NEW n \in Nat, NEW k \in Nat, n < k
             PROVE  DayNo(base, rec, n) < DayNo(base, rec, k)
  OBVIOUS
<1>1. PICK a \in Day, b \in Day :
        /\ a = Mark(base, rec, n).date /\ b = Mark(base, rec, k).date
        /\ JDN(a) = DayNo(base, rec, n) /\ JDN(b) = DayNo(base, rec, k)
  BY MarksAreDays DEF DayNo
<1>2. JDN(a) \in Nat /\ JDN(b) \in Nat /\ JDN(base) \in Nat /\ base.y \in Nat
  BY JDNIsNat, DayParts
<1>3. MonthNo(a) < MonthNo(b) => JDN(a) < JDN(b)
  <2>1. JDN(b) <= JDN(a) => MonthNo(b) <= MonthNo(a)
    BY MonthsInOrder
  <2>2. MonthNo(a) \in Nat /\ MonthNo(b) \in Nat
    BY DayParts
  <2> QED BY <1>2, <2>1, <2>2
<1>4. CASE rec = "otonan"
  BY <1>1, <1>2, <1>4, MarksLie
<1>5. CASE rec = "yearly"
  <2>1. a.y = base.y + n /\ b.y = base.y + k
    BY <1>1, <1>5, MarksLie
  <2>2. a.m \in 1 .. 12 /\ b.m \in 1 .. 12
    BY DayParts
  <2>3. MonthNo(a) < MonthNo(b)
    BY <1>2, <2>1, <2>2 DEF MonthNo
  <2> QED BY <1>1, <1>3, <2>3
<1>6. CASE rec \in {"monthly", "anniversary"}
  <2>1. MonthNo(a) = MonthNo(base) + n /\ MonthNo(b) = MonthNo(base) + k
    BY <1>1, <1>6, MarksLie
  <2>2. MonthNo(a) < MonthNo(b)
    BY <2>1, DayParts
  <2> QED BY <1>1, <1>3, <2>2
<1> QED BY <1>4, <1>5, <1>6, RecurrenceCases

\* From one mark to the next it is a leap year at most.
LEMMA MarksAreNear ==
  ASSUME NEW base \in Day, NEW rec \in Recurrences, NEW n \in Nat, rec # "once"
  PROVE  DayNo(base, rec, n + 1) <= DayNo(base, rec, n) + 366
<1>1. PICK a \in Day, b \in Day :
        /\ a = Mark(base, rec, n).date /\ b = Mark(base, rec, n + 1).date
        /\ JDN(a) = DayNo(base, rec, n) /\ JDN(b) = DayNo(base, rec, n + 1)
  <2>1. n + 1 \in Nat
    OBVIOUS
  <2> QED BY <2>1, MarksAreDays DEF DayNo
<1>2. JDN(a) \in Nat /\ JDN(b) \in Nat /\ JDN(base) \in Nat
  BY JDNIsNat
<1>3. CASE rec = "otonan"
  <2>1. JDN(a) = JDN(base) + 210 * n /\ JDN(b) = JDN(base) + 210 * (n + 1)
    BY <1>1, <1>3, MarksLie
  <2> QED BY <1>1, <1>2, <2>1
<1>4. CASE rec = "yearly"
  <2>1. PICK y \in Nat \ {0} : y = base.y + n /\ y + 1 = base.y + (n + 1)
    BY DayParts
  <2>2. a = YearlyDate(base, y) /\ b = YearlyDate(base, y + 1)
    BY <1>1, <1>4, <2>1, MarkParts
  <2>3. y + 1 \in Nat \ {0} /\ base.d \in 1 .. 31 /\ base.m \in 1 .. 12
    BY DayParts
  <2> DEFINE Moved(x) == base.m = 2 /\ base.d = 29 /\ ~IsLeap(x)
  <2>4. /\ a = IF Moved(y) THEN Date(y, 3, 1) ELSE Date(y, base.m, base.d)
        /\ b = IF Moved(y + 1) THEN Date(y + 1, 3, 1) ELSE Date(y + 1, base.m, base.d)
    BY <2>2, <2>3, YearlyDates
  <2>5. CASE Moved(y) = Moved(y + 1)
    <3>1. b.y = a.y + 1 /\ b.m = a.m /\ b.d = a.d
      BY <2>4, <2>5 DEF Date
    <3>2. JDN(b) - JDN(a) <= 366
      BY <3>1, NextYearIsNear
    <3> QED BY <1>1, <1>2, <3>2
  <2>6. CASE Moved(y) /\ ~Moved(y + 1)
    \* The 29th of the leap year lies before its 1 March.
    <3>1. PICK c \in Day : c = Date(y + 1, 3, 1)
      <4>1. Date(y + 1, 3, 1) \in Day
        BY <2>3 DEF Day, Date, DaysInMonth
      <4> QED BY <4>1
    <3>2. a = Date(y, 3, 1) /\ b = Date(y + 1, 2, 29)
      BY <2>4, <2>6
    <3>3. JDN(c) - JDN(a) <= 366
      <4>1. c.y = a.y + 1 /\ c.m = a.m /\ c.d = a.d
        BY <3>1, <3>2 DEF Date
      <4> QED BY <4>1, NextYearIsNear
    <3>4. JDN(b) <= JDN(c)
      <4>1. MonthNo(b) < MonthNo(c)
        BY <2>1, <3>1, <3>2 DEF MonthNo, Date
      <4> QED BY <4>1, DaysInOrder
    <3>5. JDN(c) \in Nat
      BY JDNIsNat
    <3> QED BY <1>1, <1>2, <3>3, <3>4, <3>5
  <2>7. CASE ~Moved(y) /\ Moved(y + 1)
    \* 1 March is the day after the 29th, and the next only a common year away.
    <3>1. a = Date(y, 2, 29) /\ b = Date(y + 1, 3, 1) /\ IsLeap(y)
      BY <2>4, <2>7
    <3>2. PICK c \in Day : c = Date(y, 3, 1)
      <4>1. Date(y, 3, 1) \in Day
        BY <2>1 DEF Day, Date, DaysInMonth
      <4> QED BY <4>1
    <3>3. Tomorrow(a) = c
      BY <3>1, <3>2 DEF Tomorrow, Date, DaysInMonth
    <3>4. JDN(c) = JDN(a) + 1
      BY <3>3, TomorrowIsNext
    <3>5. JDN(b) - JDN(c) <= 365
      <4>1. b.y = c.y + 1 /\ b.m = c.m /\ b.d = c.d /\ c.m > 2 /\ IsLeap(c.y)
        BY <3>1, <3>2 DEF Date
      <4> QED BY <4>1, NextYearIsNear
    <3> QED BY <1>1, <1>2, <3>4, <3>5
  <2> QED BY <2>5, <2>6, <2>7
<1>5. CASE rec \in {"monthly", "anniversary"}
  <2>1. MonthNo(a) = MonthNo(base) + n /\ MonthNo(b) = MonthNo(base) + (n + 1)
    BY <1>1, <1>5, MarksLie
  <2>2. MonthNo(b) = MonthNo(a) + 1
    BY <2>1, DayParts
  <2>3. JDN(b) - JDN(a) <= 62
    BY <2>2, NextMonthIsNear
  <2> QED BY <1>1, <1>2, <2>3
<1> QED BY <1>3, <1>4, <1>5, RecurrenceCases

-----------------------------------------------------------------------------
(* The loops over the marks.                                               *)

\* The search from an estimate finds the first month whose mark is not before from.
LEMMA FirstMonthMarkIs ==
  ASSUME NEW base \in Day, NEW from \in Day, NEW rec \in {"monthly", "anniversary"}
  PROVE  /\ FirstMonthMark(base, from) \in Nat
         /\ \A k \in Nat : JDN(from) <= DayNo(base, rec, k) <=> FirstMonthMark(base, from) <= k
<1> DEFINE first == FirstMonthMark(base, from)
<1>1. rec \in Recurrences /\ rec # "once"
  BY DEF Recurrences
<1>2. /\ JDN(base) \in Nat /\ JDN(from) \in Nat /\ MonthNo(base) \in Nat /\ MonthNo(from) \in Nat
      /\ \A k \in Nat : DayNo(base, rec, k) \in Nat
  BY <1>1, JDNIsNat, DayParts, MarksAreDays
<1>3. \A k \in Nat : /\ AddMonths(base, k) = Mark(base, rec, k).date
                     /\ DayNo(base, rec, k) = JDN(AddMonths(base, k))
                     /\ AddMonths(base, k) \in Day
                     /\ MonthNo(AddMonths(base, k)) = MonthNo(base) + k
  <2> TAKE k \in Nat
  <2>1. AddMonths(base, k) = Mark(base, rec, k).date
    BY MarkParts
  <2>2. Mark(base, rec, k).date \in Day /\ MonthNo(Mark(base, rec, k).date) = MonthNo(base) + k
    BY <1>1, MarksAreDays, MarksLie
  <2> QED BY <2>1, <2>2 DEF DayNo
<1>4. \A n, k \in Nat : n <= k => DayNo(base, rec, n) <= DayNo(base, rec, k)
  <2> TAKE n, k \in Nat
  <2>1. n < k => DayNo(base, rec, n) < DayNo(base, rec, k)
    BY <1>1, MarksInOrder
  <2> QED BY <1>2, <2>1
<1>5. CASE ~Before(base, from)
  <2>1. first = 0 /\ JDN(from) <= JDN(base)
    BY <1>2, <1>5 DEF FirstMonthMark, Before
  <2>2. DayNo(base, rec, 0) = JDN(base)
    BY <1>1, BaseIsFirst
  <2>3. \A k \in Nat : 0 <= k /\ JDN(from) <= DayNo(base, rec, k)
    <3> TAKE k \in Nat
    <3>1. DayNo(base, rec, 0) <= DayNo(base, rec, k)
      BY <1>4
    <3> QED BY <1>2, <2>1, <2>2, <3>1
  <2> QED BY <2>1, <2>3
<1>6. CASE Before(base, from)
  <2>1. PICK apart \in Nat : /\ apart = MonthsApart(base, from)
                             /\ MonthNo(from) = MonthNo(base) + apart
    <3>1. MonthNo(base) <= MonthNo(from)
      BY <1>2, <1>6, MonthsInOrder DEF Before
    <3>2. MonthsApart(base, from) = MonthNo(from) - MonthNo(base)
      BY DayParts DEF MonthsApart, MonthNo
    <3> QED BY <1>2, <3>1, <3>2
  <2>2. PICK estimate \in Nat : /\ estimate = Max({0, MonthsApart(base, from) - 1})
                                /\ estimate + 1 >= apart
                                /\ estimate > 0 => estimate < apart
    <3>1. Max({0, apart - 1}) = IF 0 >= apart - 1 THEN 0 ELSE apart - 1
      BY MaxOfTwo
    <3> QED BY <2>1, <3>1
  <2> DEFINE S == {k \in estimate .. estimate + 2 : ~Before(AddMonths(base, k), from)}
  <2>3. first = Min(S)
    BY <1>6, <2>2 DEF FirstMonthMark
  <2>4. \A k \in Nat : Before(AddMonths(base, k), from) <=> ~(JDN(from) <= DayNo(base, rec, k))
    BY <1>2, <1>3 DEF Before
  <2>5. JDN(from) <= DayNo(base, rec, estimate + 2)
    <3>1. PICK k \in Nat : k = estimate + 2
      OBVIOUS
    <3>2. MonthNo(from) < MonthNo(AddMonths(base, k))
      BY <1>2, <1>3, <2>1, <2>2, <3>1
    <3>3. JDN(from) <= JDN(AddMonths(base, k))
      BY <1>3, <3>2, DaysInOrder
    <3> QED BY <1>3, <3>1, <3>3
  <2>6. S \in SUBSET Nat /\ estimate + 2 \in S
    <3>1. estimate + 2 \in Nat /\ estimate + 2 \in estimate .. estimate + 2
      OBVIOUS
    <3>2. ~Before(AddMonths(base, estimate + 2), from)
      BY <2>4, <2>5, <3>1
    <3>3. estimate .. estimate + 2 \subseteq Nat
      OBVIOUS
    <3> QED BY <3>1, <3>2, <3>3
  <2>7. first \in S /\ \A k \in S : first <= k
    <3> HIDE DEF S, first
    <3> QED BY <2>3, <2>6, MinIsLeast
  <2>8. first \in Nat /\ first <= estimate + 2 /\ JDN(from) <= DayNo(base, rec, first)
    <3> HIDE DEF first
    <3>1. first \in estimate .. estimate + 2 /\ ~Before(AddMonths(base, first), from)
      BY <2>7
    <3>2. first \in Nat /\ first <= estimate + 2
      BY <3>1
    <3> QED BY <2>4, <3>1, <3>2
  <2>9. ASSUME NEW k \in Nat, JDN(from) <= DayNo(base, rec, k) PROVE first <= k
    <3> HIDE DEF first
    <3>1. CASE k < estimate
      <4>1. MonthNo(from) <= MonthNo(AddMonths(base, k))
        BY <1>3, <2>9, MonthsInOrder
      <4>2. MonthNo(from) <= MonthNo(base) + k
        BY <1>3, <4>1
      <4> QED BY <1>2, <2>1, <2>2, <3>1, <4>2
    <3>2. CASE estimate <= k /\ k <= estimate + 2
      <4>1. k \in S
        BY <2>4, <2>9, <3>2
      <4> QED BY <2>7, <4>1
    <3>3. CASE k > estimate + 2
      BY <2>8, <3>3
    <3> QED BY <3>1, <3>2, <3>3
  <2> HIDE DEF first
  <2>10. ASSUME NEW k \in Nat, first <= k PROVE JDN(from) <= DayNo(base, rec, k)
    <3>1. DayNo(base, rec, first) <= DayNo(base, rec, k)
      BY <1>4, <2>8, <2>10
    <3> QED BY <1>2, <2>8, <3>1
  <2> QED BY <2>8, <2>9, <2>10 DEF first
<1> QED BY <1>5, <1>6

\* A division that is rounded up.
LEMMA RoundedUp ==
  \A diff \in Nat : \A k \in Int :
    210 * k >= diff <=> k >= IF diff % 210 # 0 THEN (diff \div 210) + 1 ELSE diff \div 210
<1> TAKE diff \in Nat
<1> TAKE k \in Int
<1>1. PICK q \in Nat, r \in Nat : /\ q = diff \div 210 /\ r = diff % 210
                                  /\ diff = 210 * q + r /\ r < 210
  OBVIOUS
<1>2. diff = 210 * q + r /\ r < 210
  BY <1>1
<1>3. 210 * k >= 210 * q + r <=> k >= IF r # 0 THEN q + 1 ELSE q
  BY <1>2
<1> QED BY <1>1, <1>3

\* Go's division of the days between.
LEMMA DivisionOfDays ==
  \A diff \in Nat : /\ Quo(diff, PawukonCycleDays) = diff \div 210
                    /\ Rem(diff, PawukonCycleDays) = diff % 210
<1> TAKE diff \in Nat
<1>1. Quo(diff, 210) = diff \div 210
  BY DEF Quo
<1>2. diff - 210 * (diff \div 210) = diff % 210
  OBVIOUS
<1> QED BY <1>1, <1>2 DEF Rem, PawukonCycleDays

\* The first otonan is the first that is neither the base nor before from.
LEMMA FirstOtonanIs ==
  ASSUME NEW base \in Day, NEW from \in Day
  PROVE  /\ FirstOtonan(base, from) \in Nat
         /\ \A k \in Int : FirstOtonan(base, from) <= k
                             <=> k >= 1 /\ JDN(from) <= JDN(base) + 210 * k
<1>1. PICK b \in Nat, f \in Nat : b = JDN(base) /\ f = JDN(from)
  BY JDNIsNat
<1>2. CASE ~(b < f)
  <2>1. FirstOtonan(base, from) = 1
    BY <1>1, <1>2 DEF FirstOtonan, Before
  <2> QED BY <1>1, <1>2, <2>1
<1>3. CASE b < f
  <2>1. PICK diff \in Nat : diff = f - b /\ diff > 0
    BY <1>3
  <2>2. PICK up \in Nat : up = IF diff % 210 # 0 THEN (diff \div 210) + 1 ELSE diff \div 210
    OBVIOUS
  <2>3. FirstOtonan(base, from) = Max({1, up})
    <3>1. FirstOtonan(base, from) =
            Max({1, IF Rem(diff, PawukonCycleDays) # 0
                    THEN Quo(diff, PawukonCycleDays) + 1 ELSE Quo(diff, PawukonCycleDays)})
      BY <1>1, <1>3, <2>1 DEF FirstOtonan, Before
    <3> QED BY <2>2, <3>1, DivisionOfDays
  <2>4. \A k \in Int : 210 * k >= diff <=> k >= up
    BY <2>2, RoundedUp
  <2>5. Max({1, up}) = IF 1 >= up THEN 1 ELSE up
    BY MaxOfTwo
  <2>6. \A k \in Int : f <= b + 210 * k <=> 210 * k >= diff
    BY <2>1
  <2>7. PICK m \in Nat : m = FirstOtonan(base, from) /\ \A k \in Int : m <= k <=> k >= 1 /\ k >= up
    BY <2>3, <2>5
  <2>8. \A k \in Int : m <= k <=> k >= 1 /\ f <= b + 210 * k
    BY <2>4, <2>6, <2>7
  <2> QED BY <1>1, <2>7, <2>8
<1> QED BY <1>2, <1>3

\* The numbers of the marks whose days lie in a window, and the marks.
Within(base, rec, f, t) ==
  {n \in Indexes(rec) : f <= DayNo(base, rec, n) /\ DayNo(base, rec, n) <= t}

\* The marks of those indexes.
MarksWithin(base, rec, f, t) == {Mark(base, rec, n) : n \in Within(base, rec, f, t)}

\* Whatever the recurrence and the window, the loop names just the marks whose days lie
\* in it, those before the base date never.
LEMMA Between ==
  ASSUME NEW base \in Day, NEW rec \in Recurrences, NEW from \in Day, NEW to \in Day
  PROVE  OccurrencesBetween(base, rec, from, to) = MarksWithin(base, rec, JDN(from), JDN(to))
<1>1. PICK b \in Nat, f \in Nat, t \in Nat : b = JDN(base) /\ f = JDN(from) /\ t = JDN(to)
  BY JDNIsNat
<1> DEFINE W == {n \in Indexes(rec) : f <= DayNo(base, rec, n) /\ DayNo(base, rec, n) <= t}
<1>2. MarksWithin(base, rec, JDN(from), JDN(to)) = {Mark(base, rec, n) : n \in W}
  BY <1>1 DEF MarksWithin, Within
<1>3. CASE rec = "once"
  <2>1. DayNo(base, rec, 0) = b /\ Indexes(rec) = {0}
    BY <1>1, <1>3, MarksLie DEF Indexes
  <2>2. Mark(base, rec, 0) = Occurrence(base, "event", 0)
    BY <1>3, MarkParts
  <2>3. OccurrencesBetween(base, rec, from, to) =
          IF b < f \/ b > t THEN {} ELSE {Occurrence(base, "event", 0)}
    <3>1. OccurrencesBetween(base, "once", from, to) =
            IF Before(base, from) \/ After(base, to) THEN {} ELSE {Occurrence(base, "event", 0)}
      BY DEF OccurrencesBetween
    <3> QED BY <1>1, <1>3, <3>1 DEF Before, After
  <2>4. W = IF b < f \/ b > t THEN {} ELSE {0}
    BY <1>1, <2>1
  <2> HIDE DEF W
  <2>5. {Mark(base, rec, n) : n \in W} =
          IF b < f \/ b > t THEN {} ELSE {Occurrence(base, "event", 0)}
    BY <2>2, <2>4
  <2> QED BY <1>2, <2>3, <2>5
<1>4. CASE rec = "otonan"
  <2>1. OccurrencesBetween(base, rec, from, to) =
          {Mark(base, rec, n) : n \in FirstOtonan(base, from) .. (t - b) \div 210}
    <3>1. \A n : Otonan(base, n) = Mark(base, rec, n)
      BY <1>4, MarkParts
    <3>2. OccurrencesBetween(base, rec, from, to) =
            {Otonan(base, n) : n \in FirstOtonan(base, from) .. (t - b) \div 210}
      <4>1. OccurrencesBetween(base, "otonan", from, to) =
              {Otonan(base, n) : n \in FirstOtonan(base, from)
                                         .. (JDN(to) - JDN(base)) \div PawukonCycleDays}
        BY DEF OccurrencesBetween
      <4>2. (JDN(to) - JDN(base)) \div PawukonCycleDays = (t - b) \div 210
        BY <1>1 DEF PawukonCycleDays
      <4> QED BY <1>4, <4>1, <4>2
    <3> QED BY <3>1, <3>2
  <2>2. PICK first \in Nat : /\ first = FirstOtonan(base, from)
                             /\ \A k \in Int : first <= k <=> k >= 1 /\ f <= b + 210 * k
    BY <1>1, FirstOtonanIs
  <2>3. PICK last \in Int : last = (t - b) \div 210 /\ \A k \in Int : k <= last <=> b + 210 * k <= t
    <3>1. PICK x \in Int : x = t - b
      OBVIOUS
    <3>2. x \div 210 \in Int /\ \A k \in Int : k <= x \div 210 <=> 210 * k <= x
      OBVIOUS
    <3>3. \A k \in Int : 210 * k <= x <=> b + 210 * k <= t
      BY <3>1
    <3> QED BY <3>1, <3>2, <3>3
  <2>4. \A n \in Nat : DayNo(base, rec, n) = b + 210 * n
    BY <1>1, <1>4, MarksLie
  <2>5. Indexes(rec) = Nat \ {0}
    BY <1>4 DEF Indexes
  <2>6. first .. last = W
    <3>1. \A n \in first .. last : n \in W
      BY <2>2, <2>3, <2>4, <2>5
    <3>2. \A n \in W : n \in first .. last
      BY <2>2, <2>3, <2>4, <2>5
    <3>3. \A n : n \in first .. last <=> n \in W
      BY <3>1, <3>2
    <3> HIDE DEF W
    <3> QED BY <3>3
  <2> HIDE DEF W
  <2> QED BY <1>2, <2>1, <2>2, <2>3, <2>6
<1>5. CASE rec = "yearly"
  <2>1. OccurrencesBetween(base, rec, from, to) =
          {o \in {YearMark(base, y) : y \in Max({from.y, base.y}) .. to.y} :
             ~Before(o.date, from) /\ ~After(o.date, to)}
    BY <1>5 DEF OccurrencesBetween
  <2>2. base.y \in Nat /\ from.y \in Nat /\ to.y \in Nat /\ Indexes(rec) = Nat
    BY <1>5, DayParts DEF Indexes
  <2>3. PICK first \in Nat : /\ first = Max({from.y, base.y}) /\ first >= base.y /\ first >= from.y
                             /\ \A y \in Int : y >= from.y /\ y >= base.y => y >= first
    <3>1. Max({from.y, base.y}) = IF from.y >= base.y THEN from.y ELSE base.y
      BY <2>2, MaxOfTwo
    <3> QED BY <2>2, <3>1
  <2>4. \A n \in Nat : /\ Mark(base, rec, n) = YearMark(base, base.y + n)
                       /\ Before(Mark(base, rec, n).date, from) <=> DayNo(base, rec, n) < f
                       /\ After(Mark(base, rec, n).date, to) <=> DayNo(base, rec, n) > t
                       /\ DayNo(base, rec, n) \in Nat
                       /\ f <= DayNo(base, rec, n) => from.y <= base.y + n
                       /\ DayNo(base, rec, n) <= t => base.y + n <= to.y
    <3> TAKE n \in Nat
    <3>1. Mark(base, rec, n) = YearMark(base, base.y + n)
      BY <1>5, MarkParts
    <3>2. PICK date \in Day : date = Mark(base, rec, n).date /\ JDN(date) = DayNo(base, rec, n)
      BY MarksAreDays DEF DayNo
    <3>3. date.y = base.y + n
      BY <1>5, <3>2, MarksLie
    <3>4. \A x, z \in Day : JDN(x) <= JDN(z) => x.y <= z.y
      <4> TAKE x, z \in Day
      <4>1. /\ x.y \in Nat /\ z.y \in Nat /\ x.m \in 1 .. 12 /\ z.m \in 1 .. 12
            /\ JDN(x) <= JDN(z) => MonthNo(x) <= MonthNo(z)
        BY DayParts, MonthsInOrder
      <4> QED BY <4>1 DEF MonthNo
    <3> QED BY <1>1, <3>1, <3>2, <3>3, <3>4, MarksAreDays DEF Before, After
  <2>5. \A o : o \in OccurrencesBetween(base, rec, from, to) => \E n \in W : o = Mark(base, rec, n)
    <3> SUFFICES ASSUME NEW y \in first .. to.y, ~Before(YearMark(base, y).date, from),
                        ~After(YearMark(base, y).date, to)
                 PROVE  \E n \in W : YearMark(base, y) = Mark(base, rec, n)
      BY <2>1, <2>3
    <3>1. PICK n \in Nat : n = y - base.y /\ base.y + n = y
      BY <2>2, <2>3
    <3>2. Mark(base, rec, n) = YearMark(base, y) /\ DayNo(base, rec, n) \in Nat
          /\ f <= DayNo(base, rec, n) /\ DayNo(base, rec, n) <= t
      BY <2>4, <3>1
    <3>3. n \in W
      BY <2>2, <3>2
    <3> QED BY <3>2, <3>3
  <2>6. \A n \in W : Mark(base, rec, n) \in OccurrencesBetween(base, rec, from, to)
    <3> TAKE n \in W
    <3>1. n \in Nat /\ f <= DayNo(base, rec, n) /\ DayNo(base, rec, n) <= t
      BY <2>2
    <3>2. base.y + n \in first .. to.y
      <4>1. from.y <= base.y + n /\ base.y + n <= to.y
        BY <2>4, <3>1
      <4>2. PICK y \in Nat : y = base.y + n /\ y >= base.y
        BY <2>2, <3>1
      <4>3. y >= first
        BY <2>3, <4>1, <4>2
      <4> QED BY <2>2, <4>1, <4>2, <4>3
    <3>3. Mark(base, rec, n) = YearMark(base, base.y + n)
          /\ ~Before(Mark(base, rec, n).date, from) /\ ~After(Mark(base, rec, n).date, to)
      BY <2>4, <3>1
    <3> QED BY <2>1, <2>3, <3>2, <3>3
  <2> HIDE DEF W
  <2> QED BY <1>2, <2>5, <2>6
<1>6. CASE rec \in {"monthly", "anniversary"}
  <2>1. OccurrencesBetween(base, rec, from, to) =
          {o \in {MonthMark(base, rec, k) : k \in FirstMonthMark(base, from)
                                                    .. MonthsApart(base, to)} :
             ~After(o.date, to)}
    BY <1>6 DEF OccurrencesBetween
  <2>2. PICK first \in Nat : /\ first = FirstMonthMark(base, from)
                             /\ \A k \in Nat : f <= DayNo(base, rec, k) <=> first <= k
    BY <1>1, <1>6, FirstMonthMarkIs
  <2>3. PICK last \in Int : last = MonthsApart(base, to) /\ last = MonthNo(to) - MonthNo(base)
    BY DayParts DEF MonthsApart, MonthNo
  <2>4. \A k \in Nat : /\ Mark(base, rec, k) = MonthMark(base, rec, k)
                       /\ After(Mark(base, rec, k).date, to) <=> DayNo(base, rec, k) > t
                       /\ DayNo(base, rec, k) \in Nat
                       /\ DayNo(base, rec, k) <= t => k <= last
    <3> TAKE k \in Nat
    <3>1. Mark(base, rec, k) = MonthMark(base, rec, k)
      BY <1>6, MarkParts
    <3>2. PICK date \in Day : date = Mark(base, rec, k).date /\ JDN(date) = DayNo(base, rec, k)
      BY MarksAreDays DEF DayNo
    <3>3. MonthNo(date) = MonthNo(base) + k
      BY <1>6, <3>2, MarksLie
    <3>4. JDN(date) <= JDN(to) => MonthNo(date) <= MonthNo(to)
      BY MonthsInOrder
    <3>5. MonthNo(base) \in Nat /\ MonthNo(to) \in Nat
      BY DayParts
    <3> QED BY <1>1, <2>3, <3>1, <3>2, <3>3, <3>4, <3>5, MarksAreDays DEF After
  <2>5. Indexes(rec) = Nat
    BY <1>6 DEF Indexes
  <2>6. \A o : o \in OccurrencesBetween(base, rec, from, to) => \E n \in W : o = Mark(base, rec, n)
    <3> SUFFICES ASSUME NEW k \in first .. last, ~After(MonthMark(base, rec, k).date, to)
                 PROVE  \E n \in W : MonthMark(base, rec, k) = Mark(base, rec, n)
      BY <2>1, <2>2, <2>3
    <3>1. k \in Nat /\ first <= k
      OBVIOUS
    <3>2. k \in W
      BY <2>2, <2>4, <2>5, <3>1
    <3> QED BY <2>4, <3>1, <3>2
  <2>7. \A n \in W : Mark(base, rec, n) \in OccurrencesBetween(base, rec, from, to)
    <3> TAKE n \in W
    <3>1. n \in Nat /\ f <= DayNo(base, rec, n) /\ DayNo(base, rec, n) <= t
      BY <2>5
    <3>2. n \in first .. last
      BY <2>2, <2>4, <3>1
    <3>3. Mark(base, rec, n) = MonthMark(base, rec, n) /\ ~After(Mark(base, rec, n).date, to)
      BY <2>4, <3>1
    <3> QED BY <2>1, <2>2, <2>3, <3>2, <3>3
  <2> HIDE DEF W
  <2> QED BY <1>2, <2>6, <2>7
<1> QED BY <1>3, <1>4, <1>5, <1>6, RecurrenceCases

-----------------------------------------------------------------------------
(* The next mark.                                                          *)

\* n is the number of the first mark that is not before the day numbered f.
IsNext(base, rec, f, n) ==
  /\ n \in Indexes(rec) /\ f <= DayNo(base, rec, n)
  /\ \A k \in Indexes(rec) : f <= DayNo(base, rec, k) => n <= k

\* No mark of a year lies before the years that went before.
LEMMA YearsInOrder == \A a, b \in Day : JDN(a) <= JDN(b) => a.y <= b.y
<1> TAKE a, b \in Day
<1>1. /\ a.y \in Nat /\ b.y \in Nat /\ a.m \in 1 .. 12 /\ b.m \in 1 .. 12
      /\ JDN(a) <= JDN(b) => MonthNo(a) <= MonthNo(b)
  BY DayParts, MonthsInOrder
<1> QED BY <1>1 DEF MonthNo

\* The next otonan, of a day before the base, on it or after it.
LEMMA NextOtonan ==
  ASSUME NEW base \in Day, NEW from \in Day
  PROVE  \E n \in Nat : /\ NextOccurrence(base, "otonan", from) = {Otonan(base, n)}
                        /\ IsNext(base, "otonan", JDN(from), n)
<1>1. PICK b \in Nat, f \in Nat : b = JDN(base) /\ f = JDN(from)
  BY JDNIsNat
<1> DEFINE diff == f - b
           q == Quo(diff, PawukonCycleDays)
           then == IF Rem(diff, PawukonCycleDays) # 0 \/ q = 0 THEN q + 1 ELSE q
<1>2. NextOccurrence(base, "otonan", from) = {Otonan(base, Max({1, then}))}
  BY <1>1 DEF NextOccurrence
<1>3. \E n \in Nat : Max({1, then}) = n /\ \A k \in Nat : n <= k <=> k >= 1 /\ f <= b + 210 * k
  <2>1. CASE diff <= 0
    <3>1. PICK x \in Nat : x = (-diff) \div 210
      BY <2>1
    <3>2. q = -x
      BY <2>1, <3>1 DEF Quo, PawukonCycleDays
    <3>3. PICK u \in Int : u = then /\ u <= 1
      <4> HIDE DEF q
      <4> QED BY <3>2
    <3>4. Max({1, u}) = 1
      BY <3>3, MaxOfTwo
    <3>5. \A k \in Nat : 1 <= k <=> k >= 1 /\ f <= b + 210 * k
      BY <2>1
    <3> HIDE DEF then
    <3> QED BY <3>3, <3>4, <3>5
  <2>2. CASE diff > 0
    <3>1. PICK g \in Nat : g = diff /\ g > 0
      BY <2>2
    <3>2. PICK up \in Nat : up = IF g % 210 # 0 THEN (g \div 210) + 1 ELSE g \div 210
      OBVIOUS
    <3>3. q = g \div 210 /\ Rem(diff, PawukonCycleDays) = g % 210
      BY <3>1, DivisionOfDays
    <3>4. g \div 210 = 0 => g % 210 # 0
      BY <3>1
    <3>5. then = up
      <4> HIDE DEF q
      <4> QED BY <3>2, <3>3, <3>4
    <3>6. \A k \in Int : 210 * k >= g <=> k >= up
      BY <3>2, RoundedUp
    <3>7. Max({1, up}) = IF 1 >= up THEN 1 ELSE up
      BY MaxOfTwo
    <3>8. \A k \in Nat : f <= b + 210 * k <=> 210 * k >= g
      BY <3>1
    <3>9. PICK n \in Nat : n = Max({1, up}) /\ \A k \in Nat : n <= k <=> k >= 1 /\ k >= up
      BY <3>7
    <3>10. \A k \in Nat : n <= k <=> k >= 1 /\ f <= b + 210 * k
      BY <3>6, <3>8, <3>9
    <3> HIDE DEF then
    <3> QED BY <3>5, <3>9, <3>10
  <2>3. diff <= 0 \/ diff > 0
    OBVIOUS
  <2> HIDE DEF then, diff
  <2> QED BY <2>1, <2>2, <2>3
<1>4. PICK n \in Nat : Max({1, then}) = n /\ \A k \in Nat : n <= k <=> k >= 1 /\ f <= b + 210 * k
  BY <1>3
<1>5. \A k \in Nat : DayNo(base, "otonan", k) = b + 210 * k
  BY <1>1, MarksLie
<1>6. Indexes("otonan") = Nat \ {0}
  BY DEF Indexes
<1> HIDE DEF then
<1>7. IsNext(base, "otonan", f, n)
  <2>1. n >= 1 /\ f <= b + 210 * n
    BY <1>4
  <2>2. n \in Nat \ {0} /\ f <= DayNo(base, "otonan", n)
    BY <1>5, <2>1
  <2>3. \A k \in Nat \ {0} : f <= DayNo(base, "otonan", k) => n <= k
    BY <1>4, <1>5
  <2> QED BY <1>6, <2>2, <2>3 DEF IsNext
<1>8. NextOccurrence(base, "otonan", from) = {Otonan(base, n)}
  BY <1>2, <1>4
<1> QED BY <1>1, <1>7, <1>8

\* The next anniversary is in the year of from or in the one after.
LEMMA NextYear ==
  ASSUME NEW base \in Day, NEW from \in Day
  PROVE  \E n \in Nat : /\ NextOccurrence(base, "yearly", from) = {Mark(base, "yearly", n)}
                        /\ IsNext(base, "yearly", JDN(from), n)
<1>1. PICK b \in Nat, f \in Nat : b = base.y /\ f = from.y /\ b > 0 /\ f > 0
  BY DayParts
<1>2. PICK first \in Nat : /\ first = Max({from.y, base.y}) /\ first >= b /\ first >= f
                           /\ (first = b \/ first = f)
  <2>1. Max({f, b}) = IF f >= b THEN f ELSE b
    BY MaxOfTwo
  <2> QED BY <1>1, <2>1
<1>3. PICK last \in Nat : last = Max({from.y + 1, first}) /\ last >= first /\ last >= f + 1
  <2>1. Max({f + 1, first}) = IF f + 1 >= first THEN f + 1 ELSE first
    BY MaxOfTwo
  <2> QED BY <1>1, <2>1
<1> DEFINE Upcoming == {y \in first .. last : ~Before(YearlyDate(base, y), from)}
<1>4. \A y \in Nat : y >= b =>
        \E n \in Nat : /\ y = b + n /\ YearMark(base, y) = Mark(base, "yearly", n)
                       /\ Before(YearlyDate(base, y), from)
                            <=> ~(JDN(from) <= DayNo(base, "yearly", n))
                       /\ JDN(from) <= DayNo(base, "yearly", n) => f <= y
                       /\ f < y => JDN(from) <= DayNo(base, "yearly", n)
  <2> SUFFICES ASSUME NEW y \in Nat, y >= b
               PROVE  \E n \in Nat :
                        /\ y = b + n /\ YearMark(base, y) = Mark(base, "yearly", n)
                        /\ Before(YearlyDate(base, y), from)
                             <=> ~(JDN(from) <= DayNo(base, "yearly", n))
                        /\ JDN(from) <= DayNo(base, "yearly", n) => f <= y
                        /\ f < y => JDN(from) <= DayNo(base, "yearly", n)
    OBVIOUS
  <2>1. PICK n \in Nat : y = b + n
    <3>1. y - b \in Nat /\ y = b + (y - b)
      OBVIOUS
    <3> QED BY <3>1
  <2>2. /\ YearMark(base, y) = Mark(base, "yearly", n)
        /\ Mark(base, "yearly", n).date = YearlyDate(base, y)
    BY <1>1, <2>1, MarkParts
  <2>3. PICK date \in Day : date = YearlyDate(base, y) /\ JDN(date) = DayNo(base, "yearly", n)
                            /\ date.y = y
    <3>1. "yearly" \in Recurrences
      BY DEF Recurrences
    <3>2. Mark(base, "yearly", n).date \in Day
      BY <3>1, MarksAreDays
    <3>3. y \in Nat \ {0}
      BY <1>1
    <3> QED BY <2>2, <3>2, <3>3, YearlyDates DEF DayNo
  <2>4. JDN(date) \in Nat /\ JDN(from) \in Nat
    BY JDNIsNat
  <2>5. /\ JDN(from) <= JDN(date) => f <= y
        /\ JDN(date) <= JDN(from) => y <= f
    BY <1>1, <2>3, YearsInOrder
  <2>6. Before(YearlyDate(base, y), from) <=> ~(JDN(from) <= DayNo(base, "yearly", n))
    BY <2>3, <2>4 DEF Before
  <2>7. f < y => JDN(from) <= DayNo(base, "yearly", n)
    BY <2>3, <2>4, <2>5
  <2> QED BY <2>1, <2>2, <2>3, <2>5, <2>6, <2>7
<1>5. Upcoming \in SUBSET Nat /\ last \in Upcoming
  <2>1. last \in first .. last /\ first .. last \subseteq Nat
    BY <1>3
  <2>2. ~Before(YearlyDate(base, last), from)
    <3>1. last >= b /\ f < last
      BY <1>2, <1>3
    <3> QED BY <1>4, <3>1
  <2> QED BY <2>1, <2>2
<1>6. PICK y \in Nat : /\ y = Min(Upcoming) /\ y >= first /\ y <= last
                       /\ ~Before(YearlyDate(base, y), from) /\ \A x \in Upcoming : y <= x
  <2>1. Min(Upcoming) \in Upcoming /\ \A x \in Upcoming : Min(Upcoming) <= x
    <3> HIDE DEF Upcoming
    <3> QED BY <1>5, MinIsLeast
  <2>2. \A x \in Upcoming : /\ x \in Nat /\ x >= first /\ x <= last
                            /\ ~Before(YearlyDate(base, x), from)
    OBVIOUS
  <2> HIDE DEF Upcoming
  <2> QED BY <2>1, <2>2
<1>7. NextOccurrence(base, "yearly", from) = {YearMark(base, y)}
  <2>1. NextOccurrence(base, "yearly", from) = NextYearMark(base, from)
    BY DEF NextOccurrence
  <2>2. NextYearMark(base, from) = IF Upcoming = {} THEN {} ELSE {YearMark(base, Min(Upcoming))}
    BY <1>2, <1>3 DEF NextYearMark
  <2> QED BY <1>5, <1>6, <2>1, <2>2
<1>8. PICK n \in Nat : /\ y = b + n /\ YearMark(base, y) = Mark(base, "yearly", n)
                       /\ JDN(from) <= DayNo(base, "yearly", n)
  <2>1. y \in Nat /\ y >= b
    BY <1>2, <1>6
  <2>2. PICK n \in Nat : /\ y = b + n /\ YearMark(base, y) = Mark(base, "yearly", n)
                         /\ Before(YearlyDate(base, y), from)
                              <=> ~(JDN(from) <= DayNo(base, "yearly", n))
    BY <1>4, <2>1
  <2> QED BY <1>6, <2>2
<1>9. ASSUME NEW k \in Nat, JDN(from) <= DayNo(base, "yearly", k) PROVE n <= k
  <2>1. PICK x \in Nat : x = b + k
    OBVIOUS
  <2>2. f <= x /\ ~Before(YearlyDate(base, x), from)
    <3>1. PICK i \in Nat : /\ x = b + i
                           /\ Before(YearlyDate(base, x), from)
                                <=> ~(JDN(from) <= DayNo(base, "yearly", i))
                           /\ JDN(from) <= DayNo(base, "yearly", i) => f <= x
      BY <1>4, <2>1
    <3>2. i = k
      BY <2>1, <3>1
    <3> QED BY <1>9, <3>1, <3>2
  <2>3. x >= first
    BY <1>2, <2>1, <2>2
  <2>4. CASE x <= last
    <3>1. x \in Upcoming
      BY <2>2, <2>3, <2>4
    <3>2. y <= x
      BY <1>6, <3>1
    <3> QED BY <1>8, <2>1, <3>2
  <2>5. CASE x > last
    BY <1>6, <1>8, <2>1, <2>5
  <2> QED BY <2>4, <2>5
<1>10. IsNext(base, "yearly", JDN(from), n)
  BY <1>8, <1>9 DEF IsNext, Indexes
<1> QED BY <1>7, <1>8, <1>10

\* Unless an occasion happens once, its next occurrence is the first mark that is not
\* before the day asked about.
LEMMA NextIs ==
  ASSUME NEW base \in Day, NEW rec \in Recurrences, rec # "once", NEW from \in Day
  PROVE  \E n \in Nat : /\ NextOccurrence(base, rec, from) = {Mark(base, rec, n)}
                        /\ IsNext(base, rec, JDN(from), n)
<1>1. CASE rec = "otonan"
  BY <1>1, NextOtonan, MarkParts
<1>2. CASE rec = "yearly"
  BY <1>2, NextYear
<1>3. CASE rec \in {"monthly", "anniversary"}
  <2>1. PICK n \in Nat : /\ n = FirstMonthMark(base, from)
                         /\ \A k \in Nat : JDN(from) <= DayNo(base, rec, k) <=> n <= k
    BY <1>3, FirstMonthMarkIs
  <2>2. NextOccurrence(base, rec, from) = {MonthMark(base, rec, n)}
    BY <1>3, <2>1 DEF NextOccurrence
  <2>3. MonthMark(base, rec, n) = Mark(base, rec, n)
    BY <1>3, MarkParts
  <2>4. IsNext(base, rec, JDN(from), n)
    <3>1. Indexes(rec) = Nat
      BY <1>3 DEF Indexes
    <3>2. n <= n
      OBVIOUS
    <3> QED BY <2>1, <3>1, <3>2 DEF IsNext
  <2> QED BY <2>2, <2>3, <2>4
<1> QED BY <1>1, <1>2, <1>3, RecurrenceCases

\* There is only one next.
LEMMA NextIsOne ==
  ASSUME NEW base \in Day, NEW rec \in Recurrences, NEW f \in Nat, NEW n, NEW k,
         IsNext(base, rec, f, n), IsNext(base, rec, f, k)
  PROVE  n = k
<1>1. n <= k /\ k <= n /\ n \in Nat /\ k \in Nat
  BY DEF IsNext, Indexes
<1> QED BY <1>1

-----------------------------------------------------------------------------
(* What people read on the calendar.                                       *)

\* The same date every year, or 1 March for 29 February, is the yearly date.
LEMMA YearlyFalls ==
  ASSUME NEW base \in Day, NEW date \in Day
  PROVE  (\/ date.m = base.m /\ date.d = base.d
          \/ base.m = 2 /\ base.d = 29 /\ date.m = 3 /\ date.d = 1 /\ ~IsLeap(date.y))
           <=> date = YearlyDate(base, date.y)
<1>1. /\ date = Date(date.y, date.m, date.d) /\ date.d <= DaysInMonth(date.y, date.m)
      /\ date.y \in Nat \ {0} /\ date.m \in 1 .. 12 /\ date.d \in 1 .. 31
  BY DayParts
<1>2. base.m = 2 /\ base.d = 29 /\ date.m = base.m /\ date.d = base.d => IsLeap(date.y)
  BY <1>1 DEF DaysInMonth
<1>3. IF base.m = 2 /\ base.d = 29 /\ ~IsLeap(date.y)
      THEN YearlyDate(base, date.y) = Date(date.y, 3, 1)
      ELSE YearlyDate(base, date.y) = Date(date.y, base.m, base.d)
  BY <1>1, YearlyDates
<1>4. CASE base.m = 2 /\ base.d = 29 /\ ~IsLeap(date.y)
  <2>1. date = Date(date.y, 3, 1) <=> date.m = 3 /\ date.d = 1
    BY <1>1 DEF Date
  <2> QED BY <1>2, <1>3, <1>4, <2>1
<1>5. CASE ~(base.m = 2 /\ base.d = 29 /\ ~IsLeap(date.y))
  <2>1. date = Date(date.y, base.m, base.d) <=> date.m = base.m /\ date.d = base.d
    BY <1>1 DEF Date
  <2> QED BY <1>3, <1>5, <2>1
<1> QED BY <1>4, <1>5

\* The same day every month, or the last of a shorter one, is the base and some months.
LEMMA MonthlyFalls ==
  ASSUME NEW base \in Day, NEW date \in Day, NEW k \in Nat, MonthNo(date) = MonthNo(base) + k
  PROVE  (\/ date.d = base.d
          \/ date.d < base.d /\ date.d = DaysInMonth(date.y, date.m))
           <=> date = AddMonths(base, k)
<1>1. PICK a \in Day : /\ a = AddMonths(base, k) /\ MonthNo(a) = MonthNo(date)
                       /\ a.d = IF base.d <= DaysInMonth(a.y, a.m)
                                THEN base.d ELSE DaysInMonth(a.y, a.m)
  BY MonthDates
<1>2. a.y = date.y /\ a.m = date.m
  BY <1>1, SameMonth
<1>3. PICK last \in Nat : last = DaysInMonth(date.y, date.m)
  BY DayParts DEF DaysInMonth
<1>4. a = date <=> a.d = date.d
  <2>1. a = Date(a.y, a.m, a.d) /\ date = Date(date.y, date.m, date.d)
    BY DayParts
  <2> QED BY <1>2, <2>1
<1>5. date.d \in Nat /\ base.d \in Nat /\ date.d <= last
  BY <1>3, DayParts
<1>6. a.d = IF base.d <= last THEN base.d ELSE last
  BY <1>1, <1>2, <1>3
<1> QED BY <1>1, <1>3, <1>4, <1>5, <1>6

\* From the base on these are the days of the marks.
LEMMA FallsOnMarks ==
  ASSUME NEW base \in Day, NEW date \in Day, JDN(base) <= JDN(date)
  PROVE  /\ (\/ date.m = base.m /\ date.d = base.d
             \/ base.m = 2 /\ base.d = 29 /\ date.m = 3 /\ date.d = 1 /\ ~IsLeap(date.y))
              <=> \E n \in Nat : DayNo(base, "yearly", n) = JDN(date)
         /\ \A rec \in {"monthly", "anniversary"} :
              (\/ date.d = base.d
               \/ date.d < base.d /\ date.d = DaysInMonth(date.y, date.m))
                <=> \E n \in Nat : DayNo(base, rec, n) = JDN(date)
<1>1. \A rec \in Recurrences : \A n \in Nat :
        DayNo(base, rec, n) = JDN(date) <=> Mark(base, rec, n).date = date
  <2> TAKE rec \in Recurrences
  <2> TAKE n \in Nat
  <2>1. Mark(base, rec, n).date \in Day
    BY MarksAreDays
  <2> QED BY <2>1, JDNIsInjective DEF DayNo
<1>2. date = YearlyDate(base, date.y) <=> \E n \in Nat : DayNo(base, "yearly", n) = JDN(date)
  <2>1. "yearly" \in Recurrences
    BY DEF Recurrences
  <2>2. base.y <= date.y /\ base.y \in Nat /\ date.y \in Nat
    BY YearsInOrder, DayParts
  <2>3. PICK k \in Nat : k = date.y - base.y /\ base.y + k = date.y
    BY <2>2
  <2>4. \A n \in Nat : Mark(base, "yearly", n).date = YearlyDate(base, base.y + n)
                       /\ Mark(base, "yearly", n).date.y = base.y + n
    BY MarkParts, MarksLie
  <2>5. ASSUME date = YearlyDate(base, date.y)
        PROVE  \E n \in Nat : DayNo(base, "yearly", n) = JDN(date)
    <3>1. Mark(base, "yearly", k).date = date
      BY <2>3, <2>4, <2>5
    <3> QED BY <1>1, <2>1, <3>1
  <2>6. ASSUME NEW n \in Nat, DayNo(base, "yearly", n) = JDN(date)
        PROVE  date = YearlyDate(base, date.y)
    <3>1. Mark(base, "yearly", n).date = date
      BY <1>1, <2>1, <2>6
    <3> QED BY <2>4, <3>1
  <2> QED BY <2>5, <2>6
<1>3. ASSUME NEW rec \in {"monthly", "anniversary"}
      PROVE  (\/ date.d = base.d
              \/ date.d < base.d /\ date.d = DaysInMonth(date.y, date.m))
               <=> \E n \in Nat : DayNo(base, rec, n) = JDN(date)
  <2>1. rec \in Recurrences
    BY DEF Recurrences
  <2>2. PICK k \in Nat : MonthNo(date) = MonthNo(base) + k
    <3>1. MonthNo(base) <= MonthNo(date) /\ MonthNo(base) \in Nat /\ MonthNo(date) \in Nat
      BY MonthsInOrder, DayParts
    <3>2. MonthNo(date) - MonthNo(base) \in Nat
          /\ MonthNo(date) = MonthNo(base) + (MonthNo(date) - MonthNo(base))
      BY <3>1
    <3> QED BY <3>2
  <2>3. \A n \in Nat : Mark(base, rec, n).date = AddMonths(base, n)
                       /\ MonthNo(Mark(base, rec, n).date) = MonthNo(base) + n
    BY MarkParts, MarksLie
  <2>4. date = AddMonths(base, k) <=> \E n \in Nat : DayNo(base, rec, n) = JDN(date)
    <3>1. ASSUME date = AddMonths(base, k)
          PROVE  \E n \in Nat : DayNo(base, rec, n) = JDN(date)
      <4>1. Mark(base, rec, k).date = date
        BY <2>3, <3>1
      <4> QED BY <1>1, <2>1, <4>1
    <3>2. ASSUME NEW n \in Nat, DayNo(base, rec, n) = JDN(date)
          PROVE  date = AddMonths(base, k)
      <4>1. Mark(base, rec, n).date = date
        BY <1>1, <2>1, <3>2
      <4>2. MonthNo(base) + n = MonthNo(base) + k /\ MonthNo(base) \in Nat
        BY <2>2, <2>3, <4>1, DayParts
      <4>3. n = k
        BY <4>2
      <4> QED BY <2>3, <4>1, <4>3
    <3> QED BY <3>1, <3>2
  <2> QED BY <2>2, <2>4, MonthlyFalls
<1> QED BY <1>2, <1>3, YearlyFalls

-----------------------------------------------------------------------------
(* The life.                                                               *)

\* Today is on or after the day of the mark had last and before that of the next.
LifeInv ==
  /\ OnDay /\ life \in Lives /\ JDN(life.first) <= number /\ since \in Nat
  /\ \/ count = -1 /\ number < JDN(life.base)
     \/ /\ count \in Nat /\ DayNo(life.base, life.rec, count) + since = number
        /\ IF life.rec = "once" THEN count = 0
           ELSE number < DayNo(life.base, life.rec, count + 1)

\* What a life is.
LEMMA LifeParts ==
  ASSUME life \in Lives
  PROVE  /\ life.base \in Day /\ life.first \in Day /\ life.first.y > 1
         /\ JDN(life.first) <= JDN(life.base) /\ life.rec \in Recurrences
BY LivesAssumption

\* An occasion begins on its first day, which may be its base date.
LEMMA LifeBegins == Begin => LifeInv
<1> SUFFICES ASSUME Begin PROVE LifeInv
  OBVIOUS
<1>1. PICK base \in Day, first \in Day, rec \in Recurrences :
        /\ base = life.base /\ first = life.first /\ rec = life.rec /\ JDN(first) <= JDN(base)
  BY LifeParts DEF Begin
<1>2. OnDay /\ number = JDN(first)
  <2>1. HangUp(first)
    BY <1>1 DEF Begin
  <2> QED BY <2>1, HungUp DEF OnDay, HangUp
<1>3. JDN(first) \in Nat /\ JDN(base) \in Nat
  BY JDNIsNat
<1>4. CASE first = base
  <2>1. count = 0 /\ since = 0
    BY <1>1, <1>4 DEF Begin
  <2>2. DayNo(base, rec, 0) = number
    BY <1>2, <1>4, BaseIsFirst
  <2>3. rec # "once" => number < DayNo(base, rec, 0 + 1)
    <3>1. rec # "once" => DayNo(base, rec, 0) < DayNo(base, rec, 1)
      BY MarksInOrder
    <3> QED BY <2>2, <3>1
  <2>4. 0 \in Nat /\ DayNo(base, rec, 0) + 0 = number
    BY <1>2, <1>3, <2>2
  <2> QED BY <1>1, <1>2, <1>3, <2>1, <2>3, <2>4 DEF LifeInv, Begin
<1>5. CASE first # base
  <2>1. count = -1 /\ since = 0
    BY <1>1, <1>5 DEF Begin
  <2>2. number < JDN(base)
    BY <1>1, <1>2, <1>3, <1>5, JDNIsInjective
  <2> QED BY <1>1, <1>2, <1>3, <2>1, <2>2 DEF LifeInv, Begin
<1> QED BY <1>4, <1>5

\* After its base date an occasion falls on tomorrow just when tomorrow has the next mark.
LEMMA FallsOnNext ==
  ASSUME LifeInv, count \in Nat
  PROVE  IsMark(Tomorrow(today)) <=>
           /\ life.rec # "once"
           /\ DayNo(life.base, life.rec, count + 1) = number + 1
<1>1. PICK base \in Day, rec \in Recurrences : base = life.base /\ rec = life.rec
  BY LifeParts DEF LifeInv
<1>2. PICK n \in Nat, c \in Nat, s \in Nat :
        /\ n = number /\ c = count /\ s = since /\ DayNo(base, rec, c) + s = n
        /\ IF rec = "once" THEN c = 0 ELSE n < DayNo(base, rec, c + 1)
  <2>1. number \in Nat
    BY JDNIsNat DEF LifeInv, OnDay
  <2> QED BY <1>1, <2>1 DEF LifeInv
<1>3. PICK date \in Day : date = Tomorrow(today) /\ JDN(date) = n + 1
  BY <1>2, TomorrowIsNext DEF LifeInv, OnDay
<1>4. \A k \in Nat : DayNo(base, rec, k) \in Nat /\ JDN(base) <= DayNo(base, rec, k)
  <2> TAKE k \in Nat
  <2>1. DayNo(base, rec, k) \in Nat /\ DayNo(base, rec, 0) = JDN(base) /\ JDN(base) \in Nat
    BY MarksAreDays, BaseIsFirst, JDNIsNat
  <2>2. rec # "once" /\ 0 < k => DayNo(base, rec, 0) < DayNo(base, rec, k)
    BY MarksInOrder
  <2>3. rec = "once" => DayNo(base, rec, k) = JDN(base)
    BY MarksLie
  <2> QED BY <2>1, <2>2, <2>3
<1>5. JDN(base) <= n /\ JDN(base) \in Nat
  BY <1>2, <1>4, JDNIsNat
<1>6. CASE rec = "once"
  <2>1. IsMark(date) <=> date = base
    BY <1>1, <1>6 DEF IsMark
  <2>2. date # base
    BY <1>3, <1>5
  <2> QED BY <1>1, <1>3, <1>6, <2>1, <2>2
<1>7. CASE rec = "otonan"
  <2>1. IsMark(date) <=> s + 1 = 210
    BY <1>1, <1>2, <1>7 DEF IsMark, PawukonCycleDays
  <2>2. /\ DayNo(base, rec, c) = JDN(base) + 210 * c
        /\ DayNo(base, rec, c + 1) = JDN(base) + 210 * (c + 1)
    BY <1>7, MarksLie
  <2>3. s + 1 = 210 <=> DayNo(base, rec, c + 1) = n + 1
    BY <1>2, <1>5, <2>2
  <2> QED BY <1>1, <1>2, <1>3, <1>7, <2>1, <2>3
<1>8. CASE rec # "once" /\ rec # "otonan"
  <2>1. IsMark(date) <=> \E k \in Nat : DayNo(base, rec, k) = JDN(date)
    <3>1. JDN(base) <= JDN(date)
      BY <1>3, <1>5
    <3>2. CASE rec = "yearly"
      <4>1. IsMark(date) <=>
              \/ date.m = base.m /\ date.d = base.d
              \/ base.m = 2 /\ base.d = 29 /\ date.m = 3 /\ date.d = 1 /\ ~IsLeap(date.y)
        BY <1>1, <3>2 DEF IsMark
      <4> QED BY <3>1, <3>2, <4>1, FallsOnMarks
    <3>3. CASE rec \in {"monthly", "anniversary"}
      <4>1. IsMark(date) <=>
              \/ date.d = base.d
              \/ date.d < base.d /\ date.d = DaysInMonth(date.y, date.m)
        BY <1>1, <3>3 DEF IsMark
      <4> QED BY <3>1, <3>3, <4>1, FallsOnMarks
    <3> QED BY <1>8, <3>2, <3>3, RecurrenceCases
  <2>2. \A k \in Nat : DayNo(base, rec, k) = n + 1 => k = c + 1
    <3> SUFFICES ASSUME NEW k \in Nat, DayNo(base, rec, k) = n + 1 PROVE k = c + 1
      OBVIOUS
    <3>1. DayNo(base, rec, c) \in Nat /\ DayNo(base, rec, c + 1) \in Nat
          /\ n < DayNo(base, rec, c + 1)
      <4>1. c + 1 \in Nat
        OBVIOUS
      <4> QED BY <1>2, <1>4, <1>8, <4>1
    <3>2. k < c => DayNo(base, rec, k) < DayNo(base, rec, c)
      BY <1>8, MarksInOrder
    <3>3. k # c
      BY <1>2, <3>1
    <3>4. c + 1 < k => DayNo(base, rec, c + 1) < DayNo(base, rec, k)
      <4>1. c + 1 \in Nat
        OBVIOUS
      <4> QED BY <1>8, <4>1, MarksInOrder
    <3> QED BY <1>2, <3>1, <3>2, <3>3, <3>4
  <2>3. c + 1 \in Nat
    OBVIOUS
  <2>4. IsMark(date) <=> DayNo(base, rec, c + 1) = n + 1
    BY <1>3, <2>1, <2>2, <2>3
  <2> QED BY <1>1, <1>2, <1>3, <1>8, <2>4
<1> QED BY <1>6, <1>7, <1>8

\* Every day that passes keeps the invariant.
LEMMA LifeGoesOn == LifeInv /\ [Live]_occurrenceVars => LifeInv'
<1> SUFFICES ASSUME LifeInv, [Live]_occurrenceVars PROVE LifeInv'
  OBVIOUS
<1>1. CASE Live
  <2>1. PICK base \in Day, rec \in Recurrences : base = life.base /\ rec = life.rec
    BY LifeParts DEF LifeInv
  <2>2. PICK n \in Nat : n = number /\ number' = n + 1 /\ JDN(life.first) <= n
                         /\ JDN(life.first) \in Nat
    BY <1>1, LifeParts, JDNIsNat DEF Live, TurnPage, LifeInv, OnDay
  <2>3. OnDay' /\ life' = life /\ life \in Lives
    BY <1>1, PageTurns DEF Live, LifeInv
  <2> DEFINE falls == Tomorrow(today) = life.base \/ (count >= 0 /\ IsMark(Tomorrow(today)))
  <2>4. /\ count' = IF falls THEN count + 1 ELSE count
        /\ since' = IF falls THEN 0 ELSE since + 1
    BY <1>1 DEF Live
  <2>5. Tomorrow(today) = base <=> n + 1 = JDN(base)
    <3>1. Tomorrow(today) \in Day /\ JDN(Tomorrow(today)) = n + 1
      BY <2>2, TomorrowIsNext DEF LifeInv, OnDay
    <3> QED BY <3>1, JDNIsInjective
  <2>6. since \in Nat /\ since' \in Nat
    BY <2>4 DEF LifeInv
  <2>7. JDN(base) \in Nat
    BY JDNIsNat
  <2>8. \A k \in Nat : DayNo(base, rec, k) \in Nat
    BY MarksAreDays
  <2>9. rec # "once" => \A k \in Nat : DayNo(base, rec, k) < DayNo(base, rec, k + 1)
    <3> SUFFICES ASSUME rec # "once", NEW k \in Nat
                 PROVE  DayNo(base, rec, k) < DayNo(base, rec, k + 1)
      OBVIOUS
    <3>1. k + 1 \in Nat /\ k < k + 1
      OBVIOUS
    <3> QED BY <3>1, MarksInOrder
  <2>10. \/ count' = -1 /\ n + 1 < JDN(base)
         \/ /\ count' \in Nat /\ DayNo(base, rec, count') + since' = n + 1
            /\ IF rec = "once" THEN count' = 0 ELSE n + 1 < DayNo(base, rec, count' + 1)
    <3>1. CASE count = -1 /\ n < JDN(base)
      <4>1. falls <=> n + 1 = JDN(base)
        BY <2>1, <2>5, <3>1
      <4> HIDE DEF falls
      <4>2. CASE falls
        <5>1. count' = 0 /\ since' = 0
          BY <2>4, <3>1, <4>2
        <5>2. DayNo(base, rec, 0) = n + 1
          BY <4>1, <4>2, BaseIsFirst
        <5>3. rec # "once" => n + 1 < DayNo(base, rec, 0 + 1)
          BY <2>9, <5>2
        <5> QED BY <5>1, <5>2, <5>3
      <4>3. CASE ~falls
        BY <2>4, <2>7, <3>1, <4>1, <4>3
      <4> QED BY <4>2, <4>3
    <3>2. CASE count \in Nat
      <4>1. PICK c \in Nat, s \in Nat :
              /\ c = count /\ s = since /\ DayNo(base, rec, c) + s = n
              /\ IF rec = "once" THEN c = 0 ELSE n < DayNo(base, rec, c + 1)
        BY <2>1, <2>2, <3>2 DEF LifeInv
      <4>2. JDN(base) <= n
        <5>1. DayNo(base, rec, 0) = JDN(base)
          BY BaseIsFirst
        <5>2. rec # "once" /\ 0 < c => DayNo(base, rec, 0) < DayNo(base, rec, c)
          BY MarksInOrder
        <5>3. DayNo(base, rec, c) \in Nat
          BY <2>8
        <5> QED BY <2>7, <4>1, <5>1, <5>2, <5>3
      <4>3. IsMark(Tomorrow(today)) <=> rec # "once" /\ DayNo(base, rec, c + 1) = n + 1
        BY <2>1, <2>2, <3>2, <4>1, FallsOnNext
      <4>4. falls <=> rec # "once" /\ DayNo(base, rec, c + 1) = n + 1
        BY <2>1, <2>5, <2>7, <4>1, <4>2, <4>3
      <4> HIDE DEF falls
      <4>5. CASE falls
        <5>1. PICK d \in Nat : d = c + 1
          OBVIOUS
        <5>2. count' = d /\ since' = 0 /\ rec # "once" /\ DayNo(base, rec, d) = n + 1
          BY <2>4, <4>1, <4>4, <4>5, <5>1
        <5>3. n + 1 < DayNo(base, rec, d + 1)
          BY <2>9, <5>2
        <5> QED BY <5>2, <5>3
      <4>6. CASE ~falls
        <5>1. count' = c /\ since' = s + 1
          BY <2>4, <4>1, <4>6
        <5>2. DayNo(base, rec, c) + (s + 1) = n + 1
          BY <2>8, <4>1
        <5>3. rec # "once" => n + 1 < DayNo(base, rec, c + 1)
          <6>1. c + 1 \in Nat
            OBVIOUS
          <6>2. DayNo(base, rec, c + 1) \in Nat
            BY <2>8, <6>1
          <6> QED BY <4>1, <4>4, <4>6, <6>2
        <5> QED BY <4>1, <5>1, <5>2, <5>3
      <4> QED BY <4>5, <4>6
    <3> QED BY <2>1, <2>2, <3>1, <3>2 DEF LifeInv
  <2> QED BY <2>1, <2>2, <2>3, <2>6, <2>10 DEF LifeInv
<1>2. CASE UNCHANGED occurrenceVars
  BY <1>2 DEF occurrenceVars, wallVars, LifeInv, OnDay
<1> QED BY <1>1, <1>2

\* The invariant of a life.
LEMMA LifeIsKept == LifeSpec => []LifeInv
BY LifeBegins, LifeGoesOn, PTL DEF LifeSpec

-----------------------------------------------------------------------------
(* Marks, windows and the next.                                            *)

\* A mark is what its recurrence, its number and its day make it.
LEMMA MarkIs ==
  ASSUME NEW base \in Day, NEW rec \in Recurrences, NEW n \in Nat, rec = "once" => n = 0,
         NEW date, Mark(base, rec, n).date = date
  PROVE  Mark(base, rec, n) =
           IF rec = "otonan" THEN Occurrence(date, "otonan", n)
           ELSE IF n = 0 THEN Occurrence(date, "event", 0)
           ELSE IF rec = "yearly" THEN Occurrence(date, "yearly", n)
           ELSE IF rec = "anniversary" /\ n % 12 = 0 THEN Occurrence(date, "yearly", n \div 12)
           ELSE Occurrence(date, "monthly", n)
<1>1. CASE rec = "once"
  BY <1>1, MarkParts
<1>2. CASE rec = "otonan"
  <2>1. Mark(base, rec, n) = Occurrence(AddDays(base, n * PawukonCycleDays), "otonan", n)
    BY <1>2, MarkParts DEF Otonan
  <2>2. AddDays(base, n * PawukonCycleDays) = date
    BY <1>2, MarkParts
  <2> QED BY <1>2, <2>1, <2>2
<1>3. CASE rec = "yearly"
  <2>1. PICK y \in Nat : y = base.y + n /\ y - base.y = n /\ (y = base.y <=> n = 0)
    BY DayParts
  <2>2. Mark(base, rec, n) = YearMark(base, y) /\ YearlyDate(base, y) = date
    BY <1>3, <2>1, MarkParts
  <2>3. YearMark(base, y) =
          Occurrence(YearlyDate(base, y), IF y = base.y THEN "event" ELSE "yearly", y - base.y)
    BY DEF YearMark
  <2>4. (IF y = base.y THEN "event" ELSE "yearly") = (IF n = 0 THEN "event" ELSE "yearly")
    BY <2>1
  <2>5. Mark(base, rec, n) = Occurrence(date, IF n = 0 THEN "event" ELSE "yearly", n)
    BY <2>1, <2>2, <2>3, <2>4
  <2>6. CASE n = 0
    BY <1>3, <2>5, <2>6
  <2>7. CASE n # 0
    BY <1>3, <2>5, <2>7
  <2> QED BY <2>6, <2>7
<1>4. CASE rec \in {"monthly", "anniversary"}
  <2>1. Mark(base, rec, n) = MonthMark(base, rec, n) /\ AddMonths(base, n) = date
    BY <1>4, MarkParts
  <2> QED BY <1>4, <2>1 DEF MonthMark
<1> QED BY <1>1, <1>2, <1>3, <1>4, RecurrenceCases

\* No mark lies before the base.
LEMMA NoneBeforeBase ==
  ASSUME NEW base \in Day, NEW rec \in Recurrences, NEW n \in Nat
  PROVE  DayNo(base, rec, n) \in Nat /\ JDN(base) <= DayNo(base, rec, n)
<1>1. DayNo(base, rec, n) \in Nat /\ DayNo(base, rec, 0) = JDN(base) /\ JDN(base) \in Nat
  BY MarksAreDays, BaseIsFirst, JDNIsNat
<1>2. rec # "once" /\ 0 < n => DayNo(base, rec, 0) < DayNo(base, rec, n)
  BY MarksInOrder
<1>3. rec = "once" => DayNo(base, rec, n) = JDN(base)
  BY MarksLie
<1> QED BY <1>1, <1>2, <1>3

\* The mark that today is, is the one whose day has today's number.
LEMMA MarkTodayIs ==
  ASSUME LifeInv
  PROVE  MarkToday = MarksWithin(life.base, life.rec, number, number)
<1>1. PICK base \in Day, rec \in Recurrences, n \in Nat :
        base = life.base /\ rec = life.rec /\ n = number /\ n = JDN(today)
  BY LifeParts, JDNIsNat DEF LifeInv, OnDay
<1> DEFINE W == {k \in Indexes(rec) : n <= DayNo(base, rec, k) /\ DayNo(base, rec, k) <= n}
<1>2. MarksWithin(life.base, life.rec, number, number) = {Mark(base, rec, k) : k \in W}
  BY <1>1 DEF MarksWithin, Within
<1>3. Indexes(rec) \subseteq Nat
  BY DEF Indexes
<1>4. \A k \in W : k \in Nat /\ k \in Indexes(rec) /\ DayNo(base, rec, k) = n
  <2> TAKE k \in W
  <2>1. k \in Nat /\ DayNo(base, rec, k) \in Nat
    BY <1>3, MarksAreDays
  <2> QED BY <2>1
<1>5. CASE count = -1 /\ n < JDN(base)
  <2>1. MarkToday = {}
    BY <1>5 DEF MarkToday
  <2>2. W = {}
    <3> SUFFICES ASSUME NEW k \in W PROVE FALSE
      OBVIOUS
    <3>1. k \in Nat /\ DayNo(base, rec, k) = n
      BY <1>4
    <3>2. JDN(base) <= n /\ JDN(base) \in Nat
      BY <3>1, NoneBeforeBase, JDNIsNat
    <3> QED BY <1>5, <3>2
  <2> HIDE DEF W
  <2> QED BY <1>2, <2>1, <2>2
<1>6. CASE count \in Nat
  <2>1. PICK c \in Nat, s \in Nat :
          /\ c = count /\ s = since /\ DayNo(base, rec, c) + s = n
          /\ IF rec = "once" THEN c = 0 ELSE n < DayNo(base, rec, c + 1)
    BY <1>1, <1>6 DEF LifeInv
  <2>2. \A k \in W : k = c
    <3> TAKE k \in W
    <3>1. k \in Nat /\ k \in Indexes(rec) /\ DayNo(base, rec, k) = n
      BY <1>4
    <3>2. rec = "once" => k = c
      BY <2>1, <3>1 DEF Indexes
    <3>3. rec # "once" /\ k < c => DayNo(base, rec, k) < DayNo(base, rec, c)
      BY <3>1, MarksInOrder
    <3>4. rec # "once" /\ c + 1 < k => DayNo(base, rec, c + 1) < DayNo(base, rec, k)
      <4>1. c + 1 \in Nat
        OBVIOUS
      <4> QED BY <3>1, <4>1, MarksInOrder
    <3>5. DayNo(base, rec, c) \in Nat /\ DayNo(base, rec, c) <= n
      <4>1. DayNo(base, rec, c) \in Nat
        BY MarksAreDays
      <4> QED BY <2>1, <4>1
    <3>6. CASE rec # "once"
      <4>1. n < DayNo(base, rec, c + 1) /\ DayNo(base, rec, c + 1) \in Nat
        <5>1. c + 1 \in Nat
          OBVIOUS
        <5> QED BY <2>1, <3>6, <5>1, MarksAreDays
      <4>2. ~(k < c) /\ ~(c + 1 < k) /\ k # c + 1
        BY <3>1, <3>3, <3>4, <3>5, <3>6, <4>1
      <4> QED BY <3>1, <4>2
    <3> QED BY <3>2, <3>6
  <2>3. DayNo(base, rec, c) \in Nat
    BY MarksAreDays
  <2>4. CASE s # 0
    <3>1. MarkToday = {}
      BY <2>1, <2>4 DEF MarkToday
    <3>2. W = {}
      BY <1>4, <2>1, <2>2, <2>3, <2>4
    <3> HIDE DEF W
    <3> QED BY <1>2, <3>1, <3>2
  <2>5. CASE s = 0 /\ rec = "otonan" /\ c = 0
    <3>1. MarkToday = {}
      BY <1>1, <2>1, <2>5 DEF MarkToday
    <3>2. c \notin Indexes(rec)
      BY <2>5 DEF Indexes
    <3>3. W = {}
      BY <1>4, <2>2, <3>2
    <3> HIDE DEF W
    <3> QED BY <1>2, <3>1, <3>3
  <2>6. CASE s = 0 /\ ~(rec = "otonan" /\ c = 0)
    <3>1. Mark(base, rec, c).date = today
      <4>1. Mark(base, rec, c).date \in Day /\ JDN(Mark(base, rec, c).date) = n
        BY <2>1, <2>3, <2>6, MarksAreDays DEF DayNo
      <4> QED BY <1>1, <4>1, JDNIsInjective DEF LifeInv, OnDay
    <3>2. Mark(base, rec, c) =
            IF rec = "otonan" THEN Occurrence(today, "otonan", c)
            ELSE IF c = 0 THEN Occurrence(today, "event", 0)
            ELSE IF rec = "yearly" THEN Occurrence(today, "yearly", c)
            ELSE IF rec = "anniversary" /\ c % 12 = 0 THEN Occurrence(today, "yearly", c \div 12)
            ELSE Occurrence(today, "monthly", c)
      BY <2>1, <3>1, MarkIs
    <3>3. MarkToday = {Mark(base, rec, c)}
      BY <1>1, <2>1, <2>6, <3>2 DEF MarkToday
    <3>4. c \in W
      <4>1. c \in Indexes(rec)
        BY <2>1, <2>6 DEF Indexes
      <4>2. DayNo(base, rec, c) = n
        BY <2>1, <2>3, <2>6
      <4> QED BY <4>1, <4>2
    <3>5. W = {c}
      BY <2>2, <3>4
    <3> HIDE DEF W
    <3> QED BY <1>2, <3>3, <3>5
  <2> QED BY <2>4, <2>5, <2>6
<1> QED BY <1>1, <1>5, <1>6 DEF LifeInv

\* A window of today on is today and the rest.
LEMMA WindowSplits ==
  ASSUME NEW base \in Day, NEW rec \in Recurrences, NEW f \in Nat, NEW t \in Nat, f <= t
  PROVE  MarksWithin(base, rec, f, t) =
           MarksWithin(base, rec, f, f) \cup MarksWithin(base, rec, f + 1, t)
<1>1. Indexes(rec) \subseteq Nat
  BY DEF Indexes
<1>2. \A k \in Indexes(rec) : DayNo(base, rec, k) \in Nat
  BY <1>1, MarksAreDays
<1>3. Within(base, rec, f, t) = Within(base, rec, f, f) \cup Within(base, rec, f + 1, t)
  BY <1>2 DEF Within
<1> QED BY <1>3 DEF MarksWithin

-----------------------------------------------------------------------------
(* The theorems.                                                           *)

\* In the life of any occasion of any recurrence, begun on any day, the loops name just
\* the days a person would mark, with the stream and the number of each.
THEOREM MarksAlwaysOnTheirDays == LifeSpec => []MarksFallOnTheirDays
<1>1. LifeInv => MarksFallOnTheirDays
  <2> SUFFICES ASSUME LifeInv PROVE MarksFallOnTheirDays
    OBVIOUS
  <2>1. life.base \in Day /\ life.rec \in Recurrences /\ today \in Day /\ number = JDN(today)
    BY LifeParts DEF LifeInv, OnDay
  <2>2. OccurrencesBetween(life.base, life.rec, today, today)
          = MarksWithin(life.base, life.rec, number, number)
    BY <2>1, Between
  <2> QED BY <2>2, MarkTodayIs DEF MarksFallOnTheirDays
<1> QED BY <1>1, LifeIsKept, PTL

\* Of later days there is no end.
LEMMA LaterDays ==
  \A date \in Day, k \in Nat : AddDays(date, k) \in Day /\ JDN(AddDays(date, k)) = JDN(date) + k
<1> TAKE date \in Day, k \in Nat
<1>1. JDN(date) + k >= 1721426 /\ k \in Int
  BY JDNIsNat, SMT
<1> QED BY <1>1, AddsDays, SMT

\* No window of any length gains or loses a mark by beginning a day later.
THEOREM WindowsAlwaysTheirDays == LifeSpec => []WindowIsItsDays
<1>1. LifeInv => WindowIsItsDays
  <2> SUFFICES ASSUME LifeInv, NEW w \in Windows
               PROVE  OccurrencesBetween(life.base, life.rec, today, AddDays(today, w)) =
                        MarkToday \cup OccurrencesBetween(life.base, life.rec, Tomorrow(today),
                                                          AddDays(today, w))
    BY DEF WindowIsItsDays
  <2>1. PICK base \in Day, rec \in Recurrences, day \in Day, f \in Nat :
          base = life.base /\ rec = life.rec /\ day = today /\ f = JDN(day) /\ f = number
    BY LifeParts, JDNIsNat DEF LifeInv, OnDay
  <2>2. w \in Nat
    BY WindowsAssumption
  <2>3. PICK to \in Day, t \in Nat : to = AddDays(day, w) /\ t = JDN(to) /\ t = f + w
    <3>1. AddDays(day, w) \in Day /\ JDN(AddDays(day, w)) = f + w
      BY <2>1, <2>2, LaterDays
    <3>2. f + w \in Nat
      BY <2>2
    <3> QED BY <3>1, <3>2
  <2>4. Tomorrow(day) \in Day /\ JDN(Tomorrow(day)) = f + 1
    BY <2>1, TomorrowIsNext
  <2>5. OccurrencesBetween(base, rec, day, to) = MarksWithin(base, rec, f, t)
    <3>1. OccurrencesBetween(base, rec, day, to) = MarksWithin(base, rec, JDN(day), JDN(to))
      BY Between
    <3> QED BY <2>1, <2>3, <3>1
  <2>6. OccurrencesBetween(base, rec, Tomorrow(day), to) = MarksWithin(base, rec, f + 1, t)
    <3>1. PICK next \in Day : next = Tomorrow(day) /\ JDN(next) = f + 1
      BY <2>4
    <3>2. OccurrencesBetween(base, rec, next, to) = MarksWithin(base, rec, JDN(next), JDN(to))
      BY Between
    <3> QED BY <2>3, <3>1, <3>2
  <2>7. MarkToday = MarksWithin(base, rec, f, f)
    BY <2>1, MarkTodayIs
  <2>8. MarksWithin(base, rec, f, t) =
          MarksWithin(base, rec, f, f) \cup MarksWithin(base, rec, f + 1, t)
    BY <2>2, <2>3, WindowSplits
  <2> QED BY <2>1, <2>3, <2>5, <2>6, <2>7, <2>8
<1> QED BY <1>1, LifeIsKept, PTL

\* The number of the mark of today is the next as long as it is today, and the next of
\* tomorrow otherwise.
LEMMA NextTurns ==
  ASSUME NEW base \in Day, NEW rec \in Recurrences, rec # "once", NEW f \in Nat,
         NEW n \in Nat, NEW k \in Nat, IsNext(base, rec, f, n), IsNext(base, rec, f + 1, k)
  PROVE  /\ DayNo(base, rec, n) = f => MarksWithin(base, rec, f, f) = {Mark(base, rec, n)}
         /\ DayNo(base, rec, n) # f => MarksWithin(base, rec, f, f) = {} /\ n = k
<1>1. Indexes(rec) \subseteq Nat
  BY DEF Indexes
<1>2. \A i \in Indexes(rec) : DayNo(base, rec, i) \in Nat
  BY <1>1, MarksAreDays
<1>3. Within(base, rec, f, f) = {i \in Indexes(rec) : DayNo(base, rec, i) = f}
  BY <1>2 DEF Within
<1>4. \A i, j \in Indexes(rec) : i < j => DayNo(base, rec, i) < DayNo(base, rec, j)
  BY <1>1, MarksInOrder
<1>5. n \in Indexes(rec) /\ f <= DayNo(base, rec, n)
      /\ \A i \in Indexes(rec) : f <= DayNo(base, rec, i) => n <= i
  BY DEF IsNext
<1>6. CASE DayNo(base, rec, n) = f
  <2>1. \A i \in Indexes(rec) : DayNo(base, rec, i) = f => i = n
    <3> SUFFICES ASSUME NEW i \in Indexes(rec), DayNo(base, rec, i) = f PROVE i = n
      OBVIOUS
    <3>1. n <= i /\ i \in Nat
      BY <1>1, <1>5
    <3>2. n < i => DayNo(base, rec, n) < DayNo(base, rec, i)
      BY <1>4, <1>5
    <3> QED BY <1>6, <3>1, <3>2
  <2>2. Within(base, rec, f, f) = {n}
    BY <1>3, <1>5, <1>6, <2>1
  <2> QED BY <1>6, <2>2 DEF MarksWithin
<1>7. CASE DayNo(base, rec, n) # f
  <2>1. \A i \in Indexes(rec) : f <= DayNo(base, rec, i) => DayNo(base, rec, i) # f
    <3> SUFFICES ASSUME NEW i \in Indexes(rec), f <= DayNo(base, rec, i)
                 PROVE  DayNo(base, rec, i) # f
      OBVIOUS
    <3>1. n <= i /\ i \in Nat /\ DayNo(base, rec, i) \in Nat /\ DayNo(base, rec, n) \in Nat
      BY <1>1, <1>2, <1>5
    <3>2. n < i => DayNo(base, rec, n) < DayNo(base, rec, i)
      BY <1>4, <1>5
    <3> QED BY <1>5, <1>7, <3>1, <3>2
  <2>2. \A i \in Indexes(rec) : DayNo(base, rec, i) # f
    <3> SUFFICES ASSUME NEW i \in Indexes(rec), DayNo(base, rec, i) = f PROVE FALSE
      OBVIOUS
    <3> QED BY <2>1
  <2>3. Within(base, rec, f, f) = {}
    BY <1>3, <2>2
  <2>4. IsNext(base, rec, f + 1, n)
    <3>1. \A i \in Indexes(rec) : f <= DayNo(base, rec, i) <=> f + 1 <= DayNo(base, rec, i)
      BY <1>2, <2>2
    <3> QED BY <1>5, <3>1 DEF IsNext
  <2>5. f + 1 \in Nat
    OBVIOUS
  <2>6. n = k
    BY <2>4, <2>5, NextIsOne
  <2> QED BY <1>7, <2>3, <2>6 DEF MarksWithin
<1> QED BY <1>6, <1>7

\* A number between two bounds.
LEMMA InRange == \A x, b \in Nat : x <= b => x \in 0 .. b
OBVIOUS

\* The next occurrence is today's mark or tomorrow's next, and an occasion that comes
\* back does so within a leap year, from before its base date within one of that.
THEOREM NextAlwaysNearest == LifeSpec => []NextIsNearest
<1>1. LifeInv => NextIsNearest
  <2> SUFFICES ASSUME LifeInv PROVE NextIsNearest
    OBVIOUS
  <2>1. PICK base \in Day, rec \in Recurrences, day \in Day, f \in Nat, b \in Nat :
          /\ base = life.base /\ rec = life.rec /\ day = today /\ f = JDN(day) /\ f = number
          /\ b = JDN(base)
    BY LifeParts, JDNIsNat DEF LifeInv, OnDay
  <2> DEFINE next == NextOccurrence(base, rec, day)
             later == NextOccurrence(base, rec, Tomorrow(day))
  <2>2. Tomorrow(day) \in Day /\ JDN(Tomorrow(day)) = f + 1
    BY <2>1, TomorrowIsNext
  <2>3. MarkToday = MarksWithin(base, rec, f, f)
    BY <2>1, MarkTodayIs
  <2>4. Max({f, b}) = IF f >= b THEN f ELSE b
    BY MaxOfTwo
  <2>5. SUFFICES /\ next = IF MarkToday # {} THEN MarkToday ELSE later
                 /\ (next = {}) <=> (rec = "once" /\ count >= 0 /\ day # base)
                 /\ \A o \in next : JDN(o.date) - Max({f, b}) \in 0 .. 366
    BY <2>1 DEF NextIsNearest
  <2>6. CASE rec = "once"
    <3>1. /\ next = IF b < f THEN {} ELSE {Occurrence(base, "event", 0)}
          /\ later = IF b < f + 1 THEN {} ELSE {Occurrence(base, "event", 0)}
      BY <2>1, <2>2, <2>6 DEF NextOccurrence, Before
    <3>2. /\ DayNo(base, rec, 0) = b /\ Indexes(rec) = {0}
          /\ Mark(base, rec, 0) = Occurrence(base, "event", 0)
      BY <2>1, <2>6, MarksLie, MarkParts DEF Indexes
    <3>3. MarkToday = IF b = f THEN {Occurrence(base, "event", 0)} ELSE {}
      <4>1. Within(base, rec, f, f) = IF b = f THEN {0} ELSE {}
        BY <3>2 DEF Within
      <4> QED BY <2>3, <3>2, <4>1 DEF MarksWithin
    <3>4. day = base <=> f = b
      BY <2>1, JDNIsInjective
    <3>5. count >= 0 <=> b <= f
      <4>1. CASE count = -1 /\ f < b
        BY <4>1
      <4>2. CASE count \in Nat
        <5>1. DayNo(base, rec, 0) + since = f /\ since \in Nat
          BY <2>1, <2>6, <4>2 DEF LifeInv
        <5> QED BY <3>2, <4>2, <5>1
      <4> QED BY <2>1, <4>1, <4>2 DEF LifeInv
    <3>6. \A o \in next : JDN(o.date) - Max({f, b}) \in 0 .. 366
      <4> SUFFICES ASSUME NEW o \in next PROVE JDN(o.date) - Max({f, b}) \in 0 .. 366
        OBVIOUS
      <4>1. o.date = base /\ b >= f
        BY <3>1 DEF Occurrence
      <4>2. JDN(o.date) - Max({f, b}) = 0
        BY <2>1, <2>4, <4>1
      <4>3. 0 \in Nat /\ 366 \in Nat /\ 0 <= 366
        OBVIOUS
      <4> QED BY <4>2, <4>3, InRange
    <3>7. next = IF MarkToday # {} THEN MarkToday ELSE later
      <4>1. b < f \/ b = f \/ b > f
        OBVIOUS
      <4> HIDE DEF next, later
      <4>2. CASE b < f
        <5>1. b < f + 1 /\ b # f
          BY <4>2
        <5> QED BY <3>1, <3>3, <4>2, <5>1
      <4>3. CASE b = f
        BY <3>1, <3>3, <4>3
      <4>4. CASE b > f
        <5>1. ~(b < f) /\ ~(b < f + 1) /\ b # f
          BY <4>4
        <5> QED BY <3>1, <3>3, <5>1
      <4> QED BY <4>1, <4>2, <4>3, <4>4
    <3>8. (next = {}) <=> (rec = "once" /\ count >= 0 /\ day # base)
      BY <2>6, <3>1, <3>4, <3>5
    <3> HIDE DEF next, later
    <3> QED BY <3>6, <3>7, <3>8
  <2>7. CASE rec # "once"
    <3>1. PICK n \in Nat : next = {Mark(base, rec, n)} /\ IsNext(base, rec, f, n)
      BY <2>1, <2>7, NextIs
    <3>2. PICK k \in Nat : later = {Mark(base, rec, k)} /\ IsNext(base, rec, f + 1, k)
      BY <2>2, <2>7, NextIs
    <3> HIDE DEF next, later
    <3>3. /\ DayNo(base, rec, n) = f => MarkToday = {Mark(base, rec, n)}
          /\ DayNo(base, rec, n) # f => MarkToday = {} /\ n = k
      BY <2>3, <2>7, <3>1, <3>2, NextTurns
    <3>4. next = IF MarkToday # {} THEN MarkToday ELSE later
      BY <3>1, <3>2, <3>3
    <3>5. DayNo(base, rec, n) \in Nat /\ f <= DayNo(base, rec, n) /\ b <= DayNo(base, rec, n)
      BY <2>1, <3>1, NoneBeforeBase DEF IsNext
    <3>6. DayNo(base, rec, n) <= Max({f, b}) + 366
      <4>1. \A i \in Indexes(rec) : f <= DayNo(base, rec, i) => n <= i
        BY <3>1 DEF IsNext
      <4>2. \A i \in Nat : n <= i => DayNo(base, rec, n) <= DayNo(base, rec, i)
        <5> TAKE i \in Nat
        <5>1. n < i => DayNo(base, rec, n) < DayNo(base, rec, i)
          BY <2>7, MarksInOrder
        <5>2. DayNo(base, rec, i) \in Nat
          BY MarksAreDays
        <5> QED BY <3>5, <5>1, <5>2
      <4>3. CASE count = -1 /\ f < b
        <5>1. Max({f, b}) = b
          BY <2>4, <4>3
        <5>2. 1 \in Indexes(rec) /\ DayNo(base, rec, 0) = b
          BY <2>1, <2>7, BaseIsFirst DEF Indexes
        <5>3. DayNo(base, rec, 0) < DayNo(base, rec, 1)
              /\ DayNo(base, rec, 1) <= DayNo(base, rec, 0) + 366 /\ DayNo(base, rec, 1) \in Nat
          <6>1. DayNo(base, rec, 0 + 1) <= DayNo(base, rec, 0) + 366
            BY <2>7, MarksAreNear
          <6>2. DayNo(base, rec, 0) < DayNo(base, rec, 1) /\ DayNo(base, rec, 1) \in Nat
            BY <2>7, MarksInOrder, MarksAreDays
          <6> QED BY <6>1, <6>2
        <5>4. n <= 1
          BY <4>1, <4>3, <5>2, <5>3
        <5>5. DayNo(base, rec, n) <= DayNo(base, rec, 1)
          BY <4>2, <5>4
        <5> QED BY <3>5, <5>1, <5>2, <5>3, <5>5
      <4>4. CASE count \in Nat
        <5>1. PICK c \in Nat, s \in Nat :
                c = count /\ DayNo(base, rec, c) + s = f /\ f < DayNo(base, rec, c + 1)
          BY <2>1, <2>7, <4>4 DEF LifeInv
        <5>2. PICK i \in Nat : i = c + 1 /\ i # 0
          OBVIOUS
        <5>3. i \in Indexes(rec)
          BY <2>7, <5>2 DEF Indexes
        <5>4. DayNo(base, rec, i) <= DayNo(base, rec, c) + 366
          BY <2>7, <5>2, MarksAreNear
        <5>5. DayNo(base, rec, i) \in Nat /\ DayNo(base, rec, c) \in Nat /\ b <= DayNo(base, rec, c)
          BY <2>1, NoneBeforeBase
        <5>6. f <= DayNo(base, rec, i) /\ Max({f, b}) = f
          BY <2>4, <5>1, <5>2, <5>5
        <5>7. DayNo(base, rec, n) <= DayNo(base, rec, i)
          BY <4>1, <4>2, <5>3, <5>6
        <5> QED BY <3>5, <5>1, <5>4, <5>5, <5>6, <5>7
      <4> QED BY <2>1, <4>3, <4>4 DEF LifeInv
    <3>7. \A o \in next : JDN(o.date) - Max({f, b}) \in 0 .. 366
      <4> SUFFICES ASSUME NEW o \in next PROVE JDN(o.date) - Max({f, b}) \in 0 .. 366
        OBVIOUS
      <4>1. JDN(o.date) = DayNo(base, rec, n)
        BY <3>1 DEF DayNo
      <4>2. PICK x \in Nat : x = JDN(o.date) - Max({f, b}) /\ x <= 366
        BY <2>4, <3>5, <3>6, <4>1
      <4> QED BY <4>2, InRange
    <3> QED BY <2>7, <3>1, <3>4, <3>7
  <2> HIDE DEF next, later
  <2> QED BY <2>6, <2>7
<1> QED BY <1>1, LifeIsKept, PTL

-----------------------------------------------------------------------------
(* The scan.                                                               *)

\* Any offset that applies is one ValidateOffsets lets in.
LEMMA OffsetsAreBounded ==
  ASSUME NEW layers \in Layers, NEW stream \in Streams
  PROVE  ResolveOffsets(stream, layers) \subseteq {off \in Nat : off <= MaxOffset}
<1>1. layers \in Seq([Streams -> SUBSET (0 .. MaxOffset)])
  BY WindowsAssumption
<1>2. PICK len \in Nat : DOMAIN layers = 1 .. len
  BY <1>1
<1>3. \A i \in 1 .. len : layers[i] \in [Streams -> SUBSET (0 .. MaxOffset)]
  BY <1>1, <1>2
<1>4. \A i \in 1 .. len : layers[i][stream] \in SUBSET (0 .. MaxOffset)
  BY <1>3
<1> DEFINE Offered == {i \in DOMAIN layers : layers[i][stream] # {}}
<1>5. CASE Offered = {}
  <2>1. ResolveOffsets(stream, layers) = {7, 4, 2, 1, 0}
    BY <1>5 DEF ResolveOffsets, DefaultOffsets
  <2> QED BY <2>1 DEF MaxOffset
<1>6. CASE Offered # {}
  <2>1. Offered \in SUBSET Nat
    BY <1>2
  <2>2. Min(Offered) \in Offered
    <3> HIDE DEF Offered
    <3> QED BY <1>6, <2>1, MinIsLeast
  <2>3. Min(Offered) \in 1 .. len
    BY <1>2, <2>2
  <2>4. ResolveOffsets(stream, layers) = layers[Min(Offered)][stream]
    BY <1>6 DEF ResolveOffsets
  <2> HIDE DEF Offered
  <2>5. layers[Min(Offered)][stream] \subseteq 0 .. MaxOffset
    BY <1>4, <2>3
  <2>6. \A b \in Nat : 0 .. b \subseteq {off \in Nat : off <= b}
    OBVIOUS
  <2>7. MaxOffset \in Nat
    BY DEF MaxOffset
  <2> QED BY <2>4, <2>5, <2>6, <2>7
<1> QED BY <1>5, <1>6

\* A scan's window is as wide as every offset of every stream of the occasion, and no
\* wider than an offset may be.
LEMMA ScanIsWideEnough ==
  ASSUME NEW layers \in Layers, NEW rec \in Recurrences
  PROVE  /\ ScanWindow(rec, layers) \in Nat /\ ScanWindow(rec, layers) <= 60
         /\ \A stream \in StreamsFor(rec) : \A off \in ResolveOffsets(stream, layers) :
              off \in Nat /\ off <= ScanWindow(rec, layers)
<1>1. StreamsFor(rec) \subseteq Streams
  BY DEF StreamsFor, Streams, Recurrences
<1> DEFINE Resolved == {ResolveOccasionStreams(rec, layers)[stream] : stream \in StreamsFor(rec)}
           Offsets == (UNION Resolved) \cup {0}
<1>2. \A stream \in StreamsFor(rec) :
        ResolveOccasionStreams(rec, layers)[stream] = ResolveOffsets(stream, layers)
  BY DEF ResolveOccasionStreams
<1>3. \A stream \in StreamsFor(rec) :
        ResolveOffsets(stream, layers) \subseteq {off \in Nat : off <= MaxOffset}
  BY <1>1, OffsetsAreBounded
<1>4. \A off \in Offsets : off \in Nat /\ off <= MaxOffset
  <2> TAKE off \in Offsets
  <2>1. CASE off = 0
    BY <2>1 DEF MaxOffset
  <2>2. CASE \E stream \in StreamsFor(rec) : off \in ResolveOccasionStreams(rec, layers)[stream]
    BY <1>2, <1>3, <2>2
  <2> QED BY <2>1, <2>2
<1>5. \A stream \in StreamsFor(rec) : \A off \in ResolveOffsets(stream, layers) : off \in Offsets
  BY <1>2
<1>6. 0 \in Offsets
  OBVIOUS
<1> HIDE DEF Offsets
<1>7. Max(Offsets) \in Offsets /\ \A off \in Offsets : off <= Max(Offsets)
  <2>1. MaxOffset \in Nat /\ Offsets \in SUBSET Nat /\ Offsets # {}
    BY <1>4, <1>6 DEF MaxOffset
  <2> QED BY <1>4, <2>1, MaxIsGreatest
<1>8. ScanWindow(rec, layers) = Max(Offsets)
  BY DEF ScanWindow, Offsets
<1>9. ScanWindow(rec, layers) \in Nat /\ ScanWindow(rec, layers) <= 60
  BY <1>4, <1>7, <1>8 DEF MaxOffset
<1> QED BY <1>4, <1>5, <1>7, <1>8, <1>9

\* From the year 2 on every scan looks back to days of the calendar.
LEMMA ScansLookBack ==
  ASSUME NEW first \in Day, first.y > 1, NEW day \in Day, JDN(first) <= JDN(day),
         NEW k \in Int, k >= -364
  PROVE  AddDays(day, k) \in Day /\ JDN(AddDays(day, k)) = JDN(day) + k
<1>1. Date(1, 12, 31) \in Day /\ JDN(Date(1, 12, 31)) = 1721790
  <2>1. Date(1, 12, 31) \in Day
    BY DEF Day, Date, DaysInMonth
  <2>2. JDN(Date(1, 12, 31)) = 1721790
    BY SMT DEF JDN, Date, Quo
  <2> QED BY <2>1, <2>2, SMT
<1>2. MonthNo(Date(1, 12, 31)) < MonthNo(first)
  <2>1. first.y \in Nat /\ first.m \in 1 .. 12
    BY DayParts
  <2> QED BY <2>1, SMT DEF MonthNo, Date
<1>3. JDN(Date(1, 12, 31)) <= JDN(first)
  BY <1>1, <1>2, DaysInOrder, SMT
<1>4. JDN(day) + k >= 1721426
  BY <1>1, <1>3, JDNIsNat, SMT
<1> QED BY <1>4, AddsDays, SMT

\* Whatever the layers of offsets and the catch-up window, a scan computes every mark of
\* which a reminder falls due: in no occasion's life is one late or early enough to be
\* outside the window it asks for.
THEOREM DueAlwaysFound == LifeSpec => []DueIsFound
<1>1. LifeInv => DueIsFound
  <2> SUFFICES ASSUME LifeInv, NEW layers \in Layers, NEW hours \in CatchUps,
                      NEW stream \in StreamsFor(life.rec), NEW off \in ResolveOffsets(stream, layers)
               PROVE  OccurrencesBetween(life.base, life.rec,
                                         AddDays(today, off - CatchUpDays(hours)), AddDays(today, off))
                        \subseteq ScanFor(life.base, life.rec, layers, hours, today)
    BY DEF DueIsFound
  <2>1. PICK base \in Day, rec \in Recurrences, day \in Day, f \in Nat :
          base = life.base /\ rec = life.rec /\ day = today /\ f = JDN(day) /\ f = number
    BY LifeParts, JDNIsNat DEF LifeInv, OnDay
  <2>2. PICK first \in Day : first.y > 1 /\ JDN(first) <= f
    BY <2>1, LifeParts DEF LifeInv
  <2>3. PICK c \in Nat : c = CatchUpDays(hours) /\ c <= 7
    <3>1. hours \in Nat /\ hours <= MaxCatchUpHours
      BY WindowsAssumption DEF MaxCatchUpHours
    <3>2. (hours + 23) \div 24 \in Nat /\ (hours + 23) \div 24 <= 7
      BY <3>1 DEF MaxCatchUpHours
    <3> QED BY <3>2 DEF CatchUpDays
  <2>4. PICK wide \in Nat : wide = ScanWindow(rec, layers) /\ wide <= 60 /\ off \in Nat /\ off <= wide
    BY <2>1, ScanIsWideEnough
  <2>5. \A k \in Int : k >= -364 => AddDays(day, k) \in Day /\ JDN(AddDays(day, k)) = f + k
    BY <2>1, <2>2, ScansLookBack
  <2>6. PICK from \in Day, to \in Day, low \in Nat, high \in Nat :
          /\ from = AddDays(day, off - c) /\ to = AddDays(day, off)
          /\ low = JDN(from) /\ high = JDN(to) /\ low = f + (off - c) /\ high = f + off
    <3>1. off - c \in Int /\ off - c >= -364 /\ off \in Int /\ off >= -364
      BY <2>3, <2>4
    <3> QED BY <2>5, <3>1, JDNIsNat
  <2>7. PICK start \in Day, end \in Day, lowest \in Nat, highest \in Nat :
          /\ start = AddDays(day, -(wide + c + 2)) /\ end = AddDays(day, wide + 2)
          /\ lowest = JDN(start) /\ highest = JDN(end)
          /\ lowest = f + (-(wide + c + 2)) /\ highest = f + (wide + 2)
    <3>1. -(wide + c + 2) \in Int /\ -(wide + c + 2) >= -364 /\ wide + 2 \in Int /\ wide + 2 >= -364
      BY <2>3, <2>4
    <3> QED BY <2>5, <3>1, JDNIsNat
  <2>8. OccurrencesBetween(base, rec, from, to) = MarksWithin(base, rec, low, high)
    <3>1. OccurrencesBetween(base, rec, from, to) = MarksWithin(base, rec, JDN(from), JDN(to))
      BY Between
    <3> QED BY <2>6, <3>1
  <2>9. ScanFor(base, rec, layers, hours, day) = MarksWithin(base, rec, lowest, highest)
    <3>1. OccurrencesBetween(base, rec, start, end) = MarksWithin(base, rec, JDN(start), JDN(end))
      BY Between
    <3> QED BY <2>3, <2>4, <2>7, <3>1 DEF ScanFor
  <2>10. MarksWithin(base, rec, low, high) \subseteq MarksWithin(base, rec, lowest, highest)
    <3>1. lowest <= low /\ high <= highest
      BY <2>3, <2>4, <2>6, <2>7
    <3>2. \A k \in Indexes(rec) : DayNo(base, rec, k) \in Nat
      BY MarksAreDays DEF Indexes
    <3>3. Within(base, rec, low, high) \subseteq Within(base, rec, lowest, highest)
      BY <3>1, <3>2 DEF Within
    <3> QED BY <3>3 DEF MarksWithin
  <2> QED BY <2>1, <2>3, <2>6, <2>8, <2>9, <2>10
<1> QED BY <1>1, LifeIsKept, PTL
=============================================================================
