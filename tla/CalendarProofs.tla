--------------------------- MODULE CalendarProofs ---------------------------
(***************************************************************************)
(* Proofs about Calendar for every day number and every day from the year  *)
(* 1 on.                                                                   *)
(***************************************************************************)
EXTENDS Calendar, WellFoundedInduction, TLAPS

-----------------------------------------------------------------------------
(* Division.                                                               *)

\* What is not negative is divided as usual.
LEMMA QuoIsDiv ==
  ASSUME NEW a \in Nat
  PROVE  /\ \A b \in Nat \ {0} : Quo(a, b) = a \div b
         /\ Rem(a, 5) = a % 5 /\ Rem(a, 7) = a % 7
<1>1. \A b \in Nat \ {0} : Quo(a, b) = a \div b
  BY DEF Quo
<1>2. a = 5 * (a \div 5) + (a % 5) /\ a = 7 * (a \div 7) + (a % 7)
  OBVIOUS
<1> QED BY <1>1, <1>2 DEF Rem

\* 2026-06-17 has a day number.
LEMMA Anchor == AnchorJDN = 2461209
<1>1. JDN(Date(2026, 6, 17)) = 2461209
  BY DEF JDN, Date, Quo
<1> QED BY <1>1 DEF AnchorJDN

\* CycleDay, shifted, is the mathematical remainder.
LEMMA CycleDayIs == \A n \in Int : CycleDay(n) = ((n - 2461209 + 73) % 210) + 1
<1> TAKE n \in Int
<1>1. CycleDay(n) = LET o == n - 2461209 + 73
                        off == o - 210 * Quo(o, 210)
                    IN (IF off < 0 THEN off + 210 ELSE off) + 1
  BY Anchor DEF CycleDay, Rem, AnchorCycleDay, PawukonCycleDays
<1> QED BY <1>1 DEF Quo
-----------------------------------------------------------------------------
(* The day number.                                                         *)

\* The formula without truncation: January and February count to the year before.
LEMMA JDNIs ==
  ASSUME NEW date \in Day
  PROVE  LET a == IF date.m <= 2 THEN 1 ELSE 0
         IN JDN(date) = date.d - 32075 + (1461 * (date.y + 4800 - a)) \div 4
                        + (367 * (date.m - 2 + 12 * a)) \div 12
                        - (3 * ((date.y + 4900 - a) \div 100)) \div 4
<1> DEFINE a == IF date.m <= 2 THEN 1 ELSE 0
<1>1. date.y \in Nat \ {0} /\ date.m \in 1 .. 12 /\ date.d \in 1 .. 31
  BY DEF Day
<1>2. a \in {0, 1} /\ Quo(date.m - 14, 12) = -a
  BY <1>1 DEF Quo
<1>3. 1461 * (date.y + 4800 - a) \in Nat /\ 367 * (date.m - 2 + 12 * a) \in Nat
      /\ date.y + 4900 - a \in Nat
  BY <1>1, <1>2
<1>4. 3 * ((date.y + 4900 - a) \div 100) \in Nat
  BY <1>3
<1>5. JDN(date) = date.d - 32075 + Quo(1461 * (date.y + 4800 - a), 4)
                  + Quo(367 * (date.m - 2 + 12 * a), 12)
                  - Quo(3 * Quo(date.y + 4900 - a, 100), 4)
  <2>1. JDN(date) = date.d - 32075 + Quo(1461 * (date.y + 4800 + (-a)), 4)
                  + Quo(367 * (date.m - 2 - (-a) * 12), 12)
                  - Quo(3 * Quo(date.y + 4900 + (-a), 100), 4)
    BY <1>2 DEF JDN
  <2>2. /\ 1461 * (date.y + 4800 + (-a)) = 1461 * (date.y + 4800 - a)
        /\ 367 * (date.m - 2 - (-a) * 12) = 367 * (date.m - 2 + 12 * a)
        /\ date.y + 4900 + (-a) = date.y + 4900 - a
    BY <1>1, <1>2
  <2> QED BY <2>1, <2>2
<1> QED BY <1>3, <1>4, <1>5, QuoIsDiv

\* The next day's number is the next number, across months, leap years and centuries.
LEMMA TomorrowIsNext ==
  ASSUME NEW date \in Day
  PROVE  Tomorrow(date) \in Day /\ JDN(Tomorrow(date)) = JDN(date) + 1
<1> DEFINE y == date.y m == date.m d == date.d
<1>1. y \in Nat \ {0} /\ m \in 1 .. 12 /\ d \in 1 .. 31 /\ d <= DaysInMonth(y, m)
      /\ date = Date(y, m, d)
  BY DEF Day, Date
<1>0. DaysInMonth(y, m) \in 28 .. 31
  BY <1>1 DEF DaysInMonth
<1>2. CASE d < DaysInMonth(y, m)
  <2>1. Tomorrow(date) = Date(y, m, d + 1)
    BY <1>1, <1>2 DEF Tomorrow, Date
  <2>2. d + 1 \in 1 .. 31 /\ d + 1 <= DaysInMonth(y, m)
    BY <1>0, <1>1, <1>2
  <2>3. Date(y, m, d + 1) \in Day
    BY <1>1, <1>2, <2>2 DEF Day, Date
  <2>4. JDN(Date(y, m, d + 1)) = JDN(date) + 1
    BY <1>1, <2>3, JDNIs DEF Date
  <2> QED BY <2>1, <2>3, <2>4
<1>3. CASE d = DaysInMonth(y, m) /\ m < 12
  <2>1. Tomorrow(date) = Date(y, m + 1, 1)
    BY <1>1, <1>3 DEF Tomorrow, Date
  <2>2. Date(y, m + 1, 1) \in Day
    BY <1>1, <1>3 DEF Day, Date, DaysInMonth
  <2>3. CASE m # 2
    <3>1. (m + 1 <= 2) = (m <= 2)
      BY <1>1, <2>3
    <3>2. LET a == IF m <= 2 THEN 1 ELSE 0
          IN (367 * (m + 1 - 2 + 12 * a)) \div 12 = (367 * (m - 2 + 12 * a)) \div 12 + d
      BY <1>1, <1>3, <2>3 DEF DaysInMonth
    <3> QED BY <1>1, <2>1, <2>2, <3>1, <3>2, JDNIs DEF Date
  <2>4. CASE m = 2
    <3>1. JDN(date) = d - 32075 + (1461 * (y + 4799)) \div 4 + 367
                      - (3 * ((y + 4899) \div 100)) \div 4
      BY <1>1, <2>4, JDNIs
    <3>2. JDN(Date(y, 3, 1)) = 1 - 32075 + (1461 * (y + 4800)) \div 4 + 30
                               - (3 * ((y + 4900) \div 100)) \div 4
      BY <1>1, <2>2, <2>4, JDNIs DEF Date
    <3>3. (1461 * (y + 4800)) \div 4 =
            (1461 * (y + 4799)) \div 4 + (IF y % 4 = 0 THEN 366 ELSE 365)
      BY <1>1
    <3>4. (3 * ((y + 4900) \div 100)) \div 4 =
            (3 * ((y + 4899) \div 100)) \div 4 + (IF y % 100 = 0 /\ y % 400 # 0 THEN 1 ELSE 0)
      BY <1>1
    <3>5. d = IF IsLeap(y) THEN 29 ELSE 28
      BY <1>3, <2>4 DEF DaysInMonth
    <3>6. y % 400 = 0 => y % 100 = 0 /\ y % 4 = 0
      BY <1>1
    <3>7. y % 100 = 0 => y % 4 = 0
      BY <1>1
    <3> QED BY <1>1, <2>1, <2>2, <2>4, <3>1, <3>2, <3>3, <3>4, <3>5, <3>6, <3>7 DEF IsLeap
  <2> QED BY <2>3, <2>4
<1>4. CASE d = DaysInMonth(y, m) /\ m = 12
  <2>1. Tomorrow(date) = Date(y + 1, 1, 1) /\ d = 31
    BY <1>1, <1>4 DEF Tomorrow, Date, DaysInMonth
  <2>2. Date(y + 1, 1, 1) \in Day
    BY <1>1 DEF Day, Date, DaysInMonth
  <2>3. JDN(date) = 31 - 32075 + (1461 * (y + 4800)) \div 4 + 305
                    - (3 * ((y + 4900) \div 100)) \div 4
    BY <1>1, <1>4, <2>1, JDNIs
  <2>4. JDN(Date(y + 1, 1, 1)) = 1 - 32075 + (1461 * (y + 4800)) \div 4 + 336
                    - (3 * ((y + 4900) \div 100)) \div 4
    <3>1. y + 1 + 4800 - 1 = y + 4800 /\ y + 1 + 4900 - 1 = y + 4900
      BY <1>1
    <3> QED BY <1>1, <2>2, <3>1, JDNIs DEF Date
  <2> QED BY <1>1, <2>1, <2>2, <2>3, <2>4
<1> QED BY <1>0, <1>1, <1>2, <1>3, <1>4
\* The leap days of x years from the year 1 on, in the two terms of the formula.
LEMMA Leaps ==
  \A x \in Nat : /\ (1461 * (x + 4800)) \div 4 = 1753200 + 365 * x + x \div 4
                  /\ (3 * ((x + 4900) \div 100)) \div 4 = 36 + x \div 100 - x \div 400
<1> TAKE x \in Nat
<1>1. (1461 * (x + 4800)) \div 4 = 1753200 + 365 * x + x \div 4
  OBVIOUS
<1>2. PICK c \in Nat : c = x \div 100 /\ (x + 4900) \div 100 = c + 49 /\ x \div 400 = c \div 4
  <2>1. (x + 4900) \div 100 = x \div 100 + 49
    OBVIOUS
  <2>2. x \div 400 = (x \div 100) \div 4
    OBVIOUS
  <2>3. x \div 100 \in Nat
    OBVIOUS
  <2> QED BY <2>1, <2>2, <2>3
<1>3. (3 * (c + 49)) \div 4 = 36 + c - c \div 4
  OBVIOUS
<1> QED BY <1>1, <1>2, <1>3

\* No day has a number below that of 1 January of the year 1.
LEMMA JDNIsNat == \A date \in Day : JDN(date) \in Nat /\ JDN(date) >= 1721426
<1> TAKE date \in Day
<1>1. date.y \in Nat \ {0} /\ date.m \in 1 .. 12 /\ date.d \in 1 .. 31
  BY DEF Day
<1>2. PICK a \in {0, 1}, x \in Nat : /\ a = (IF date.m <= 2 THEN 1 ELSE 0)
                                     /\ x = date.y - a /\ x >= 1 - a
                                     /\ date.y + 4800 - a = x + 4800
                                     /\ date.y + 4900 - a = x + 4900
  BY <1>1
<1>3. PICK k \in Nat : k = (367 * (date.m - 2 + 12 * a)) \div 12 /\ k >= 30 + 306 * a
  BY <1>1, <1>2
<1>4. PICK a4 \in Nat, a100 \in Nat, a400 \in Nat :
        /\ a4 = x \div 4 /\ a100 = x \div 100 /\ a400 = x \div 400 /\ a4 >= a100
  <2>1. x \div 4 \in Nat /\ x \div 100 \in Nat /\ x \div 400 \in Nat
        /\ x \div 4 >= x \div 100
    OBVIOUS
  <2> QED BY <2>1
<1>5. JDN(date) = date.d - 32075 + (1461 * (x + 4800)) \div 4 + k
                  - (3 * ((x + 4900) \div 100)) \div 4
  <2>1. JDN(date) = date.d - 32075 + (1461 * (date.y + 4800 - a)) \div 4
                    + (367 * (date.m - 2 + 12 * a)) \div 12
                    - (3 * ((date.y + 4900 - a) \div 100)) \div 4
    BY <1>2, JDNIs
  <2> QED BY <1>2, <1>3, <2>1
<1>6. /\ (1461 * (x + 4800)) \div 4 = 1753200 + 365 * x + a4
      /\ (3 * ((x + 4900) \div 100)) \div 4 = 36 + a100 - a400
  BY <1>4, Leaps
<1> QED BY <1>1, <1>2, <1>3, <1>4, <1>5, <1>6

\* The wall's own count, by years and months, gives the same number.
LEMMA CountIsJDN ==
  \A date \in Day : DaysUpTo(date) \in Int /\ DaysUpTo(date) + 1721425 = JDN(date)
<1> TAKE date \in Day
<1> DEFINE y == date.y m == date.m d == date.d p == y - 1
           Adds(M) == [k \in 0 .. 11 |-> IF k = 0 THEN 0 ELSE M[k - 1] + DaysInMonth(y, k)]
           M == CHOOSE f : f = Adds(f)
           leap == IF IsLeap(y) THEN 1 ELSE 0
           S == [k \in 0 .. 11 |-> IF k = 0 THEN 0 ELSE IF k = 1 THEN 31
                                   ELSE 59 + leap + (153 * (k - 2) + 2) \div 5]
<1>1. y \in Nat \ {0} /\ m \in 1 .. 12 /\ d \in 1 .. 31 /\ leap \in {0, 1}
  BY DEF Day
<1>2. S = Adds(S)
  <2> SUFFICES ASSUME NEW k \in 0 .. 11 PROVE S[k] = Adds(S)[k]
    OBVIOUS
  <2>1. CASE k = 0
    BY <2>1
  <2>2. CASE k # 0
    <3>1. S[k] = S[k - 1] + DaysInMonth(y, k)
      BY <2>2, <1>1 DEF DaysInMonth
    <3> QED BY <2>2, <3>1
  <2> QED BY <2>1, <2>2
<1> HIDE DEF S, Adds
<1>3. M = Adds(M)
  BY <1>2
<1> HIDE DEF M
<1>4. M = [k \in 0 .. 11 |-> IF k = 0 THEN 0 ELSE M[k - 1] + DaysInMonth(y, k)]
  BY <1>3 DEF Adds
<1>5. M[0] = 0 /\ \A k \in 1 .. 11 : M[k] = M[k - 1] + DaysInMonth(y, k)
  BY <1>4
<1>6. M[m - 1] = IF m = 1 THEN 0 ELSE IF m = 2 THEN 31 ELSE 59 + leap + (153 * (m - 3) + 2) \div 5
  BY <1>1, <1>5 DEF DaysInMonth
<1>7. DaysUpTo(date) = 365 * p + p \div 4 - p \div 100 + p \div 400 + M[m - 1] + d
  BY DEF DaysUpTo, M, Adds
<1> HIDE DEF M, leap
<1>13. M[m - 1] \in Int
  BY <1>1, <1>6
<1>9. /\ p \in Nat /\ y = p + 1
      /\ p \div 4 \in Nat /\ p \div 100 \in Nat /\ p \div 400 \in Nat
  BY <1>1
<1>10. CASE m <= 2
  <2>1. JDN(date) = d - 32075 + (1461 * (p + 4800)) \div 4 + (367 * (m + 10)) \div 12
                    - (3 * ((p + 4900) \div 100)) \div 4
    <3>1. y + 4800 - 1 = p + 4800 /\ y + 4900 - 1 = p + 4900 /\ m - 2 + 12 * 1 = m + 10
      BY <1>1
    <3> QED BY <1>10, <3>1, JDNIs
  <2>2. (367 * (m + 10)) \div 12 = 336 + M[m - 1]
    BY <1>1, <1>6, <1>10
  <2>3. PICK s \in Nat : s = M[m - 1]
    BY <1>1, <1>6, <1>10
  <2>4. PICK x \in Nat, a4 \in Nat, a100 \in Nat, a400 \in Nat :
          x = p /\ a4 = p \div 4 /\ a100 = p \div 100 /\ a400 = p \div 400
    <3> HIDE DEF p
    <3> QED BY <1>9
  <2>5. /\ (1461 * (p + 4800)) \div 4 = 1753200 + 365 * x + a4
        /\ (3 * ((p + 4900) \div 100)) \div 4 = 36 + a100 - a400
    <3> HIDE DEF p
    <3> QED BY Leaps, <1>9, <2>4
  <2>6. DaysUpTo(date) = 365 * x + a4 - a100 + a400 + s + d
    <3> HIDE DEF p
    <3> QED BY <1>7, <2>3, <2>4
  <2> HIDE DEF p
  <2> QED BY <1>1, <2>1, <2>2, <2>3, <2>5, <2>6
<1>11. CASE m > 2
  <2>1. JDN(date) = d - 32075 + (1461 * (y + 4800)) \div 4 + (367 * (m - 2)) \div 12
                    - (3 * ((y + 4900) \div 100)) \div 4
    BY <1>1, <1>11, JDNIs
  <2>2. (367 * (m - 2)) \div 12 = 30 + (153 * (m - 3) + 2) \div 5
    BY <1>1, <1>11
  <2>3. leap = y \div 4 - p \div 4 - (y \div 100 - p \div 100) + y \div 400 - p \div 400
    <3>0. PICK x \in Nat : x = p /\ x + 1 = y
      BY <1>9
    <3>1. /\ (x + 1) \div 4 - x \div 4 = IF (x + 1) % 4 = 0 THEN 1 ELSE 0
          /\ (x + 1) \div 100 - x \div 100 = IF (x + 1) % 100 = 0 THEN 1 ELSE 0
          /\ (x + 1) \div 400 - x \div 400 = IF (x + 1) % 400 = 0 THEN 1 ELSE 0
      OBVIOUS
    <3>2. (y % 400 = 0 => y % 100 = 0) /\ (y % 100 = 0 => y % 4 = 0)
      BY <1>1
    <3> HIDE DEF p
    <3>3. y \div 4 \in Int /\ y \div 100 \in Int /\ y \div 400 \in Int
      BY <1>1
    <3> QED BY <1>9, <3>0, <3>1, <3>2, <3>3 DEF leap, IsLeap
  <2>4. PICK s \in Nat : s = (153 * (m - 3) + 2) \div 5
    BY <1>1, <1>11
  <2>5. /\ (1461 * (y + 4800)) \div 4 = 1753200 + 365 * y + y \div 4
        /\ (3 * ((y + 4900) \div 100)) \div 4 = 36 + y \div 100 - y \div 400
    BY <1>1, Leaps
  <2>6. DaysUpTo(date) = 365 * p + p \div 4 - p \div 100 + p \div 400 + 59 + leap + s + d
    BY <1>1, <1>6, <1>7, <1>9, <1>11, <2>4
  <2>7. PICK a4 \in Nat, a100 \in Nat, a400 \in Nat :
          a4 = y \div 4 /\ a100 = y \div 100 /\ a400 = y \div 400
    <3>1. y \div 4 \in Nat /\ y \div 100 \in Nat /\ y \div 400 \in Nat
      BY <1>1
    <3> HIDE DEF y
    <3> QED BY <3>1
  <2> HIDE DEF p
  <2> QED BY <1>1, <1>9, <2>1, <2>2, <2>3, <2>4, <2>5, <2>6, <2>7
<1>12. DaysUpTo(date) \in Int
  <2>1. PICK x \in Nat, a4 \in Nat, a100 \in Nat, a400 \in Nat, s \in Int :
          /\ x = p /\ a4 = p \div 4 /\ a100 = p \div 100 /\ a400 = p \div 400
          /\ s = M[m - 1]
    <3> HIDE DEF p
    <3> QED BY <1>9, <1>13
  <2>2. DaysUpTo(date) = 365 * x + a4 - a100 + a400 + s + d
    <3> HIDE DEF p
    <3> QED BY <1>7, <2>1
  <2> QED BY <1>1, <2>2
<1> QED BY <1>1, <1>10, <1>11, <1>12

-----------------------------------------------------------------------------
(* Back from the day number.                                               *)

\* The days of a year that begins in March before its month M begins.
MonthStart(M) == (153 * M + 2) \div 5

\* The number of a day by its century b, the year r in it and the day D of the year,
\* the years beginning in March.
Splits(date, b, r, M) ==
  LET D == date.d - 1 + MonthStart(M)
  IN /\ 100 * b + r - 4800 + (M \div 10) = date.y
     /\ M + 3 - 12 * (M \div 10) = date.m
     /\ D \in Nat /\ D <= 365
     /\ D = 365 => r % 4 = 3 /\ (r = 99 => b % 4 = 3)
     /\ (5 * D + 2) \div 153 = M
     /\ JDN(date) + 32044 = (146097 * b) \div 4 + (1461 * r) \div 4 + D

\* Every day has such a number.
LEMMA JDNByCentury ==
  ASSUME NEW date \in Day
  PROVE  \E b \in Nat, r \in 0 .. 99, M \in 0 .. 11 : Splits(date, b, r, M)
<1> DEFINE y == date.y m == date.m d == date.d
<1> DEFINE a == IF m <= 2 THEN 1 ELSE 0
<1> DEFINE Y == y + 4800 - a
<1> DEFINE M == m - 3 + 12 * a
<1> DEFINE b == Y \div 100
<1> DEFINE r == Y % 100
<1> DEFINE D == d - 1 + MonthStart(M)
<1>1. y \in Nat \ {0} /\ m \in 1 .. 12 /\ d \in 1 .. 31 /\ d <= DaysInMonth(y, m)
  BY DEF Day
<1>2. a \in {0, 1} /\ M \in 0 .. 11 /\ M \div 10 = a /\ m = M + 3 - 12 * a
  BY <1>1
<1>3. Y \in Nat /\ y = Y - 4800 + a
  BY <1>1, <1>2
<1>4. b \in Nat /\ r \in 0 .. 99 /\ Y = 100 * b + r
  BY <1>3
<1>5. JDN(date) = d - 32075 + (1461 * (y + 4800 - a)) \div 4 + (367 * (m - 2 + 12 * a)) \div 12
                  - (3 * ((y + 4900 - a) \div 100)) \div 4
  BY JDNIs
<1>6. JDN(date) = d - 32075 + (1461 * Y) \div 4 + (367 * (M + 1)) \div 12
                  - (3 * ((Y + 100) \div 100)) \div 4
  <2>1. m - 2 + 12 * a = M + 1 /\ y + 4900 - a = Y + 100
    BY <1>1, <1>2
  <2> QED BY <1>5, <2>1
<1> HIDE DEF Y, M
<1>7. (367 * (M + 1)) \div 12 = MonthStart(M) + 30
  BY <1>2 DEF MonthStart
<1>8. (1461 * Y) \div 4 = 36525 * b + (1461 * r) \div 4
  BY <1>4
<1>9. (3 * ((Y + 100) \div 100)) \div 4 = b - b \div 4
  <2>1. (Y + 100) \div 100 = b + 1
    BY <1>3
  <2> HIDE DEF b
  <2>2. (3 * (b + 1)) \div 4 = b - b \div 4
    BY <1>4
  <2> QED BY <2>1, <2>2
<1> HIDE DEF b, r
<1>10. (146097 * b) \div 4 = 36524 * b + b \div 4
  BY <1>4
<1>11. MonthStart(M) \in Nat /\ (1461 * r) \div 4 \in Nat /\ b \div 4 \in Nat
  BY <1>2, <1>4 DEF MonthStart
<1>12. JDN(date) + 32044 = (146097 * b) \div 4 + (1461 * r) \div 4 + D
  <2> DEFINE centuries == (146097 * b) \div 4
  <2> DEFINE years == (1461 * r) \div 4
  <2> DEFINE months == MonthStart(M)
  <2> DEFINE leaps == b \div 4
  <2>1. JDN(date) = d - 32075 + (36525 * b + years) + (months + 30) - (b - leaps)
    BY <1>6, <1>7, <1>8, <1>9
  <2>2. centuries = 36524 * b + leaps /\ D = d - 1 + months
    BY <1>10
  <2>3. years \in Nat /\ months \in Nat /\ leaps \in Nat
    BY <1>11
  <2> HIDE DEF centuries, years, months, leaps, D
  <2>4. JDN(date) + 32044 = centuries + years + D
    BY <1>1, <1>4, <2>1, <2>2, <2>3
  <2> QED BY <2>4 DEF centuries, years
<1>13. d <= 31 /\ (M \in {1, 3, 6, 8} => d <= 30) /\ (M = 11 => d <= 29)
  BY <1>1, <1>2 DEF DaysInMonth
<1>14. D \in Nat /\ D <= 365 /\ (5 * D + 2) \div 153 = M /\ (D = 365 => M = 11 /\ d = 29)
  BY <1>1, <1>2, <1>13 DEF MonthStart
<1>15. D = 365 => r % 4 = 3 /\ (r = 99 => b % 4 = 3)
  <2> SUFFICES ASSUME D = 365 PROVE r % 4 = 3 /\ (r = 99 => b % 4 = 3)
    OBVIOUS
  <2>1. m = 2 /\ a = 1 /\ IsLeap(y)
    BY <1>1, <1>2, <1>14 DEF DaysInMonth
  <2>2. y = 100 * b + r - 4799
    BY <1>3, <1>4, <2>1
  <2>3. y % 4 = 0 /\ (y % 100 # 0 \/ y % 400 = 0)
    BY <2>1 DEF IsLeap
  <2>4. r % 4 = 3
    BY <1>4, <2>2, <2>3
  <2>5. r = 99 => y = 100 * (b - 47)
    BY <1>4, <2>2
  <2>6. r = 99 => y % 400 = 0
    BY <1>1, <1>4, <2>3, <2>5
  <2>7. r = 99 => b % 4 = 3
    BY <1>1, <1>4, <2>5, <2>6
  <2> QED BY <2>4, <2>7
<1>16. Splits(date, b, r, M)
  <2>1. 100 * b + r - 4800 + (M \div 10) = date.y
    BY <1>2, <1>3, <1>4
  <2>2. M + 3 - 12 * (M \div 10) = date.m
    BY <1>2
  <2> QED BY <1>12, <1>14, <1>15, <2>1, <2>2 DEF Splits
<1> QED BY <1>2, <1>4, <1>16

\* DateFromJDN takes every day's number back to the day.  The quotients and remainders
\* on the way are numbers of their own: q years make a day z quarters early, and e
\* centuries one w quarters early.
LEMMA DateOfJDN == \A date \in Day : DateFromJDN(JDN(date)) = date
<1> TAKE date \in Day
<1>1. PICK b \in Nat, r \in 0 .. 99, M \in 0 .. 11 : Splits(date, b, r, M)
  BY JDNByCentury
<1>2. JDN(date) \in Nat /\ date = Date(date.y, date.m, date.d)
  BY JDNIsNat DEF Day, Date
<1>3. PICK k \in Nat : k <= 365 /\ k = date.d - 1 + MonthStart(M)
  BY <1>1 DEF Splits
<1>4. PICK n \in Nat : n = JDN(date) + 32044
  BY <1>2
<1>5. PICK q \in Nat, z \in 0 .. 3 : q = (1461 * r) \div 4 /\ z = r % 4 /\ 1461 * r = 4 * q + z
  <2>1. 1461 * r = 4 * ((1461 * r) \div 4) + (r % 4)
    OBVIOUS
  <2>2. (1461 * r) \div 4 \in Nat /\ r % 4 \in 0 .. 3
    OBVIOUS
  <2> QED BY <2>1, <2>2
<1>6. PICK e \in Nat, w \in 0 .. 3 : e = (146097 * b) \div 4 /\ w = b % 4 /\ 146097 * b = 4 * e + w
  <2>1. 146097 * b = 4 * ((146097 * b) \div 4) + (b % 4)
    OBVIOUS
  <2>2. (146097 * b) \div 4 \in Nat /\ b % 4 \in 0 .. 3
    OBVIOUS
  <2> QED BY <2>1, <2>2
<1>7. n = e + q + k
  BY <1>1, <1>3, <1>4, <1>5, <1>6 DEF Splits
<1>8. k = 365 => z = 3 /\ (r = 99 => w = 3)
  BY <1>1, <1>3, <1>5, <1>6 DEF Splits
<1>9. 1461 * r = 4 * q + z
  BY <1>5
<1>10. 146097 * b = 4 * e + w
  BY <1>6
<1>11. q + k <= 36524 /\ (q + k = 36524 => w = 3)
  <2>1. q + k <= 36524
    BY <1>3, <1>9
  <2>2. q + k = 36524 => k = 365 /\ r = 99
    BY <1>3, <1>9
  <2> QED BY <1>8, <2>1, <2>2
<1>12. (4 * (q + k) + 3) \div 1461 = r
  <2>1. 4 * (q + k) + 3 \in 1461 * r .. 1461 * r + 1460
    BY <1>3, <1>8, <1>9
  <2> QED BY <2>1
<1>13. (4 * n + 3) \div 146097 = b
  <2>1. 4 * n + 3 \in 146097 * b .. 146097 * b + 146096
    BY <1>7, <1>10, <1>11
  <2> QED BY <2>1
<1>14. /\ Quo(4 * n + 3, 146097) = b /\ Quo(146097 * b, 4) = e
       /\ Quo(4 * (q + k) + 3, 1461) = r /\ Quo(1461 * r, 4) = q
  <2>1. Quo(4 * n + 3, 146097) = (4 * n + 3) \div 146097
    BY DEF Quo
  <2>2. Quo(146097 * b, 4) = (146097 * b) \div 4
    BY DEF Quo
  <2>3. Quo(4 * (q + k) + 3, 1461) = (4 * (q + k) + 3) \div 1461
    BY DEF Quo
  <2>4. Quo(1461 * r, 4) = (1461 * r) \div 4
    BY DEF Quo
  <2>5. e = (146097 * b) \div 4 /\ q = (1461 * r) \div 4
    BY <1>5, <1>6
  <2> QED BY <1>12, <1>13, <2>1, <2>2, <2>3, <2>4, <2>5
<1>15. /\ Quo(5 * k + 2, 153) = M /\ Quo(M, 10) = M \div 10
       /\ Quo(153 * M + 2, 5) = MonthStart(M)
  <2>1. (5 * k + 2) \div 153 = M
    BY <1>1, <1>3 DEF Splits
  <2>2. Quo(5 * k + 2, 153) = (5 * k + 2) \div 153
    BY DEF Quo
  <2>3. Quo(M, 10) = M \div 10
    BY DEF Quo
  <2>4. Quo(153 * M + 2, 5) = (153 * M + 2) \div 5
    BY DEF Quo
  <2> QED BY <2>1, <2>2, <2>3, <2>4 DEF MonthStart
<1>16. PICK c \in Nat : /\ c = q + k
                        /\ n - Quo(146097 * b, 4) = c /\ Quo(4 * c + 3, 1461) = r
                        /\ c - Quo(1461 * r, 4) = k
  <2>1. q + k \in Nat /\ n - e = q + k /\ q + k - q = k
    BY <1>7
  <2> QED BY <1>14, <2>1
<1>17. DateFromJDN(JDN(date)) = Date(100 * b + r - 4800 + (M \div 10), M + 3 - 12 * (M \div 10),
                                     k - MonthStart(M) + 1)
  <2> DEFINE Back(x) ==
        LET bb == Quo(4 * x + 3, 146097)
            cc == x - Quo(146097 * bb, 4)
            dd == Quo(4 * cc + 3, 1461)
            ee == cc - Quo(1461 * dd, 4)
            mm == Quo(5 * ee + 2, 153)
        IN Date(100 * bb + dd - 4800 + Quo(mm, 10), mm + 3 - 12 * Quo(mm, 10),
                ee - Quo(153 * mm + 2, 5) + 1)
  <2>1. DateFromJDN(JDN(date)) = Back(JDN(date) + 32044)
    BY DEF DateFromJDN
  <2>2. Back(n) = Date(100 * b + r - 4800 + Quo(M, 10), M + 3 - 12 * Quo(M, 10),
                       k - Quo(153 * M + 2, 5) + 1)
    <3>1. Quo(4 * n + 3, 146097) = b
      BY <1>14
    <3>2. n - Quo(146097 * b, 4) = c /\ Quo(4 * c + 3, 1461) = r /\ c - Quo(1461 * r, 4) = k
      BY <1>16
    <3>3. Quo(5 * k + 2, 153) = M
      BY <1>15
    <3> QED BY <3>1, <3>2, <3>3
  <2> HIDE DEF Back
  <2>3. Back(JDN(date) + 32044) = Back(n)
    BY <1>4
  <2> QED BY <1>15, <2>1, <2>2, <2>3
<1>18. /\ 100 * b + r - 4800 + (M \div 10) = date.y
       /\ M + 3 - 12 * (M \div 10) = date.m
  BY <1>1 DEF Splits
<1>19. k - MonthStart(M) + 1 = date.d
  <2>1. date.d \in Int /\ MonthStart(M) \in Int
    BY DEF Day, MonthStart
  <2> QED BY <1>3, <2>1
<1> QED BY <1>2, <1>17, <1>18, <1>19

-----------------------------------------------------------------------------
(* The order of the days.                                                  *)

\* A nonempty set of numbers has a least one.
LEMMA LeastNumber ==
  ASSUME NEW T \in SUBSET Nat, T # {}
  PROVE  \E x \in T : \A y \in T : x <= y
<1> DEFINE R == OpToRel(<, Nat)
<1>1. PICK x \in T : \A y \in T : ~ (<<y, x>> \in R)
  <2> HIDE DEF R
  <2> QED BY WFMin, NatLessThanWellFounded DEF R
<1>2. \A y \in T : y < x => <<y, x>> \in R
  BY DEF OpToRel
<1>3. \A y \in T : ~(y < x)
  <2> HIDE DEF R
  <2> QED BY <1>1, <1>2
<1>4. \A y \in T : y \in Nat /\ x \in Nat
  OBVIOUS
<1> QED
  <2> HIDE DEF R
  <2> QED BY <1>3, <1>4

\* The calendar begins on 1 January of the year 1.
LEMMA FirstNumber == Date(1, 1, 1) \in Day /\ JDN(Date(1, 1, 1)) = 1721426
<1>1. Date(1, 1, 1) \in Day
  BY DEF Day, Date, DaysInMonth
<1>2. JDN(Date(1, 1, 1)) = 1721426
  BY DEF JDN, Date, Quo
<1> QED BY <1>1, <1>2

\* From then on every number is that of a day: DateFromJDN is never off the calendar.
LEMMA EveryNumberIsADay ==
  \A n \in Nat : n >= 1721426 => DateFromJDN(n) \in Day /\ JDN(DateFromJDN(n)) = n
<1> DEFINE Dated(n) == \E date \in Day : JDN(date) = n
           T == {n \in Nat : n >= 1721426 /\ ~Dated(n)}
<1> HIDE DEF Dated
<1>1. T = {}
  <2> SUFFICES ASSUME T # {} PROVE FALSE
    OBVIOUS
  <2>1. PICK n \in T : \A k \in T : n <= k
    <3> T \in SUBSET Nat
      OBVIOUS
    <3> HIDE DEF T
    <3> QED BY LeastNumber
  <2>2. n \in Nat /\ n >= 1721426 /\ ~Dated(n)
    OBVIOUS
  <2>3. n # 1721426
    BY <2>2, FirstNumber DEF Dated
  <2>4. n - 1 \in Nat /\ n - 1 >= 1721426 /\ Dated(n - 1)
    BY <2>1, <2>2, <2>3
  <2>5. PICK date \in Day : JDN(date) = n - 1
    BY <2>4 DEF Dated
  <2>6. Tomorrow(date) \in Day /\ JDN(Tomorrow(date)) = n
    BY <2>2, <2>5, TomorrowIsNext
  <2> QED BY <2>2, <2>6 DEF Dated
<1> SUFFICES ASSUME NEW n \in Nat, n >= 1721426
             PROVE  DateFromJDN(n) \in Day /\ JDN(DateFromJDN(n)) = n
  OBVIOUS
<1>2. PICK date \in Day : JDN(date) = n
  BY <1>1 DEF Dated
<1> QED BY <1>2, DateOfJDN

\* Days are told apart by their numbers.
LEMMA JDNIsInjective == \A a, b \in Day : JDN(a) = JDN(b) => a = b
<1> TAKE a, b \in Day
<1>1. DateFromJDN(JDN(a)) = a /\ DateFromJDN(JDN(b)) = b
  BY DateOfJDN
<1> QED BY <1>1

\* Months are counted through the years.
MonthNo(date) == 12 * date.y + date.m

\* What the parts of a day are.
LEMMA DayParts ==
  \A date \in Day : /\ date.y \in Nat /\ date.y > 0 /\ date.m \in Nat /\ date.m \in 1 .. 12
                    /\ date.d \in Nat /\ date.d \in 1 .. 31 /\ date.d <= DaysInMonth(date.y, date.m)
                    /\ date = Date(date.y, date.m, date.d) /\ MonthNo(date) \in Nat
BY DEF Day, Date, MonthNo

\* Tomorrow is in this month or in the next.
LEMMA MonthTurns ==
  \A date \in Day : MonthNo(Tomorrow(date)) \in {MonthNo(date), MonthNo(date) + 1}
<1> TAKE date \in Day
<1>1. date.y \in Nat /\ date.m \in 1 .. 12 /\ date.d \in Nat
  BY DayParts
<1>2. CASE date.d < DaysInMonth(date.y, date.m)
  <2>1. Tomorrow(date) = [date EXCEPT !.d = date.d + 1]
    BY <1>2 DEF Tomorrow
  <2>2. Tomorrow(date).y = date.y /\ Tomorrow(date).m = date.m
    BY <2>1 DEF Day
  <2> QED BY <2>2 DEF MonthNo
<1>3. CASE ~(date.d < DaysInMonth(date.y, date.m)) /\ date.m < 12
  <2>1. Tomorrow(date).y = date.y /\ Tomorrow(date).m = date.m + 1
    BY <1>3 DEF Tomorrow, Date
  <2> QED BY <1>1, <2>1 DEF MonthNo
<1>4. CASE ~(date.d < DaysInMonth(date.y, date.m)) /\ ~(date.m < 12)
  <2>1. Tomorrow(date).y = date.y + 1 /\ Tomorrow(date).m = 1
    BY <1>4 DEF Tomorrow, Date
  <2> QED BY <1>1, <1>4, <2>1 DEF MonthNo
<1> QED BY <1>2, <1>3, <1>4

\* No day of an earlier month has a later number.
LEMMA MonthsInOrder == \A a, b \in Day : JDN(a) <= JDN(b) => MonthNo(a) <= MonthNo(b)
<1> SUFFICES ASSUME NEW a \in Day PROVE \A b \in Day : JDN(a) <= JDN(b) => MonthNo(a) <= MonthNo(b)
  OBVIOUS
<1> DEFINE T == {n \in Nat : n >= JDN(a) /\ ~(MonthNo(a) <= MonthNo(DateFromJDN(n)))}
<1>1. T = {}
  <2> SUFFICES ASSUME T # {} PROVE FALSE
    OBVIOUS
  <2>1. PICK n \in T : \A k \in T : n <= k
    <3> T \in SUBSET Nat
      OBVIOUS
    <3> HIDE DEF T
    <3> QED BY LeastNumber
  <2>2. n \in Nat /\ n >= JDN(a) /\ ~(MonthNo(a) <= MonthNo(DateFromJDN(n)))
    OBVIOUS
  <2>3. JDN(a) \in Nat /\ JDN(a) >= 1721426 /\ MonthNo(a) \in Nat
    BY JDNIsNat, DayParts
  <2>4. n # JDN(a)
    BY <2>2, <2>3, DateOfJDN
  <2>5. PICK k \in Nat : k = n - 1 /\ k >= JDN(a) /\ k >= 1721426
    BY <2>2, <2>3, <2>4
  <2>6. MonthNo(a) <= MonthNo(DateFromJDN(k))
    BY <2>1, <2>5
  <2>7. PICK date \in Day : date = DateFromJDN(k) /\ JDN(date) = k
    BY <2>5, EveryNumberIsADay
  <2>8. Tomorrow(date) \in Day /\ JDN(Tomorrow(date)) = n
    BY <2>5, <2>7, TomorrowIsNext
  <2>9. DateFromJDN(n) = Tomorrow(date)
    BY <2>8, DateOfJDN
  <2>10. MonthNo(date) \in Nat /\ MonthNo(Tomorrow(date)) \in {MonthNo(date), MonthNo(date) + 1}
    BY MonthTurns, DayParts
  <2> QED BY <2>2, <2>3, <2>6, <2>7, <2>9, <2>10
<1> TAKE b \in Day
<1>2. DateFromJDN(JDN(b)) = b /\ JDN(b) \in Nat
  BY DateOfJDN, JDNIsNat
<1> QED BY <1>1, <1>2

\* Days of one month are as far apart as their dates.
LEMMA SameMonth ==
  \A a, b \in Day : MonthNo(a) = MonthNo(b) =>
    a.y = b.y /\ a.m = b.m /\ JDN(a) - JDN(b) = a.d - b.d
<1> SUFFICES ASSUME NEW a \in Day, NEW b \in Day, MonthNo(a) = MonthNo(b)
             PROVE  a.y = b.y /\ a.m = b.m /\ JDN(a) - JDN(b) = a.d - b.d
  OBVIOUS
<1>1. /\ a.y \in Nat /\ a.m \in 1 .. 12 /\ a.d \in Nat
      /\ b.y \in Nat /\ b.m \in 1 .. 12 /\ b.d \in Nat
  BY DayParts
<1>2. a.y = b.y /\ a.m = b.m
  BY <1>1 DEF MonthNo
<1>3. \E s \in Int : JDN(a) = a.d + s /\ JDN(b) = b.d + s
  <2> DEFINE e == IF a.m <= 2 THEN 1 ELSE 0
             u == (1461 * (a.y + 4800 - e)) \div 4
             v == (367 * (a.m - 2 + 12 * e)) \div 12
             w == (3 * ((a.y + 4900 - e) \div 100)) \div 4
  <2>1. JDN(a) = a.d - 32075 + u + v - w
    BY JDNIs
  <2>2. JDN(b) = b.d - 32075 + u + v - w
    BY <1>2, JDNIs
  <2>3. PICK i \in Int, j \in Int, k \in Int : i = u /\ j = v /\ k = w
    <3>1. e \in Int /\ a.y \in Int /\ a.m \in Int
      BY <1>1
    <3> HIDE DEF e
    <3>2. u \in Int
      BY <3>1
    <3>3. v \in Int
      BY <3>1
    <3>4. (a.y + 4900 - e) \div 100 \in Int
      BY <3>1
    <3>5. w \in Int
      BY <3>4
    <3> HIDE DEF u, v, w
    <3> QED BY <3>2, <3>3, <3>5
  <2> HIDE DEF u, v, w
  <2>4. JDN(a) = a.d + (i + j - k - 32075) /\ JDN(b) = b.d + (i + j - k - 32075)
    BY <1>1, <2>1, <2>2, <2>3
  <2> QED BY <2>4
<1> QED BY <1>1, <1>2, <1>3

\* Numbers order the days as months and dates do.
LEMMA DaysInOrder ==
  \A a, b \in Day : JDN(a) <= JDN(b) <=> \/ MonthNo(a) < MonthNo(b)
                                         \/ MonthNo(a) = MonthNo(b) /\ a.d <= b.d
<1> TAKE a, b \in Day
<1>1. /\ JDN(a) \in Nat /\ JDN(b) \in Nat /\ MonthNo(a) \in Nat /\ MonthNo(b) \in Nat
      /\ a.d \in Nat /\ b.d \in Nat
  BY JDNIsNat, DayParts
<1>2. /\ JDN(a) <= JDN(b) => MonthNo(a) <= MonthNo(b)
      /\ JDN(b) <= JDN(a) => MonthNo(b) <= MonthNo(a)
  BY MonthsInOrder
<1>3. MonthNo(a) = MonthNo(b) => JDN(a) - JDN(b) = a.d - b.d
  BY SameMonth
<1> QED BY <1>1, <1>2, <1>3

\* From any day of a month to any of the next it is no more than two months.
LEMMA NextMonthIsNear ==
  \A a, b \in Day : MonthNo(b) = MonthNo(a) + 1 => JDN(b) - JDN(a) <= 62
<1> SUFFICES ASSUME NEW a \in Day, NEW b \in Day, MonthNo(b) = MonthNo(a) + 1
             PROVE  JDN(b) - JDN(a) <= 62
  OBVIOUS
<1>1. /\ a.y \in Nat /\ a.y > 0 /\ a.m \in 1 .. 12 /\ a.d \in 1 .. 31
      /\ b.d \in 1 .. 31 /\ MonthNo(a) \in Nat
  BY DayParts
<1> DEFINE last == Date(a.y, a.m, DaysInMonth(a.y, a.m))
<1>2. last \in Day /\ MonthNo(last) = MonthNo(a) /\ last.d \in 28 .. 31
  BY <1>1 DEF Day, Date, DaysInMonth, MonthNo
<1>3. Tomorrow(last) \in Day /\ JDN(Tomorrow(last)) = JDN(last) + 1
  BY <1>2, TomorrowIsNext
<1>4. MonthNo(Tomorrow(last)) = MonthNo(b) /\ Tomorrow(last).d = 1
  <2>1. Tomorrow(last) = IF a.m < 12 THEN Date(a.y, a.m + 1, 1) ELSE Date(a.y + 1, 1, 1)
    BY <1>2 DEF Tomorrow, Date
  <2> HIDE DEF last
  <2> QED BY <1>1, <2>1 DEF MonthNo, Date
<1>5. JDN(b) - JDN(Tomorrow(last)) = b.d - 1 /\ JDN(last) - JDN(a) = last.d - a.d
  BY <1>2, <1>3, <1>4, SameMonth
<1>6. JDN(a) \in Nat /\ JDN(b) \in Nat /\ JDN(last) \in Nat
  BY <1>2, JDNIsNat
<1> HIDE DEF last
<1> QED BY <1>1, <1>2, <1>3, <1>5, <1>6

\* From a date to the same date of the next year it is never more than 366 days, and only
\* 365 from 1 March of a leap year.
LEMMA NextYearIsNear ==
  \A a, b \in Day : b.y = a.y + 1 /\ b.m = a.m /\ b.d = a.d =>
    /\ JDN(b) - JDN(a) <= 366
    /\ IsLeap(a.y) /\ a.m > 2 => JDN(b) - JDN(a) <= 365
<1> SUFFICES ASSUME NEW a \in Day, NEW b \in Day, b.y = a.y + 1, b.m = a.m, b.d = a.d
             PROVE  /\ JDN(b) - JDN(a) <= 366
                    /\ IsLeap(a.y) /\ a.m > 2 => JDN(b) - JDN(a) <= 365
  OBVIOUS
<1>1. a.y \in Nat /\ a.y > 0 /\ a.m \in 1 .. 12 /\ a.d \in Nat
  BY DayParts
<1>2. PICK e \in {0, 1}, x \in Nat : /\ e = (IF a.m <= 2 THEN 1 ELSE 0) /\ x = a.y - e
                                     /\ a.y + 4800 - e = x + 4800 /\ a.y + 4900 - e = x + 4900
                                     /\ b.y + 4800 - e = x + 1 + 4800
                                     /\ b.y + 4900 - e = x + 1 + 4900
  BY <1>1
<1>3. PICK k \in Int : k = (367 * (a.m - 2 + 12 * e)) \div 12
  BY <1>1, <1>2
<1>4. JDN(a) = a.d - 32075 + (1461 * (x + 4800)) \div 4 + k - (3 * ((x + 4900) \div 100)) \div 4
  <2>1. JDN(a) = a.d - 32075 + (1461 * (a.y + 4800 - e)) \div 4
                 + (367 * (a.m - 2 + 12 * e)) \div 12
                 - (3 * ((a.y + 4900 - e) \div 100)) \div 4
    BY <1>2, JDNIs
  <2> QED BY <1>2, <1>3, <2>1
<1>5. JDN(b) = a.d - 32075 + (1461 * (x + 1 + 4800)) \div 4 + k
               - (3 * ((x + 1 + 4900) \div 100)) \div 4
  <2>1. JDN(b) = b.d - 32075 + (1461 * (b.y + 4800 - e)) \div 4
                 + (367 * (b.m - 2 + 12 * e)) \div 12
                 - (3 * ((b.y + 4900 - e) \div 100)) \div 4
    BY <1>2, JDNIs
  <2> QED BY <1>2, <1>3, <2>1
<1>6. PICK p \in Nat, q \in Nat, r \in Nat, s \in Nat :
        /\ p = (1461 * (x + 4800)) \div 4 /\ q = (1461 * (x + 1 + 4800)) \div 4
        /\ r = (3 * ((x + 4900) \div 100)) \div 4 /\ s = (3 * ((x + 1 + 4900) \div 100)) \div 4
        /\ q <= p + 366 /\ s >= r /\ (x % 4 = 0 => q = p + 365)
  <2>1. /\ (1461 * (x + 4800)) \div 4 \in Nat /\ (1461 * (x + 1 + 4800)) \div 4 \in Nat
        /\ (1461 * (x + 1 + 4800)) \div 4 <= (1461 * (x + 4800)) \div 4 + 366
        /\ x % 4 = 0 => (1461 * (x + 1 + 4800)) \div 4 = (1461 * (x + 4800)) \div 4 + 365
    OBVIOUS
  <2>2. PICK c \in Nat, f \in Nat : /\ c = (x + 4900) \div 100 /\ f = (x + 1 + 4900) \div 100
                                    /\ f >= c
    <3>1. /\ (x + 4900) \div 100 \in Nat /\ (x + 1 + 4900) \div 100 \in Nat
          /\ (x + 1 + 4900) \div 100 >= (x + 4900) \div 100
      OBVIOUS
    <3> QED BY <3>1
  <2>3. (3 * c) \div 4 \in Nat /\ (3 * f) \div 4 \in Nat /\ (3 * f) \div 4 >= (3 * c) \div 4
    BY <2>2
  <2> QED BY <2>1, <2>2, <2>3
<1>7. JDN(b) - JDN(a) = q - p - (s - r)
  BY <1>1, <1>4, <1>5, <1>6
<1>8. IsLeap(a.y) /\ a.m > 2 => x % 4 = 0
  BY <1>1, <1>2 DEF IsLeap
<1> QED BY <1>6, <1>7, <1>8

-----------------------------------------------------------------------------
(* The weeks.                                                              *)

\* The cycle goes on from each day to the next and never leaves 1 .. 210, before the
\* anchor as after it.
LEMMA CycleDayTurns ==
  \A n \in Int : /\ CycleDay(n) \in 1 .. 210
                 /\ CycleDay(n + 1) = IF CycleDay(n) = 210 THEN 1 ELSE CycleDay(n) + 1
<1> TAKE n \in Int
<1>1. CycleDay(n) = ((n - 2461136) % 210) + 1 /\ CycleDay(n + 1) = ((n + 1 - 2461136) % 210) + 1
  <2>1. n - 2461209 + 73 = n - 2461136 /\ n + 1 - 2461209 + 73 = n + 1 - 2461136
    OBVIOUS
  <2>2. n + 1 \in Int
    OBVIOUS
  <2> QED BY <2>1, <2>2, CycleDayIs
<1> QED BY <1>1

\* A Pawukon week begins on a Sunday: the cycle and the weekday agree.
LEMMA CycleMeetsWeekday == \A n \in Nat : (n + 1) % 7 = (CycleDay(n) - 1) % 7
<1> TAKE n \in Nat
<1>1. CycleDay(n) = ((n - 2461209 + 73) % 210) + 1
  BY CycleDayIs
<1> QED BY <1>1

\* What Pawukon computes turns one day at a time.
LEMMA PawukonTurns ==
  ASSUME NEW date \in Day
  PROVE  LET p == Pawukon(date)
             q == Pawukon(Tomorrow(date))
         IN /\ q.sapta = (p.sapta + 1) % 7
            /\ q.panca = (p.panca + 1) % 5
            /\ q.wuku = IF p.sapta = 6 THEN (p.wuku + 1) % 30 ELSE p.wuku
<1> DEFINE n == JDN(date) c == CycleDay(n)
<1>1. n \in Nat /\ JDN(Tomorrow(date)) = n + 1
  BY JDNIsNat, TomorrowIsNext
<1>2. c \in 1 .. 210 /\ CycleDay(n + 1) = IF c = 210 THEN 1 ELSE c + 1
  BY <1>1, CycleDayTurns
<1> DEFINE e == CycleDay(n + 1)
<1>3. /\ Pawukon(date).sapta = (n + 1) % 7
      /\ Pawukon(date).panca = (c - 1) % 5
      /\ Pawukon(date).wuku = (c - 1) \div 7
  <2>1. n + 1 \in Nat /\ c - 1 \in Nat
    BY <1>1, <1>2
  <2>2. Rem(n + 1, 7) = (n + 1) % 7 /\ Rem(c - 1, 5) = (c - 1) % 5 /\ Quo(c - 1, 7) = (c - 1) \div 7
    BY <2>1, QuoIsDiv
  <2> QED BY <2>2 DEF Pawukon, Weekday
<1>4. /\ Pawukon(Tomorrow(date)).sapta = (n + 2) % 7
      /\ Pawukon(Tomorrow(date)).panca = (e - 1) % 5
      /\ Pawukon(Tomorrow(date)).wuku = (e - 1) \div 7
  <2>1. n + 1 + 1 \in Nat /\ e - 1 \in Nat /\ n + 1 + 1 = n + 2
    BY <1>1, <1>2
  <2>2. Rem(n + 2, 7) = (n + 2) % 7 /\ Rem(e - 1, 5) = (e - 1) % 5 /\ Quo(e - 1, 7) = (e - 1) \div 7
    BY <2>1, QuoIsDiv
  <2> QED BY <1>1, <2>1, <2>2 DEF Pawukon, Weekday
<1>5. (n + 1) % 7 = (c - 1) % 7
  BY <1>1, CycleMeetsWeekday
<1>7. (c = 210 /\ e = 1) \/ (c < 210 /\ e = c + 1)
  BY <1>2
<1> HIDE DEF n, c, e
<1>6. (n + 2) % 7 = (((n + 1) % 7) + 1) % 7
  BY <1>1
<1>8. /\ (e - 1) % 5 = (((c - 1) % 5) + 1) % 5
      /\ (e - 1) \div 7 = IF (c - 1) % 7 = 6 THEN (((c - 1) \div 7) + 1) % 30 ELSE (c - 1) \div 7
  <2>1. CASE c = 210 /\ e = 1
    BY <2>1
  <2>2. CASE c < 210 /\ e = c + 1
    <3>1. c \in 1 .. 209 /\ e - 1 = c
      BY <1>2, <2>2
    <3>2. c % 5 = (((c - 1) % 5) + 1) % 5
      BY <3>1
    <3>3. (c - 1) % 7 = 6 => c \div 7 = ((c - 1) \div 7) + 1
      BY <3>1
    <3>4. (c - 1) % 7 # 6 => c \div 7 = (c - 1) \div 7
      BY <3>1
    <3>5. (c - 1) % 7 = 6 => ((c - 1) \div 7) + 1 \in 0 .. 29
      BY <3>1
    <3>6. \A k \in 0 .. 29 : k % 30 = k
      OBVIOUS
    <3> QED BY <3>1, <3>2, <3>3, <3>4, <3>5, <3>6
  <2> QED BY <1>7, <2>1, <2>2
<1> QED BY <1>3, <1>4, <1>5, <1>6, <1>7, <1>8
-----------------------------------------------------------------------------
(* The calendar on the wall.                                               *)

\* The wall shows a real day.
OnDay == today \in Day /\ number = JDN(today)

\* Its page is turned to the next.
LEMMA PageTurns == OnDay /\ [TurnPage]_wallVars => OnDay'
<1> SUFFICES ASSUME OnDay, [TurnPage]_wallVars PROVE OnDay'
  OBVIOUS
<1>1. CASE TurnPage
  BY <1>1, TomorrowIsNext DEF TurnPage, OnDay
<1>2. CASE UNCHANGED wallVars
  BY <1>2 DEF wallVars, OnDay
<1> QED BY <1>1, <1>2

\* The weeks computed from the day number follow those on the wall.
LEMMA WeeksTurn ==
  OnDay /\ Pawukon(today) = weeks /\ [TurnPage]_wallVars => Pawukon(today)' = weeks'
<1> SUFFICES ASSUME OnDay, Pawukon(today) = weeks, [TurnPage]_wallVars
             PROVE  Pawukon(today') = weeks'
  BY DEF Pawukon
<1>1. CASE TurnPage
  <2> DEFINE q == Pawukon(Tomorrow(today))
  <2>1. /\ q.sapta = (weeks.sapta + 1) % 7 /\ q.panca = (weeks.panca + 1) % 5
        /\ q.wuku = IF weeks.sapta = 6 THEN (weeks.wuku + 1) % 30 ELSE weeks.wuku
    BY PawukonTurns DEF OnDay
  <2>2. q = [sapta |-> q.sapta, panca |-> q.panca, wuku |-> q.wuku]
    BY DEF Pawukon
  <2> HIDE DEF q
  <2>3. q = weeks'
    BY <1>1, <2>1, <2>2 DEF TurnPage
  <2> QED BY <1>1, <2>3 DEF TurnPage, q
<1>2. CASE UNCHANGED wallVars
  BY <1>2 DEF wallVars
<1> QED BY <1>1, <1>2

\* Whatever day the wall calendar is hung up on, its count of the days and its weeks,
\* counted from Galungan of 17 June 2026, are those of the formulas.
LEMMA HungUp == \A first \in Day : HangUp(first) => OnDay /\ Pawukon(today) = weeks
<1> SUFFICES ASSUME NEW first \in Day, HangUp(first)
             PROVE  OnDay /\ Pawukon(today) = weeks
  OBVIOUS
<1>1. PICK n \in Nat : n = JDN(first)
  BY JDNIsNat
<1>2. PICK since \in Int : since = n - 2461209
  BY <1>1
<1>3. Date(2026, 6, 17) \in Day
  BY DEF Day, Date, DaysInMonth
<1>4. DaysUpTo(Date(2026, 6, 17)) + 1721425 = 2461209 /\ DaysUpTo(first) + 1721425 = n
  BY <1>1, <1>3, Anchor, CountIsJDN DEF AnchorJDN
<1>5. number = n /\ today = first
  BY <1>4 DEF HangUp
<1>6. weeks = [sapta |-> (3 + since) % 7, panca |-> (3 + since) % 5,
               wuku |-> (10 + (3 + since) \div 7) % 30]
  <2> DEFINE from == DaysUpTo(first) - DaysUpTo(Date(2026, 6, 17))
  <2>1. weeks = [sapta |-> (3 + from) % 7, panca |-> (3 + from) % 5,
                 wuku |-> (10 + (3 + from) \div 7) % 30]
    BY DEF HangUp
  <2>2. from = since
    <3>1. PICK u \in Int, v \in Int : u = DaysUpTo(first) /\ v = DaysUpTo(Date(2026, 6, 17))
      BY <1>3, CountIsJDN
    <3> QED BY <1>2, <1>4, <3>1
  <2> HIDE DEF from
  <2> QED BY <2>1, <2>2
<1>7. PICK c \in Nat : c = (since + 73) % 210 /\ CycleDay(n) = c + 1
  <2>1. n - 2461209 + 73 = since + 73 /\ (since + 73) % 210 \in Nat
    BY <1>2
  <2> QED BY <2>1, CycleDayIs
<1>8. Pawukon(first) = [sapta |-> (n + 1) % 7, panca |-> c % 5, wuku |-> c \div 7]
  <2>1. Rem(n + 1, 7) = (n + 1) % 7
    <3>1. PICK x \in Nat : x = n + 1
      OBVIOUS
    <3> QED BY <3>1, QuoIsDiv
  <2>2. Rem(c, 5) = c % 5 /\ Quo(c, 7) = c \div 7
    <3>1. Quo(c, 7) = c \div 7
      BY DEF Quo
    <3> QED BY <3>1, QuoIsDiv
  <2>3. PICK k \in Nat : k = CycleDay(JDN(first)) /\ k - 1 = c
    BY <1>1, <1>7
  <2>4. Rem(k - 1, 5) = c % 5 /\ Quo(k - 1, 7) = c \div 7
    BY <2>2, <2>3
  <2>5. Weekday(first) = (n + 1) % 7
    BY <1>1, <2>1 DEF Weekday
  <2> QED BY <2>3, <2>4, <2>5 DEF Pawukon
<1>9. (n + 1) % 7 = (3 + since) % 7
  BY <1>2
<1>10. PICK t \in Int : since + 73 = 210 * t + c /\ c <= 209
  <2>1. PICK s \in Int : s = since + 73
    OBVIOUS
  <2>2. c = s % 210
    BY <1>7, <2>1
  <2>3. PICK t \in Int : t = s \div 210
    OBVIOUS
  <2>4. s = 210 * t + c /\ c <= 209
    BY <2>2, <2>3
  <2> QED BY <2>1, <2>4
<1>11. c % 5 = (3 + since) % 5
  BY <1>10
<1>12. c \div 7 = (10 + (3 + since) \div 7) % 30
  <2>1. (3 + since) \div 7 = 30 * t + c \div 7 - 10
    BY <1>10
  <2>2. PICK w \in Nat : w = c \div 7 /\ w < 30
    BY <1>10
  <2> QED BY <2>1, <2>2
<1> QED BY <1>1, <1>5, <1>6, <1>8, <1>9, <1>11, <1>12 DEF OnDay

\* From whatever day on, the day numbers and their inverse count every day: no month end,
\* leap year or century in any year puts jdn.go out of step.
THEOREM NumbersAlwaysCount ==
  ASSUME NEW first \in Day
  PROVE  HangUp(first) /\ [][TurnPage]_wallVars => []NumbersCountDays
<1>1. OnDay => NumbersCountDays
  BY DateOfJDN DEF OnDay, NumbersCountDays
<1>2. HangUp(first) => OnDay
  BY HungUp
<1> QED BY <1>1, <1>2, PageTurns, PTL

\* A holiday of the Pawukon table is found on a day just when the day has its names.
LEMMA HolidaysOnTheirDays ==
  ASSUME Pawukon(today) = weeks
  PROVE  WeeksTurnDaily
<1> DEFINE Defs == PawukonHolidayDefs
           Matching(i) == weeks = [sapta |-> Defs[i].sapta, panca |-> Defs[i].panca,
                                   wuku |-> Defs[i].wuku]
<1>1. weeks.sapta = Weekday(today)
      /\ weeks = [sapta |-> weeks.sapta, panca |-> weeks.panca, wuku |-> weeks.wuku]
  BY DEF Pawukon
<1>2. DOMAIN Defs = 1 .. 4
  BY DEF PawukonHolidayDefs
<1>3. \A i \in 1 .. 4 :
        Matching(i) <=> /\ Defs[i].sapta = weeks.sapta /\ Defs[i].panca = weeks.panca
                        /\ Defs[i].wuku = weeks.wuku
  BY <1>1
<1>4. \A i, k \in 1 .. 4 : Matching(i) /\ Matching(k) => i = k
  <2>1. /\ Defs[1].sapta = 3 /\ Defs[1].wuku = 10 /\ Defs[2].sapta = 6 /\ Defs[2].wuku = 11
        /\ Defs[3].sapta = 6 /\ Defs[3].wuku = 29 /\ Defs[4].sapta = 3 /\ Defs[4].wuku = 0
    BY DEF PawukonHolidayDefs
  <2>2. \A i, k \in 1 .. 4 : Defs[i].wuku = Defs[k].wuku => i = k
    BY <2>1
  <2> QED BY <1>3, <2>2
<1>5. PawukonHolidays(today) =
        {Defs[i].name : i \in {j \in 1 .. 4 : Matching(j) /\ \A k \in 1 .. j - 1 : ~Matching(k)}}
  BY <1>2 DEF PawukonHolidays
<1>6. {j \in 1 .. 4 : Matching(j) /\ \A k \in 1 .. j - 1 : ~Matching(k)}
      = {j \in 1 .. 4 : Matching(j)}
  <2> HIDE DEF Matching
  <2>1. \A j \in 1 .. 4 : \A k \in 1 .. j - 1 : k \in 1 .. 4 /\ k # j
    OBVIOUS
  <2> QED BY <1>4, <2>1
<1>7. {h.name : h \in {x \in {Defs[i] : i \in 1 .. 4} :
         x.sapta = weeks.sapta /\ x.panca = weeks.panca /\ x.wuku = weeks.wuku}}
      = {Defs[i].name : i \in {j \in 1 .. 4 : Matching(j)}}
  <2> HIDE DEF Matching, Defs
  <2> QED BY <1>3
<1> QED BY <1>2, <1>5, <1>6, <1>7 DEF WeeksTurnDaily

\* The weekday and the two Pawukon weeks follow the wall for ever, across the anchor
\* and the end of every cycle, and the holidays fall on the days that carry their names.
THEOREM WeeksAlwaysTurn ==
  ASSUME NEW first \in Day
  PROVE  HangUp(first) /\ [][TurnPage]_wallVars => []WeeksTurnDaily
<1> DEFINE OnWeek == OnDay /\ Pawukon(today) = weeks
<1>1. HangUp(first) => OnWeek
  BY HungUp
<1>2. OnWeek /\ [TurnPage]_wallVars => OnWeek'
  BY PageTurns, WeeksTurn
<1>3. OnWeek => WeeksTurnDaily
  BY HolidaysOnTheirDays
<1> HIDE DEF OnWeek
<1> QED BY <1>1, <1>2, <1>3, PTL
=============================================================================
