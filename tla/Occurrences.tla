---------------------------- MODULE Occurrences ----------------------------
(***************************************************************************)
(* The marks of an occasion: which dates its recurrence yields             *)
(* (internal/domain: occurrence.go, recurrence.go), the offsets that apply *)
(* to each, and the window a scan computes them for (scheduler.go).  One   *)
(* occasion is lived through day by day on the wall of Calendar.           *)
(*                                                                         *)
(* A list of occurrences is the set of its elements, a list of offsets the *)
(* set of its numbers; labels are left out.                                *)
(***************************************************************************)
EXTENDS Calendar, FiniteSetsExt

CONSTANTS
  Lives,              \* [base, rec, first, last]: an occasion and the days walked
  Windows,            \* lengths of the windows asked for
  Layers,             \* <<occasion's, contact's, settings'>> offset maps
  CatchUps            \* catch-up windows, in hours

Recurrences == {"once", "yearly", "monthly", "anniversary", "otonan"}
Streams == {"event", "yearly", "monthly", "otonan"}

MaxOffset == 60             \* the longest offset ValidateOffsets lets in
MaxCatchUpHours == 168      \* the widest window a settings document may ask for

\* A life is walked from a day that leaves room for the lookback of a scan.
ASSUME LivesAssumption ==
  \A l \in Lives : /\ l.base \in Day /\ l.first \in Day /\ l.first.y > 1
                   /\ JDN(l.first) <= JDN(l.base) /\ l.rec \in Recurrences
ASSUME WindowsAssumption ==
  /\ Windows \subseteq Nat /\ CatchUps \subseteq 1 .. MaxCatchUpHours
  /\ \A layers \in Layers : layers \in Seq([Streams -> SUBSET (0 .. MaxOffset)])

Occurrence(date, stream, n) == [date |-> date, stream |-> stream, number |-> n]

\* The base's anniversary in the year y.
YearlyDate(base, y) ==
  IF base.m = 2 /\ base.d = 29 /\ ~IsLeap(y) THEN Date(y, 3, 1) ELSE Date(y, base.m, base.d)

\* Mutant: the day of a shorter month is not clamped.
AddMonthsUnclamped(base, k) ==
  LET total == base.m - 1 + k IN Date(base.y + total \div 12, (total % 12) + 1, base.d)

AddMonths(base, k) ==
  LET total == base.m - 1 + k
      y == base.y + total \div 12
      m == (total % 12) + 1
  IN Date(y, m, Min({base.d, DaysInMonth(y, m)}))

MonthsApart(base, date) == (date.y - base.y) * 12 + date.m - base.m

\* The smallest k whose mark is not before from, searched from an estimate.
FirstMonthMark(base, from) ==
  IF ~Before(base, from) THEN 0
  ELSE LET estimate == Max({0, MonthsApart(base, from) - 1})
       IN Min({k \in estimate .. estimate + 2 : ~Before(AddMonths(base, k), from)})

MonthMark(base, rec, k) ==
  LET date == AddMonths(base, k)
  IN IF k = 0 THEN Occurrence(date, "event", 0)
     ELSE IF rec = "anniversary" /\ k % 12 = 0 THEN Occurrence(date, "yearly", k \div 12)
     ELSE Occurrence(date, "monthly", k)

YearMark(base, y) ==
  Occurrence(YearlyDate(base, y), IF y = base.y THEN "event" ELSE "yearly", y - base.y)

Otonan(base, n) == Occurrence(AddDays(base, n * PawukonCycleDays), "otonan", n)

\* Mutant: a window that begins on an otonan begins after it.
FirstOtonanAfter(base, from) ==
  IF Before(base, from) THEN Quo(JDN(from) - JDN(base), PawukonCycleDays) + 1 ELSE 1

\* The base itself is no otonan.
FirstOtonan(base, from) ==
  LET diff == JDN(from) - JDN(base)
      n == Quo(diff, PawukonCycleDays)
  IN IF Before(base, from)
     THEN Max({1, IF Rem(diff, PawukonCycleDays) # 0 THEN n + 1 ELSE n}) ELSE 1

\* The four loops over marks, each over every index whose mark is not after to.
OccurrencesBetween(base, rec, from, to) ==
  CASE rec = "once" ->
         IF Before(base, from) \/ After(base, to) THEN {} ELSE {Occurrence(base, "event", 0)}
    [] rec = "otonan" ->
         {Otonan(base, n) : n \in FirstOtonan(base, from)
                                    .. (JDN(to) - JDN(base)) \div PawukonCycleDays}
    [] rec = "yearly" ->
         {o \in {YearMark(base, y) : y \in Max({from.y, base.y}) .. to.y} :
            ~Before(o.date, from) /\ ~After(o.date, to)}
    [] OTHER ->
         {o \in {MonthMark(base, rec, k) : k \in FirstMonthMark(base, from)
                                                  .. MonthsApart(base, to)} :
            ~After(o.date, to)}

\* Mutant: only the year of from is tried.
NextYearMarkSameYear(base, from) ==
  {o \in {YearMark(base, Max({from.y, base.y}))} : ~Before(o.date, from)}

\* The first of two years whose mark is not before from.
NextYearMark(base, from) ==
  LET first == Max({from.y, base.y})
      Upcoming == {y \in first .. Max({from.y + 1, first}) : ~Before(YearlyDate(base, y), from)}
  IN IF Upcoming = {} THEN {} ELSE {YearMark(base, Min(Upcoming))}

\* {} is the error: an occasion that happens once and is over.
NextOccurrence(base, rec, from) ==
  CASE rec = "once" -> IF Before(base, from) THEN {} ELSE {Occurrence(base, "event", 0)}
    [] rec = "otonan" ->
         LET diff == JDN(from) - JDN(base)
             n == Quo(diff, PawukonCycleDays)
         IN {Otonan(base, Max({1, IF Rem(diff, PawukonCycleDays) # 0 \/ n = 0
                                  THEN n + 1 ELSE n}))}
    [] rec = "yearly" -> NextYearMark(base, from)
    [] OTHER -> {MonthMark(base, rec, FirstMonthMark(base, from))}

-----------------------------------------------------------------------------
(* Offsets, and the window of a scan.                                      *)

StreamsFor(rec) ==
  CASE rec = "once" -> {"event"}
    [] rec = "yearly" -> {"event", "yearly"}
    [] rec = "monthly" -> {"event", "monthly"}
    [] rec = "anniversary" -> {"event", "yearly", "monthly"}
    [] rec = "otonan" -> {"otonan"}

DefaultOffsets == {7, 4, 2, 1, 0}

\* The first layer with an offset for the stream; none has one: the defaults.
ResolveOffsets(stream, layers) ==
  LET Offered == {i \in DOMAIN layers : layers[i][stream] # {}}
  IN IF Offered = {} THEN DefaultOffsets ELSE layers[Min(Offered)][stream]

ResolveOccasionStreams(rec, layers) ==
  [stream \in StreamsFor(rec) |-> ResolveOffsets(stream, layers)]

CatchUpDays(hours) == (hours + 23) \div 24

\* Mutant: the window is as wide as the offsets of the event itself.
ScanWindowOfEvent(rec, layers) == Max(ResolveOffsets("event", layers) \cup {0})

\* The widest offset of any stream of the occasion.
ScanWindow(rec, layers) ==
  Max((UNION {ResolveOccasionStreams(rec, layers)[stream] : stream \in StreamsFor(rec)}) \cup {0})

\* What a scan on the day asks for.
ScanFor(base, rec, layers, hours, day) ==
  LET maxOff == ScanWindow(rec, layers)
  IN OccurrencesBetween(base, rec, AddDays(day, -(maxOff + CatchUpDays(hours) + 2)),
                                   AddDays(day, maxOff + 2))

-----------------------------------------------------------------------------
(* The life of an occasion.                                                *)

VARIABLES
  life,               \* the occasion
  count,              \* marks it has had, -1 before its base date
  since               \* days since the last of them

occurrenceVars == <<wallVars, life, count, since>>

\* How people read a recurrence: the same day every month, or the last one of a
\* shorter month; the same date every year, and 1 March for 29 February; every
\* 210th day.
IsMark(date) ==
  CASE life.rec = "once" -> date = life.base
    [] life.rec = "otonan" -> since + 1 = PawukonCycleDays
    [] life.rec = "yearly" -> \/ date.m = life.base.m /\ date.d = life.base.d
                         \/ /\ life.base.m = 2 /\ life.base.d = 29 /\ date.m = 3 /\ date.d = 1
                            /\ ~IsLeap(date.y)
    [] OTHER -> \/ date.d = life.base.d
                \/ date.d < life.base.d /\ date.d = DaysInMonth(date.y, date.m)

Begin ==
  /\ life \in Lives
  /\ HangUp(life.first)
  /\ count = (IF life.first = life.base THEN 0 ELSE -1) /\ since = 0

Live ==
  /\ today # life.last
  /\ TurnPage
  /\ LET tomorrow == Tomorrow(today)
         falls == tomorrow = life.base \/ (count >= 0 /\ IsMark(tomorrow))
     IN /\ count' = IF falls THEN count + 1 ELSE count
        /\ since' = IF falls THEN 0 ELSE since + 1
  /\ UNCHANGED life

LifeSpec == Begin /\ [][Live]_occurrenceVars

\* The mark that today is.
MarkToday ==
  IF count < 0 \/ since # 0 \/ (life.rec = "otonan" /\ count = 0) THEN {}
  ELSE {IF life.rec = "otonan" THEN Occurrence(today, "otonan", count)
        ELSE IF count = 0 THEN Occurrence(today, "event", 0)
        ELSE IF life.rec = "yearly" THEN Occurrence(today, "yearly", count)
        ELSE IF life.rec = "anniversary" /\ count % 12 = 0 THEN Occurrence(today, "yearly", count \div 12)
        ELSE Occurrence(today, "monthly", count)}

-----------------------------------------------------------------------------
(* Properties.                                                             *)

\* OccurrencesBetween names exactly the days a person would mark, each once, with
\* the stream and the number of that mark: month ends, 29 February, a century
\* without a leap day and the days before the base date included.
MarksFallOnTheirDays == OccurrencesBetween(life.base, life.rec, today, today) = MarkToday

\* A window holds what its first day and the window of the rest hold, so that no
\* mark falls between the windows two scans ask for, and none into both.
WindowIsItsDays ==
  \A w \in Windows :
    OccurrencesBetween(life.base, life.rec, today, AddDays(today, w)) =
      MarkToday \cup OccurrencesBetween(life.base, life.rec, Tomorrow(today), AddDays(today, w))

\* The next occurrence is today's mark, or else the next one of tomorrow, and it is
\* never more than a leap year away.
NextIsNearest ==
  LET next == NextOccurrence(life.base, life.rec, today)
  IN /\ next = IF MarkToday # {} THEN MarkToday ELSE NextOccurrence(life.base, life.rec, Tomorrow(today))
     /\ (next = {}) <=> (life.rec = "once" /\ count >= 0 /\ today # life.base)
     /\ \A o \in next : JDN(o.date) - Max({number, JDN(life.base)}) \in 0 .. 366

\* A scan computes every mark of which a reminder falls due in its catch-up window,
\* whatever stream the widest offset belongs to and whichever layer it is from.
DueIsFound ==
  \A layers \in Layers, hours \in CatchUps :
    \A stream \in StreamsFor(life.rec) : \A off \in ResolveOffsets(stream, layers) :
      \A o \in OccurrencesBetween(life.base, life.rec, AddDays(today, off - CatchUpDays(hours)),
                                             AddDays(today, off)) :
        o.stream = stream => o \in ScanFor(life.base, life.rec, layers, hours, today)
=============================================================================
