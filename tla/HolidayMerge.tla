---------------------------- MODULE HolidayMerge ----------------------------
(***************************************************************************)
(* Several sources may know the same holiday under different names.  The   *)
(* first source in provider order that has it gives it its name, its       *)
(* category and so its key in the notification log: in RunOnce's own loop  *)
(* (scheduler.go), and in MultiProvider for the upcoming list              *)
(* (calendarprov.go).  One date, one offset and one channel are followed.  *)
(*                                                                         *)
(* A source is its place in the provider order, and its category: 1 is the *)
(* computed Pawukon, the others are remote.  What a remote source answers  *)
(* changes at any time, and it may fail.                                   *)
(***************************************************************************)
EXTENDS Integers, Sequences, FiniteSets

CONSTANTS
  Sources,            \* the providers, numbered by priority from 1
  Names,              \* holiday names as the sources spell them, up to case
  Holidays,           \* what NormalizeHolidayName leaves of them
  Normalized,         \* the holiday a name stands for
  PawukonNames,       \* the computed holidays of the date
  MaxMoves            \* bound of the model: switched categories, outages, new lists

Computed == 1

ASSUME SourcesAssumption == Sources \subseteq Nat \ {0} /\ Computed \in Sources
ASSUME NamesAssumption ==
  /\ Normalized \in [Names -> Holidays]
  /\ PawukonNames \in Seq(Names)
  /\ \A i, j \in DOMAIN PawukonNames :
       Normalized[PawukonNames[i]] = Normalized[PawukonNames[j]] => i = j
  /\ MaxMoves \in Nat

VARIABLES
  categories,         \* the categories switched on in the settings
  lists,              \* what each source would answer: the names of the date, in order
  down,               \* the remote sources that fail
  keys,               \* the log: keys under which holidays have been pushed
  \* history
  switched,           \* categories that have been switched on or off
  moved,              \* sources whose category, answer or health has changed
  scanned,            \* the last thing that happened is a scan
  moves

mergeVars == <<categories, lists, down, keys, switched, moved, scanned, moves>>

\* A list has no spelling twice; it may have two of one holiday.
Answers == {s \in UNION {[1 .. n -> Names] : n \in 0 .. 2} :
              \A i, j \in DOMAIN s : s[i] = s[j] => i = j}

MergeInit ==
  /\ categories \in SUBSET Sources
  /\ lists \in [Sources -> Answers] /\ lists[Computed] = PawukonNames
  /\ down = {} /\ keys = {}
  /\ switched = {} /\ moved = {} /\ scanned = FALSE /\ moves = 0

Item == [source : Sources, place : Nat, name : Names]
Items(s) == {[source |-> s, place |-> i, name |-> lists[s][i]] : i \in DOMAIN lists[s]}

\* The order in which items are gathered.
Precedes(y, x) ==
  y.source < x.source \/ (y.source = x.source /\ y.place < x.place)

SameHoliday(y, x) == Normalized[y.name] = Normalized[x.name]

\* Mutant: a failing source ends the gathering.
GatheredUntilFailure ==
  UNION {Items(s) : s \in {t \in categories : \A u \in categories : u \in down => t < u}}

\* RunOnce: the enabled sources that answer; a failing one is skipped.
Gathered == UNION {Items(s) : s \in categories \ down}

\* Mutant: names are compared as they are spelled.
ScheduledBySpelling(items) ==
  {x \in items : \A y \in items : y.name = x.name => ~Precedes(y, x)}

\* Mutant: the last source that has a holiday wins.
ScheduledLast(items) ==
  {x \in items : \A y \in items : SameHoliday(y, x) => ~Precedes(x, y)}

\* RunOnce: the first item of each holiday is scheduled.
Scheduled(items) ==
  {x \in items : \A y \in items : SameHoliday(y, x) => ~Precedes(y, x)}

HolidayKey(x) == [category |-> x.source, name |-> x.name]

\* Mutant: DeduplicateHolidays lets the last one win.
DeduplicateHolidaysLast(items) ==
  {x \in items : ~\E y \in items : SameHoliday(y, x) /\ Precedes(x, y)}

DeduplicateHolidays(items) ==
  {x \in items : ~\E y \in items : SameHoliday(y, x) /\ Precedes(y, x)}

\* The upcoming list; a failing source of an enabled category fails the request.
UpcomingFails == categories \cap down # {}
Upcoming == DeduplicateHolidays(UNION {Items(s) : s \in categories})

-----------------------------------------------------------------------------
(* RunOnce's holiday half; a key already logged is not pushed again.       *)
ScanHolidays ==
  /\ keys' = keys \cup {HolidayKey(x) : x \in Scheduled(Gathered)}
  /\ scanned' = TRUE
  /\ UNCHANGED <<categories, lists, down, switched, moved, moves>>

Moves(s) ==
  /\ moves < MaxMoves /\ moves' = moves + 1
  /\ moved' = moved \cup {s} /\ scanned' = FALSE

\* The admin switches a category on or off.
SwitchCategory(s) ==
  /\ Moves(s)
  /\ categories' = IF s \in categories THEN categories \ {s} ELSE categories \cup {s}
  /\ switched' = switched \cup {s}
  /\ UNCHANGED <<lists, down, keys>>

\* Mutant: the computed source may fail as well.
AnySourceFails(s) ==
  /\ Moves(s)
  /\ down' = IF s \in down THEN down \ {s} ELSE down \cup {s}
  /\ UNCHANGED <<categories, lists, keys, switched>>

\* A remote source has no answer, also none cached, or has one again.
SourceFails(s) ==
  /\ s # Computed /\ Moves(s)
  /\ down' = IF s \in down THEN down \ {s} ELSE down \cup {s}
  /\ UNCHANGED <<categories, lists, keys, switched>>

\* A remote source publishes other names for the date.
SourcePublishes(s, answer) ==
  /\ s # Computed /\ Moves(s)
  /\ lists' = [lists EXCEPT ![s] = answer]
  /\ UNCHANGED <<categories, down, keys, switched>>

MergeNext ==
  \/ ScanHolidays
  \/ \E s \in Sources : SwitchCategory(s) \/ SourceFails(s)
  \/ \E s \in Sources, answer \in Answers : SourcePublishes(s, answer)

MergeSpec == MergeInit /\ [][MergeNext]_mergeVars

-----------------------------------------------------------------------------
(* Properties.                                                             *)

\* Every variable holds a value of its kind.
MergeTypeOK ==
  /\ categories \subseteq Sources /\ down \subseteq Sources \ {Computed}
  /\ lists \in [Sources -> Seq(Names)] /\ lists[Computed] = PawukonNames
  /\ keys \subseteq [category : Sources, name : Names]
  /\ switched \subseteq Sources /\ moved \subseteq Sources /\ switched \subseteq moved
  /\ scanned \in BOOLEAN /\ moves \in Nat

\* "notification_log dedupe never re-sends", where it holds: a computed holiday is
\* logged under its own key only, whatever the remote sources answer or fail to
\* answer, as long as nobody switches its category.
ComputedKeyOnly ==
  Computed \in categories /\ Computed \notin switched =>
    \A k \in keys : \A i \in DOMAIN PawukonNames :
      Normalized[k.name] = Normalized[PawukonNames[i]]
        => k = [category |-> Computed, name |-> PawukonNames[i]]

\* A holiday has two keys, and is pushed again, only if one of the two sources or
\* one before them has changed: what the sources after them do never matters.
RepeatNeedsItsSources ==
  \A k, l \in keys : Normalized[k.name] = Normalized[l.name] /\ k # l =>
    \E s \in moved : s <= k.category \/ s <= l.category

\* Whenever the upcoming list can be answered it shows the very holidays, in the
\* very category, whose reminders a scan schedules.
UpcomingIsScheduled == ~UpcomingFails => Upcoming = Scheduled(Gathered)

\* After a scan every holiday that some enabled source could answer is logged under
\* one of its keys, whichever other source fails.
OutageHidesOnlyItsOwn ==
  scanned => \A s \in categories \ down : \A i \in DOMAIN lists[s] :
    \E k \in keys : Normalized[k.name] = Normalized[lists[s][i]]
=============================================================================
