------------------------------ MODULE MCDomain ------------------------------
(***************************************************************************)
(* Instances of Occurrences and HolidayMerge for TLC.  They share no       *)
(* state: in the life Still no day passes, and the sources move; in the    *)
(* others the days pass, and the sources are quiet.                        *)
(***************************************************************************)
EXTENDS Occurrences, HolidayMerge

CONSTANTS galungan, hariGalungan, nyepi

\* Three long lives, across 1800, 1900, 2000, 2100 and the Pawukon anchor.
Long(y, m, d, recurrence, last) ==
  [base |-> Date(y, m, d), rec |-> recurrence, first |-> Date(y, m, 1), last |-> last]
LongLives ==
  {Long(1796, 2, 29, "otonan", Date(1901, 1, 1)),
   Long(1899, 8, 31, "yearly", Date(2004, 4, 1)),
   Long(2003, 1, 30, "otonan", Date(2104, 4, 1))}

\* Short ones from days that not every month or year has, under every recurrence.
ShortLives ==
  {Long(date.y, date.m, date.d, recurrence, Date(date.y + 3, 4, 2)) :
     date \in {Date(2024, 2, 29), Date(2096, 2, 29), Date(2023, 8, 31), Date(2024, 12, 30)},
     recurrence \in Recurrences}

Still == [base |-> Date(2026, 6, 17), rec |-> "once",
          first |-> Date(2026, 6, 17), last |-> Date(2026, 6, 17)]

MCLives == LongLives \cup ShortLives \cup {Still}
MCWindows == {1, 62, 400}
NoMap == [stream \in Streams |-> {}]
MCLayers ==
  { <<NoMap, NoMap, NoMap>>,
    <<NoMap, [NoMap EXCEPT !["yearly"] = {30, 0}], NoMap>>,
    << [NoMap EXCEPT !["monthly"] = {60}, !["otonan"] = {14}], NoMap,
       [NoMap EXCEPT !["event"] = {0}] >> }

MCNormalized == [n \in Names |-> IF n = nyepi THEN nyepi ELSE galungan]
MCPawukonNames == <<galungan>>

Init ==
  /\ Begin /\ MergeInit
  /\ life = Still \/ (categories = {} /\ \A s \in Sources \ {Computed} : lists[s] = <<>>)

Next ==
  \/ Live /\ UNCHANGED mergeVars
  \/ life = Still /\ MergeNext /\ UNCHANGED occurrenceVars

Spec == Init /\ [][Next]_<<occurrenceVars, mergeVars>>
=============================================================================
