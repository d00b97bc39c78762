---------------------------- MODULE MCScheduler ----------------------------
(***************************************************************************)
(* Instances of Scheduler for TLC: one contact with one yearly birthday,   *)
(* one reminder of it (r1) and one holiday (galungan), one or two          *)
(* channels, and two callers of RunOnce.                                   *)
(***************************************************************************)
EXTENDS Scheduler

CONSTANTS loop, manual, ann, birthday, r1, galungan, gotify, telegram

OneContact  == [o \in {birthday} |-> ann]
OnePerBirthday == [r \in {r1} |-> birthday]
NoChoice == [x \in {ann, birthday} |-> {}]
AnnByGotify == [x \in {ann, birthday} |-> IF x = ann THEN {gotify} ELSE {}]
DueMixed == [r \in {r1, galungan} |-> IF r = r1 THEN 1 ELSE 0]
DueToday == [r \in {r1, galungan} |-> 0]
Margin1 == [r \in {r1, galungan} |-> 1]
Margin5 == [r \in {r1, galungan} |-> 5]
Margin9 == [r \in {r1, galungan} |-> 9]

\* catchUp, sendTime, defaults, holidays
Doc(w, t, d, h) == [catchUp |-> w, sendTime |-> t, defaults |-> d, holidays |-> h]

Narrow == Doc(0, 0, {}, {galungan})
Wide   == Doc(2, 0, {gotify}, {galungan})
Days   == Doc(2, 0, {}, {})
Hour   == Doc(7, 0, {}, {galungan})
Day    == Doc(1, 0, {}, {})
Week   == Doc(3, 0, {}, {})
NarrowOrWide == {Narrow, Wide}
OnlyHour == {Hour}
OnlyNarrow == {Narrow}
WeekOrDays == {Week, Days}
=============================================================================
