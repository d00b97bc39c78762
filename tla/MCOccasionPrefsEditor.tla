----------------------- MODULE MCOccasionPrefsEditor -----------------------
(* Instances of OccasionPrefsEditor for TLC: two contents, a few edits.     *)
EXTENDS OccasionPrefsEditor

CONSTANTS none, week
=============================================================================
