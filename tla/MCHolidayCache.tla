--------------------------- MODULE MCHolidayCache ---------------------------
(* Instances of HolidayCache for TLC: years 1 and 2, or one year, per call. *)
EXTENDS HolidayCache

CONSTANTS scan, upcoming

OneCallForBoth == {<<1, 2>>}
ThisYear == {<<1, 1>>}
=============================================================================
