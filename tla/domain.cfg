CONSTANTS
  Lives <- MCLives
  Windows <- MCWindows
  Layers <- MCLayers
  CatchUps = {25}
  galungan = galungan
  hariGalungan = hariGalungan
  nyepi = nyepi
  Sources = {1, 2, 3}
  Names = {galungan, hariGalungan, nyepi}
  Holidays = {galungan, nyepi}
  Normalized <- MCNormalized
  PawukonNames <- MCPawukonNames
  MaxMoves = 2
SPECIFICATION Spec
INVARIANTS
  NumbersCountDays
  WeeksTurnDaily
  MarksFallOnTheirDays
  WindowIsItsDays
  NextIsNearest
  DueIsFound
  MergeTypeOK
  ComputedKeyOnly
  RepeatNeedsItsSources
  UpcomingIsScheduled
  OutageHidesOnlyItsOwn
CHECK_DEADLOCK FALSE
