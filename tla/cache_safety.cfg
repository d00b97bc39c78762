CONSTANTS
  scan = scan
  upcoming = upcoming
  None = None
  Callers = {scan, upcoming}
  Scan = scan
  FirstYear = 1
  LastYear = 2
  Ranges <- OneCallForBoth
  Freshness = 2
  FailBackoff = 1
  Timeout = 1
  Busy = 1
  MaxFaults = 1
SPECIFICATION Spec
INVARIANTS
  TypeOK
  HonestRow
  CacheNeverForgotten
  OldOnlyWhenFailing
  SourceSpared
