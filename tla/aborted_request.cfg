CONSTANTS
  scan = scan
  upcoming = upcoming
  None = None
  Callers = {scan, upcoming}
  Scan = scan
  FirstYear = 1
  LastYear = 1
  Ranges <- ThisYear
  Freshness = 2
  FailBackoff = 2
  Timeout = 1
  Busy = 1
  MaxFaults = 3
SPECIFICATION Spec
PROPERTIES
  OnlyRemoteFailures
