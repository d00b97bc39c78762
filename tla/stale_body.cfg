CONSTANTS
  none = none
  week = week
  Contents = {none, week}
  MaxPuts = 4
  MaxFaults = 0
SPECIFICATION Spec
PROPERTIES
  NoStaleBody
