CONSTANTS
  none = none
  week = week
  Contents = {none, week}
  MaxPuts = 4
  MaxFaults = 1
  phone = phone
  mail = mail
  inherit = inherit
  ahead = ahead
  AllChannels = {phone, mail}
  Offsets = {inherit, ahead}
  NoOffsets = inherit
  Defaults = {mail}
  FirstPrefs <- MCFirstPrefs
  MaxRequests = 2
  MaxUpsets = 1
  unset = unset
  fallback = fallback
  other = other
  DefaultIds = {phone}
  Rests = {unset, fallback, other}
  Unset = unset
  Fallback = fallback
  MaxSaves = 2
  MaxMishaps = 1
SPECIFICATION EditorsSpec
INVARIANTS
  TypeOK
  SwitchShowsRow
  SettledAgrees
  PrefsTypeOK
  FieldsWereSent
  NoOrphanPrefs
  QuietPageShowsPrefs
  PatientClicksKept
  SavesAreKept
  IdleCopyIsStored
PROPERTIES
  OnlyFailuresRevert
  SentFieldsChange
