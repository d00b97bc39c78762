CONSTANTS
  loop = loop
  manual = manual
  ann = ann
  birthday = birthday
  r1 = r1
  galungan = galungan
  gotify = gotify
  telegram = telegram
  Scanners = {loop, manual}
  Loop = loop
  Free = Free
  Contacts = {ann}
  Occasions = {birthday}
  Channels = {gotify}
  Reminders = {r1, galungan}
  Holidays = {galungan}
  ContactOf <- OneContact
  OccasionOf <- OnePerBirthday
  Due <- DueMixed
  Margin <- Margin9
  Choice <- NoChoice
  Settings <- WeekOrDays
  DefaultSettings <- Day
  FailBackoff = 1
  ScanGap = 9
  MaxDowntime = 1
  MaxTime = 4
  MaxFaults = 2
  Switchable = {}
SPECIFICATION Spec
PROPERTIES
  MissedOnlyPastWindow
