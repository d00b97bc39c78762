CONSTANTS
  loop = loop
  manual = manual
  ann = ann
  birthday = birthday
  r1 = r1
  galungan = galungan
  gotify = gotify
  telegram = telegram
  Scanners = {loop, manual}
  Loop = loop
  Free = Free
  Contacts = {ann}
  Occasions = {birthday}
  Channels = {gotify, telegram}
  Reminders = {r1, galungan}
  Holidays = {galungan}
  ContactOf <- OneContact
  OccasionOf <- OnePerBirthday
  Due <- DueMixed
  Margin <- Margin1
  Choice <- AnnByGotify
  Settings <- OnlyHour
  DefaultSettings <- Hour
  FailBackoff = 1
  ScanGap = 1
  MaxDowntime = 1
  MaxTime = 9
  MaxFaults = 2
  Switchable = {}
SPECIFICATION QuietSpec
INVARIANTS
  CaughtUp
