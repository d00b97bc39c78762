CONSTANTS
  loop = loop
  manual = manual
  ann = ann
  birthday = birthday
  r1 = r1
  galungan = galungan
  gotify = gotify
  telegram = telegram
  Scanners = {loop, manual}
  Loop = loop
  Free = Free
  Contacts = {ann}
  Occasions = {birthday}
  Channels = {gotify}
  Reminders = {r1, galungan}
  Holidays = {galungan}
  ContactOf <- OneContact
  OccasionOf <- OnePerBirthday
  Due <- DueToday
  Margin <- Margin5
  Choice <- NoChoice
  Settings <- OnlyNarrow
  DefaultSettings <- Wide
  FailBackoff = 1
  ScanGap = 1
  MaxDowntime = 1
  MaxTime = 6
  MaxFaults = 1
  Switchable = {birthday}
SPECIFICATION FairSpec
PROPERTIES
  EventuallyDecided
  LockIsReleased
