CONSTANTS
  phone = phone
  mail = mail
  inherit = inherit
  ahead = ahead
  AllChannels = {phone, mail}
  Offsets = {inherit, ahead}
  NoOffsets = inherit
  Defaults = {mail}
  FirstPrefs <- MCActivePrefs
  MaxRequests = 1
  MaxUpsets = 1
SPECIFICATION PrefsSpec
INVARIANTS
  NoSelectionUsesDefaults
