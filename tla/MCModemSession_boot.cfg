SPECIFICATION FairSpec
CHECK_DEADLOCK FALSE
CONSTANTS
  Nothing = Nothing
  m1 = m1
  m2 = m2
  s1 = s1
  s2 = s2
  c1 = c1
  c2 = c2
  Messages = {m1}
  Slots = {s1}
  OtherPlaces = {}
  Requests = {}
  Strict = {}
  MaxCalls = 0
  MaxRestarts = 0
  MaxResets = 0
  MayTimeOut = FALSE
  BusyCodes = TRUE
  MailMayFail = FALSE
PROPERTIES
  StoredIsRelayed
