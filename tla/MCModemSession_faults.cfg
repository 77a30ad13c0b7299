SPECIFICATION Spec
CHECK_DEADLOCK FALSE
SYMMETRY Interchangeable
CONSTANTS
  Nothing = Nothing
  m1 = m1
  m2 = m2
  s1 = s1
  s2 = s2
  c1 = c1
  c2 = c2
  Messages = {m1, m2}
  Slots = {s1, s2}
  OtherPlaces = {}
  Requests = {c1}
  Strict = {c1}
  MaxCalls = 1
  MaxRestarts = 1
  MaxResets = 0
  MayTimeOut = TRUE
  BusyCodes = TRUE
  MailMayFail = TRUE
INVARIANTS
  TypeOK
  RelayedAtMostOnce
  DeletedAfterReadOut
