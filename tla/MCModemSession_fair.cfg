SPECIFICATION FairSpec
CHECK_DEADLOCK FALSE
CONSTANTS
  Nothing = Nothing
  m1 = m1
  m2 = m2
  s1 = s1
  s2 = s2
  c1 = c1
  c2 = c2
  Messages = {m1}
  Slots = {s1, s2}
  OtherPlaces = {s2}
  Requests = {c1}
  Strict = {}
  MaxCalls = 1
  MaxRestarts = 1
  MaxResets = 1
  MayTimeOut = TRUE
  BusyCodes = TRUE
  MailMayFail = TRUE
INVARIANTS
  PromptedAtMostOnce
PROPERTIES
  ImplementsCall
  LoopReturns
