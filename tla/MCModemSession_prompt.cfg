SPECIFICATION Spec
CHECK_DEADLOCK FALSE
CONSTANTS
  Nothing = Nothing
  m1 = m1
  m2 = m2
  s1 = s1
  s2 = s2
  c1 = c1
  c2 = c2
  Messages = {}
  Slots = {s1}
  OtherPlaces = {}
  Requests = {c1, c2}
  Strict = {}
  MaxCalls = 0
  MaxRestarts = 0
  MaxResets = 0
  MayTimeOut = FALSE
  BusyCodes = FALSE
  MailMayFail = FALSE
INVARIANTS
  PromptAnswersItsCommand
