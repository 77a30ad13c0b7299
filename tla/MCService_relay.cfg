SPECIFICATION ServiceSpec
CHECK_DEADLOCK FALSE
CONSTANTS
  Nothing = Nothing
  NoText = NoText
  NoMessage = NoMessage
  m1 = m1
  m2 = m2
  m3 = m3
  m4 = m4
  s1 = s1
  c1 = c1
  a1 = a1
  a2 = a2
  b3 = b3
  Messages = {m1, m2, m3, m4}
  Slots = {s1}
  OtherPlaces = {}
  Requests = {c1}
  Strict = {}
  MaxCalls = 0
  MaxRestarts = 1
  MaxResets = 1
  MayTimeOut = TRUE
  BusyCodes = TRUE
  MailMayFail = TRUE
  Bodies <- MCBodies
  Pdus <- MCPdus
  Pdu <- MCPdu
  Faults = {"config", "curlInit", "smtp", "restart"}
  MaxArrivals = 4
  MaxDisturbances = 1
INVARIANTS
  SentOnce
  NothingLost
PROPERTIES
  StoredIsHandled
  LongSmsRelayed
