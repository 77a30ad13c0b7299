SPECIFICATION Spec
CHECK_DEADLOCK FALSE
CONSTANTS
  NoText = NoText
  NoMessage = NoMessage
  a1 = a1
  a2 = a2
  b3 = b3
  c1 = c1
  c2 = c2
  s1 = s1
  z1 = z1
  z2 = z2
  x1 = x1
  x2 = x2
  Bodies <- MCBodies
  Pdus <- EmptySegmentPdus
  Faults = {}
  MaxArrivals = 4
INVARIANTS
  PartsWereReceived
