SPECIFICATION Spec
CHECK_DEADLOCK FALSE
CONSTANTS
  r1 = r1
  r2 = r2
  r3 = r3
  Requests = {r1}
  Terminated = {r1}
  Prompts = {}
  MaxEnds = 1
INVARIANTS
  KeepsListening
