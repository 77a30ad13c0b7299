SPECIFICATION FairSpec
CHECK_DEADLOCK FALSE
CONSTANTS
  r1 = r1
  r2 = r2
  r3 = r3
  Requests = {r1, r2, r3}
  Terminated = {r1, r2}
  Prompts = {r2}
  MaxEnds = 2
INVARIANTS
  TypeOK
  CommandsEndAtNewline
  PrintedAtMostOnce
  PrintedIsQueued
PROPERTIES
  ImplementsQueue
  WrittenIsPrinted
