SPECIFICATION ApartSpec
CONSTANTS
  c1 = c1
  c2 = c2
  w1 = w1
  w2 = w2
  Callers = {c1, c2}
  Wraps = {w1, w2}
  FinishedLimit = 1
  AgentLimit = 1
  MaxStarts = 3
INVARIANT TypeOK
INVARIANT NoJobLeftRunning
INVARIANT OneSlotJob
INVARIANT FinishedFindable
PROPERTY EveryStartAnswered
CHECK_DEADLOCK FALSE
