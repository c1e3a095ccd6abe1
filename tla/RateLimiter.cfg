CONSTANTS
  a = a
  b = b
  c = c
  NoRequest = NoRequest
  Requests = {a, b, c}
  Counts = {1, 4}
  Signalled = {a}
  VectorRefill = 1
  RequestRefill = 1
  RequestCost = 2
  TicksPerSecond = 2
  MaxElapsed = 8
SPECIFICATION FairSpec
INVARIANTS TypeOK RateHeld WaitsAreFree NoIdleBudget
PROPERTIES NoOvertaking EveryoneLeaves
\* Every request is made once: when all have left the line the system stops.
CHECK_DEADLOCK FALSE
