CONSTANTS
  w1 = w1
  w2 = w2
  d1 = d1
  NoLookup = NoLookup
  Writes = {w1, w2}
  Reads = {}
  Deletes = {d1}
  Signalled = {w1, d1}
  MaxDisturbances = 0
SPECIFICATION FairSpec
PROPERTIES FiredSettles BegunSettles
\* Every call is made once: when all have settled the system stops.
CHECK_DEADLOCK FALSE
