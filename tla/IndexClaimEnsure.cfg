SPECIFICATION ClaimSpec
CONSTANTS
  Writes = {w1, w2}
  Reads = {}
  Deletes = {d1}
  Signalled = {}
  NoLookup = NoLookup
  MaxDisturbances = 0
PROPERTIES
  EnsuredIndexExisted
CHECK_DEADLOCK FALSE
