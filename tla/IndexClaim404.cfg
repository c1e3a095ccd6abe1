SPECIFICATION ClaimSpec
CONSTANTS
  Writes = {w1}
  Reads = {}
  Deletes = {d1}
  Signalled = {d1}
  NoLookup = NoLookup
  MaxDisturbances = 1
INVARIANTS
  NextWriteLooksAgain
CHECK_DEADLOCK FALSE
