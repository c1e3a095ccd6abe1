CONSTANTS
  w1 = w1
  w2 = w2
  r1 = r1
  d1 = d1
  NoLookup = NoLookup
  Writes = {w1, w2}
  Reads = {r1}
  Deletes = {d1}
  Signalled = {}
  MaxDisturbances = 2
SPECIFICATION Spec
SYMMETRY UnsignalledSymmetry
INVARIANTS OneLookup NeverRemembersGone RememberedAgrees
PROPERTIES NoResurrection ImplementsMemory
\* Every call is made once: when all have settled the system stops.
CHECK_DEADLOCK FALSE
