CONSTANTS
  Ids = {a, b}
  NoId = NoId
  Malformed = Malformed
  NotGiven = NotGiven
  MaxDocuments = 3
  MaxBatchSize = 3
  MaxBytes = 2
  MaxDimension = 2
  ComponentBytes = 1
  Budget = 5
  r1 = r1
  r2 = r2
  r3 = r3
  r4 = r4
  r5 = r5
  NoKey = NoKey
SPECIFICATION AnySpec
INVARIANTS PairedUp NothingLost RequestsFit OneDimension
INVARIANTS FilterAgrees FlattenAgrees RoundTrip NoOptionIgnored
\* A call is made once: when it has returned the system stops.
CHECK_DEADLOCK FALSE
