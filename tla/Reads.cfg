CONSTANTS
  MaxLength = 7
  MaxSize = 1
  MaxK = 3
  MaxQueryPages = 6
  i1 = i1
  i2 = i2
  i3 = i3
  Ids = {i1, i2, i3}
  MaxBatchSize = 2
  MaxPicked = 2
  MaxChanges = 2
  MaxTotal = 3
  MaxConcurrent = 2
SPECIFICATION AnySpec
SYMMETRY IdSymmetry
INVARIANTS OwnSlot RankedReturned FoundComplete ShortMeansExhausted ListedOnce NoFalseAlarm CaughtSoon
\* A read is made once: when it has ended the system stops.
CHECK_DEADLOCK FALSE
