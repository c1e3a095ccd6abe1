SPECIFICATION ReportSpec
CONSTANTS
  Calls = {c1, c2}
  MaxBatches = 2
  MaxConcurrent = 2
INVARIANT Recovered
PROPERTY EveryCallEnds
