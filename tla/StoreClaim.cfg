SPECIFICATION ReportSpec
CONSTANTS
  Calls = {c1, c2}
  MaxBatches = 1
  MaxConcurrent = 1
INVARIANT RecoveredAsStated
