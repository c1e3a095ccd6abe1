CONSTANTS
  MaxBatches = 4
  MaxRuns = 2
  MaxTotal = 8
  MaxBatched = 6
  MaxConcurrent = 3
SPECIFICATION AnySpec
INVARIANTS FirstAlone EmbeddingPauses
PROPERTIES AbortStopsWrite IsPartialWrite Ends
\* A call is made once: when it has returned the system stops.
CHECK_DEADLOCK FALSE
