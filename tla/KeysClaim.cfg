CONSTANTS
  Keys = {"a", "page"}
  MAX_METADATA_KEYS = 2
  FILTERABLE_BYTE_LIMIT = 24
  TOTAL_BYTE_LIMIT = 30
  MAX_NON_FILTERABLE_KEYS = 1
SPECIFICATION Spec
INVARIANT BudgetAsBuilt
CHECK_DEADLOCK FALSE
