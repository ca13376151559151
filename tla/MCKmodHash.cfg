\* A table that frees its values.
CONSTANTS
  HashKey <- MCKey
  HashOf <- MCHashOf
  Value = {v1, v2, v3, v4}
  NoValue = NULL
  NBuckets = 2
  FreeValue = TRUE
  Adds <- AddOrReplace
SPECIFICATION HashSpec
INVARIANTS Slack ValuesOwned IterComplete
PROPERTIES IsAMap
