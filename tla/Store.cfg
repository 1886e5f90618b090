\* Three writes to two keys in each of the three databases.
CONSTANTS
  Keys = {1, 2}
  MaxWrites = 3
  MaxMemLevel = 1
  GrandLimit = 1
  ExpandLimit = 9
  Deletes = {TRUE, FALSE}
SPECIFICATION Spec
INVARIANTS NewerAbove LiveFilesExist
PROPERTY ImplementsStore
CHECK_DEADLOCK FALSE
