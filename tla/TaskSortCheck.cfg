CONSTANTS
  N = 3
  Ids = {1, 2, 3, 4}
SPECIFICATION Spec
INVARIANTS
  SortKeepsEveryTask
  SortedTableUnchanged
