SPECIFICATION Spec
CONSTANTS
  n_threads = 2
  n_iterations = 2
  n_lists = 2
  SyncTypes = {"n", "m", "s"}
  Keys = {1, 2, 3}
  KeySum <- MCKeySum
  KeyChoices <- MCKeyChoices
INVARIANTS TypeOK NoWildPointers MutualExclusion LengthIsExact NeverCorrupt
           FreeListsIntact LocksCounted
PROPERTIES ImplementsSets Termination
