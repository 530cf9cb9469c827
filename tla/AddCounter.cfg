SPECIFICATION Spec
CONSTANTS
  MaxThreads = 2
  MaxIters = 3
  SyncTypes = {"n", "m", "s", "c"}
INVARIANTS TypeOK MutualExclusion CounterRight
PROPERTIES AddsAreAtomic Termination
