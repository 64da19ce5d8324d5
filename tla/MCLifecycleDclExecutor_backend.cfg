SPECIFICATION Spec
CONSTANTS
  Calls = {plain, caught}
  Updaters = {w1}
  Exclusive = {plain, caught}
  Caught = {plain, caught}
  Catching = {caught}
  Commits = {plain, caught}
  Rollbacks = {plain, caught}
  Reopening = {caught}
  Faults <- BackendFaults
  Poisoning = TRUE
INVARIANTS
  FinalizesOutsideGuard
  RollbackKnowsWhy
  FirstPanicDecides
  NoWaitCycle
PROPERTIES
  SkippedTaskDropsOutsideGuard
CHECK_DEADLOCK FALSE
