SPECIFICATION Spec
CONSTANTS
  Calls = {plain, caught}
  Updaters = {w1, w2}
  Exclusive = {plain, caught}
  Caught = {caught}
  Faults <- BackendFaults
  Poisoning = TRUE
INVARIANTS
  FirstPanicReported
  NoWaitCycle
CHECK_DEADLOCK FALSE
