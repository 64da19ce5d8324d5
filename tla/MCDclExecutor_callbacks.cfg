SPECIFICATION Spec
CONSTANTS
  Calls = {plain, caught, reader}
  Updaters = {w1}
  Exclusive = {plain, caught}
  Caught = {caught, reader}
  Faults <- CallbackFaults
  Poisoning = TRUE
INVARIANTS
  TypeOK
  SerializedTasks
  NoStaleTask
  UnwoundGuardPoisons
  OutcomeTellsWhatHappened
  CatchingAbortsOnlyInLockedPhase
PROPERTIES
  ImplementsGatedWork
  SkippedTaskDropsOutsideGuard
