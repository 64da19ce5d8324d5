SPECIFICATION Spec
CONSTANTS
  Calls = {plain, caught, reader}
  Updaters = {}
  Exclusive = {plain, caught}
  Caught = {plain, caught, reader}
  Catching = {caught, reader}
  Commits = {plain, reader}
  Rollbacks = {plain, caught}
  Reopening = {plain, caught}
  Faults <- BackendFaults
  Poisoning = TRUE
INVARIANTS
  TypeOK
  FinalizerMatchesTask
  OutcomeTellsWhatHappened
PROPERTIES
  ImplementsGatedWork
CHECK_DEADLOCK FALSE
