SPECIFICATION FairSpec
CONSTANTS
  Calls = {plain, caught}
  Updaters = {w1}
  Exclusive = {plain, caught}
  Caught = {plain, caught}
  Catching = {caught}
  Commits = {plain}
  Rollbacks = {plain, caught}
  Reopening = {plain, caught}
  Faults <- CallbackFaults
  Poisoning = TRUE
PROPERTIES
  ImplementsTokenLifecycle
