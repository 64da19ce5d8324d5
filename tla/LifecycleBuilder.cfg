SPECIFICATION Spec
CONSTANTS
  Values = {e1, e2, e3}
  Callbacks = {f, g}
INVARIANTS
  BuiltHasFinalizer
  RegisteredReachesExecutor
