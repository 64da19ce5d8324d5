SPECIFICATION TxFairSpec
CONSTANTS
  c1 = c1
  c2 = c2
  c3 = c3
  u1 = u1
  u2 = u2
  u3 = u3
  Calls = {c1, c2, c3}
  Updaters = {u1, u2, u3}
  Exclusive = {c1, c2, c3}
  Caught = {c1, c2, c3}
  Catching = {c2}
  Commits = {c1, c2, c3}
  Rollbacks = {c1, c2, c3}
  Reopening = {}
  Faults <- ApplicationFaults
  Poisoning = TRUE
  CallOf <- ThreeCallers
  Uncertain = TRUE
INVARIANTS
  TxTypeOK
  WorkInOnePlace
  OutcomeTellsCommit
PROPERTIES
  ClaimsSettle
  ImplementsOneRecord
