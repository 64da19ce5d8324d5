SPECIFICATION Spec
CONSTANTS
  Callers = {c1, c2, c3}
  Writers = {w1, w2}
  Exclusive = {c1, c2}
  Acquiring = {c1, c3}
  Releasing = {c1, w1}
INVARIANTS
  TypeOK
  SecondCheckSeesLatest
  OpeningsConsumedOnce
  RejectionSeesWork
PROPERTIES
  NoDataRace
  ImplementsGatedWork
