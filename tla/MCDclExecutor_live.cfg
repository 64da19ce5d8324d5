SPECIFICATION FairSpec
CONSTANTS
  Calls = {plain, caught, reader}
  Updaters = {w1}
  Exclusive = {plain, caught}
  Caught = {caught, reader}
  Faults <- CallbackFaults
  Poisoning = TRUE
PROPERTIES
  EveryCallEnds
