SPECIFICATION Spec
CONSTANTS
  Callers = {c1, c2}
  Keys = {k1, k2, k3, k4}
  CommandIds = {i1, i2}
  Deltas <- OneDelta
  ExposureLimit = 1
  ExactEV = 16
  GraphSizes = {3}
  MaxNodes = 3
  MaxRevision = 3
  MaxSafeRevision = 2
  FirstExpected = {0, 3}
  MaxLosses = 2
INVARIANT
  ResultIsCommitted
PROPERTIES
  KeepsPromise
  EveryCallerIsTold
CHECK_DEADLOCK FALSE
