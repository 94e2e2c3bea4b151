SPECIFICATION Spec
CONSTANTS
  Sessions = {s1, s2}
  NoSession = NoSession
  Keys = {k1}
  CommandIds = {c1}
  Deltas <- OneDelta
  ExposureLimit = 1
  ExactEV = 16
  GraphSizes = {3}
  MaxNodes = 3
  MaxRevision = 1
INVARIANT
  RecoveryReported
