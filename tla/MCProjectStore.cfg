SPECIFICATION FairSpec
CONSTANTS
  Sessions = {s1, s2}
  NoSession = NoSession
  Keys = {k1, k2}
  CommandIds = {c1, c2}
  Deltas <- OneDelta
  ExposureLimit = 1
  ExactEV = 16
  GraphSizes = {3}
  MaxNodes = 3
  MaxRevision = 2
INVARIANTS
  EditingIsMarked
  RecoveryExact
  AcknowledgedDurable
PROPERTIES
  ImplementsLedger
  LeaseIsTemporary
