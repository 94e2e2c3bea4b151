SPECIFICATION LedgerSpec
CONSTANTS
  Keys <- SevenKeys
  CommandIds <- SevenCommands
  Deltas <- RoundingDeltas
  ExposureLimit = 10
  ExactEV = 8
  GraphSizes = {2}
  MaxNodes = 8
  MaxRevision = 2
CONSTRAINT UsedInOrder
INVARIANT
  AlwaysMigratable
CHECK_DEADLOCK FALSE
