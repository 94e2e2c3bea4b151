SPECIFICATION LedgerSpec
CONSTANTS
  Keys <- SevenKeys
  CommandIds <- SevenCommands
  Deltas <- SmallDeltas
  ExposureLimit = 2
  ExactEV = 16
  GraphSizes = {2, 5}
  MaxNodes = 4
  MaxRevision = 6
CONSTRAINT UsedInOrder
INVARIANTS
  TypeOK
  TablesAgree
  ReplayTableExact
  AlwaysOpenable
  AlwaysMigratable
PROPERTIES
  NothingRewritten
  UndoRedoInverse
CHECK_DEADLOCK FALSE
