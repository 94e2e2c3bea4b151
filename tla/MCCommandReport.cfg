SPECIFICATION CliSpec
CONSTANTS
  Sessions = {s1}
  NoSession = NoSession
  Keys <- CliKeys
  CommandIds <- CliCommandIds
  Deltas <- CliDeltas
  EditRequests <- OneUndo
  ExposureLimit = 20
  ExactEV = 64
  GraphSizes = {3}
  MaxNodes = 8
  MaxRevision = 3
INVARIANT
  ReportsModification
