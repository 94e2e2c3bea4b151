SPECIFICATION CliSpec
CONSTANTS
  Sessions = {s1, s2}
  NoSession = NoSession
  Keys <- CliKeys
  CommandIds <- CliCommandIds
  Deltas <- CliDeltas
  EditRequests <- OneUndo
  ExposureLimit = 20
  ExactEV = 64
  GraphSizes = {3}
  MaxNodes = 8
  MaxRevision = 3
INVARIANTS
  PrintedIsCommitted
  VerdictsAreTrue
  NeverWaits
PROPERTIES
  OnlyEditorsCommit
