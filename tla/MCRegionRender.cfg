SPECIFICATION Spec
CONSTANTS
  MaxCoordinate = 7
  MaximumTileSize = 3
  MaximumTiles = 5
  Maximum = 6
  Unit = 512
  Significand = 64
  MaxExponent = 8
  ExposureLimit = 8
  Exp2 <- HalfSteps
  CurveUnit = 4
  Width = 3
  Height = 2
  Source <- SmallSource
  Masks <- SmallMasks
  Requests <- SmallRequests
  MaximumOutput = 6
  MaximumTransient = 4
  MaximumWorkers = 2
  MaxCalls = 2
INVARIANTS
  TilesFit
  ImageIsRegion
  ExportIsFaithful
CHECK_DEADLOCK FALSE
