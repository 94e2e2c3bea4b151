SPECIFICATION Spec
CONSTANTS
  Renders = {r1, r2}
  Workers = {w1, w2}
  TileCount = 3
  Graphs = {g1, g2}
  Generations = {1}
  Bytes <- TileBytes
  Capacity = 4
  MaxCalls = 2
SYMMETRY RenderSymmetry
INVARIANTS
  CacheAccountsExactly
  OnlyFinishedTiles
  RenderIsPure
  NeverStale
PROPERTY
  EveryCallReturns
CHECK_DEADLOCK FALSE
