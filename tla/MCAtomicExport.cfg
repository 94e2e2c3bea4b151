SPECIFICATION Spec
CONSTANTS
  Exporters = {e1, e2}
  Foreign = Foreign
  Unsafe = Unsafe
  Nothing = Nothing
  MaxChunks = 2
  MaxCalls = 2
  MaxForeign = 1
SYMMETRY ExportSymmetry
INVARIANTS
  NeverPartial
  OutcomeIsTrue
  CancelInTimeWins
PROPERTY
  RefuseNeverReplaces
CHECK_DEADLOCK FALSE
