SPECIFICATION Spec
CONSTANTS
  Procs = {i1, i2}
  Paths = {p1, p2}
  Documents = {d1, d2, d3}
  Nobody = Nobody
  Nothing = Nothing
  MaxFacts = 1
  MaxCrashes = 1
SYMMETRY PublicationSymmetry
INVARIANTS
  PublishedComplete
  MigrationFaithful
  ConflictIsReal
  SessionIsAskedFor
PROPERTY
  NeverReplaced
CHECK_DEADLOCK FALSE
