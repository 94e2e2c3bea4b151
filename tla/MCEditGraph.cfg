SPECIFICATION Spec
CONSTANTS
  Ids = {1, 2, 3, 4}
  MaxInputs = 1
  MaxNodes = 6
INVARIANTS
  ValidatorsAgree
  AcceptedIsCompiled
  ExposureIsLast
  StoredIsCanonical
CHECK_DEADLOCK FALSE
