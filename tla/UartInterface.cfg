SPECIFICATION Spec
CONSTANTS
  Ports = {1, 2}
  ReadCap = 3
  MaxOps = 3
  MaxPieces = 3
CHECK_DEADLOCK FALSE
INVARIANTS WorkingStaysWorking FailedInitIsUndone PassedTestIsNew
