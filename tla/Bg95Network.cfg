SPECIFICATION Spec
CONSTANTS
  ChunkLines = 2
  Ops = {"init", "connect", "soft_restart", "define", "activate", "is_active", "address", "sim", "signal", "quality", "operator"}
  Cids = {1, 14, 16}
  MaxCalls = 2
  MaxDrops = 1
CHECK_DEADLOCK FALSE
INVARIANTS TypeOK ConnectedHasAddress RestartTakesEffect ActiveIsFound KeyIsReleased InitMeansOnUnlessLate
