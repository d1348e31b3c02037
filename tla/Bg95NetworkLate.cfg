SPECIFICATION Spec
CONSTANTS
  ChunkLines = 2
  Ops = {"init", "signal"}
  Cids = {1}
  MaxCalls = 1
  MaxDrops = 0
CHECK_DEADLOCK FALSE
INVARIANTS InitMeansOn
