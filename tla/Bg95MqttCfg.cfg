SPECIFICATION Spec
CONSTANTS
  ChunkLines = 2
  Clients = {0, 5}
  Idxs = {0, 5, 6}
  Types = {"pdpcid", "ssl", "keepalive", "session", "timeout", "will", "recv_mode"}
  Values <- MCValues
  Echo = TRUE
  MaxCalls = 2
CHECK_DEADLOCK FALSE
INVARIANTS TypeOK SetTakesEffect QueryIsCurrent
