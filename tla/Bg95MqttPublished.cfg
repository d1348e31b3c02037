SPECIFICATION Spec
CONSTANTS
  ChunkLines = 2
  Clients = {0}
  Links = {"connected"}
  Idxs = {0}
  Msgids = {0, 7}
  Qoss = {1}
  Hosts = {20}
  Fns = {"publish"}
  Echo = FALSE
  Reuse = FALSE
  Lossy = TRUE
  UrcKinds = {"urc"}
  MaxCalls = 2
  MaxUrcs = 0
CHECK_DEADLOCK FALSE
INVARIANTS PublishedIsAcked
