SPECIFICATION Spec
CONSTANTS
  ChunkLines = 2
  Clients = {0}
  Links = {"connected"}
  Idxs = {0}
  Msgids = {0}
  Qoss = {1}
  Hosts = {20}
  Fns = {"publish"}
  Echo = FALSE
  Reuse = FALSE
  Lossy = FALSE
  UrcKinds = {"urc", "urcgt"}
  MaxCalls = 3
  MaxUrcs = 2
CHECK_DEADLOCK FALSE
INVARIANTS SwappedIsAbandoned ReplyIsOwn
