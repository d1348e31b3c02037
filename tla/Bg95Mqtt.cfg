SPECIFICATION Spec
CONSTANTS
  ChunkLines = 2
  Clients = {0, 1}
  Links = {"closed", "open", "connected"}
  Idxs = {0, 1, 6}
  Msgids = {0, 7}
  Qoss = {1}
  Hosts = {20}
  Fns = {"open", "close", "connect", "disconnect", "publish", "subscribe", "unsubscribe", "open_status", "connection_state"}
  Echo = TRUE
  Reuse = TRUE
  Lossy = TRUE
  UrcKinds = {"urc"}
  MaxCalls = 2
  MaxUrcs = 0
CHECK_DEADLOCK FALSE
INVARIANTS TypeOK ResultsExact CheckedReplyIsOwn StateIsTold NotFoundIsShadowed
