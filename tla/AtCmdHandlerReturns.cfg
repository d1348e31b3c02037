SPECIFICATION Spec
CONSTANTS
  Tasks = {"t1", "t2"}
  Cmds = {"QMTPUB"}
  RType <- MCRType
  Parser <- MCParser
  Prompted = {"QMTPUB"}
  Timeout <- MCTimeout
  PromptTimeout = 2
  BufCap = 5
  ChunkMax = 2
  RxCap = 4
  RejectCodes = {"ESP_ERR_INVALID_ARG"}
  Echo = {}
  UrcKinds = {}
  MaxCalls = 2
  MaxUrcs = 0
CHECK_DEADLOCK FALSE
PROPERTY EveryCallReturns
