SPECIFICATION Spec
CONSTANTS
  Tasks = {"t1"}
  Cmds = {"CFUN", "QMTCFG", "CGPADDR", "QMTPUB"}
  RType <- MCRType
  Parser <- MCParser
  Prompted = {"QMTPUB"}
  Timeout <- MCTimeout
  PromptTimeout = 2
  BufCap = 5
  ChunkMax = 3
  RxCap = 4
  RejectCodes = {"ESP_ERR_INVALID_ARG"}
  Echo = {"echo"}
  UrcKinds = {"urcgt"}
  MaxCalls = 2
  MaxUrcs = 1
CHECK_DEADLOCK FALSE
INVARIANTS TypeOK QuietInv QuietCallOwnReply QuietVerdictIsExact SyncUnlessAbandoned UnabandonedOwnReply
PROPERTY ImplementsAtCall
