SPECIFICATION Spec
CONSTANTS
  Tasks = {"t1"}
  Cmds = {"QMTOPEN"}
  RType <- MCRType
  Parser <- MCParser
  Prompted = {}
  Timeout <- MCTimeout
  PromptTimeout = 2
  BufCap = 5
  ChunkMax = 3
  RxCap = 4
  RejectCodes = {"ESP_ERR_INVALID_ARG"}
  Echo = {"okecho"}
  UrcKinds = {}
  MaxCalls = 1
  MaxUrcs = 0
CHECK_DEADLOCK FALSE
INVARIANT SuccessIsNotError
