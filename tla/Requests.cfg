SPECIFICATION Spec
CONSTANTS
  Idxs = {0, 5, 6, 10, 255}
  Msgids = {0, 1, 10, 65535}
  Qoss = {0, 1, 2, 3}
  Topics = {0, 1, 126, 127, 128, 240}
  Hosts = {0, 1, 100, 101, 240}
  Ports = {0, 99, 65535}
  Ids = {0, 1, 119, 120, 121, 238, 239, 240, 256, 257}
  Creds = {0, 1, 110, 111, 112, 240, 512, 513}
  MsgLens = {0, 1, 4096, 4097, 65535}
  Values <- EdgeValues
  WillLens = {0, 100, 112, 113, 114, 255, 256}
  Cids = {0, 1, 10, 15, 16, 255}
  Apns = {0, 7, 100, 127, 128, 300}
  Options = {0, 2, 3, 5}
  Rssis = {0, 1, 2, 3, 16, 29, 30, 31, 32, 99}
  Bers = {0, 7, 8, 99}
  Strengths <- EdgeStrengths
CHECK_DEADLOCK FALSE
INVARIANTS WholeOrRefused TopicsAgree ContextReadsBack SignalIsTold
