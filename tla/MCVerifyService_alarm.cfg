CONSTANTS
  Clients = {c1}
  Bodies = {b1}
  GenesisBody = genesis
  Threshold = 2
  KeepMin = 1
  MaxSeq = 2
  HeadWindow = 2
  VerifyRequests <- FullOnly
SPECIFICATION VSpec
INVARIANT NoFalseAlarm
