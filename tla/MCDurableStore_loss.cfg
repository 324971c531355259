\* The smallest instance in which an acknowledged row is lost.
CONSTANTS
  Clients = {c1}
  Bodies = {b1}
  GenesisBody = genesis
  Threshold = 2
  KeepMin = 1
  MaxSeq = 2
  HeadWindow = 2
  VerifyRequests = {}
SPECIFICATION DSpec
INVARIANT AckSurvives
