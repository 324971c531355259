CONSTANTS
  Clients = {c1}
  Bodies = {b1}
  GenesisBody = genesis
  Threshold = 2
  KeepMin = 1
  MaxSeq = 2
  Scheduler = sched
  ApiCalls = {api1}
  Conns = {k1}
SPECIFICATION AFairSpec
PROPERTY ShutdownCompletes
