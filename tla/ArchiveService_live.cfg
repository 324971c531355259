\* Two handlers, the ticker and a manual trigger; liveness, so no symmetry.
CONSTANTS
  Clients = {c1, c2}
  Bodies = {b1}
  GenesisBody = genesis
  Threshold = 2
  KeepMin = 1
  MaxSeq = 3
  Scheduler = sched
  ApiCalls = {api1}
  Conns = {k1}
SPECIFICATION AFairSpec
INVARIANTS
  AInv
  OneArchiver
  StatusTruthful
PROPERTIES
  ShutdownOnceServed
  TriggerReturns
  EveryAppendReturns
  BacklogDrained
