\* The smallest instance in which a late append forks the chain.
CONSTANTS
  Clients = {c1, c2}
  Bodies = {b1}
  GenesisBody = genesis
  Threshold = 2
  KeepMin = 1
  MaxSeq = 3
SPECIFICATION Spec
INVARIANT SeqUnique
