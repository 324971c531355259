\* Two handlers, a request of every mode, crashes and power losses.
CONSTANTS
  Clients = {c1, c2}
  Bodies = {b1}
  GenesisBody = genesis
  Threshold = 2
  KeepMin = 1
  MaxSeq = 3
  HeadWindow = 2
  VerifyRequests <- EachMode
SYMMETRY Symmetry
SPECIFICATION DSpec
INVARIANTS
  DInv
  NoFalseBreak
  OkCoversHead
  MismatchMeansGrowth
  LinkedBatchesIntact
  SchemaWhole
PROPERTIES LossIsTail
