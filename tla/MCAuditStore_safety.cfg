\* Two concurrent handlers, several batches: every race of append and archive.
CONSTANTS
  Clients = {c1, c2}
  Bodies = {b1, b2}
  GenesisBody = genesis
  Threshold = 2
  KeepMin = 1
  MaxSeq = 5
SYMMETRY Symmetry
SPECIFICATION Spec
INVARIANTS
  IInv
  NoGap
  ArchiveIsChain
  IdUnique
  BatchesLinked
PROPERTIES
  HeadStays
  ForkFreezesArchive
  ForkNeedsLateAppend
  ImplementsLedger
