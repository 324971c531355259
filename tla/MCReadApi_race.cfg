CONSTANTS
  Clients = {c1, c2}
  Bodies = {b1}
  GenesisBody = genesis
  Threshold = 2
  KeepMin = 1
  MaxSeq = 4
  IntMax = 15
  SizeCap = 2
  DefaultSize = 1
  Radius = 1
  Sizes = {3}
  Pages = {2, 9}
  Filters <- SomeFilters
SYMMETRY Symmetry
SPECIFICATION RSpec
INVARIANTS
  RInv
  StatsConsistent
  ContextFound
  ExportExact
  PageExact
  WalkComplete
  BatchWalkComplete
  ActiveWalkOrdered
