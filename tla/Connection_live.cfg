\* Three goroutines, each in any operation; liveness, so no symmetry.
CONSTANTS
  Goroutines = {g1, g2, g3}
  Nobody = nobody
SPECIFICATION FairSpec
INVARIANT NoHoldAndWait
PROPERTY EveryCallReturns
