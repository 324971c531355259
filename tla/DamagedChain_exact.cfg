CONSTANTS
  Bodies = {b1, b2}
  GenesisBody = genesis
  HeadWindow = 2
  MaxSeq = 4
  MaxDamage = 3
SPECIFICATION Spec
INVARIANTS
  DamageInv
  
  AlterationDetected
CHECK_DEADLOCK FALSE
