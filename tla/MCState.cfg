CONSTANTS
  None = None
  ForkList <- ForksFromStart
  KnownPrev = TRUE
  MaxHeight = 4
  FaultBound = 0
  AlterBound = 2
CHECK_DEADLOCK FALSE
SPECIFICATION MCSpec
INVARIANTS
  CircuitProvesChain
  ExecutionsAgree
  StorageReadsBack
  BackupsRestore
