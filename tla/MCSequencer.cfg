CONSTANTS
  k1 = k1
  k2 = k2
  Keys = {k1, k2}
  DiffLimit = 1
  MaxL2Blocks = 2
  MempoolLimit = 1
  HeadBound = 3
  StopBound = 2
  HaltBound = 1
  RollBound = 1
CHECK_DEADLOCK FALSE
SPECIFICATION MCSpec
INVARIANTS
  OneCommitmentPerIndex
  CutsFollowDiffs
  L1BlocksInOrder
  StoresKeepUp
