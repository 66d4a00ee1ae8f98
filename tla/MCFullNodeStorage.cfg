CONSTANTS
  NoCommitment = NoCommitment
  SequencerCommitments <- HonestCommitments
  BatchProofs <- HonestProofs
  L1Contents <- HonestContents
  Tangerine = 1
  L1Bound = 3
  ShortL1Bound = 2
  L2Bound = 3
  RestartBound = 1
  Distance = 1
  RollbackBound = 1
CHECK_DEADLOCK FALSE
SPECIFICATION MCSpec
INVARIANTS
  TablesStayTrue
PROPERTIES
  AllGetsFinal
