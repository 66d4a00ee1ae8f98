CONSTANTS
  NoCommitment = NoCommitment
  SequencerCommitments <- MCCommitments
  BatchProofs <- MCProofs
  L1Contents <- ConflictContents
  Tangerine = 1
  L1Bound = 3
  L2Bound = 4
  RestartBound = 1
CHECK_DEADLOCK FALSE
SPECIFICATION Spec
INVARIANTS
  HighestUpToL1
  NeverPanics
PROPERTIES
  ImplementsFinality
