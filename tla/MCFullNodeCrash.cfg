CONSTANTS
  NoCommitment = NoCommitment
  SequencerCommitments <- MCCommitments
  BatchProofs <- MCProofs
  L1Contents <- CrashContents
  Tangerine = 1
  L1Bound = 3
  L2Bound = 3
  RestartBound = 1
CHECK_DEADLOCK FALSE
SPECIFICATION CrashSpec
INVARIANTS
  CommittedChain
  ProvenIsBacked
PROPERTIES
  FinalityNeverReverts
  CanonicalCommitmentKept
  ScannedHistoryFrozen
