CONSTANTS
  NoCommitment = NoCommitment
  SequencerCommitments <- MCCommitments
  BatchProofs <- MCProofs
  Decompress <- MCDecompress
  InitialMethodIds <- MCInitialMethodIds
  MaxCompressedBlobSize = 2
  QueueLimit = 2
  L1Contents <- AllContents
  L1Bound = 4
  FailBound = 2
  RestartBound = 2
CHECK_DEADLOCK FALSE
SPECIFICATION MCSpec
INVARIANTS
  OutputMatchesL1
  GracefulGoesOn
  StartsFromGenesisOnce
PROPERTIES
  StoredProofKept
