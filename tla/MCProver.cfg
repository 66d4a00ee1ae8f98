CHECK_DEADLOCK FALSE
SPECIFICATION MCSpec
INVARIANTS
  ProvedExactlyOnce
  ProverGoesOn
  RolledBackAgrees
  PartitionsExact
