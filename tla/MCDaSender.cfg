CHECK_DEADLOCK FALSE
SPECIFICATION MCSpec
INVARIANTS
  SentCanBeMined
  MonitorIsTrue
  BuiltIsSound
