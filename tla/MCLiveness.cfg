CHECK_DEADLOCK FALSE
SPECIFICATION MCSpec
PROPERTIES
  SequencerGetsOn
  ProversGetOn
  ServicesGetOn
