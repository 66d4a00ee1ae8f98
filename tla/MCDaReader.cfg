CHECK_DEADLOCK FALSE
SPECIFICATION MCSpec
INVARIANTS
  InscriptionsReadBack
  ProofsReadAlike
  BlockProofsExact
  HeadersAsBitcoin
