CONSTANTS
  c1 = c1
  c2 = c2
  MinTransactionGas = 21
  Cases <- MCCases
CHECK_DEADLOCK FALSE
SPECIFICATION MCSpec
INVARIANTS
  EstimateIsRight
  BlocksAddUp
  AnswersAgree
  TracesAreReal
