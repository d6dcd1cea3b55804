SPECIFICATION FairSpec
CONSTANTS
  NumStream = 2
  StreamLen = 2
  Period = 1
  MaxLoss = 0
  InOrder = FALSE
  CoalesceReads = TRUE
  AssertsEnabled = TRUE
  MayStop = TRUE
CHECK_DEADLOCK FALSE
INVARIANTS
  GetMetricsIndexInBounds
  ProbeBufferSized
  OneTurn
PROPERTIES
  ExchangeSpec
  StallOnlyAtStart
  StoppedSenderDrains
