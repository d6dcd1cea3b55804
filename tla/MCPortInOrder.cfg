SPECIFICATION FairSpec
CONSTANTS
  NumStream = 3
  StreamLen = 4
  Period = 3
  MaxLoss = 4
  InOrder = TRUE
  CoalesceReads = FALSE
  AssertsEnabled = TRUE
  MayStop = FALSE
CHECK_DEADLOCK FALSE
INVARIANTS
  TypeOK
  FleetSummaryComplete
  MetricOfOwnStream
PROPERTIES
  ExchangeFairSpec
  AllFleetsSummarised
