SPECIFICATION FairSpec
CONSTANTS
  NumStream = 2
  StreamLen = 2
  Period = 1
  MaxLoss = 2
  InOrder = TRUE
  CoalesceReads = FALSE
  AssertsEnabled = FALSE
  MayStop = FALSE
CHECK_DEADLOCK FALSE
PROPERTIES
  ReceiverToldPacketSize
