SPECIFICATION FairSpec
CONSTANTS
  Setups <- MCSetups
  MAX_TRAIN = 4
  TRAIN_LEN = 1
  TrainCut = 0
  NumStream = 2
  StreamLen = 2
  HIGH_LOSS_RATE = 100
  MEDIUM_LOSS_RATE = 50
  LatencyProbes = 1
  MaxFleets = 2
  MaxSessions = 2
CHECK_DEADLOCK FALSE
INVARIANTS
  TypeOK
  StreamIdsAgree
  SamplesOfOwnStream
  LossCounted
  AdrOfOneTrain
  DesertedOnlyThen
PROPERTIES
  ResendOnlyToNobody
  SenderReturns
  ReceiverEnds
