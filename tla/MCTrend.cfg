SPECIFICATION Spec
CONSTANTS
  stream_len = 100
  time_interval = 100
  rcv_latency = 6
  MIN_TIME_INTERVAL = 7
  MIN_PARTITIONED_STREAM_LEN = 5
  HIGH_LOSS_RATE = 15
  StampRange = 1048576
  Situations <- MCSituations
  Streams <- MCStreams
  num_stream = 2
  MEDIUM_LOSS_RATE = 3
  MAX_LOSSY_STREAM_FRACTION = 50
  MIN_STREAM_LEN = 36
  TREND_ARRAY_LEN = 4
CHECK_DEADLOCK FALSE
INVARIANTS
  TypeOK
  TrendArrayFits
  TestsApply
  SteadyNotIncreasing
  RisingIsIncreasing
  MeanIntervalIsPeriod
  PortSeesRise
