SPECIFICATION Spec
CONSTANTS
  NumStream = 12
  StreamLen = 100
  TimeInterval = 80
  LastFleet = 3
  Answers <- MCAnswers
CHECK_DEADLOCK FALSE
PROPERTIES
  PausedAfterFleet
