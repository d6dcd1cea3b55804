SPECIFICATION Spec
CONSTANTS
  Setups <- RepeatSetups
  NumStream = 2
  StreamLen = 100
PROPERTY
  RepeatedFleetIsSent
CHECK_DEADLOCK FALSE
