SPECIFICATION Spec
CONSTANTS
  Setups <- LateSetups
  NumStream = 2
  StreamLen = 100
PROPERTY
  ConvergedEnds
CHECK_DEADLOCK FALSE
