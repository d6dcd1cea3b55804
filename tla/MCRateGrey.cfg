SPECIFICATION Spec
CONSTANTS
  Setups <- LowSetups
  NumStream = 2
  StreamLen = 100
INVARIANT
  ReportedGreyIsKnown
CHECK_DEADLOCK FALSE
