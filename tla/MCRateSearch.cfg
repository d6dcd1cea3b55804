SPECIFICATION FairSpec
CONSTANTS
  Setups <- MCSetups
  NumStream = 2
  StreamLen = 100
INVARIANTS
  TypeOK
  BracketHolds
  GreyRegionNested
  NeverHung
  FleetMakesRate
  ReportIsTrue
PROPERTY
  SearchEnds
CHECK_DEADLOCK FALSE
