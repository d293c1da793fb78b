CONSTANTS
  None = None
  Gaps = {1, 2}
  MaxHeight = 6
SPECIFICATION FairSpec
INVARIANTS
  SearchTypeOK
  AnchorInInterval
  FailsOnlyWhenStale
  LogarithmicScan
PROPERTIES
  SearchEnds
CHECK_DEADLOCK FALSE
