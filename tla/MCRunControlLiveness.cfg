CONSTANTS
  None = None
  a1 = a1
  a2 = a2
  r1 = r1
  r2 = r2
  Instances <- TwoInstances
  Viewers = {}
  Runs <- TwoRuns
  DailyLimit = 2
  FunctionLimit = 1
  AgeLimit = 3
  Skew = 1
  MaxDay = 1
SPECIFICATION FairSpec
PROPERTIES
  SettledEventually
CHECK_DEADLOCK FALSE
