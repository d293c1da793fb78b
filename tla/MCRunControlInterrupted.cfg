CONSTANTS
  None = None
  a1 = a1
  a2 = a2
  r1 = r1
  r2 = r2
  Instances <- TwoInstances
  Viewers <- TwoInstances
  Runs <- TwoRuns
  DailyLimit = 1
  FunctionLimit = 1
  AgeLimit = 3
  Skew = 1
  MaxDay = 2
SPECIFICATION Spec
INVARIANTS
  InterruptedMeansUnfinished
CHECK_DEADLOCK FALSE
