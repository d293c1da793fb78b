CONSTANTS
  c1 = c1
  c2 = c2
  Cases = {c1, c2}
  AtStart <- BothRepositories
  None = None
  MaxLoads = 2
  MaxLists = 2
SPECIFICATION Spec
INVARIANT FormReturns
CHECK_DEADLOCK FALSE
