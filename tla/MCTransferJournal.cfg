CONSTANTS
  None = None
  p1 = p1
  p2 = p2
  v1 = v1
  o1 = o1
  j1 = j1
  j2 = j2
  Runs <- TwoRuns
  Verifiers = {v1}
  Others = {o1}
  Journals <- TwoJournals
  Amount = 1
  StartBalance = 2
  MaxBalance = 2
  MaxForeign = 1
SPECIFICATION Spec
SYMMETRY Symmetric
INVARIANTS
  OneTransferPerIntent
  VerifiedMeansMoved
PROPERTY JournalOnlyAdvances
CHECK_DEADLOCK FALSE
