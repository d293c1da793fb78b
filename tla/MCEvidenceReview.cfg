CONSTANTS
  None = None
  i1 = i1
  i2 = i2
  k1 = k1
  k2 = k2
  f1 = f1
  f2 = f2
  c1 = c1
  c2 = c2
  Instances = {i1, i2}
  Calls = {k1, k2}
  Deployments <- OneOrTwo
  Misconfigured = {}
  Prerequisites = {"gas"}
  MaxFaults = 1
  Files = {f1, f2}
  Unreadable = {f2}
  Cases = {c1, c2}
SPECIFICATION FairSpec
INVARIANTS
  ServedPolicyIsStored
  ReportIsOfWhatIsShown
PROPERTY StartIsRetried
