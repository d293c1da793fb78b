CONSTANTS
  None = None
  i1 = i1
  c1 = c1
  c2 = c2
  v1 = v1
  Ids <- MCIds
  Calls <- MCCalls
  Checks <- MCChecks
  Amounts = {1, 3}
  Limits = {1, 2}
  Salts = {0}
  Window = 2
  MaxTime = 6
  PolicyLimit = 2
  SubmittedOptions = {"riskReject", "omitDecision"}
  SubmittedRequests <- MCRequests
  SubmittedDecisions <- MCDecisions
SPECIFICATION VerifierSpec
SYMMETRY Symmetric
INVARIANTS
  VerifierTypeOK
  VerdictsAreFinal
  StoredEvidenceIsBelieved
  AlterationIsNoticed
CHECK_DEADLOCK FALSE
