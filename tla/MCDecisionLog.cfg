CONSTANTS
  a = a
  b = b
  c = c
  Copies = {a, b, c}
  Issuers = {"k1", "k2"}
  IssuerOf <- IssuerOfCopies
  AgentKeys = {"a1", "a2"}
  AllowedAgents = {"a1"}
  EnterpriseKeys = {"e1", "e2"}
  Requests <- SubmittedRequests
  Policies <- SignedPolicies
  Times = {1, 2}
  WitnessKey = "w"
  AllowedIssuers = {"k1", "k2"}
  Absent = Absent
  MaxEntries = 3
  MaxAnchors = 3
SPECIFICATION Spec
SYMMETRY Symmetric
INVARIANTS
  LogTypeOK
  ExportsVerify
  VerifiedMeansAnswered
  PinFixesHistory
  AuditorsAgree
  HistoryVerifies
  HonestIssuerIsNotRefused
CHECK_DEADLOCK FALSE
