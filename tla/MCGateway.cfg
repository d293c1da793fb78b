CONSTANTS
  None = None
  i1 = i1
  c1 = c1
  c2 = c2
  c3 = c3
  Ids <- MCIds
  Calls <- MCCalls
  Amounts = {1, 3}
  Limits = {1, 2}
  Salts = {0, 1}
  Window = 1
  MaxTime = 4
  PolicyLimit = 2
  SubmittedOptions = {"normal"}
  SubmittedRequests <- CompetingRequests
  SubmittedDecisions <- CompetingDecisions
SPECIFICATION Spec
SYMMETRY Symmetric
INVARIANTS
  TypeOK
  StoredReceiptMatchesChain
  StoredDecisionIsAnchored
  AnchoredIsRecoverable
  AnswerIsStored
  TablesAgree
PROPERTIES
  EvidenceOnlyGrows
  ImplementsLifecycle
CHECK_DEADLOCK FALSE
