---------------------------- MODULE EvidenceStore ----------------------------
(***************************************************************************)
(* The Supabase tables and persist_evidence_bundle, the one database       *)
(* transaction through which the gateway writes them (final version of the *)
(* function, 20260920112749_case_numbers.sql).  The advisory locks on the  *)
(* policy and on the request make it atomic, so it is one action here.     *)
(***************************************************************************)
EXTENDS EvidenceRecords

VARIABLES
  policyRow,    \* policies: the one seeded policy, or None
  requestRow,   \* requests.record by request id, or None
  caseNumber,   \* requests.case_number by request id, 0 when there is no row
  nextCase,     \* request_case_number_seq: the number nextval returns next
  receiptRow,   \* verification_receipts.record
  decisionRow,  \* decisions.record
  anchorRow,    \* anchors: the request and the decision transaction
  bundleRow     \* evidence_bundles.record: what getBundle returns

storeVars == <<policyRow, requestRow, caseNumber, nextCase,
               receiptRow, decisionRow, anchorRow, bundleRow>>

NoRows == [i \in Ids |-> None]

StoreInit(policy) ==
  /\ policyRow = policy
  /\ requestRow = NoRows
  /\ caseNumber = [i \in Ids |-> 0]
  /\ nextCase = 1
  /\ receiptRow = NoRows
  /\ decisionRow = NoRows
  /\ anchorRow = NoRows
  /\ bundleRow = NoRows

\* An evidence bundle, as EvidenceBundleSchema nests it.
Bundle(policy, request, receipt, decision, requestTx, decisionTx) ==
  [policy |-> policy, request |-> request, receipt |-> receipt, decision |-> decision,
   requestTx |-> requestTx, decisionTx |-> decisionTx]

BundleId(b) == b.request.id

\* Mutant of Downgrades: a pending bundle may overwrite a completed one.
NeverDowngrades(b) == FALSE

\* A bundle without a decision may not replace one that has a decision.
Downgrades(b) ==
  /\ b.decision = None
  /\ bundleRow[BundleId(b)] # None
  /\ bundleRow[BundleId(b)].decision # None

Differs(row, record) == row # None /\ row # record

\* The records are compared whole, signatures included ("is distinct from").
ConflictsWithRows(b) ==
  \/ Differs(policyRow, b.policy)
  \/ Differs(requestRow[BundleId(b)], b.request)
  \/ Differs(receiptRow[BundleId(b)], b.receipt)
  \/ b.decision # None /\ Differs(decisionRow[BundleId(b)], b.decision)

PersistRefused(b) == Downgrades(b) \/ ConflictsWithRows(b)

KeepRow(row, record) == IF row = None THEN record ELSE row

\* Mutant of PersistBundle: the anchors row is inserted once and never updated.
PersistStaleAnchors(b) ==
  LET i == BundleId(b)
      isNew == requestRow[i] = None
  IN
  /\ ~PersistRefused(b)
  /\ policyRow' = KeepRow(policyRow, b.policy)
  /\ requestRow' = [requestRow EXCEPT ![i] = KeepRow(@, b.request)]
  /\ caseNumber' = IF isNew THEN [caseNumber EXCEPT ![i] = nextCase] ELSE caseNumber
  /\ nextCase' = IF isNew THEN nextCase + 1 ELSE nextCase
  /\ receiptRow' = [receiptRow EXCEPT ![i] = KeepRow(@, b.receipt)]
  /\ anchorRow' = [anchorRow EXCEPT
       ![i] = KeepRow(@, [requestTx |-> b.requestTx, decisionTx |-> b.decisionTx])]
  /\ decisionRow' = IF b.decision = None THEN decisionRow
                    ELSE [decisionRow EXCEPT ![i] = KeepRow(@, b.decision)]
  /\ bundleRow' = [bundleRow EXCEPT ![i] = b]

\* The transaction commits: absent rows are inserted, the anchors row and the
\* bundle row are overwritten, and a new request takes the next case number.
PersistBundle(b) ==
  LET i == BundleId(b)
      isNew == requestRow[i] = None
  IN
  /\ ~PersistRefused(b)
  /\ policyRow' = KeepRow(policyRow, b.policy)
  /\ requestRow' = [requestRow EXCEPT ![i] = KeepRow(@, b.request)]
  /\ caseNumber' = IF isNew THEN [caseNumber EXCEPT ![i] = nextCase] ELSE caseNumber
  /\ nextCase' = IF isNew THEN nextCase + 1 ELSE nextCase
  /\ receiptRow' = [receiptRow EXCEPT ![i] = KeepRow(@, b.receipt)]
  /\ anchorRow' = [anchorRow EXCEPT
                     ![i] = [requestTx |-> b.requestTx, decisionTx |-> b.decisionTx]]
  /\ decisionRow' = IF b.decision = None THEN decisionRow
                    ELSE [decisionRow EXCEPT ![i] = KeepRow(@, b.decision)]
  /\ bundleRow' = [bundleRow EXCEPT ![i] = b]

\* The exception rolls every statement back.
PersistRaises(b) ==
  /\ PersistRefused(b)
  /\ UNCHANGED storeVars
=============================================================================
