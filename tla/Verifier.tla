------------------------------- MODULE Verifier -------------------------------
(***************************************************************************)
(* verifyEvidence (backend/src/verification/verifier.ts) run beside the    *)
(* gateway on evidence that was exported from the store at some moment,    *)
(* as it was or altered by whoever presents it.                            *)
(*                                                                         *)
(* The verifier reads the contract record once and, only for evidence      *)
(* without a decision, the chain's time in a later call.  The receipts of  *)
(* mined transactions never change, so the checks on them are made with    *)
(* the record.                                                             *)
(***************************************************************************)
EXTENDS Gateway

CONSTANT Checks       \* the verifications of a behaviour

VARIABLES
  stage,      \* where a verification is
  evidence,   \* the bundle under verification
  seen,       \* the contract record it read
  readAt,     \* history: the time of the latest block when it read the record
  altered,    \* history: the evidence is not the bundle the store held
  verdict     \* the status reported, or None

verifierVars == <<stage, evidence, seen, readAt, altered, verdict>>
allVars == <<vars, verifierVars>>

Statuses == {"VERIFIED", "TAMPERED", "MISSING", "PROCESSING", "INVALID"}

\* None is no verdict.
ASSUME StatusesAssumption == None \notin Statuses

VerifierInit ==
  /\ Init
  /\ stage = [v \in Checks |-> "idle"]
  /\ evidence = [v \in Checks |-> None]
  /\ seen = [v \in Checks |-> None]
  /\ readAt = [v \in Checks |-> 0]
  /\ altered = [v \in Checks |-> FALSE]
  /\ verdict = [v \in Checks |-> None]

-----------------------------------------------------------------------------
(* The checks                                                               *)

DecisionHashOf(b) == IF b.decision = None THEN None ELSE DecisionHash(b.decision)

BadSignature(b) ==
  \/ ~VerifySignature(b.policy.sig, "enterprise", PolicyHash(b.policy))
  \/ ~VerifySignature(b.request.sig, "agent", RequestHash(b.request))
  \/ ~VerifySignature(b.receipt.sig, "verification", ReceiptHash(b.receipt))
  \/ /\ b.decision # None
     /\ ~VerifySignature(b.decision.sig, "institution", DecisionHash(b.decision))

PolicyMismatch(b) ==
  \/ b.request.policyHash # PolicyHash(b.policy)
  \/ b.receipt.policyHash # PolicyHash(b.policy)
  \/ /\ b.decision # None
     /\ \/ b.decision.policyHash # PolicyHash(b.policy)
        \/ ~MatchesDecisionPolicy(b.request.amount, b.policy.limit, b.decision)

InvalidReference(b) ==
  \/ b.receipt.id # b.request.id
  \/ b.receipt.requestHash # RequestHash(b.request)
  \/ b.receipt.tx # b.requestTx
  \/ /\ b.decision # None
     /\ b.decision.id # b.request.id \/ b.decision.requestHash # RequestHash(b.request)
  \/ (b.decision = None) # (b.decisionTx = None)

\* A hash that the contract committed to is not the evidence's: TAMPERED.
ChainMismatch(b, onChain) ==
  /\ onChain.requestHash # None
  /\ \/ onChain.requestHash # RequestHash(b.request)
     \/ onChain.policyHash # PolicyHash(b.policy)
     \/ onChain.decisionHash # DecisionHashOf(b)

UnanchoredReference(b, onChain) ==
  \/ onChain.requestHash = None
  \/ b.receipt.observedAt # onChain.requestAnchoredAt
  \/ b.receipt.deadline # onChain.decisionDeadline
  \/ ~VerifyRequestTx(b.requestTx, b.request.id, RequestHash(b.request),
                      PolicyHash(b.policy), b.receipt.observedAt, b.receipt.observedAt,
                      b.receipt.deadline)
  \/ /\ b.decision # None /\ b.decisionTx # None /\ onChain.decisionAnchoredAt # None
     /\ ~VerifyDecisionTx(b.decisionTx, b.request.id, DecisionHash(b.decision),
                          onChain.decisionAnchoredAt)

LateDecision(onChain) ==
  /\ onChain.requestHash # None
  /\ onChain.decisionAnchoredAt # None
  /\ onChain.decisionAnchoredAt > onChain.decisionDeadline

\* Mutant of Judgement: an answer that the institution signed and that follows the
\* policy is believed without its anchor.
JudgementBySignature(b, onChain) ==
  LET claim == [b EXCEPT !.decision = None, !.decisionTx = None]
      anchor == IF b.decision = None THEN onChain
                ELSE [onChain EXCEPT !.decisionHash = None, !.decisionAnchoredAt = None]
  IN
  IF ChainMismatch(claim, anchor) THEN "TAMPERED"
  ELSE IF BadSignature(b) \/ PolicyMismatch(b) \/ InvalidReference(b)
          \/ UnanchoredReference(claim, anchor) THEN "INVALID"
  ELSE IF b.decision = None THEN "UNDECIDED"
  ELSE "VERIFIED"

\* The status that the record alone determines; "UNDECIDED" leaves it to chain time.
Judgement(b, onChain) ==
  IF ChainMismatch(b, onChain) THEN "TAMPERED"
  ELSE IF BadSignature(b) \/ PolicyMismatch(b) \/ InvalidReference(b)
          \/ UnanchoredReference(b, onChain) \/ LateDecision(onChain) THEN "INVALID"
  ELSE IF b.decision = None THEN "UNDECIDED"
  ELSE "VERIFIED"

-----------------------------------------------------------------------------
(* What is presented: the stored bundle, or a copy someone changed          *)

\* The copy that the tampering demo submits: the policy limit and the reason of
\* the answer are changed, no record is signed again.
TamperedCopy(b, limit) ==
  [b EXCEPT !.policy.limit = limit,
            !.decision = IF @ = None THEN None ELSE [@ EXCEPT !.reason = "LIMIT_EXCEEDED"]]

\* Later claims by a party with its own key: another policy, another decision, no
\* decision; and by anyone: another amount.
Alterations(b) ==
  {TamperedCopy(b, l) : l \in Limits \ {b.policy.limit}}
  \union {[b EXCEPT !.policy = CreatePolicy(l, 0)] : l \in Limits \ {b.policy.limit}}
  \union {[b EXCEPT !.request.amount = a] : a \in Amounts \ {b.request.amount}}
  \union (IF b.decision = None THEN {}
          ELSE {[b EXCEPT !.decision = d] : d \in SubmittedDecisions \ {b.decision}}
               \union {[b EXCEPT !.decision = None, !.decisionTx = None]})

Present(v, b, isAltered) ==
  /\ stage[v] = "idle"
  /\ stage' = [stage EXCEPT ![v] = "readRecord"]
  /\ evidence' = [evidence EXCEPT ![v] = b]
  /\ altered' = [altered EXCEPT ![v] = isAltered]
  /\ UNCHANGED <<vars, seen, readAt, verdict>>

PresentStored(v) ==
  \E i \in Ids : bundleRow[i] # None /\ Present(v, bundleRow[i], FALSE)

PresentAltered(v) ==
  \E i \in Ids :
    bundleRow[i] # None /\ \E b \in Alterations(bundleRow[i]) : Present(v, b, TRUE)

Report(v, status) ==
  /\ stage' = [stage EXCEPT ![v] = "done"]
  /\ verdict' = [verdict EXCEPT ![v] = status]

\* Mutant of Examine: the chain's time is not asked for.
ExamineWithoutChainTime(v) ==
  LET onChain == record[evidence[v].request.id] IN
  /\ stage[v] = "readRecord"
  /\ seen' = [seen EXCEPT ![v] = onChain]
  /\ readAt' = [readAt EXCEPT ![v] = time]
  /\ Report(v, Judgement(evidence[v], onChain))
  /\ UNCHANGED <<vars, evidence, altered>>

\* readRecord, and every check on it.
Examine(v) ==
  LET onChain == record[evidence[v].request.id]
      status == Judgement(evidence[v], onChain)
  IN
  /\ stage[v] = "readRecord"
  /\ seen' = [seen EXCEPT ![v] = onChain]
  /\ readAt' = [readAt EXCEPT ![v] = time]
  /\ \/ status # "UNDECIDED" /\ Report(v, status)
     \/ /\ status = "UNDECIDED"
        /\ stage' = [stage EXCEPT ![v] = "chainTime"]
        /\ UNCHANGED verdict
  /\ UNCHANGED <<vars, evidence, altered>>

\* chainTime is compared with the deadline of the record read before.
ReadChainTime(v) ==
  /\ stage[v] = "chainTime"
  /\ Report(v, IF time <= seen[v].decisionDeadline THEN "PROCESSING" ELSE "MISSING")
  /\ UNCHANGED <<vars, evidence, seen, readAt, altered>>

\* An RPC error is an error of the request and no verdict.
VerificationFails(v) ==
  /\ stage[v] \in {"readRecord", "chainTime"}
  /\ stage' = [stage EXCEPT ![v] = "done"]
  /\ UNCHANGED <<vars, evidence, seen, readAt, altered, verdict>>

Verify(v) ==
  PresentStored(v) \/ PresentAltered(v) \/ Examine(v) \/ ReadChainTime(v) \/ VerificationFails(v)

VerifierNext ==
  \/ Next /\ UNCHANGED verifierVars
  \/ \E v \in Checks : Verify(v)

VerifierSpec == VerifierInit /\ [][VerifierNext]_allVars

-----------------------------------------------------------------------------
(* Properties                                                               *)

\* The types of the verifier's variables.
VerifierTypeOK ==
  /\ stage \in [Checks -> {"idle", "readRecord", "chainTime", "done"}]
  /\ evidence \in [Checks -> Bundles \union {None}]
  /\ seen \in [Checks -> AnchorRecords \union {None}]
  /\ readAt \in [Checks -> Nat]
  /\ altered \in [Checks -> BOOLEAN]
  /\ verdict \in [Checks -> Statuses \union {None}]

\* Verdicts are final.  Whatever the gateway and the chain do afterwards, evidence
\* that was VERIFIED would be verified again, and its contents are the ones the
\* contract committed to in time and the store published; and after MISSING no
\* decision is anchored any more when the record was read after the deadline.
\* (It may be when the deadline passed between the two reads.)
VerdictsAreFinal ==
  \A v \in Checks :
    LET b == evidence[v]
        onChain == record[b.request.id]
        stored == bundleRow[b.request.id]
    IN
    /\ verdict[v] = "VERIFIED" =>
         /\ Judgement(b, onChain) = "VERIFIED"
         /\ InTime(onChain)
         /\ PolicyHash(b.policy) = PolicyHash(stored.policy)
         /\ RequestHash(b.request) = RequestHash(stored.request)
         /\ DecisionHash(b.decision) = DecisionHash(stored.decision)
    /\ verdict[v] = "MISSING" /\ readAt[v] > seen[v].decisionDeadline =>
         onChain.decisionHash = None

\* Evidence the store published is never called INVALID, and is called TAMPERED
\* only while it lacks a decision that is anchored already; completed evidence is
\* always VERIFIED, at whatever moment of the gateway's work it is examined.
StoredEvidenceIsBelieved ==
  \A v \in Checks : verdict[v] # None /\ ~altered[v] =>
    IF evidence[v].decision # None THEN verdict[v] = "VERIFIED"
    ELSE \/ verdict[v] \in {"PROCESSING", "MISSING"}
         \/ verdict[v] = "TAMPERED" /\ record[evidence[v].request.id].decisionHash # None

\* No altered policy, amount or answer passes for evidence: what is said about a copy
\* without calling it wrong is said about the request, the policy and the decision
\* that the store published.  A decision that was anchored when the record was read
\* cannot be withheld: its absence is never reported as a missing or pending decision.
AlterationIsNoticed ==
  \A v \in Checks : altered[v] /\ verdict[v] # None =>
    LET b == evidence[v]
        stored == bundleRow[b.request.id]
    IN
    verdict[v] \in {"VERIFIED", "PROCESSING", "MISSING"} =>
      /\ RequestHash(b.request) = RequestHash(stored.request)
      /\ PolicyHash(b.policy) = PolicyHash(stored.policy)
      /\ b.decision # None =>
           stored.decision # None /\ DecisionHash(b.decision) = DecisionHash(stored.decision)
      /\ b.decision # None \/ record[b.request.id].decisionHash = None
                           \/ record[b.request.id].decisionAnchoredAt > readAt[v]

\* What the status descriptions promise of MISSING: the deadline has passed and
\* there is no decision anchor (frontend/src/data/presentation.ts:25).
MissingMeansNoAnchor ==
  \A v \in Checks : verdict[v] = "MISSING" =>
    record[evidence[v].request.id].decisionHash = None
=============================================================================
