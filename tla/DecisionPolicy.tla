--------------------------- MODULE DecisionPolicy ---------------------------
(***************************************************************************)
(* What the demo institution answers (mockWallet.ts, testOutcome.ts) and   *)
(* what the gateway and the verifier accept as an answer that follows the  *)
(* amount policy (decisionPolicy.ts).  The two are written apart in the    *)
(* code and must agree.                                                    *)
(***************************************************************************)
EXTENDS EvidenceRecords

\* How the institution is asked to behave: submitRequest's options.
Options == {"normal", "riskReject", "rejectionTest"}

Exceeded(amount, limit) == amount > limit

Outcome(verdict, reason) == [verdict |-> verdict, reason |-> reason]

\* The rejection-only test institution.
TestOutcome(amount, limit) ==
  Outcome("REJECT", IF Exceeded(amount, limit) THEN "LIMIT_EXCEEDED" ELSE "KYT_RISK")

\* What the institution decides on a request and a policy it accepts.
InstitutionOutcome(amount, limit, option) ==
  IF option = "rejectionTest" THEN TestOutcome(amount, limit)
  ELSE Outcome(IF option = "riskReject" \/ Exceeded(amount, limit) THEN "REJECT" ELSE "APPROVE",
               IF Exceeded(amount, limit) THEN "LIMIT_EXCEEDED"
               ELSE IF option = "riskReject" THEN "KYT_RISK" ELSE "WITHIN_LIMIT")

\* A KYT rejection is accepted whatever the amount; any other answer is the amount's.
MatchesDecisionPolicy(amount, limit, answer) ==
  \/ answer.verdict = "REJECT" /\ answer.reason = "KYT_RISK"
  \/ /\ answer.verdict = IF Exceeded(amount, limit) THEN "REJECT" ELSE "APPROVE"
     /\ answer.reason = IF Exceeded(amount, limit) THEN "LIMIT_EXCEEDED" ELSE "WITHIN_LIMIT"

\* decideRequest refuses a request that does not follow from its policy and receipt.
DecidableRequest(request, policy, receipt) ==
  /\ request.policyHash = PolicyHash(policy)
  /\ VerifySignature(policy.sig, "enterprise", PolicyHash(policy))
  /\ VerifySignature(request.sig, "agent", RequestHash(request))
  /\ receipt # None
  /\ receipt.id = request.id
  /\ receipt.requestHash = RequestHash(request)
  /\ receipt.policyHash = PolicyHash(policy)
  /\ VerifySignature(receipt.sig, "verification", ReceiptHash(receipt))

\* The record the institution signs.
DecideRequest(request, policy, option) ==
  LET answer == InstitutionOutcome(request.amount, policy.limit, option)
      hash == [id |-> request.id, requestHash |-> RequestHash(request),
               policyHash |-> PolicyHash(policy),
               verdict |-> answer.verdict, reason |-> answer.reason]
  IN [id |-> hash.id, requestHash |-> hash.requestHash, policyHash |-> hash.policyHash,
      verdict |-> hash.verdict, reason |-> hash.reason,
      sig |-> Sign("institution", hash, 0)]
=============================================================================
