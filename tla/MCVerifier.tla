------------------------------ MODULE MCVerifier ------------------------------
(***************************************************************************)
(* Instances of Verifier for TLC: two calls of the gateway on one request, *)
(* and a verification of what they stored.                                 *)
(***************************************************************************)
EXTENDS Verifier, TLC

CONSTANTS i1, c1, c2, v1

MCIds == {i1}
MCCalls == {c1, c2}
MCChecks == {v1}
Symmetric == Permutations(MCCalls)

ThePolicy == CreatePolicy(PolicyLimit, 0)
SmallRequest == CreateRequest(i1, 1, ThePolicy, 0)

\* A request within the limit, one above it, one the agent never signed and one
\* that names another policy.
MCRequests ==
  {SmallRequest, CreateRequest(i1, 3, ThePolicy, 0),
   [SmallRequest EXCEPT !.sig.by = "nobody"],
   CreateRequest(i1, 1, CreatePolicy(1, 0), 0)}

SignDecision(request, verdictOn, reason, signer) ==
  LET hash == [id |-> request.id, requestHash |-> RequestHash(request),
               policyHash |-> request.policyHash, verdict |-> verdictOn, reason |-> reason]
  IN [id |-> hash.id, requestHash |-> hash.requestHash, policyHash |-> hash.policyHash,
      verdict |-> verdictOn, reason |-> reason, sig |-> Sign(signer, hash, 0)]

\* The answers the policy allows, one it forbids, and one the institution never signed.
MCDecisions ==
  {SignDecision(SmallRequest, "APPROVE", "WITHIN_LIMIT", "institution"),
   SignDecision(SmallRequest, "REJECT", "KYT_RISK", "institution"),
   SignDecision(SmallRequest, "REJECT", "LIMIT_EXCEEDED", "institution"),
   SignDecision(SmallRequest, "REJECT", "KYT_RISK", "nobody")}
=============================================================================
