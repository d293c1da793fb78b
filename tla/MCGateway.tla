------------------------------ MODULE MCGateway ------------------------------
(***************************************************************************)
(* Instances of Gateway for TLC: one request id that several calls compete *)
(* for, with requests and decisions of every kind the code tells apart.    *)
(***************************************************************************)
EXTENDS Gateway, TLC

CONSTANTS i1, c1, c2, c3

MCIds == {i1}
MCCalls == {c1, c2, c3}
Symmetric == Permutations(MCCalls)

ThePolicy == CreatePolicy(PolicyLimit, 0)

\* Two amounts, and two signatures of one of them.
SmallRequest == CreateRequest(i1, 1, ThePolicy, 0)
CompetingRequests ==
  {SmallRequest, CreateRequest(i1, 1, ThePolicy, 1), CreateRequest(i1, 3, ThePolicy, 0)}

SignDecision(request, verdict, reason, signer, salt) ==
  LET hash == [id |-> request.id, requestHash |-> RequestHash(request),
               policyHash |-> request.policyHash, verdict |-> verdict, reason |-> reason]
  IN [id |-> hash.id, requestHash |-> hash.requestHash, policyHash |-> hash.policyHash,
      verdict |-> verdict, reason |-> reason, sig |-> Sign(signer, hash, salt)]

\* The two answers the policy allows, and a second signature of one of them.
CompetingDecisions ==
  {SignDecision(SmallRequest, "APPROVE", "WITHIN_LIMIT", "institution", 0),
   SignDecision(SmallRequest, "APPROVE", "WITHIN_LIMIT", "institution", 1),
   SignDecision(SmallRequest, "REJECT", "KYT_RISK", "institution", 0)}
=============================================================================
