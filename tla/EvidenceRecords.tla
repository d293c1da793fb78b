--------------------------- MODULE EvidenceRecords ---------------------------
(***************************************************************************)
(* The signed records that the evidence system exchanges, their hashes and *)
(* their signatures (backend/src/records, crypto, agent, enterprise).      *)
(*                                                                         *)
(* A hash is collision free, so it is modelled by the content it commits   *)
(* to: hashRecord deletes the signature field and hashes the rest, and so  *)
(* does each ...Hash operator below.  A signature records who signed and   *)
(* the content that was signed; `salt` tells apart two valid signatures of *)
(* one content, which the code keeps as different records with one hash.   *)
(***************************************************************************)
EXTENDS Integers

CONSTANTS
  Ids,        \* request identifiers
  Amounts,    \* request amounts, in base units
  Limits,     \* policy limits, in base units
  Salts,      \* distinguishes valid signatures of one content
  None        \* an absent record (null in the code)

ASSUME AmountsAssumption == Amounts \subseteq Nat
ASSUME LimitsAssumption == Limits \subseteq Nat
\* 0 is the signature a local account produces: it is a function of the content.
ASSUME SaltsAssumption == Salts \subseteq Nat /\ 0 \in Salts

Verdicts == {"APPROVE", "REJECT"}
Reasons == {"WITHIN_LIMIT", "LIMIT_EXCEEDED", "KYT_RISK"}

\* Keys of the registry; "nobody" signs with a key outside it.
Signers == {"enterprise", "agent", "verification", "institution", "nobody"}

\* The policy's content is its limit: every other field is fixed by the deployment.
PolicyHash(policy) == policy.limit

\* created_at, asset and recipient add nothing a property tells apart.  A request
\* created before the policy is valid is refused like one that names another policy.
RequestHash(request) ==
  [id |-> request.id, amount |-> request.amount, policyHash |-> request.policyHash]

ReceiptHash(receipt) ==
  [id |-> receipt.id, requestHash |-> receipt.requestHash, policyHash |-> receipt.policyHash,
   tx |-> receipt.tx, observedAt |-> receipt.observedAt, deadline |-> receipt.deadline]

DecisionHash(decision) ==
  [id |-> decision.id, requestHash |-> decision.requestHash,
   policyHash |-> decision.policyHash,
   verdict |-> decision.verdict, reason |-> decision.reason]

Sign(signer, hash, salt) == [by |-> signer, over |-> hash, salt |-> salt]

\* verifyRecordSignature: the signature recovers to the registered key over this content.
VerifySignature(sig, signer, hash) == sig.by = signer /\ sig.over = hash

RequestHashes == [id : Ids, amount : Amounts, policyHash : Limits]
DecisionHashes ==
  [id : Ids, requestHash : RequestHashes, policyHash : Limits,
   verdict : Verdicts, reason : Reasons]

SignaturesOver(hashes) == [by : Signers, over : hashes, salt : Salts]

Policies == [limit : Limits, sig : SignaturesOver(Limits)]
Requests ==
  [id : Ids, amount : Amounts, policyHash : Limits, sig : SignaturesOver(RequestHashes)]
Decisions ==
  [id : Ids, requestHash : RequestHashes, policyHash : Limits,
   verdict : Verdicts, reason : Reasons, sig : SignaturesOver(DecisionHashes)]

\* None is no time, no hash and no record.
ASSUME NoneAssumption ==
  None \notin Nat \union RequestHashes \union DecisionHashes
                \union Policies \union Requests \union Decisions

\* createPolicy and createRequest: the records the enterprise and the agent sign.
CreatePolicy(limit, salt) == [limit |-> limit, sig |-> Sign("enterprise", limit, salt)]

CreateRequest(id, amount, policy, salt) ==
  [id |-> id, amount |-> amount, policyHash |-> PolicyHash(policy),
   sig |-> Sign("agent", [id |-> id, amount |-> amount, policyHash |-> PolicyHash(policy)], salt)]
=============================================================================
