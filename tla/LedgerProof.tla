----------------------------- MODULE LedgerProof -----------------------------
(***************************************************************************)
(* The records of the decision ledger and the offline examination of an    *)
(* exported proof: src/trust404/crypto.py, policy.py and verify.py.        *)
(*                                                                         *)
(* A digest is collision free, so it holds the value it was taken of; a    *)
(* signature holds its key and the value signed.  Both are compared as the *)
(* code compares them and never opened.  JSON shapes are valid: the        *)
(* problems that verify_proof reports for malformed objects (formats,      *)
(* bodies, timestamps without UTC offset, unknown kinds) do not occur.     *)
(***************************************************************************)
EXTENDS Integers, Sequences, FiniteSetsExt

CONSTANTS
  Issuers,         \* the public keys of the ledgers' issuers
  AgentKeys,       \* the public keys of agents
  EnterpriseKeys,  \* the public keys of enterprises
  Requests,        \* [request_id, agent_key, enterprise_key, amount_minor, currency]
  Policies,        \* [max_amount_minor, currency]
  Times            \* the values of created_at

-----------------------------------------------------------------------------
\* crypto.py

Digest(value) == [digest_of |-> value]

SignPayload(key, payload) == [by |-> key, over |-> payload]

VerifyPayload(key, payload, signature) == signature = SignPayload(key, payload)

GenesisHash == [zeros |-> 64]

-----------------------------------------------------------------------------
\* policy.py

ValidRequest(request) == request.amount_minor > 0

ValidPolicy(policy) == policy.max_amount_minor >= 0

Evaluate(request, policy) ==
  CASE request.currency # policy.currency -> <<"REJECTED", "CURRENCY_NOT_ALLOWED">>
    [] /\ request.currency = policy.currency
       /\ request.amount_minor > policy.max_amount_minor -> <<"REJECTED", "AMOUNT_LIMIT">>
    [] OTHER -> <<"APPROVED", "POLICY_PASSED">>

-----------------------------------------------------------------------------
\* entries, checkpoints and proofs

Unsigned(entry) ==
  [seq |-> entry.seq, kind |-> entry.kind, body |-> entry.body,
   prev_hash |-> entry.prev_hash, created_at |-> entry.created_at]

EntryDigest(entry) == Digest([unsigned |-> Unsigned(entry), signature |-> entry.signature])

RequestIdOf(entry) ==
  IF entry.kind = "ACCEPT" THEN entry.body.request.request_id ELSE entry.body.request_id

CheckpointBody(size, head) == [size |-> size, head_hash |-> head]

Checkpoint(issuer, size, head) ==
  [size |-> size, head_hash |-> head,
   signature |-> SignPayload(issuer, CheckpointBody(size, head))]

CheckpointDigest(checkpoint) == Digest(checkpoint)

HeadHash(entries) ==
  IF entries = << >> THEN GenesisHash ELSE entries[Len(entries)].entry_hash

\* What Ledger.export_proof returns for these rows.
ExportProof(issuer, entries) ==
  [entries |-> entries, checkpoint |-> Checkpoint(issuer, Len(entries), HeadHash(entries))]

-----------------------------------------------------------------------------
\* verify_proof, entry by entry

\* The positions before i of the acceptances of a request.
AcceptedBefore(entries, i, id) ==
  {j \in 1 .. (i - 1) : entries[j].kind = "ACCEPT" /\ RequestIdOf(entries[j]) = id}

\* A decision without an earlier acceptance: the loop goes on to the next
\* entry before it takes this one as the previous.
Orphan(entries, i) ==
  /\ entries[i].kind = "DECISION"
  /\ AcceptedBefore(entries, i, RequestIdOf(entries[i])) = {}

PreviousHash(entries, i) ==
  LET kept == {j \in 1 .. (i - 1) : ~Orphan(entries, j)}
  IN  IF kept = {} THEN GenesisHash ELSE entries[Max(kept)].entry_hash

\* (mutant) A verifier that checks the numbering and not the links.
OnlyMisnumbered(entries, i) == entries[i].seq # i

BrokenChain(entries, i) ==
  entries[i].seq # i \/ entries[i].prev_hash # PreviousHash(entries, i)

Named(problem, found) == IF found THEN {problem} ELSE {}

EntryProblems(issuer, entries, i) ==
  LET entry == entries[i]
  IN  Named("BROKEN_CHAIN", BrokenChain(entries, i))
      \cup Named("INVALID_ENTRY_HASH", EntryDigest(entry) # entry.entry_hash)
      \cup Named("INVALID_ENTRY_SIGNATURE",
                 ~VerifyPayload(issuer, Unsigned(entry), entry.signature))

\* `trusted' holds the agent and enterprise keys the caller accepts.
AcceptProblems(entries, i, trusted) ==
  LET body    == entries[i].body
      request == body.request
  IN  Named("UNTRUSTED_AGENT_KEY", request.agent_key \notin trusted.agents)
      \cup Named("UNTRUSTED_ENTERPRISE_KEY", request.enterprise_key \notin trusted.enterprises)
      \cup Named("DUPLICATE_ACCEPT", AcceptedBefore(entries, i, request.request_id) # {})
      \cup Named("INVALID_AGENT_SIGNATURE",
                 ~VerifyPayload(request.agent_key, request, body.agent_signature))

\* The loop remembers the latest acceptance of a request.
DecisionProblems(entries, i) ==
  LET body   == entries[i].body
      accept == entries[Max(AcceptedBefore(entries, i, body.request_id))]
      request == accept.body.request
      earlier == {j \in 1 .. (i - 1) : /\ entries[j].kind = "DECISION" /\ ~Orphan(entries, j)
                                       /\ RequestIdOf(entries[j]) = body.request_id}
  IN  IF Orphan(entries, i) THEN {"ORPHAN_DECISION"}
      ELSE Named("DUPLICATE_DECISION", earlier # {})
           \cup Named("ACCEPT_BINDING_MISMATCH", body.accept_hash # accept.entry_hash)
           \cup Named("POLICY_HASH_MISMATCH", body.policy_hash # Digest(body.policy))
           \cup Named("INVALID_POLICY_SIGNATURE",
                      ~VerifyPayload(request.enterprise_key, body.policy, body.policy_signature))
           \cup Named("POLICY_RESULT_MISMATCH",
                      <<body.result, body.reason>> # Evaluate(request, body.policy))

KindProblems(entries, i, trusted) ==
  IF entries[i].kind = "ACCEPT" THEN AcceptProblems(entries, i, trusted)
                                ELSE DecisionProblems(entries, i)

CheckpointProblems(proof, issuer, pin) ==
  LET cp == proof.checkpoint
      n  == Len(proof.entries)
  IN  Named("CHECKPOINT_PIN_MISMATCH", CheckpointDigest(cp) # pin)
      \cup Named("INVALID_CHECKPOINT_SIGNATURE",
                 ~VerifyPayload(issuer, CheckpointBody(cp.size, cp.head_hash), cp.signature))
      \cup Named("CHECKPOINT_SIZE_MISMATCH", cp.size # n)
      \cup Named("CHECKPOINT_HEAD_MISMATCH", cp.head_hash # PreviousHash(proof.entries, n + 1))

\* The requests of a proof that are accepted and not decided.
Undecided(entries) ==
  LET accepts   == {i \in DOMAIN entries : entries[i].kind = "ACCEPT"}
      decisions == {i \in DOMAIN entries : entries[i].kind = "DECISION" /\ ~Orphan(entries, i)}
  IN  {RequestIdOf(entries[i]) : i \in accepts} \ {RequestIdOf(entries[i]) : i \in decisions}

-----------------------------------------------------------------------------
\* acceptance receipts that the caller holds, and the whole examination

ValidAcceptanceReceipt(receipt, issuer) ==
  /\ receipt.kind = "ACCEPT"
  /\ ValidRequest(receipt.body.request)
  /\ receipt.seq > 0
  /\ EntryDigest(receipt) = receipt.entry_hash
  /\ VerifyPayload(issuer, Unsigned(receipt), receipt.signature)
  /\ VerifyPayload(receipt.body.request.agent_key, receipt.body.request,
                   receipt.body.agent_signature)

\* (mutant) A verifier that looks for the request instead of the receipt.
RequestMissing(entries, receipt) ==
  \A i \in DOMAIN entries : RequestIdOf(entries[i]) # RequestIdOf(receipt)

Omitted(entries, receipt) ==
  \A i \in DOMAIN entries : entries[i].entry_hash # receipt.entry_hash

ProblemsOfEntries(issuer, entries, trusted) ==
  UNION {EntryProblems(issuer, entries, i) \cup KindProblems(entries, i, trusted)
           : i \in DOMAIN entries}

VerifyProof(proof, issuer, pin, expected, trusted) ==
  LET entries == proof.entries
      valid   == {r \in expected : ValidAcceptanceReceipt(r, issuer)}
      omitted == {r \in valid : Omitted(entries, r)}
  IN  [problems |->
         CheckpointProblems(proof, issuer, pin)
         \cup ProblemsOfEntries(issuer, entries, trusted)
         \cup Named("INVALID_EXPECTED_ACCEPTANCE", valid # expected)
         \cup Named("ACCEPTANCE_OMITTED", omitted # {})
         \cup Named("MISSING_DECISION", Undecided(entries) # {}),
       missing |-> Undecided(entries) \cup {RequestIdOf(r) : r \in omitted}]
=============================================================================
