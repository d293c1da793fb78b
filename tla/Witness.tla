------------------------------- MODULE Witness -------------------------------
(***************************************************************************)
(* The checkpoint witness: src/trust404/witness.py behind witness_api.py.  *)
(* One database for all issuers; every row is a receipt the witness        *)
(* signed.  Anchoring is one transaction (BEGIN IMMEDIATE); the proof is   *)
(* examined before it and depends on nothing else.  A row's issued_at is   *)
(* not modelled: nothing compares it.                                      *)
(***************************************************************************)
EXTENDS LedgerProof

CONSTANTS
  WitnessKey,      \* the public key of the witness
  AllowedIssuers   \* the issuers its API accepts

VARIABLE
  anchors    \* the receipts in the table, in the order of witness_seq

GenesisReceiptHash == [receipt_zeros |-> 64]

\* With nobody's keys excluded and no acceptance receipts: what the witness asks.
Anyone == [agents |-> AgentKeys, enterprises |-> EnterpriseKeys]

\* A receipt is its signed terms, the signature and the hash over both.
ReceiptDigest(receipt) == Digest([unsigned |-> receipt.unsigned, signature |-> receipt.signature])

ValidSignedReceipt(receipt, issuer) ==
  /\ receipt.unsigned.witness_seq > 0
  /\ receipt.unsigned.size >= 0
  /\ receipt.unsigned.issuer_key = issuer
  /\ ReceiptDigest(receipt) = receipt.receipt_hash
  /\ VerifyPayload(WitnessKey, receipt.unsigned, receipt.signature)

VerifyWitnessReceipt(proof, receipt, issuer) ==
  /\ ValidSignedReceipt(receipt, issuer)
  /\ receipt.unsigned.checkpoint_hash = CheckpointDigest(proof.checkpoint)
  /\ receipt.unsigned.size = proof.checkpoint.size
  /\ receipt.unsigned.head_hash = proof.checkpoint.head_hash

VerifyWitnessHistory(receipts, issuer) ==
  LET terms(i) == receipts[i].unsigned
  IN  /\ receipts # << >>
      /\ \A i \in DOMAIN receipts : ValidSignedReceipt(receipts[i], issuer)
      /\ terms(1).previous_receipt_hash = GenesisReceiptHash
      /\ \A i \in DOMAIN receipts \ {1} :
           /\ terms(i).previous_receipt_hash = receipts[i - 1].receipt_hash
           /\ terms(i).size > terms(i - 1).size
           /\ terms(i).witness_seq > terms(i - 1).witness_seq

WitnessInit == anchors = << >>

RowsOf(issuer) == {i \in DOMAIN anchors : anchors[i].unsigned.issuer_key = issuer}

\* The receipts of an issuer, ordered by witness_seq.
History(issuer) ==
  LET order == CHOOSE f \in UNION {[1 .. n -> RowsOf(issuer)] : n \in 0 .. Len(anchors)} :
                 /\ RowsOf(issuer) = {f[i] : i \in DOMAIN f}
                 /\ \A i, j \in DOMAIN f : i < j => f[i] < f[j]
  IN  [i \in DOMAIN order |-> anchors[order[i]]]

\* (mutant) A query that forgets whose receipt it wants.
LatestOfAnyone(issuer) == anchors[Len(anchors)]

\* The last of them, if there is one.
Latest(issuer) == anchors[Max(RowsOf(issuer))]

\* (mutant) A witness that compares sizes and not what was there before.
RollbackOnly(previous, proof) == proof.checkpoint.size < previous.size

\* (mutant) A witness that looks at the entry after the previous head.
ForkAtNextEntry(previous, proof) ==
  \/ proof.checkpoint.size < previous.size
  \/ /\ previous.size < proof.checkpoint.size
     /\ proof.entries[previous.size + 1].entry_hash # previous.head_hash

ForkOrRollback(previous, proof) ==
  \/ proof.checkpoint.size < previous.size
  \/ /\ previous.size > 0
     /\ proof.entries[previous.size].entry_hash # previous.head_hash
  \/ /\ proof.checkpoint.size = previous.size
     /\ \/ proof.checkpoint.head_hash # previous.head_hash
        \/ CheckpointDigest(proof.checkpoint) # previous.checkpoint_hash

Acceptable(proof, issuer) ==
  VerifyProof(proof, issuer, CheckpointDigest(proof.checkpoint), {}, Anyone).problems
    \subseteq {"MISSING_DECISION"}

\* (mutant) Receipts numbered for each issuer.
NextNumberOfIssuer(issuer) == Len(History(issuer)) + 1

NextNumber(issuer) == Len(anchors) + 1

NewReceipt(proof, issuer) ==
  LET unsigned ==
        [witness_seq |-> NextNumber(issuer),
         issuer_key |-> issuer,
         checkpoint_hash |-> CheckpointDigest(proof.checkpoint),
         size |-> proof.checkpoint.size,
         head_hash |-> proof.checkpoint.head_hash,
         previous_receipt_hash |-> IF RowsOf(issuer) = {} THEN GenesisReceiptHash
                                   ELSE Latest(issuer).receipt_hash]
      signature == SignPayload(WitnessKey, unsigned)
  IN  [unsigned |-> unsigned, signature |-> signature,
       receipt_hash |-> Digest([unsigned |-> unsigned, signature |-> signature])]

\* Whether anchor(proof, issuer) returns a receipt rather than an error.
Accepts(proof, issuer) ==
  /\ issuer \in AllowedIssuers
  /\ Acceptable(proof, issuer)
  /\ RowsOf(issuer) # {} => ~ForkOrRollback(Latest(issuer).unsigned, proof)

Witnessed(proof, issuer) ==
  RowsOf(issuer) # {} /\ Latest(issuer).unsigned.size = proof.checkpoint.size

AnchorNew(proof, issuer) ==
  /\ Accepts(proof, issuer)
  /\ ~Witnessed(proof, issuer)
  /\ anchors' = Append(anchors, NewReceipt(proof, issuer))

\* The same checkpoint again: the answer is Latest(issuer), no row is added.
AnchorAgain(proof, issuer) ==
  /\ Accepts(proof, issuer)
  /\ Witnessed(proof, issuer)
  /\ UNCHANGED anchors
=============================================================================
