----------------------------- MODULE DecisionLog -----------------------------
(***************************************************************************)
(* The earlier proof of concept as a whole: the databases of the decision  *)
(* ledgers (src/trust404/ledger.py behind api.py), the witness, and the    *)
(* offline command that examines a proof (cli.py, _verify).                *)
(*                                                                         *)
(* One issuer key may sign for several database files: a second ledger     *)
(* opened with the key, or a file restored from a backup (rows of two      *)
(* databases coincide when their contents and created_at do).  Nothing in  *)
(* the code prevents it; the witness and the receipts are there to reveal  *)
(* it.                                                                     *)
(* An operation of a ledger is one transaction (BEGIN IMMEDIATE).          *)
(***************************************************************************)
EXTENDS Witness, SequencesExt

CONSTANTS
  Copies,         \* database files
  IssuerOf,       \* the key a database was created with
  AllowedAgents,  \* the agent keys the ledger's API admits
  Absent,         \* an argument that is not given
  MaxEntries,     \* bound: rows in all databases together
  MaxAnchors      \* bound: rows of the witness

ASSUME AllowedAgentsAssumption == AllowedAgents \subseteq AgentKeys
ASSUME IssuerAssumption == IssuerOf \in [Copies -> Issuers]
\* EnterpriseKeys has every key that a request names.
ASSUME RequestsAssumption == \A r \in Requests : r.enterprise_key \in EnterpriseKeys

VARIABLE
  db    \* the rows of every database, in the order of seq

vars == <<anchors, db>>

Init == WitnessInit /\ db = [c \in Copies |-> << >>]

-----------------------------------------------------------------------------
\* the ledger

Has(rows, kind, id) ==
  \E i \in DOMAIN rows : rows[i].kind = kind /\ RequestIdOf(rows[i]) = id

\* (mutant) An entry linked to the first row.
LinkToFirst(rows) == IF rows = << >> THEN GenesisHash ELSE rows[1].entry_hash

LastHash(rows) == IF rows = << >> THEN GenesisHash ELSE rows[Len(rows)].entry_hash

\* The entry that _append inserts after these rows.
NewEntry(c, kind, body, at) ==
  LET unsigned == [seq |-> Len(db[c]) + 1, kind |-> kind, body |-> body,
                   prev_hash |-> LastHash(db[c]), created_at |-> at]
      signature == SignPayload(IssuerOf[c], unsigned)
  IN  [seq |-> unsigned.seq, kind |-> kind, body |-> body,
       prev_hash |-> unsigned.prev_hash, created_at |-> at,
       signature |-> signature,
       entry_hash |-> Digest([unsigned |-> unsigned, signature |-> signature])]

Insert(c, entry) == db' = [db EXCEPT ![c] = Append(@, entry)]

RowsInAll == MapThenSumSet(LAMBDA c : Len(db[c]), Copies)

\* POST /requests.  The answer is the entry: the agent's acceptance receipt.
Accept(c, request, agentSignature, at) ==
  /\ RowsInAll < MaxEntries
  /\ request.agent_key \in AllowedAgents
  /\ ValidRequest(request)
  /\ VerifyPayload(request.agent_key, request, agentSignature)
  /\ ~Has(db[c], "ACCEPT", request.request_id)
  /\ Insert(c, NewEntry(c, "ACCEPT",
       [request |-> request, agent_signature |-> agentSignature], at))
  /\ UNCHANGED anchors

\* POST /requests/{request_id}/decision
Decide(c, id, policy, policySignature, at) ==
  /\ RowsInAll < MaxEntries
  /\ ~Has(db[c], "DECISION", id)
  /\ ValidPolicy(policy)
  /\ \E i \in DOMAIN db[c] :
       LET accept  == db[c][i]
           request == accept.body.request
           verdict == Evaluate(request, policy)
       IN  /\ accept.kind = "ACCEPT"
           /\ request.request_id = id
           /\ VerifyPayload(request.enterprise_key, policy, policySignature)
           /\ Insert(c, NewEntry(c, "DECISION",
                [request_id |-> id, accept_hash |-> accept.entry_hash,
                 policy |-> policy, policy_hash |-> Digest(policy),
                 policy_signature |-> policySignature,
                 result |-> verdict[1], reason |-> verdict[2]], at))
  /\ UNCHANGED anchors

-----------------------------------------------------------------------------
\* what may be presented as a proof of an issuer

CopiesOf(issuer) == {c \in Copies : IssuerOf[c] = issuer}

\* An export made now or earlier: databases only grow.
ExportedProofs(issuer) ==
  UNION {{ExportProof(issuer, SubSeq(db[c], 1, n)) : n \in 0 .. Len(db[c])}
           : c \in CopiesOf(issuer)}

\* The beginning of one copy's history under the rest and the checkpoint of another's.
SplicedProofs(issuer) ==
  UNION {UNION {{[ExportProof(issuer, db[c]) EXCEPT
                    !.entries = SubSeq(db[d], 1, k) \o SubSeq(@, k + 1, Len(@))]
                   : k \in 1 .. (IF Len(db[d]) < Len(db[c]) THEN Len(db[d]) ELSE Len(db[c]))}
                  : d \in CopiesOf(issuer)}
           : c \in CopiesOf(issuer)}

\* The demo's edits of an exported proof: another reason, a removed entry.
EditedProofs(issuer) ==
  UNION {LET proof == ExportProof(issuer, db[c])
         IN  {[proof EXCEPT !.entries[i].body.reason = "OTHER_REASON"]
                : i \in {j \in DOMAIN db[c] : db[c][j].kind = "DECISION"}}
             \cup {[proof EXCEPT !.entries = RemoveAt(@, i)] : i \in DOMAIN db[c]}
           : c \in CopiesOf(issuer)}

Presented(issuer) ==
  ExportedProofs(issuer) \cup SplicedProofs(issuer) \cup EditedProofs(issuer)

\* trust404 verify: a pin, a witness receipt or both.
Verified(proof, issuer, pin, receipt, acceptances, trusted) ==
  LET witnessed == receipt # Absent
      reference == IF witnessed THEN receipt.unsigned.checkpoint_hash ELSE pin
  IN  /\ witnessed => VerifyWitnessReceipt(proof, receipt, issuer)
      /\ (witnessed /\ pin # Absent) => pin = receipt.unsigned.checkpoint_hash
      /\ VerifyProof(proof, issuer, reference, acceptances, trusted).problems = {}

-----------------------------------------------------------------------------
AnchorAny ==
  \E issuer \in Issuers : \E proof \in Presented(issuer) :
    /\ \/ Len(anchors) < MaxAnchors /\ AnchorNew(proof, issuer)
       \/ AnchorAgain(proof, issuer)
    /\ UNCHANGED db

AcceptAny ==
  \E c \in Copies, request \in Requests, key \in AgentKeys, at \in Times :
    Accept(c, request, SignPayload(key, request), at)

DecideAny ==
  \E c \in Copies, id \in {r.request_id : r \in Requests}, policy \in Policies,
     key \in EnterpriseKeys, at \in Times :
    Decide(c, id, policy, SignPayload(key, policy), at)

Next == AcceptAny \/ DecideAny \/ AnchorAny

Spec == Init /\ [][Next]_vars

-----------------------------------------------------------------------------
\* properties

\* Types: rows numbered and signed with the database's key, receipts numbered
\* over all issuers.
LogTypeOK ==
  /\ DOMAIN db = Copies
  /\ \A c \in Copies : \A i \in DOMAIN db[c] :
       LET entry == db[c][i]
       IN  /\ entry.seq = i
           /\ entry.kind \in {"ACCEPT", "DECISION"}
           /\ entry.created_at \in Times
           /\ VerifyPayload(IssuerOf[c], Unsigned(entry), entry.signature)
  /\ \A i \in DOMAIN anchors :
       /\ anchors[i].unsigned.witness_seq = i
       /\ anchors[i].unsigned.issuer_key \in AllowedIssuers
       /\ anchors[i].unsigned.size \in Nat

\* The keys a verifier of this deployment trusts.
Admitted == [agents |-> AllowedAgents, enterprises |-> EnterpriseKeys]

\* The acceptance receipts in the world: an agent may have received any.
AcceptancesOf(issuer) ==
  {entry \in UNION {ToSet(db[c]) : c \in CopiesOf(issuer)} : entry.kind = "ACCEPT"}

Pin(issuer, entries) == CheckpointDigest(ExportProof(issuer, entries).checkpoint)

\* What a ledger exports passes the examination by a holder of all its
\* receipts who trusts the admitted agents, and lacks nothing but the
\* decisions that were not made (ledger.py writes entries, verify.py reads
\* them, and the two do not share the code that builds them).
ExportsVerify ==
  \A c \in Copies :
    LET accepted == {r.request_id : r \in {q \in Requests : Has(db[c], "ACCEPT", q.request_id)}}
        waiting  == {id \in accepted : ~Has(db[c], "DECISION", id)}
    IN  VerifyProof(ExportProof(IssuerOf[c], db[c]), IssuerOf[c], Pin(IssuerOf[c], db[c]),
                    {e \in ToSet(db[c]) : e.kind = "ACCEPT"}, Admitted)
          = [problems |-> Named("MISSING_DECISION", waiting # {}), missing |-> waiting]

\* Whatever is presented, VERIFIED tells the agent who holds an acceptance
\* receipt that it was answered, by a decision that was really recorded for
\* that very acceptance, also when the same request was accepted in two
\* databases.
VerifiedMeansAnswered ==
  \A issuer \in Issuers :
    LET pins == UNION {{Pin(issuer, SubSeq(db[c], 1, n)) : n \in 0 .. Len(db[c])}
                         : c \in CopiesOf(issuer)}
    IN  \A proof \in Presented(issuer), acceptance \in AcceptancesOf(issuer) :
          (\/ \E receipt \in ToSet(anchors) :
                Verified(proof, issuer, Absent, receipt, {acceptance}, Admitted)
           \/ \E pin \in pins : Verified(proof, issuer, pin, Absent, {acceptance}, Admitted))
            => \E c \in CopiesOf(issuer) : \E i \in DOMAIN db[c] :
                 /\ db[c][i].kind = "DECISION"
                 /\ db[c][i].body.accept_hash = acceptance.entry_hash
                 /\ db[c][i] \in ToSet(proof.entries)

\* Nothing is wrong with a proof but missing decisions.
Sound(proof, issuer, pin) ==
  VerifyProof(proof, issuer, pin, {}, Anyone).problems \subseteq {"MISSING_DECISION"}

\* A pin obtained from one database fixes every entry of the proof that
\* passes under it: an edit, a removal or entries of another database show.
PinFixesHistory ==
  \A issuer \in Issuers : \A proof \in Presented(issuer) :
    \A c \in CopiesOf(issuer) : \A n \in 0 .. Len(db[c]) :
      Sound(proof, issuer, Pin(issuer, SubSeq(db[c], 1, n)))
        => proof.entries = SubSeq(db[c], 1, n)

\* The histories that pass with a receipt of the witness.
Believed(issuer) ==
  {proof.entries : proof \in
     {p \in Presented(issuer) :
        \E receipt \in ToSet(anchors) :
          /\ VerifyWitnessReceipt(p, receipt, issuer)
          /\ Sound(p, issuer, receipt.unsigned.checkpoint_hash)}}

\* Two auditors who trust the same witness never believe two histories of one
\* issuer of which neither continues the other, whenever they got their
\* receipts and whichever databases the proofs came from.
AuditorsAgree ==
  \A issuer \in Issuers : \A one, other \in Believed(issuer) :
    IsPrefix(one, other) \/ IsPrefix(other, one)

\* The receipts published for an issuer form one chain that its verifier
\* accepts, whatever other issuers anchor in between.
HistoryVerifies ==
  \A issuer \in Issuers :
    History(issuer) # << >> => VerifyWitnessHistory(History(issuer), issuer)

\* No false alarm: while an issuer's databases continue one another, the
\* witness takes the export of the longest, also for the second time.
HonestIssuerIsNotRefused ==
  \A issuer \in AllowedIssuers :
    (\A c, d \in CopiesOf(issuer) : IsPrefix(db[c], db[d]) \/ IsPrefix(db[d], db[c]))
      => \A c \in CopiesOf(issuer) :
           (\A d \in CopiesOf(issuer) : Len(db[d]) <= Len(db[c]))
             => Accepts(ExportProof(issuer, db[c]), issuer)
=============================================================================
