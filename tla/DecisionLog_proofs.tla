-------------------------- MODULE DecisionLog_proofs --------------------------
(***************************************************************************)
(* Proofs of the properties of DecisionLog: for any number of databases,   *)
(* issuers, requests and receipts.                                         *)
(*                                                                         *)
(* Part 1: the entry hashes make a chain, so one hash fixes every entry    *)
(* before it.  Part 2: the ledger keeps its databases chained and legal.   *)
(* Part 3: what passes an examination is the beginning of a database.      *)
(* Part 4: the witness keeps a table that attests them.  Part 5: the       *)
(* theorems.                                                               *)
(***************************************************************************)
EXTENDS DecisionLog, WellFoundedInduction, TLAPS

-----------------------------------------------------------------------------
(* Numbers and sequences                                                    *)

\* A set of numbers that is not empty has a least one.
LEMMA LeastNumber ==
  ASSUME NEW T \in SUBSET Nat, T # {}
  PROVE  \E m \in T : \A k \in T : m <= k
<1> DEFINE R == {p \in Nat \X Nat : p[1] < p[2]}
<1>1. IsWellFoundedOn(OpToRel(<, Nat), Nat)
  BY NatLessThanWellFounded
<1>2. OpToRel(<, Nat) = R
  BY DEF OpToRel
<1>3. PICK x \in T : \A y \in T : ~(<<y, x>> \in R)
  BY <1>1, <1>2, WFMin
<1>4. \A y \in T : ~(y < x)
  <2> SUFFICES ASSUME NEW y \in T, y < x PROVE <<y, x>> \in R
    BY <1>3
  <2>1. <<y, x>> \in Nat \X Nat /\ <<y, x>>[1] = y /\ <<y, x>>[2] = x
    OBVIOUS
  <2>2. QED
    BY <2>1
<1>5. QED
  BY <1>4

\* A bounded one has a greatest, which Max is.
LEMMA GreatestNumber ==
  ASSUME NEW n \in Nat, NEW T \in SUBSET (0 .. n), T # {}
  PROVE  Max(T) \in T /\ \A k \in T : k <= Max(T)
<1> DEFINE D == {n - k : k \in T}
<1>1. D \in SUBSET Nat /\ D # {}
  <2>1. PICK k \in T : TRUE
    OBVIOUS
  <2>2. n - k \in D
    OBVIOUS
  <2>3. \A j \in 0 .. n : n - j \in Nat
    OBVIOUS
  <2>4. QED
    BY <2>2, <2>3
<1>2. PICK d \in D : \A e \in D : d <= e
  BY <1>1, LeastNumber
<1>3. PICK m \in T : d = n - m
  OBVIOUS
<1>4. \A k \in T : m >= k
  <2> SUFFICES ASSUME NEW k \in T PROVE m >= k
    OBVIOUS
  <2>1. n - k \in D
    OBVIOUS
  <2>2. QED
    BY <1>2, <1>3, <2>1
<1>5. QED
  BY <1>4 DEF Max

\* The greatest of the numbers below i.
LEMMA MaxBelow ==
  ASSUME NEW i \in Nat, i > 0
  PROVE  Max(1 .. i) = i
  BY DEF Max

\* A beginning of a sequence.
LEMMA Beginning ==
  ASSUME NEW S, NEW s \in Seq(S), NEW n \in 0 .. Len(s)
  PROVE  /\ SubSeq(s, 1, n) \in Seq(S) /\ Len(SubSeq(s, 1, n)) = n
         /\ \A i \in 1 .. n : SubSeq(s, 1, n)[i] = s[i]
  OBVIOUS

-----------------------------------------------------------------------------
(* 1. The chain of hashes                                                   *)

\* A row: what a database holds and a proof shows.
IsEntry(e) ==
  e = [seq |-> e.seq, kind |-> e.kind, body |-> e.body, prev_hash |-> e.prev_hash,
       created_at |-> e.created_at, signature |-> e.signature, entry_hash |-> e.entry_hash]

IsRows(rows) == rows \in Seq(ToSet(rows)) /\ \A i \in 1 .. Len(rows) : IsEntry(rows[i])

\* Row i is numbered, linked to the row before, hashed and signed.
Linked(issuer, rows, i) ==
  /\ rows[i].seq = i
  /\ rows[i].prev_hash = IF i = 1 THEN GenesisHash ELSE rows[i - 1].entry_hash
  /\ rows[i].entry_hash = EntryDigest(rows[i])
  /\ VerifyPayload(issuer, Unsigned(rows[i]), rows[i].signature)

Chained(issuer, rows) == IsRows(rows) /\ \A i \in 1 .. Len(rows) : Linked(issuer, rows, i)

\* A digest fixes the row.
LEMMA DigestFixes ==
  ASSUME NEW e, NEW f, IsEntry(e), IsEntry(f),
         e.entry_hash = EntryDigest(e), f.entry_hash = EntryDigest(f),
         e.entry_hash = f.entry_hash
  PROVE  e = f
<1>1. [unsigned |-> Unsigned(e), signature |-> e.signature]
        = [unsigned |-> Unsigned(f), signature |-> f.signature]
  <2>1. Digest([unsigned |-> Unsigned(e), signature |-> e.signature]).digest_of
          = Digest([unsigned |-> Unsigned(f), signature |-> f.signature]).digest_of
    BY DEF EntryDigest
  <2>2. QED
    BY <2>1 DEF Digest
<1>2. Unsigned(e) = Unsigned(f) /\ e.signature = f.signature
  BY <1>1
<1>3. /\ e.seq = f.seq /\ e.kind = f.kind /\ e.body = f.body /\ e.prev_hash = f.prev_hash
      /\ e.created_at = f.created_at
  BY <1>2 DEF Unsigned
<1>4. QED
  BY <1>2, <1>3 DEF IsEntry

\* Two chains with one hash at one position are the same up to there: the last
\* position where they differ would have a successor where they do not.
LEMMA HashFixesPast ==
  ASSUME NEW one, NEW other, NEW s, NEW t, Chained(one, s), Chained(other, t),
         NEW k \in Nat, k > 0, k <= Len(s), k <= Len(t), s[k].entry_hash = t[k].entry_hash
  PROVE  \A j \in 1 .. k : s[j] = t[j]
<1> SUFFICES ASSUME NEW j \in 1 .. k, s[j] # t[j] PROVE FALSE
  OBVIOUS
<1> DEFINE T == {i \in 1 .. k : s[i] # t[i]}
<1>1. Len(s) \in Nat /\ Len(t) \in Nat
  BY DEF Chained, IsRows
<1>2. \A i \in 1 .. k : /\ IsEntry(s[i]) /\ IsEntry(t[i])
                        /\ Linked(one, s, i) /\ Linked(other, t, i)
  BY <1>1 DEF Chained, IsRows
<1>3. \A i \in 1 .. k : s[i].entry_hash = t[i].entry_hash => s[i] = t[i]
  BY <1>2, DigestFixes DEF Linked
<1>4. T \in SUBSET (0 .. k) /\ T # {}
  OBVIOUS
<1>5. PICK m \in T : \A i \in T : i <= m
  BY <1>4, GreatestNumber
<1>6. m < k
  BY <1>3, <1>5
<1>7. s[m + 1] = t[m + 1] /\ m + 1 \in 2 .. k
  BY <1>5, <1>6
<1>8. s[m + 1].prev_hash = s[m].entry_hash /\ t[m + 1].prev_hash = t[m].entry_hash
  <2>1. Linked(one, s, m + 1) /\ Linked(other, t, m + 1) /\ m + 1 # 1 /\ (m + 1) - 1 = m
    BY <1>2, <1>7
  <2>2. QED
    BY <2>1 DEF Linked
<1>9. s[m] = t[m]
  BY <1>3, <1>7, <1>8
<1>10. QED
  BY <1>9

-----------------------------------------------------------------------------
(* 2. The ledger                                                            *)

\* What an acceptance says of itself and of the rows before it.
LegalAccept(rows, i) ==
  LET body    == rows[i].body
      request == body.request
  IN  /\ request \in Requests /\ ValidRequest(request) /\ request.agent_key \in AllowedAgents
      /\ VerifyPayload(request.agent_key, request, body.agent_signature)
      /\ \A j \in 1 .. (i - 1) : rows[j].kind = "ACCEPT" =>
           RequestIdOf(rows[j]) # request.request_id

\* A decision answers an earlier acceptance, by the policy it names.
Answers(rows, i, j) ==
  LET body    == rows[i].body
      request == rows[j].body.request
  IN  /\ rows[j].kind = "ACCEPT" /\ request.request_id = body.request_id
      /\ body.accept_hash = rows[j].entry_hash
      /\ body.policy_hash = Digest(body.policy)
      /\ VerifyPayload(request.enterprise_key, body.policy, body.policy_signature)
      /\ <<body.result, body.reason>> = Evaluate(request, body.policy)

LegalDecision(rows, i) ==
  /\ \E j \in 1 .. (i - 1) : Answers(rows, i, j)
  /\ \A j \in 1 .. (i - 1) : rows[j].kind = "DECISION" =>
       RequestIdOf(rows[j]) # rows[i].body.request_id

Legal(rows, i) ==
  /\ rows[i].kind \in {"ACCEPT", "DECISION"}
  /\ rows[i].created_at \in Times
  /\ rows[i].kind = "ACCEPT" => LegalAccept(rows, i)
  /\ rows[i].kind = "DECISION" => LegalDecision(rows, i)

LedgerInv ==
  /\ db = [c \in Copies |-> db[c]]
  /\ \A c \in Copies : Chained(IssuerOf[c], db[c]) /\ \A i \in 1 .. Len(db[c]) : Legal(db[c], i)

\* The next row of a chain.
LEMMA AppendChained ==
  ASSUME LedgerInv, NEW c \in Copies, NEW kind, NEW body, NEW at
  PROVE  LET rows == db[c]
             entry == NewEntry(c, kind, body, at)
         IN  /\ entry.kind = kind /\ entry.body = body /\ entry.created_at = at
             /\ Len(rows) \in Nat /\ Len(Append(rows, entry)) = Len(rows) + 1
             /\ Append(rows, entry)[Len(rows) + 1] = entry
             /\ \A i \in 1 .. Len(rows) : Append(rows, entry)[i] = rows[i]
             /\ Chained(IssuerOf[c], Append(rows, entry))
<1> DEFINE rows == db[c]
           entry == NewEntry(c, kind, body, at)
           more == Append(rows, entry)
<1>1. Chained(IssuerOf[c], rows) /\ rows \in Seq(ToSet(rows)) /\ Len(rows) \in Nat
  BY DEF LedgerInv, Chained, IsRows
<1>2. /\ entry.seq = Len(rows) + 1 /\ entry.kind = kind /\ entry.body = body
      /\ entry.prev_hash = LastHash(rows) /\ entry.created_at = at
      /\ entry.signature = SignPayload(IssuerOf[c], Unsigned(entry))
      /\ entry.entry_hash = EntryDigest(entry) /\ IsEntry(entry)
  BY DEF NewEntry, Unsigned, EntryDigest, IsEntry
<1> HIDE DEF entry
<1>3. more \in Seq(ToSet(rows) \union {entry}) /\ Len(more) = Len(rows) + 1
  BY <1>1
<1>4. more[Len(rows) + 1] = entry /\ \A i \in 1 .. Len(rows) : more[i] = rows[i]
  BY <1>1
<1>5. more \in Seq(ToSet(more))
  <2>1. DOMAIN more = 1 .. Len(rows) + 1 /\ DOMAIN rows = 1 .. Len(rows)
    BY <1>1, <1>3
  <2>2. \A i \in 1 .. Len(more) : more[i] \in ToSet(more)
    BY <1>3, <2>1 DEF ToSet
  <2>3. QED
    BY <1>3, <2>2
<1> HIDE DEF more
<1>6. ASSUME NEW i \in 1 .. Len(rows) + 1 PROVE IsEntry(more[i]) /\ Linked(IssuerOf[c], more, i)
  <2>1. CASE i = Len(rows) + 1
    <3>1. more[i].prev_hash = IF i = 1 THEN GenesisHash ELSE more[i - 1].entry_hash
      <4>1. CASE Len(rows) = 0
        BY <1>1, <1>2, <1>4, <2>1, <4>1 DEF LastHash
      <4>2. CASE Len(rows) > 0
        BY <1>1, <1>2, <1>4, <2>1, <4>2 DEF LastHash
      <4>3. QED
        BY <1>1, <4>1, <4>2
    <3>2. QED
      BY <1>2, <1>4, <2>1, <3>1 DEF Linked, VerifyPayload
  <2>2. CASE i \in 1 .. Len(rows)
    <3>1. more[i] = rows[i] /\ (i # 1 => more[i - 1] = rows[i - 1])
      BY <1>1, <1>4, <2>2
    <3>2. QED
      BY <1>1, <2>2, <3>1 DEF Chained, IsRows, Linked
  <2>3. QED
    BY <1>1, <2>1, <2>2
<1>7. QED
  BY <1>1, <1>2, <1>3, <1>4, <1>5, <1>6 DEF Chained, IsRows, more, entry

\* A row stays legal when rows follow it.
LEMMA LegalAgrees ==
  ASSUME NEW rows, NEW more, NEW i \in Nat, Legal(rows, i),
         i > 0, \A j \in 1 .. i : more[j] = rows[j]
  PROVE  Legal(more, i)
<1>1. more[i] = rows[i] /\ \A j \in 1 .. (i - 1) : more[j] = rows[j]
  OBVIOUS
<1>2. QED
  BY <1>1 DEF Legal, LegalAccept, LegalDecision, Answers

\* A legal row may be inserted.
LEMMA InsertKeeps ==
  ASSUME LedgerInv, NEW c \in Copies, NEW kind, NEW body, NEW at,
         Insert(c, NewEntry(c, kind, body, at)),
         Legal(Append(db[c], NewEntry(c, kind, body, at)), Len(db[c]) + 1)
  PROVE  LedgerInv'
<1> DEFINE more == Append(db[c], NewEntry(c, kind, body, at))
<1>1. db' = [db EXCEPT ![c] = more] /\ db = [d \in Copies |-> db[d]]
  BY DEF Insert, LedgerInv
<1>2. /\ Chained(IssuerOf[c], more) /\ Len(db[c]) \in Nat /\ Len(more) = Len(db[c]) + 1
      /\ \A i \in 1 .. Len(db[c]) : more[i] = db[c][i]
  BY AppendChained
<1> HIDE DEF more
<1>3. \A i \in 1 .. Len(db[c]) : Legal(more, i)
  <2> SUFFICES ASSUME NEW i \in 1 .. Len(db[c]) PROVE Legal(more, i)
    OBVIOUS
  <2>1. Legal(db[c], i) /\ i \in Nat /\ i > 0 /\ \A j \in 1 .. i : more[j] = db[c][j]
    BY <1>2 DEF LedgerInv
  <2>2. QED
    BY <2>1, LegalAgrees
<1>4. \A i \in 1 .. Len(more) : Legal(more, i)
  BY <1>2, <1>3 DEF more
<1>5. db'[c] = more /\ \A d \in Copies \ {c} : db'[d] = db[d]
  BY <1>1
<1>6. db' = [d \in Copies |-> db'[d]]
  BY <1>1
<1>7. QED
  BY <1>2, <1>4, <1>5, <1>6 DEF LedgerInv

\* accept and decide keep the chain and what its rows say.
LEMMA LedgerSteps ==
  ASSUME LedgerInv, AcceptAny \/ DecideAny
  PROVE  LedgerInv'
<1>1. CASE AcceptAny
  <2>1. PICK c \in Copies, request \in Requests, key \in AgentKeys, at \in Times :
          Accept(c, request, SignPayload(key, request), at)
    BY <1>1 DEF AcceptAny
  <2> DEFINE body == [request |-> request, agent_signature |-> SignPayload(key, request)]
             entry == NewEntry(c, "ACCEPT", body, at)
             n == Len(db[c]) + 1
             more == Append(db[c], entry)
  <2>2. /\ entry.kind = "ACCEPT" /\ entry.body = body /\ entry.created_at = at
        /\ n \in Nat /\ more[n] = entry /\ \A i \in 1 .. (n - 1) : more[i] = db[c][i]
    BY AppendChained
  <2>3. /\ ValidRequest(request) /\ request.agent_key \in AllowedAgents
        /\ VerifyPayload(request.agent_key, request, body.agent_signature)
        /\ ~Has(db[c], "ACCEPT", request.request_id) /\ Insert(c, entry)
    BY <2>1 DEF Accept
  <2>4. DOMAIN db[c] = 1 .. (n - 1)
    BY DEF LedgerInv, Chained, IsRows
  <2> HIDE DEF entry, more, n
  <2>5. LegalAccept(more, n)
    BY <2>2, <2>3, <2>4 DEF LegalAccept, Has
  <2>6. Legal(more, n)
    BY <2>2, <2>5 DEF Legal
  <2>7. QED
    BY <2>3, <2>6, InsertKeeps DEF entry, more, n
<1>2. CASE DecideAny
  <2>1. PICK c \in Copies, id \in {r.request_id : r \in Requests}, policy \in Policies,
             key \in EnterpriseKeys, at \in Times :
          Decide(c, id, policy, SignPayload(key, policy), at)
    BY <1>2 DEF DecideAny
  <2>2. PICK j \in DOMAIN db[c] :
          LET accept  == db[c][j]
              request == accept.body.request
              verdict == Evaluate(request, policy)
          IN  /\ accept.kind = "ACCEPT"
              /\ request.request_id = id
              /\ VerifyPayload(request.enterprise_key, policy, SignPayload(key, policy))
              /\ Insert(c, NewEntry(c, "DECISION",
                   [request_id |-> id, accept_hash |-> accept.entry_hash,
                    policy |-> policy, policy_hash |-> Digest(policy),
                    policy_signature |-> SignPayload(key, policy),
                    result |-> verdict[1], reason |-> verdict[2]], at))
    BY <2>1 DEF Decide
  <2> DEFINE accept == db[c][j]
             verdict == Evaluate(accept.body.request, policy)
             body == [request_id |-> id, accept_hash |-> accept.entry_hash,
                      policy |-> policy, policy_hash |-> Digest(policy),
                      policy_signature |-> SignPayload(key, policy),
                      result |-> verdict[1], reason |-> verdict[2]]
             entry == NewEntry(c, "DECISION", body, at)
             n == Len(db[c]) + 1
             more == Append(db[c], entry)
  <2>3. /\ entry.kind = "DECISION" /\ entry.body = body /\ entry.created_at = at
        /\ n \in Nat /\ more[n] = entry /\ \A i \in 1 .. (n - 1) : more[i] = db[c][i]
    BY AppendChained
  <2>4. /\ accept.kind = "ACCEPT" /\ accept.body.request.request_id = id
        /\ VerifyPayload(accept.body.request.enterprise_key, policy, SignPayload(key, policy))
        /\ Insert(c, entry)
    BY <2>2
  <2>5. DOMAIN db[c] = 1 .. (n - 1)
    BY DEF LedgerInv, Chained, IsRows
  <2>6. <<verdict[1], verdict[2]>> = verdict
    BY DEF Evaluate
  <2> HIDE DEF entry, more, n, verdict
  <2>7. Answers(more, n, j)
    <3>1. more[j] = accept
      BY <2>3, <2>5
    <3>2. /\ more[n].body.request_id = id /\ more[n].body.accept_hash = accept.entry_hash
          /\ more[n].body.policy = policy /\ more[n].body.policy_hash = Digest(policy)
          /\ more[n].body.policy_signature = SignPayload(key, policy)
          /\ <<more[n].body.result, more[n].body.reason>> = verdict
      BY <2>3, <2>6
    <3>3. QED
      BY <2>4, <3>1, <3>2 DEF Answers, verdict
  <2>8. \A i \in 1 .. (n - 1) : more[i].kind = "DECISION" => RequestIdOf(more[i]) # id
    BY <2>1, <2>3, <2>5 DEF Decide, Has
  <2>9. LegalDecision(more, n)
    BY <2>3, <2>5, <2>7, <2>8 DEF LegalDecision
  <2>10. Legal(more, n)
    BY <2>3, <2>9 DEF Legal
  <2>11. QED
    BY <2>4, <2>10, InsertKeeps DEF entry, more, n
<1>3. QED
  BY <1>1, <1>2

-----------------------------------------------------------------------------
(* 3. Examinations                                                          *)

\* The rows of two sequences one after the other.
LEMMA JoinedRows ==
  ASSUME NEW s, NEW t, IsRows(s), IsRows(t)
  PROVE  IsRows(s \o t)
<1> DEFINE S == ToSet(s) \union ToSet(t)
           r == s \o t
<1>1. s \in Seq(S) /\ t \in Seq(S) /\ Len(s) \in Nat /\ Len(t) \in Nat
  BY DEF IsRows
<1>2. r \in Seq(S) /\ Len(r) = Len(s) + Len(t) /\ DOMAIN r = 1 .. Len(r)
  BY <1>1
<1>3. \A i \in 1 .. Len(r) : r[i] = IF i <= Len(s) THEN s[i] ELSE t[i - Len(s)]
  BY <1>1
<1> HIDE DEF r
<1>4. \A i \in 1 .. Len(r) : IsEntry(r[i])
  <2> SUFFICES ASSUME NEW i \in 1 .. Len(r) PROVE IsEntry(r[i])
    OBVIOUS
  <2>1. CASE i <= Len(s)
    BY <1>1, <1>3, <2>1 DEF IsRows
  <2>2. CASE i > Len(s)
    <3>1. i - Len(s) \in 1 .. Len(t)
      BY <1>1, <1>2, <2>2
    <3>2. QED
      BY <1>1, <1>3, <2>2, <3>1 DEF IsRows
  <2>3. QED
    BY <1>1, <2>1, <2>2
<1>5. \A i \in 1 .. Len(r) : r[i] \in ToSet(r)
  BY <1>2 DEF ToSet
<1>6. r \in Seq(ToSet(r))
  BY <1>2, <1>5
<1>7. QED
  BY <1>4, <1>6 DEF IsRows, r

\* A piece of a sequence of rows.
LEMMA PieceOfRows ==
  ASSUME NEW s, IsRows(s), NEW m \in Nat, m > 0, NEW n \in Int, n <= Len(s)
  PROVE  IsRows(SubSeq(s, m, n))
<1> DEFINE r == SubSeq(s, m, n)
           S == ToSet(s)
<1>1. s \in Seq(S) /\ Len(s) \in Nat
  BY DEF IsRows
<1>2. r \in Seq(S) /\ DOMAIN r = 1 .. Len(r) /\ Len(r) \in Nat
  BY <1>1
<1>3. \A i \in 1 .. Len(r) : r[i] = s[m + i - 1] /\ m + i - 1 \in 1 .. Len(s)
  BY <1>1
<1> HIDE DEF r
<1>4. \A i \in 1 .. Len(r) : IsEntry(r[i])
  BY <1>3 DEF IsRows
<1>5. \A i \in 1 .. Len(r) : r[i] \in ToSet(r)
  BY <1>2 DEF ToSet
<1>6. r \in Seq(ToSet(r))
  BY <1>2, <1>5
<1>7. QED
  BY <1>4, <1>6 DEF IsRows, r

\* The checkpoint an issuer signed over a beginning of one of its databases.
CheckpointOf(issuer, c, n) == ExportProof(issuer, SubSeq(db[c], 1, n)).checkpoint

\* What is presented has rows, and a checkpoint that was signed.
LEMMA PresentedFrom ==
  ASSUME LedgerInv, NEW issuer, NEW proof \in Presented(issuer)
  PROVE  /\ IsRows(proof.entries)
         /\ \E c \in CopiesOf(issuer) : \E n \in 0 .. Len(db[c]) :
              proof.checkpoint = CheckpointOf(issuer, c, n)
<1>1. \A c \in CopiesOf(issuer) :
        /\ c \in Copies /\ IsRows(db[c]) /\ Len(db[c]) \in Nat /\ DOMAIN db[c] = 1 .. Len(db[c])
        /\ SubSeq(db[c], 1, Len(db[c])) = db[c]
  <2> SUFFICES ASSUME NEW c \in CopiesOf(issuer)
               PROVE  /\ c \in Copies /\ IsRows(db[c]) /\ Len(db[c]) \in Nat
                      /\ DOMAIN db[c] = 1 .. Len(db[c])
                      /\ SubSeq(db[c], 1, Len(db[c])) = db[c]
    OBVIOUS
  <2>1. c \in Copies /\ IsRows(db[c]) /\ db[c] \in Seq(ToSet(db[c]))
    BY DEF CopiesOf, LedgerInv, Chained, IsRows
  <2>2. QED
    BY <2>1
<1>2. ASSUME NEW c \in CopiesOf(issuer), NEW entries, IsRows(entries),
             proof = [ExportProof(issuer, db[c]) EXCEPT !.entries = entries]
      PROVE  /\ IsRows(proof.entries)
             /\ \E d \in CopiesOf(issuer) : \E n \in 0 .. Len(db[d]) :
                  proof.checkpoint = CheckpointOf(issuer, d, n)
  <2>1. proof.entries = entries /\ proof.checkpoint = ExportProof(issuer, db[c]).checkpoint
    BY <1>2 DEF ExportProof
  <2>2. SubSeq(db[c], 1, Len(db[c])) = db[c] /\ Len(db[c]) \in 0 .. Len(db[c])
    BY <1>1
  <2>3. proof.checkpoint = CheckpointOf(issuer, c, Len(db[c]))
    BY ONLY <2>1, <2>2 DEF CheckpointOf
  <2>4. QED
    BY <1>2, <2>1, <2>2, <2>3
<1>3. CASE proof \in ExportedProofs(issuer)
  <2>0. PICK c \in CopiesOf(issuer) : \E n \in 0 .. Len(db[c]) :
          proof = ExportProof(issuer, SubSeq(db[c], 1, n))
    BY <1>3 DEF ExportedProofs
  <2>1. PICK n \in 0 .. Len(db[c]) : proof = ExportProof(issuer, SubSeq(db[c], 1, n))
    BY <2>0
  <2>2. IsRows(SubSeq(db[c], 1, n))
    BY <1>1, PieceOfRows
  <2>3. proof.entries = SubSeq(db[c], 1, n) /\ proof.checkpoint = CheckpointOf(issuer, c, n)
    BY <2>1 DEF ExportProof, CheckpointOf
  <2>4. QED
    BY <2>2, <2>3
<1>4. CASE proof \in SplicedProofs(issuer)
  <2> DEFINE Splice(c, d, k) == [ExportProof(issuer, db[c]) EXCEPT
                                   !.entries = SubSeq(db[d], 1, k) \o SubSeq(@, k + 1, Len(@))]
             last(c, d) == IF Len(db[d]) < Len(db[c]) THEN Len(db[d]) ELSE Len(db[c])
             Splices(c, d) == {Splice(c, d, k) : k \in 1 .. last(c, d)}
             Under(c) == UNION {Splices(c, d) : d \in CopiesOf(issuer)}
  <2>1. SplicedProofs(issuer) = UNION {Under(c) : c \in CopiesOf(issuer)}
    BY DEF SplicedProofs
  <2> HIDE DEF Under
  <2>2. PICK c \in CopiesOf(issuer) : proof \in Under(c)
    BY <1>4, <2>1
  <2> USE DEF Under
  <2> HIDE DEF Splices
  <2>3. PICK d \in CopiesOf(issuer) : proof \in Splices(c, d)
    BY <2>2
  <2> USE DEF Splices
  <2>4. PICK k \in 1 .. last(c, d) : proof = Splice(c, d, k)
    BY <2>3
  <2>5. k \in Nat /\ k <= Len(db[d]) /\ k <= Len(db[c])
    BY <1>1
  <2> DEFINE entries == SubSeq(db[d], 1, k) \o SubSeq(db[c], k + 1, Len(db[c]))
  <2>6. proof = [ExportProof(issuer, db[c]) EXCEPT !.entries = entries]
    BY <2>4 DEF ExportProof
  <2>7. IsRows(entries)
    <3>1. IsRows(SubSeq(db[d], 1, k)) /\ IsRows(SubSeq(db[c], k + 1, Len(db[c])))
      BY <1>1, <2>5, PieceOfRows
    <3>2. QED
      BY <3>1, JoinedRows
  <2>8. QED
    BY <1>2, <2>6, <2>7
<1>5. CASE \E c \in CopiesOf(issuer) : \E i \in DOMAIN db[c] :
             proof = [ExportProof(issuer, db[c]) EXCEPT !.entries = RemoveAt(@, i)]
  <2>0. PICK c \in CopiesOf(issuer) : \E i \in DOMAIN db[c] :
          proof = [ExportProof(issuer, db[c]) EXCEPT !.entries = RemoveAt(@, i)]
    BY <1>5
  <2>1. PICK i \in DOMAIN db[c] : proof = [ExportProof(issuer, db[c]) EXCEPT !.entries = RemoveAt(@, i)]
    BY <2>0
  <2> DEFINE entries == SubSeq(db[c], 1, i - 1) \o SubSeq(db[c], i + 1, Len(db[c]))
  <2>2. proof = [ExportProof(issuer, db[c]) EXCEPT !.entries = entries]
    BY <2>1 DEF ExportProof, RemoveAt
  <2>3. i \in 1 .. Len(db[c])
    BY <1>1
  <2>4. IsRows(entries)
    BY <1>1, <2>3, PieceOfRows, JoinedRows
  <2>5. QED
    BY <1>2, <2>2, <2>4
<1>6. CASE \E c \in CopiesOf(issuer) : \E i \in DOMAIN db[c] :
             proof = [ExportProof(issuer, db[c]) EXCEPT !.entries[i].body.reason = "OTHER_REASON"]
  <2>0. PICK c \in CopiesOf(issuer) : \E i \in DOMAIN db[c] :
          proof = [ExportProof(issuer, db[c]) EXCEPT !.entries[i].body.reason = "OTHER_REASON"]
    BY <1>6
  <2>1. PICK i \in DOMAIN db[c] :
          proof = [ExportProof(issuer, db[c]) EXCEPT !.entries[i].body.reason = "OTHER_REASON"]
    BY <2>0
  <2> DEFINE body == [db[c][i].body EXCEPT !.reason = "OTHER_REASON"]
             e == [db[c][i] EXCEPT !.body = body]
             entries == [db[c] EXCEPT ![i] = e]
  <2>2. proof = [ExportProof(issuer, db[c]) EXCEPT !.entries = entries]
    BY <2>1 DEF ExportProof
  <2>3. i \in 1 .. Len(db[c]) /\ IsEntry(db[c][i])
    BY <1>1 DEF IsRows
  <2> HIDE DEF body
  <2>4. IsEntry(e)
    BY <2>3 DEF IsEntry
  <2> HIDE DEF e
  <2>5. /\ entries \in Seq(ToSet(db[c]) \union {e}) /\ Len(entries) = Len(db[c])
        /\ DOMAIN entries = 1 .. Len(db[c])
        /\ \A j \in 1 .. Len(db[c]) : entries[j] = IF j = i THEN e ELSE db[c][j]
    BY <1>1, <2>3 DEF IsRows
  <2> HIDE DEF entries
  <2>6. \A j \in 1 .. Len(entries) : entries[j] \in ToSet(entries) /\ IsEntry(entries[j])
    BY <1>1, <2>4, <2>5 DEF ToSet, IsRows
  <2>7. IsRows(entries)
    BY <2>5, <2>6 DEF IsRows
  <2>8. QED
    BY <1>2, <2>2, <2>7
<1>7. proof \in EditedProofs(issuer) =>
        \E c \in CopiesOf(issuer) : \E i \in DOMAIN db[c] :
          \/ proof = [ExportProof(issuer, db[c]) EXCEPT !.entries = RemoveAt(@, i)]
          \/ proof = [ExportProof(issuer, db[c]) EXCEPT !.entries[i].body.reason = "OTHER_REASON"]
  BY DEF EditedProofs
<1>8. QED
  BY <1>3, <1>4, <1>5, <1>6, <1>7 DEF Presented

\* Which problem a proof has at most when nothing is wrong with it.
Fine == {"MISSING_DECISION"}

\* The parts of an examination that found nothing wrong.
LEMMA FineParts ==
  ASSUME NEW proof, NEW issuer, NEW pin, NEW expected, NEW trusted,
         VerifyProof(proof, issuer, pin, expected, trusted).problems \subseteq Fine
  PROVE  /\ CheckpointProblems(proof, issuer, pin) \subseteq Fine
         /\ \A i \in DOMAIN proof.entries :
              /\ EntryProblems(issuer, proof.entries, i) \subseteq Fine
              /\ KindProblems(proof.entries, i, trusted) \subseteq Fine
<1> DEFINE of(i) == EntryProblems(issuer, proof.entries, i)
                      \cup KindProblems(proof.entries, i, trusted)
<1>1. /\ CheckpointProblems(proof, issuer, pin) \subseteq Fine
      /\ ProblemsOfEntries(issuer, proof.entries, trusted) \subseteq Fine
  BY DEF VerifyProof
<1>2. ASSUME NEW i \in DOMAIN proof.entries PROVE of(i) \subseteq Fine
  BY <1>1 DEF ProblemsOfEntries
<1>3. QED
  BY <1>1, <1>2

\* Rows before which no decision is an orphan are linked one by one.
LEMMA NoOrphanLink ==
  ASSUME NEW entries, NEW i \in Nat, i > 0, \A j \in 1 .. (i - 1) : ~Orphan(entries, j)
  PROVE  PreviousHash(entries, i) = IF i = 1 THEN GenesisHash ELSE entries[i - 1].entry_hash
<1> DEFINE kept == {j \in 1 .. (i - 1) : ~Orphan(entries, j)}
<1>1. PreviousHash(entries, i) = IF kept = {} THEN GenesisHash ELSE entries[Max(kept)].entry_hash
  BY DEF PreviousHash
<1>2. kept = 1 .. (i - 1)
  OBVIOUS
<1> HIDE DEF kept
<1>3. CASE i = 1
  BY <1>1, <1>2, <1>3
<1>4. CASE i > 1
  <2>1. Max(1 .. (i - 1)) = i - 1 /\ 1 .. (i - 1) # {}
    BY <1>4, MaxBelow
  <2>2. QED
    BY <1>1, <1>2, <1>4, <2>1
<1>5. QED
  BY <1>3, <1>4

\* Rows in which nothing is wrong are chained, and end where the checkpoint says.
LEMMA FineIsChained ==
  ASSUME NEW proof, NEW issuer, NEW pin, NEW expected, NEW trusted, IsRows(proof.entries),
         VerifyProof(proof, issuer, pin, expected, trusted).problems \subseteq Fine
  PROVE  /\ Chained(issuer, proof.entries)
         /\ \A i \in 1 .. Len(proof.entries) : ~Orphan(proof.entries, i)
         /\ CheckpointDigest(proof.checkpoint) = pin
         /\ proof.checkpoint.size = Len(proof.entries)
         /\ proof.checkpoint.head_hash = HeadHash(proof.entries)
<1> DEFINE entries == proof.entries
<1>1. entries \in Seq(ToSet(entries)) /\ Len(entries) \in Nat /\ DOMAIN entries = 1 .. Len(entries)
  BY DEF IsRows
<1>2. ASSUME NEW i \in 1 .. Len(entries) PROVE ~Orphan(entries, i)
  <2>1. KindProblems(entries, i, trusted) \subseteq Fine
    BY <1>1, FineParts
  <2>2. QED
    BY <2>1 DEF KindProblems, DecisionProblems, Orphan, Fine
<1>3. ASSUME NEW i \in 1 .. Len(entries) PROVE Linked(issuer, entries, i)
  <2>1. EntryProblems(issuer, entries, i) \subseteq Fine
    BY <1>1, FineParts
  <2>2. ~BrokenChain(entries, i) /\ EntryDigest(entries[i]) = entries[i].entry_hash
        /\ VerifyPayload(issuer, Unsigned(entries[i]), entries[i].signature)
    BY <2>1 DEF EntryProblems, Named, Fine
  <2>3. PreviousHash(entries, i) = IF i = 1 THEN GenesisHash ELSE entries[i - 1].entry_hash
    BY <1>1, <1>2, NoOrphanLink
  <2>4. QED
    BY <2>2, <2>3 DEF BrokenChain, Linked
<1>4. CheckpointProblems(proof, issuer, pin) \subseteq Fine
  BY FineParts
<1>5. /\ CheckpointDigest(proof.checkpoint) = pin /\ proof.checkpoint.size = Len(entries)
      /\ proof.checkpoint.head_hash = PreviousHash(entries, Len(entries) + 1)
  BY <1>4 DEF CheckpointProblems, Named, Fine
<1>6. PreviousHash(entries, Len(entries) + 1) = HeadHash(entries)
  <2>1. PreviousHash(entries, Len(entries) + 1)
          = IF Len(entries) + 1 = 1 THEN GenesisHash
            ELSE entries[(Len(entries) + 1) - 1].entry_hash
    BY <1>1, <1>2, NoOrphanLink
  <2>2. (Len(entries) = 0) = (entries = << >>)
    BY <1>1
  <2>3. QED
    BY <1>1, <2>1, <2>2 DEF HeadHash
<1>7. QED
  BY <1>2, <1>3, <1>5, <1>6 DEF Chained

\* A checkpoint of n rows of a database, and a chain that ends with it: the chain is
\* those rows.
LEMMA CheckpointFixesPast ==
  ASSUME LedgerInv, NEW issuer, NEW entries, Chained(issuer, entries),
         NEW c \in Copies, NEW n \in 0 .. Len(db[c]),
         Len(entries) = n, HeadHash(entries) = HeadHash(SubSeq(db[c], 1, n))
  PROVE  entries = SubSeq(db[c], 1, n)
<1> DEFINE rows == db[c]
           part == SubSeq(rows, 1, n)
<1>1. /\ Chained(IssuerOf[c], rows) /\ rows \in Seq(ToSet(rows)) /\ Len(rows) \in Nat /\ n \in Nat
      /\ entries \in Seq(ToSet(entries))
  BY DEF LedgerInv, Chained, IsRows
<1>2. part \in Seq(ToSet(rows)) /\ Len(part) = n /\ \A i \in 1 .. n : part[i] = rows[i]
  BY <1>1
<1> HIDE DEF part
<1>3. CASE n = 0
  BY <1>1, <1>2, <1>3 DEF part
<1>4. CASE n > 0
  <2>1. entries # << >> /\ part # << >>
    BY <1>1, <1>2, <1>4
  <2>2. entries[n].entry_hash = rows[n].entry_hash
    BY <1>1, <1>2, <1>4, <2>1 DEF HeadHash, part
  <2>3. \A i \in 1 .. n : entries[i] = rows[i]
    BY <1>1, <1>4, <2>2, HashFixesPast
  <2>4. entries \in Seq(ToSet(rows) \union ToSet(entries))
        /\ part \in Seq(ToSet(rows) \union ToSet(entries))
    BY <1>1, <1>2
  <2>5. QED
    BY <1>1, <1>2, <2>3, <2>4 DEF part
<1>5. QED
  BY <1>1, <1>3, <1>4 DEF part

\* Two checkpoints with one digest are of one size and head.
LEMMA CheckpointFields ==
  ASSUME LedgerInv, NEW issuer, NEW c \in Copies, NEW n \in 0 .. Len(db[c])
  PROVE  /\ CheckpointOf(issuer, c, n).size = n
         /\ CheckpointOf(issuer, c, n).head_hash = HeadHash(SubSeq(db[c], 1, n))
         /\ CheckpointOf(issuer, c, n)
              = Checkpoint(issuer, n, HeadHash(SubSeq(db[c], 1, n)))
<1>1. Len(SubSeq(db[c], 1, n)) = n
  <2>1. db[c] \in Seq(ToSet(db[c]))
    BY DEF LedgerInv, Chained, IsRows
  <2>2. QED
    BY <2>1
<1>2. QED
  BY <1>1 DEF CheckpointOf, ExportProof, Checkpoint

\* Whatever is presented: if nothing is wrong with it, it is an export.
LEMMA FineIsExport ==
  ASSUME LedgerInv, NEW issuer, NEW proof \in Presented(issuer), NEW pin, NEW expected, NEW trusted,
         VerifyProof(proof, issuer, pin, expected, trusted).problems \subseteq Fine
  PROVE  /\ Chained(issuer, proof.entries) /\ CheckpointDigest(proof.checkpoint) = pin
         /\ \E c \in CopiesOf(issuer) : \E n \in 0 .. Len(db[c]) :
              /\ proof.entries = SubSeq(db[c], 1, n)
              /\ proof.checkpoint = CheckpointOf(issuer, c, n)
<1>1. PICK c \in CopiesOf(issuer) : \E n \in 0 .. Len(db[c]) :
        proof.checkpoint = CheckpointOf(issuer, c, n)
  BY PresentedFrom
<1>2. PICK n \in 0 .. Len(db[c]) : proof.checkpoint = CheckpointOf(issuer, c, n)
  BY <1>1
<1>3. c \in Copies
  BY DEF CopiesOf
<1>4. /\ Chained(issuer, proof.entries) /\ CheckpointDigest(proof.checkpoint) = pin
      /\ proof.checkpoint.size = Len(proof.entries)
      /\ proof.checkpoint.head_hash = HeadHash(proof.entries)
  BY PresentedFrom, FineIsChained
<1>5. Len(proof.entries) = n /\ HeadHash(proof.entries) = HeadHash(SubSeq(db[c], 1, n))
  BY <1>2, <1>3, <1>4, CheckpointFields
<1>6. proof.entries = SubSeq(db[c], 1, n)
  BY <1>3, <1>4, <1>5, CheckpointFixesPast
<1>7. QED
  BY <1>2, <1>4, <1>6

-----------------------------------------------------------------------------
(* What exports say                                                         *)

\* The rows of a database, spelled out.
LEMMA RowsOfCopy ==
  ASSUME LedgerInv, NEW c \in Copies
  PROVE  /\ Chained(IssuerOf[c], db[c]) /\ IsRows(db[c]) /\ db[c] \in Seq(ToSet(db[c]))
         /\ Len(db[c]) \in Nat /\ DOMAIN db[c] = 1 .. Len(db[c])
         /\ \A i \in 1 .. Len(db[c]) : /\ IsEntry(db[c][i]) /\ Linked(IssuerOf[c], db[c], i)
                                       /\ Legal(db[c], i) /\ db[c][i] \in ToSet(db[c])
<1>1. Chained(IssuerOf[c], db[c]) /\ IsRows(db[c]) /\ db[c] \in Seq(ToSet(db[c]))
      /\ \A i \in 1 .. Len(db[c]) : Legal(db[c], i)
  BY DEF LedgerInv, Chained, IsRows
<1>2. Len(db[c]) \in Nat /\ DOMAIN db[c] = 1 .. Len(db[c])
  BY <1>1
<1>3. QED
  BY <1>1, <1>2 DEF Chained, IsRows, ToSet

\* A request is accepted once in a database.
LEMMA OneAcceptance ==
  ASSUME LedgerInv, NEW c \in Copies, NEW i \in 1 .. Len(db[c]), NEW j \in 1 .. Len(db[c]),
         db[c][i].kind = "ACCEPT", db[c][j].kind = "ACCEPT",
         RequestIdOf(db[c][i]) = RequestIdOf(db[c][j])
  PROVE  i = j
<1>1. Len(db[c]) \in Nat /\ Legal(db[c], i) /\ Legal(db[c], j)
  BY RowsOfCopy
<1>2. ~(i < j)
  BY <1>1 DEF Legal, LegalAccept, RequestIdOf
<1>3. ~(j < i)
  BY <1>1 DEF Legal, LegalAccept, RequestIdOf
<1>4. QED
  BY <1>1, <1>2, <1>3

\* The acceptance that a decision answers is the one its examination finds.
LEMMA DecisionExamined ==
  ASSUME LedgerInv, NEW c \in Copies, NEW i \in 1 .. Len(db[c]), db[c][i].kind = "DECISION"
  PROVE  ~Orphan(db[c], i) /\ DecisionProblems(db[c], i) = {}
<1> DEFINE rows == db[c]
           id == rows[i].body.request_id
<1>1. Len(rows) \in Nat /\ LegalDecision(rows, i) /\ RequestIdOf(rows[i]) = id
  BY RowsOfCopy DEF Legal, RequestIdOf
<1>2. PICK j \in 1 .. (i - 1) : Answers(rows, i, j)
  BY <1>1 DEF LegalDecision
<1>3. rows[j].kind = "ACCEPT" /\ RequestIdOf(rows[j]) = id /\ j \in 1 .. Len(rows)
  BY <1>1, <1>2 DEF Answers, RequestIdOf
<1>4. AcceptedBefore(rows, i, id) = {j}
  <2>1. j \in AcceptedBefore(rows, i, id)
    BY <1>3 DEF AcceptedBefore
  <2>2. ASSUME NEW k \in AcceptedBefore(rows, i, id) PROVE k = j
    <3>1. k \in 1 .. Len(rows) /\ rows[k].kind = "ACCEPT" /\ RequestIdOf(rows[k]) = id
      BY <1>1 DEF AcceptedBefore
    <3>2. QED
      BY <1>3, <3>1, OneAcceptance
  <2>3. QED
    BY <2>1, <2>2
<1>5. Max({j}) = j
  BY DEF Max
<1>6. ~Orphan(rows, i)
  BY <1>1, <1>4 DEF Orphan
<1>7. {k \in 1 .. (i - 1) : /\ rows[k].kind = "DECISION" /\ ~Orphan(rows, k)
                            /\ RequestIdOf(rows[k]) = id} = {}
  BY <1>1 DEF LegalDecision
<1>8. DecisionProblems(rows, i) = {}
  BY <1>2, <1>4, <1>5, <1>6, <1>7 DEF DecisionProblems, Answers, Named
<1>9. QED
  BY <1>6, <1>8

\* An acceptance receipt that the ledger answered with is valid.
LEMMA ReceiptIsValid ==
  ASSUME LedgerInv, NEW c \in Copies, NEW i \in 1 .. Len(db[c]), db[c][i].kind = "ACCEPT"
  PROVE  ValidAcceptanceReceipt(db[c][i], IssuerOf[c])
<1>1. Linked(IssuerOf[c], db[c], i) /\ LegalAccept(db[c], i) /\ i > 0
  BY RowsOfCopy DEF Legal
<1>2. QED
  BY <1>1 DEF ValidAcceptanceReceipt, Linked, LegalAccept

\* The examination of an export by a holder of receipts of the database, who trusts
\* the admitted agents, finds nothing but decisions that were not made.
LEMMA ExportExamined ==
  ASSUME LedgerInv, NEW c \in Copies, NEW trusted, NEW expected,
         AllowedAgents \subseteq trusted.agents, EnterpriseKeys \subseteq trusted.enterprises,
         \A e \in expected : \E i \in 1 .. Len(db[c]) : e = db[c][i] /\ e.kind = "ACCEPT"
  PROVE  VerifyProof(ExportProof(IssuerOf[c], db[c]), IssuerOf[c], Pin(IssuerOf[c], db[c]),
                     expected, trusted)
           = [problems |-> Named("MISSING_DECISION", Undecided(db[c]) # {}),
              missing |-> Undecided(db[c])]
<1> DEFINE rows == db[c]
           issuer == IssuerOf[c]
           proof == ExportProof(issuer, rows)
           pin == Pin(issuer, rows)
<1>1. Len(rows) \in Nat /\ DOMAIN rows = 1 .. Len(rows) /\ rows \in Seq(ToSet(rows))
  BY RowsOfCopy
<1>2. proof.entries = rows /\ proof.checkpoint = Checkpoint(issuer, Len(rows), HeadHash(rows))
  BY DEF ExportProof
<1>3. \A i \in 1 .. Len(rows) : ~Orphan(rows, i)
  BY DecisionExamined DEF Orphan
<1>4. ASSUME NEW i \in 1 .. Len(rows) + 1
      PROVE  PreviousHash(rows, i) = IF i = 1 THEN GenesisHash ELSE rows[i - 1].entry_hash
  BY <1>1, <1>3, NoOrphanLink
<1>5. CheckpointProblems(proof, issuer, pin) = {}
  <2>1. PreviousHash(rows, Len(rows) + 1) = HeadHash(rows)
    <3>1. (Len(rows) = 0) = (rows = << >>)
      BY <1>1
    <3>2. PreviousHash(rows, Len(rows) + 1)
            = IF Len(rows) + 1 = 1 THEN GenesisHash ELSE rows[(Len(rows) + 1) - 1].entry_hash
      BY <1>1, <1>4
    <3>3. QED
      BY <1>1, <3>1, <3>2 DEF HeadHash
  <2>2. /\ proof.checkpoint.size = Len(rows) /\ proof.checkpoint.head_hash = HeadHash(rows)
        /\ proof.checkpoint.signature
             = SignPayload(issuer, CheckpointBody(Len(rows), HeadHash(rows)))
    BY <1>2 DEF Checkpoint
  <2>3. CheckpointDigest(proof.checkpoint) = pin
    BY DEF Pin
  <2>4. QED
    BY <1>2, <2>1, <2>2, <2>3 DEF CheckpointProblems, Named, VerifyPayload
<1>6. ASSUME NEW i \in DOMAIN rows
      PROVE  EntryProblems(issuer, rows, i) \cup KindProblems(rows, i, trusted) = {}
  <2>1. Linked(issuer, rows, i) /\ Legal(rows, i) /\ i \in 1 .. Len(rows)
    BY <1>1, RowsOfCopy
  <2>2. EntryProblems(issuer, rows, i) = {}
    BY <1>1, <1>4, <2>1 DEF EntryProblems, Named, BrokenChain, Linked
  <2>3. CASE rows[i].kind = "ACCEPT"
    <3>1. LegalAccept(rows, i)
      BY <2>1, <2>3 DEF Legal
    <3>2. AcceptedBefore(rows, i, rows[i].body.request.request_id) = {}
      BY <3>1 DEF AcceptedBefore, LegalAccept
    <3>3. AcceptProblems(rows, i, trusted) = {}
      BY <3>1, <3>2, RequestsAssumption DEF AcceptProblems, LegalAccept, Named
    <3>4. QED
      BY <2>2, <2>3, <3>3 DEF KindProblems
  <2>4. CASE rows[i].kind = "DECISION"
    BY <2>1, <2>2, <2>4, DecisionExamined DEF KindProblems
  <2>5. QED
    BY <2>1, <2>3, <2>4 DEF Legal
<1> DEFINE es == proof.entries
           found == ProblemsOfEntries(issuer, es, trusted)
           valid == {r \in expected : ValidAcceptanceReceipt(r, issuer)}
           omitted == {r \in valid : Omitted(es, r)}
           problems == CheckpointProblems(proof, issuer, pin)
             \cup found
             \cup Named("INVALID_EXPECTED_ACCEPTANCE", valid # expected)
             \cup Named("ACCEPTANCE_OMITTED", omitted # {})
             \cup Named("MISSING_DECISION", Undecided(es) # {})
           missing == Undecided(es) \cup {RequestIdOf(r) : r \in omitted}
<1> HIDE DEF proof, pin, issuer, rows
<1>7. VerifyProof(proof, issuer, pin, expected, trusted)
        = [problems |-> problems, missing |-> missing]
  BY DEF VerifyProof
<1> HIDE DEF es
<1> USE DEF issuer, rows
<1>8. es = rows
  BY <1>2 DEF es
<1>9. found = {}
  BY <1>6, <1>8 DEF ProblemsOfEntries
<1>10. valid = expected
  BY ReceiptIsValid
<1>11. omitted = {}
  BY <1>1, <1>8, <1>10 DEF Omitted
<1>12. problems = Named("MISSING_DECISION", Undecided(rows) # {})
  <2>1. /\ Named("INVALID_EXPECTED_ACCEPTANCE", valid # expected) = {}
        /\ Named("ACCEPTANCE_OMITTED", omitted # {}) = {}
    BY <1>10, <1>11 DEF Named
  <2> HIDE DEF found, valid, omitted
  <2>2. QED
    BY <1>5, <1>8, <1>9, <2>1
<1>13. missing = Undecided(rows)
  BY <1>8, <1>11
<1> HIDE DEF problems, missing
<1>14. QED
  BY <1>7, <1>12, <1>13 DEF proof, pin

\* The requests that wait for a decision, as the ledger's indices know them.
LEMMA UndecidedWait ==
  ASSUME LedgerInv, NEW c \in Copies
  PROVE  LET accepted == {r.request_id : r \in {q \in Requests : Has(db[c], "ACCEPT", q.request_id)}}
         IN  Undecided(db[c]) = {id \in accepted : ~Has(db[c], "DECISION", id)}
<1> DEFINE rows == db[c]
           named == {q \in Requests : Has(rows, "ACCEPT", q.request_id)}
           accepted == {r.request_id : r \in named}
           accepts == {i \in DOMAIN rows : rows[i].kind = "ACCEPT"}
           decisions == {i \in DOMAIN rows : rows[i].kind = "DECISION" /\ ~Orphan(rows, i)}
<1>1. DOMAIN rows = 1 .. Len(rows) /\ \A i \in 1 .. Len(rows) : Legal(rows, i)
  BY RowsOfCopy
<1>2. {RequestIdOf(rows[i]) : i \in accepts} = accepted
  <2>1. ASSUME NEW i \in accepts PROVE RequestIdOf(rows[i]) \in accepted
    <3>1. /\ rows[i].body.request \in Requests
          /\ RequestIdOf(rows[i]) = rows[i].body.request.request_id
      BY <1>1 DEF Legal, LegalAccept, RequestIdOf
    <3>2. rows[i].body.request \in named
      BY <3>1 DEF Has
    <3>3. QED
      BY <3>1, <3>2
  <2>2. ASSUME NEW id \in accepted PROVE \E i \in accepts : id = RequestIdOf(rows[i])
    BY DEF Has
  <2>3. QED
    BY <2>1, <2>2
<1>3. \A id : Has(rows, "DECISION", id) = (id \in {RequestIdOf(rows[i]) : i \in decisions})
  <2>1. decisions = {i \in DOMAIN rows : rows[i].kind = "DECISION"}
    BY <1>1, DecisionExamined
  <2> HIDE DEF decisions
  <2>2. ASSUME NEW id
        PROVE  Has(rows, "DECISION", id) <=> \E i \in decisions : id = RequestIdOf(rows[i])
    <3>1. Has(rows, "DECISION", id)
            <=> \E i \in DOMAIN rows : rows[i].kind = "DECISION" /\ RequestIdOf(rows[i]) = id
      BY DEF Has
    <3>2. QED
      BY <2>1, <3>1
  <2>3. ASSUME NEW id PROVE Has(rows, "DECISION", id) \in BOOLEAN
    BY DEF Has
  <2>4. QED
    BY <2>2, <2>3
<1>4. Undecided(rows) = {RequestIdOf(rows[i]) : i \in accepts} \ {RequestIdOf(rows[i]) : i \in decisions}
  BY DEF Undecided
<1> DEFINE decided == {RequestIdOf(rows[i]) : i \in decisions}
<1>5. Undecided(rows) = accepted \ decided /\ \A id : Has(rows, "DECISION", id) = (id \in decided)
  BY <1>2, <1>3, <1>4
<1> HIDE DEF accepted, decided
<1>6. Undecided(rows) = {id \in accepted : ~Has(rows, "DECISION", id)}
  BY <1>5
<1>7. QED
  BY <1>6 DEF accepted

\* The examination agrees with the indices that the ledger answers by.
LEMMA ExportsVerifyFollows == LedgerInv => ExportsVerify
<1> SUFFICES ASSUME LedgerInv, NEW c \in Copies
    PROVE LET accepted == {r.request_id : r \in {q \in Requests : Has(db[c], "ACCEPT", q.request_id)}}
              waiting  == {id \in accepted : ~Has(db[c], "DECISION", id)}
          IN  VerifyProof(ExportProof(IssuerOf[c], db[c]), IssuerOf[c], Pin(IssuerOf[c], db[c]),
                    {e \in ToSet(db[c]) : e.kind = "ACCEPT"}, Admitted)
                = [problems |-> Named("MISSING_DECISION", waiting # {}), missing |-> waiting]
  BY DEF ExportsVerify
<1> DEFINE expected == {e \in ToSet(db[c]) : e.kind = "ACCEPT"}
<1>1. \A e \in expected : \E i \in 1 .. Len(db[c]) : e = db[c][i] /\ e.kind = "ACCEPT"
  BY RowsOfCopy DEF ToSet
<1>2. AllowedAgents \subseteq Admitted.agents /\ EnterpriseKeys \subseteq Admitted.enterprises
  BY DEF Admitted
<1> HIDE DEF expected
<1>3. VerifyProof(ExportProof(IssuerOf[c], db[c]), IssuerOf[c], Pin(IssuerOf[c], db[c]),
                  expected, Admitted)
        = [problems |-> Named("MISSING_DECISION", Undecided(db[c]) # {}),
           missing |-> Undecided(db[c])]
  BY <1>1, <1>2, ExportExamined
<1>4. QED
  BY <1>3, UndecidedWait DEF expected

-----------------------------------------------------------------------------
(* What passing proofs say                                                  *)

\* A checkpoint digest fixes the checkpoint.
LEMMA PinFixes ==
  ASSUME NEW x, NEW y, CheckpointDigest(x) = CheckpointDigest(y)
  PROVE  x = y
<1>1. CheckpointDigest(x).digest_of = CheckpointDigest(y).digest_of
  OBVIOUS
<1>2. QED
  BY <1>1 DEF CheckpointDigest, Digest

\* A pin fixes the checkpoint, the checkpoint the last hash, and that every row.
LEMMA PinFixesHistoryFollows == LedgerInv => PinFixesHistory
<1> SUFFICES ASSUME LedgerInv, NEW issuer \in Issuers, NEW proof \in Presented(issuer),
                    NEW c \in CopiesOf(issuer), NEW n \in 0 .. Len(db[c]),
                    Sound(proof, issuer, Pin(issuer, SubSeq(db[c], 1, n)))
             PROVE  proof.entries = SubSeq(db[c], 1, n)
  BY DEF PinFixesHistory
<1>1. c \in Copies /\ IsRows(proof.entries)
  BY PresentedFrom DEF CopiesOf
<1>2. /\ Chained(issuer, proof.entries)
      /\ CheckpointDigest(proof.checkpoint) = Pin(issuer, SubSeq(db[c], 1, n))
      /\ proof.checkpoint.size = Len(proof.entries)
      /\ proof.checkpoint.head_hash = HeadHash(proof.entries)
  BY <1>1, FineIsChained DEF Sound, Fine
<1>3. proof.checkpoint = CheckpointOf(issuer, c, n)
  BY <1>2, PinFixes DEF Pin, CheckpointOf
<1>4. Len(proof.entries) = n /\ HeadHash(proof.entries) = HeadHash(SubSeq(db[c], 1, n))
  BY <1>1, <1>2, <1>3, CheckpointFields
<1>5. QED
  BY <1>1, <1>2, <1>4, CheckpointFixesPast

\* A proof that passes for the holder of an acceptance receipt shows its decision.
LEMMA PassingAnswers ==
  ASSUME LedgerInv, NEW issuer, NEW proof \in Presented(issuer),
         NEW acceptance \in AcceptancesOf(issuer), NEW pin,
         VerifyProof(proof, issuer, pin, {acceptance}, Admitted).problems = {}
  PROVE  \E c \in CopiesOf(issuer) : \E i \in DOMAIN db[c] :
           /\ db[c][i].kind = "DECISION"
           /\ db[c][i].body.accept_hash = acceptance.entry_hash
           /\ db[c][i] \in ToSet(proof.entries)
<1> DEFINE entries == proof.entries
           valid == {r \in {acceptance} : ValidAcceptanceReceipt(r, issuer)}
           omitted == {r \in valid : Omitted(entries, r)}
<1>1. PICK c \in CopiesOf(issuer) : \E n \in 0 .. Len(db[c]) : entries = SubSeq(db[c], 1, n)
  BY FineIsExport
<1>2. PICK n \in 0 .. Len(db[c]) : entries = SubSeq(db[c], 1, n)
  BY <1>1
<1>3. /\ c \in Copies /\ Len(db[c]) \in Nat /\ n \in Nat /\ DOMAIN db[c] = 1 .. Len(db[c])
      /\ DOMAIN entries = 1 .. n /\ \A i \in 1 .. n : entries[i] = db[c][i] /\ i \in 1 .. Len(db[c])
  <2>1. c \in Copies
    BY DEF CopiesOf
  <2>2. db[c] \in Seq(ToSet(db[c])) /\ DOMAIN db[c] = 1 .. Len(db[c]) /\ Len(db[c]) \in Nat
    BY <2>1, RowsOfCopy
  <2>3. entries \in Seq(ToSet(db[c])) /\ Len(entries) = n /\ \A i \in 1 .. n : entries[i] = db[c][i]
    BY <1>2, <2>2
  <2>4. QED
    BY <2>1, <2>2, <2>3
<1>4. PICK d \in CopiesOf(issuer) : acceptance \in ToSet(db[d]) /\ acceptance.kind = "ACCEPT"
  BY DEF AcceptancesOf
<1>5. IsEntry(acceptance) /\ acceptance.entry_hash = EntryDigest(acceptance)
  <2>1. d \in Copies
    BY DEF CopiesOf
  <2>2. DOMAIN db[d] = 1 .. Len(db[d])
    BY <2>1, RowsOfCopy
  <2>3. PICK k \in 1 .. Len(db[d]) : acceptance = db[d][k]
    BY <1>4, <2>2 DEF ToSet
  <2>4. QED
    BY <2>1, <2>3, RowsOfCopy DEF Linked
<1>6. valid = {acceptance} /\ omitted = {} /\ Undecided(entries) = {}
  <2>1. /\ Named("INVALID_EXPECTED_ACCEPTANCE", valid # {acceptance}) = {}
        /\ Named("ACCEPTANCE_OMITTED", omitted # {}) = {}
        /\ Named("MISSING_DECISION", Undecided(entries) # {}) = {}
    BY DEF VerifyProof
  <2>2. QED
    BY <2>1 DEF Named
<1>7. PICK i \in 1 .. n : entries[i].entry_hash = acceptance.entry_hash
  BY <1>3, <1>6 DEF Omitted
<1>8. entries[i] = acceptance
  <2>1. IsEntry(db[c][i]) /\ db[c][i].entry_hash = EntryDigest(db[c][i])
    BY <1>3, RowsOfCopy DEF Linked
  <2>2. QED
    BY <1>3, <1>5, <1>7, <2>1, DigestFixes
<1>9. PICK j \in 1 .. n : /\ entries[j].kind = "DECISION"
                          /\ RequestIdOf(entries[j]) = RequestIdOf(entries[i])
  <2>1. entries[i].kind = "ACCEPT"
    BY <1>4, <1>8
  <2> DEFINE accepts == {k \in DOMAIN entries : entries[k].kind = "ACCEPT"}
             decisions == {k \in DOMAIN entries : entries[k].kind = "DECISION" /\ ~Orphan(entries, k)}
  <2>2. {RequestIdOf(entries[k]) : k \in accepts} \subseteq {RequestIdOf(entries[k]) : k \in decisions}
    BY <1>6 DEF Undecided
  <2>3. i \in accepts
    BY <1>3, <2>1
  <2>4. PICK k \in decisions : RequestIdOf(entries[k]) = RequestIdOf(entries[i])
    BY <2>2, <2>3
  <2>5. QED
    BY <1>3, <2>4
<1>10. db[c][j].body.accept_hash = acceptance.entry_hash
  <2>1. LegalDecision(db[c], j) /\ RequestIdOf(db[c][j]) = db[c][j].body.request_id
    BY <1>3, <1>9, RowsOfCopy DEF Legal, RequestIdOf
  <2>2. PICK k \in 1 .. (j - 1) : Answers(db[c], j, k)
    BY <2>1 DEF LegalDecision
  <2>3. /\ k \in 1 .. Len(db[c]) /\ db[c][k].kind = "ACCEPT"
        /\ RequestIdOf(db[c][k]) = RequestIdOf(db[c][i]) /\ db[c][i].kind = "ACCEPT"
    <3>1. k \in 1 .. Len(db[c]) /\ db[c][k].kind = "ACCEPT"
      BY <1>3, <2>2 DEF Answers
    <3>2. RequestIdOf(db[c][k]) = db[c][j].body.request_id
      BY <2>2, <3>1 DEF Answers, RequestIdOf
    <3>3. entries[i] = db[c][i] /\ entries[j] = db[c][j]
      BY <1>3
    <3>4. db[c][j].body.request_id = RequestIdOf(db[c][i]) /\ db[c][i].kind = "ACCEPT"
      BY <1>4, <1>8, <1>9, <2>1, <3>3
    <3>5. QED
      BY <3>1, <3>2, <3>4
  <2>4. k = i
    BY <1>3, <2>3, OneAcceptance
  <2>5. QED
    BY <1>3, <1>8, <2>2, <2>4 DEF Answers
<1>11. db[c][j] \in ToSet(entries)
  BY <1>3 DEF ToSet
<1>12. QED
  BY <1>3, <1>9, <1>10, <1>11

\* So does one that the verify command calls VERIFIED.
LEMMA VerifiedMeansAnsweredFollows == LedgerInv => VerifiedMeansAnswered
<1>1. ASSUME LedgerInv, NEW issuer \in Issuers, NEW proof \in Presented(issuer),
             NEW acceptance \in AcceptancesOf(issuer), NEW pin, NEW receipt,
             Verified(proof, issuer, pin, receipt, {acceptance}, Admitted)
      PROVE  \E c \in CopiesOf(issuer) : \E i \in DOMAIN db[c] :
               /\ db[c][i].kind = "DECISION"
               /\ db[c][i].body.accept_hash = acceptance.entry_hash
               /\ db[c][i] \in ToSet(proof.entries)
  <2> DEFINE reference == IF receipt # Absent THEN receipt.unsigned.checkpoint_hash ELSE pin
  <2>1. VerifyProof(proof, issuer, reference, {acceptance}, Admitted).problems = {}
    BY <1>1 DEF Verified
  <2> HIDE DEF reference
  <2>2. QED
    BY <1>1, <2>1, PassingAnswers
<1>2. QED
  BY <1>1 DEF VerifiedMeansAnswered

-----------------------------------------------------------------------------
(* 4. The witness                                                           *)

IssuerAt(i) == anchors[i].unsigned.issuer_key
SizeAt(i) == anchors[i].unsigned.size

\* The rows of the same issuer before row i.
Before(i) == {j \in RowsOf(IssuerAt(i)) : j < i}

\* Row i is numbered over all issuers and signed, and names the receipt before it.
IsReceipt(i) ==
  /\ anchors[i].unsigned.witness_seq = i
  /\ IssuerAt(i) \in AllowedIssuers
  /\ SizeAt(i) \in Nat
  /\ ReceiptDigest(anchors[i]) = anchors[i].receipt_hash
  /\ VerifyPayload(WitnessKey, anchors[i].unsigned, anchors[i].signature)
  /\ anchors[i].unsigned.previous_receipt_hash
       = IF Before(i) = {} THEN GenesisReceiptHash ELSE anchors[Max(Before(i))].receipt_hash

\* A database begins as row j says.
Carries(c, j) ==
  /\ SizeAt(j) <= Len(db[c])
  /\ anchors[j].unsigned.head_hash = HeadHash(SubSeq(db[c], 1, SizeAt(j)))

\* Row i attests a checkpoint of a database that also begins as every earlier
\* row of the issuer says, and is of more entries than they.
Attests(i) ==
  /\ \E c \in CopiesOf(IssuerAt(i)) :
       /\ Carries(c, i) /\ \A j \in Before(i) : Carries(c, j)
       /\ anchors[i].unsigned.checkpoint_hash
            = CheckpointDigest(CheckpointOf(IssuerAt(i), c, SizeAt(i)))
  /\ \A j \in Before(i) : SizeAt(j) < SizeAt(i)

\* The rows of an issuer in increasing order.
Orders(f, issuer) ==
  /\ RowsOf(issuer) = {f[i] : i \in DOMAIN f}
  /\ \A i, j \in DOMAIN f : i < j => f[i] < f[j]

Ordered(issuer) ==
  \E n \in 0 .. Len(anchors) : \E f \in [1 .. n -> RowsOf(issuer)] : Orders(f, issuer)

IsTable == anchors \in Seq(ToSet(anchors))

WitnessInv ==
  /\ IsTable
  /\ \A i \in 1 .. Len(anchors) : IsReceipt(i) /\ Attests(i)
  /\ \A issuer \in Issuers : Ordered(issuer)

\* The rows of an issuer are positions of the table, and Max is the last of them.
LEMMA TableRows ==
  ASSUME IsTable, NEW issuer
  PROVE  /\ Len(anchors) \in Nat /\ DOMAIN anchors = 1 .. Len(anchors)
         /\ RowsOf(issuer) \in SUBSET (1 .. Len(anchors))
         /\ \A i \in RowsOf(issuer) : IssuerAt(i) = issuer
         /\ RowsOf(issuer) # {} =>
              /\ Max(RowsOf(issuer)) \in RowsOf(issuer)
              /\ \A i \in RowsOf(issuer) : i <= Max(RowsOf(issuer))
<1>1. Len(anchors) \in Nat /\ DOMAIN anchors = 1 .. Len(anchors)
  BY DEF IsTable
<1>2. RowsOf(issuer) \in SUBSET (1 .. Len(anchors)) /\ \A i \in RowsOf(issuer) : IssuerAt(i) = issuer
  BY <1>1 DEF RowsOf, IssuerAt
<1>3. RowsOf(issuer) \in SUBSET (0 .. Len(anchors))
  BY <1>1, <1>2
<1>4. QED
  BY <1>1, <1>2, <1>3, GreatestNumber

\* So are those before a row.
LEMMA RowsBefore ==
  ASSUME IsTable, NEW i \in 1 .. Len(anchors)
  PROVE  /\ Before(i) \in SUBSET (1 .. (i - 1)) /\ Before(i) \in SUBSET (1 .. Len(anchors))
         /\ \A j \in Before(i) : IssuerAt(j) = IssuerAt(i)
         /\ Before(i) # {} => /\ Max(Before(i)) \in Before(i)
                              /\ \A j \in Before(i) : j <= Max(Before(i))
<1>1. Len(anchors) \in Nat /\ RowsOf(IssuerAt(i)) \in SUBSET (1 .. Len(anchors))
      /\ \A j \in RowsOf(IssuerAt(i)) : IssuerAt(j) = IssuerAt(i)
  BY TableRows
<1>2. Before(i) \in SUBSET (1 .. (i - 1)) /\ Before(i) \in SUBSET (0 .. Len(anchors))
      /\ Before(i) \in SUBSET (1 .. Len(anchors)) /\ \A j \in Before(i) : IssuerAt(j) = IssuerAt(i)
  BY <1>1 DEF Before
<1>3. QED
  BY <1>1, <1>2, GreatestNumber

\* Databases only grow.
LEMMA DatabasesGrow ==
  ASSUME LedgerInv, AcceptAny \/ DecideAny
  PROVE  /\ anchors' = anchors
         /\ \A c \in Copies : /\ Len(db[c]) \in Nat /\ Len(db'[c]) \in Nat
                              /\ Len(db[c]) <= Len(db'[c])
                              /\ \A n \in 0 .. Len(db[c]) : SubSeq(db'[c], 1, n) = SubSeq(db[c], 1, n)
<1>1. anchors' = anchors
  BY DEF AcceptAny, DecideAny, Accept, Decide
<1>2. \E c \in Copies : \E entry : db' = [db EXCEPT ![c] = Append(@, entry)]
  <2>1. CASE AcceptAny
    <3>1. PICK c \in Copies, request \in Requests, key \in AgentKeys, at \in Times :
            Accept(c, request, SignPayload(key, request), at)
      BY <2>1 DEF AcceptAny
    <3>2. QED
      BY <3>1 DEF Accept, Insert
  <2>2. CASE DecideAny
    <3>1. PICK c \in Copies, id \in {r.request_id : r \in Requests}, policy \in Policies,
               key \in EnterpriseKeys, at \in Times :
            Decide(c, id, policy, SignPayload(key, policy), at)
      BY <2>2 DEF DecideAny
    <3>2. \E entry : Insert(c, entry)
      BY <3>1 DEF Decide
    <3>3. QED
      BY <3>2 DEF Insert
  <2>3. QED
    BY <2>1, <2>2
<1>3. PICK c \in Copies : \E entry : db' = [db EXCEPT ![c] = Append(@, entry)]
  BY <1>2
<1>4. PICK entry : db' = [db EXCEPT ![c] = Append(@, entry)]
  BY <1>3
<1>5. db = [d \in Copies |-> db[d]]
  BY DEF LedgerInv
<1>6. db'[c] = Append(db[c], entry) /\ \A d \in Copies \ {c} : db'[d] = db[d]
  BY <1>4, <1>5
<1>7. ASSUME NEW d \in Copies
      PROVE  /\ Len(db[d]) \in Nat /\ Len(db'[d]) \in Nat
             /\ Len(db[d]) <= Len(db'[d])
             /\ \A n \in 0 .. Len(db[d]) : SubSeq(db'[d], 1, n) = SubSeq(db[d], 1, n)
  <2>1. db[d] \in Seq(ToSet(db[d]) \union {entry}) /\ Len(db[d]) \in Nat
    BY RowsOfCopy
  <2>2. CASE d # c
    BY <1>6, <2>1, <2>2
  <2>3. CASE d = c
    <3> DEFINE s == db[d]
               t == Append(s, entry)
    <3>1. Len(t) = Len(s) + 1 /\ \A n \in 0 .. Len(s) : SubSeq(t, 1, n) = SubSeq(s, 1, n)
      BY <2>1
    <3>2. db'[d] = t
      BY <1>6, <2>3
    <3>3. QED
      BY <2>1, <3>1, <3>2
  <2>4. QED
    BY <2>2, <2>3
<1>8. QED
  BY <1>1, <1>7

\* What the witness recorded stays true of databases that grow.
LEMMA GrowthKeepsReceipts ==
  ASSUME LedgerInv, WitnessInv, anchors' = anchors,
         \A c \in Copies : /\ Len(db[c]) \in Nat /\ Len(db'[c]) \in Nat
                           /\ Len(db[c]) <= Len(db'[c])
                           /\ \A n \in 0 .. Len(db[c]) : SubSeq(db'[c], 1, n) = SubSeq(db[c], 1, n)
  PROVE  WitnessInv'
<1>1. \A issuer : RowsOf(issuer)' = RowsOf(issuer)
  BY DEF RowsOf
<1>2. \A i : /\ IssuerAt(i)' = IssuerAt(i) /\ SizeAt(i)' = SizeAt(i)
             /\ anchors'[i] = anchors[i] /\ Before(i)' = Before(i)
  BY <1>1 DEF IssuerAt, SizeAt, Before
<1>3. IsTable' /\ \A issuer \in Issuers : Ordered(issuer)'
  BY <1>1 DEF WitnessInv, IsTable, Ordered, Orders
<1>4. ASSUME NEW i \in 1 .. Len(anchors) PROVE IsReceipt(i)'
  <2>1. IsReceipt(i)
    BY DEF WitnessInv
  <2>2. QED
    BY <1>2, <2>1 DEF IsReceipt, ReceiptDigest
<1>5. ASSUME NEW c \in Copies, NEW j \in 1 .. Len(anchors), Carries(c, j) PROVE Carries(c, j)'
  <2>1. SizeAt(j) \in 0 .. Len(db[c])
    BY <1>5 DEF Carries, WitnessInv, IsReceipt
  <2>2. SubSeq(db'[c], 1, SizeAt(j)) = SubSeq(db[c], 1, SizeAt(j))
    BY <2>1
  <2>3. SizeAt(j) <= Len(db'[c])
    <3>1. Len(db[c]) \in Nat /\ Len(db'[c]) \in Nat /\ Len(db[c]) <= Len(db'[c])
      OBVIOUS
    <3>2. QED
      BY <2>1, <3>1
  <2>4. anchors[j].unsigned.head_hash = HeadHash(SubSeq(db'[c], 1, SizeAt(j)))
    BY <1>5, <2>2 DEF Carries
  <2>5. QED
    BY <1>2, <2>3, <2>4 DEF Carries
<1>6. ASSUME NEW i \in 1 .. Len(anchors) PROVE Attests(i)'
  <2>1. PICK c \in CopiesOf(IssuerAt(i)) :
          /\ Carries(c, i) /\ \A j \in Before(i) : Carries(c, j)
          /\ anchors[i].unsigned.checkpoint_hash
               = CheckpointDigest(CheckpointOf(IssuerAt(i), c, SizeAt(i)))
    BY DEF WitnessInv, Attests
  <2>2. c \in Copies /\ SizeAt(i) \in 0 .. Len(db[c])
    BY <2>1 DEF CopiesOf, Carries, WitnessInv, IsReceipt
  <2>3. CheckpointOf(IssuerAt(i), c, SizeAt(i))' = CheckpointOf(IssuerAt(i), c, SizeAt(i))
    BY <1>2, <2>2 DEF CheckpointOf
  <2>4. Before(i) \in SUBSET (1 .. Len(anchors))
    BY RowsBefore DEF WitnessInv
  <2>5. Carries(c, i)' /\ \A j \in Before(i) : Carries(c, j)'
    BY <1>5, <2>1, <2>2, <2>4
  <2>6. \A j \in Before(i) : SizeAt(j) < SizeAt(i)
    BY DEF WitnessInv, Attests
  <2>7. c \in CopiesOf(IssuerAt(i))'
    BY <1>2, <2>1 DEF CopiesOf
  <2>8. QED
    BY <1>2, <2>1, <2>3, <2>5, <2>6, <2>7 DEF Attests
<1>7. QED
  BY <1>3, <1>4, <1>6 DEF WitnessInv

\* Databases with one head at one size begin alike.
LEMMA PastAgrees ==
  ASSUME LedgerInv, NEW c \in Copies, NEW d \in Copies,
         NEW k \in 0 .. Len(db[c]), k <= Len(db[d]),
         HeadHash(SubSeq(db[c], 1, k)) = HeadHash(SubSeq(db[d], 1, k)),
         NEW j \in 0 .. k
  PROVE  SubSeq(db[c], 1, j) = SubSeq(db[d], 1, j)
<1> DEFINE s == db[c]
           t == db[d]
<1>1. /\ Chained(IssuerOf[c], s) /\ Chained(IssuerOf[d], t) /\ Len(s) \in Nat /\ Len(t) \in Nat
      /\ s \in Seq(ToSet(s) \union ToSet(t)) /\ t \in Seq(ToSet(s) \union ToSet(t))
  BY RowsOfCopy
<1>2. CASE k = 0
  BY <1>1, <1>2
<1>3. CASE k > 0
  <2>1. /\ Len(SubSeq(s, 1, k)) = k /\ SubSeq(s, 1, k)[k] = s[k] /\ SubSeq(s, 1, k) # << >>
        /\ Len(SubSeq(t, 1, k)) = k /\ SubSeq(t, 1, k)[k] = t[k] /\ SubSeq(t, 1, k) # << >>
    <3>1. ASSUME NEW S, NEW u \in Seq(S), k <= Len(u)
          PROVE  Len(SubSeq(u, 1, k)) = k /\ SubSeq(u, 1, k)[k] = u[k] /\ SubSeq(u, 1, k) # << >>
      <4>1. k \in 0 .. Len(u) /\ k \in 1 .. k
        BY <1>1, <1>3, <3>1
      <4>2. Len(SubSeq(u, 1, k)) = k /\ SubSeq(u, 1, k)[k] = u[k] /\ SubSeq(u, 1, k) \in Seq(S)
        BY <4>1, Beginning
      <4> DEFINE v == SubSeq(u, 1, k)
      <4>3. Len(v) > 0
        BY <1>1, <1>3, <4>2
      <4> HIDE DEF v
      <4>4. v # << >>
        BY <4>3
      <4>5. QED
        BY <4>2, <4>4 DEF v
    <3> DEFINE S == ToSet(s) \union ToSet(t)
    <3>2. s \in Seq(S) /\ t \in Seq(S) /\ k <= Len(s) /\ k <= Len(t)
      BY <1>1
    <3> HIDE DEF S, s, t
    <3>3. QED
      BY <3>1, <3>2
  <2>2. s[k].entry_hash = t[k].entry_hash
    BY <2>1 DEF HeadHash
  <2>3. \A i \in 1 .. k : s[i] = t[i]
    BY <1>1, <1>3, <2>2, HashFixesPast
  <2> HIDE DEF s, t
  <2>4. SubSeq(s, 1, j) = SubSeq(t, 1, j)
    BY <1>1, <2>3
  <2>5. QED
    BY <2>4 DEF s, t
<1>4. QED
  BY <1>1, <1>2, <1>3

\* The witness takes the export of a database that continues what it last attested.
LEMMA TakenContinues ==
  ASSUME LedgerInv, WitnessInv, NEW issuer, NEW proof \in Presented(issuer), Accepts(proof, issuer)
  PROVE  \E c \in CopiesOf(issuer) : \E n \in 0 .. Len(db[c]) :
           /\ proof.checkpoint = CheckpointOf(issuer, c, n)
           /\ proof.checkpoint.size = n /\ proof.checkpoint.head_hash = HeadHash(SubSeq(db[c], 1, n))
           /\ \A j \in RowsOf(issuer) : Carries(c, j) /\ SizeAt(j) <= n
           /\ ~Witnessed(proof, issuer) => \A j \in RowsOf(issuer) : SizeAt(j) < n
<1>1. PICK c \in CopiesOf(issuer) : \E n \in 0 .. Len(db[c]) :
        proof.entries = SubSeq(db[c], 1, n) /\ proof.checkpoint = CheckpointOf(issuer, c, n)
  BY FineIsExport DEF Accepts, Acceptable, Fine
<1>2. PICK n \in 0 .. Len(db[c]) :
        proof.entries = SubSeq(db[c], 1, n) /\ proof.checkpoint = CheckpointOf(issuer, c, n)
  BY <1>1
<1>3. /\ c \in Copies /\ db[c] \in Seq(ToSet(db[c])) /\ Len(db[c]) \in Nat /\ n \in Nat
      /\ proof.checkpoint.size = n /\ proof.checkpoint.head_hash = HeadHash(SubSeq(db[c], 1, n))
  BY <1>2, RowsOfCopy, CheckpointFields DEF CopiesOf
<1>4. CASE RowsOf(issuer) = {}
  BY <1>2, <1>3, <1>4
<1>5. CASE RowsOf(issuer) # {}
  <2> DEFINE last == Max(RowsOf(issuer))
             k == SizeAt(last)
  <2>1. /\ last \in RowsOf(issuer) /\ last \in 1 .. Len(anchors) /\ IssuerAt(last) = issuer
        /\ \A j \in RowsOf(issuer) : j <= last /\ j \in 1 .. Len(anchors)
        /\ Len(anchors) \in Nat
    BY <1>5, TableRows DEF WitnessInv
  <2>2. /\ n >= k
        /\ k > 0 => proof.entries[k].entry_hash = anchors[last].unsigned.head_hash
        /\ ~Witnessed(proof, issuer) => k # n
    <3>1. k \in Nat
      BY <2>1 DEF WitnessInv, IsReceipt
    <3>2. Latest(issuer).unsigned.size = k
      BY DEF Latest, SizeAt
    <3>3. ~ForkOrRollback(Latest(issuer).unsigned, proof)
      BY <1>5 DEF Accepts
    <3>4. ~Witnessed(proof, issuer) => k # n
      BY <1>3, <1>5, <3>2 DEF Witnessed
    <3>5. n >= k
      BY <1>3, <3>1, <3>2, <3>3 DEF ForkOrRollback
    <3>6. k > 0 => proof.entries[k].entry_hash = Latest(issuer).unsigned.head_hash
      BY <3>2, <3>3 DEF ForkOrRollback
    <3>7. QED
      BY <3>4, <3>5, <3>6 DEF Latest
  <2> HIDE DEF last
  <2>3. IsReceipt(last) /\ Attests(last) /\ k \in Nat
    BY <2>1 DEF WitnessInv, IsReceipt
  <2>4. \A j \in RowsOf(issuer) : j = last \/ j \in Before(last)
    BY <2>1 DEF Before
  <2>5. PICK d \in CopiesOf(issuer) : Carries(d, last) /\ \A j \in Before(last) : Carries(d, j)
    BY <2>1, <2>3 DEF Attests
  <2>6. \A j \in RowsOf(issuer) : Carries(d, j) /\ SizeAt(j) \in Nat /\ SizeAt(j) <= k
    <3>1. \A j \in RowsOf(issuer) : SizeAt(j) \in Nat
      BY <2>1 DEF WitnessInv, IsReceipt
    <3>2. \A j \in Before(last) : SizeAt(j) < k
      BY <2>3 DEF Attests
    <3>3. QED
      BY <2>3, <2>4, <2>5, <3>1, <3>2
  <2>7. /\ d \in Copies /\ db[d] \in Seq(ToSet(db[d])) /\ Len(db[d]) \in Nat /\ k <= Len(db[d])
        /\ k \in 0 .. Len(db[c]) /\ k \in 0 .. Len(db[d])
    BY <1>3, <2>2, <2>3, <2>5, RowsOfCopy DEF CopiesOf, Carries
  <2>8. HeadHash(SubSeq(db[c], 1, k)) = HeadHash(SubSeq(db[d], 1, k))
    <3>1. CASE k = 0
      <4>1. SubSeq(db[c], 1, 0) = << >> /\ SubSeq(db[d], 1, 0) = << >>
        BY <1>3, <2>7
      <4>2. QED
        BY <3>1, <4>1
    <3>2. CASE k > 0
      <4> DEFINE part == SubSeq(db[c], 1, k)
      <4>1. Len(part) = k /\ part[k] = db[c][k] /\ part \in Seq(ToSet(db[c]))
        BY <1>3, <2>7, <3>2, Beginning
      <4>2. proof.entries[k] = db[c][k]
        BY <1>2, <1>3, <2>2, <2>7, <3>2
      <4> HIDE DEF part
      <4>3. part # << >>
        BY <2>3, <3>2, <4>1
      <4>4. HeadHash(part) = anchors[last].unsigned.head_hash
        BY <2>2, <3>2, <4>1, <4>2, <4>3 DEF HeadHash
      <4>5. QED
        BY <2>5, <4>4 DEF Carries, part
    <3>3. QED
      BY <2>3, <3>1, <3>2
  <2> HIDE DEF k
  <2>9. ASSUME NEW j \in RowsOf(issuer) PROVE Carries(c, j) /\ SizeAt(j) <= n
    <3>1. SizeAt(j) \in 0 .. k
      BY <2>3, <2>6
    <3>2. SubSeq(db[c], 1, SizeAt(j)) = SubSeq(db[d], 1, SizeAt(j))
      BY <1>3, <2>7, <2>8, <3>1, PastAgrees
    <3>3. QED
      <4>1. SizeAt(j) <= n /\ SizeAt(j) <= Len(db[c])
        BY <1>3, <2>2, <2>3, <2>7, <3>1
      <4>2. anchors[j].unsigned.head_hash = HeadHash(SubSeq(db[d], 1, SizeAt(j)))
        BY <2>6 DEF Carries
      <4>3. QED
        BY <3>2, <4>1, <4>2 DEF Carries
  <2>10. ~Witnessed(proof, issuer) => \A j \in RowsOf(issuer) : SizeAt(j) < n
    BY <1>3, <2>2, <2>3, <2>6
  <2>11. QED
    BY <1>2, <1>3, <2>9, <2>10
<1>6. QED
  BY <1>4, <1>5

\* The order of an issuer's rows goes on with a new row.
LEMMA OrderGrows ==
  ASSUME IsTable, NEW issuer, NEW r, NEW x, Ordered(x),
         anchors' = Append(anchors, r), r.unsigned.issuer_key = issuer
  PROVE  /\ IsTable'
         /\ RowsOf(x)' = IF x = issuer THEN RowsOf(x) \union {Len(anchors) + 1} ELSE RowsOf(x)
         /\ Ordered(x)'
<1> DEFINE n == Len(anchors)
<1>1. /\ n \in Nat /\ Len(anchors') = n + 1 /\ anchors'[n + 1] = r
      /\ DOMAIN anchors = 1 .. n /\ DOMAIN anchors' = 1 .. n + 1
      /\ \A i \in 1 .. n : anchors'[i] = anchors[i]
      /\ anchors' \in Seq(ToSet(anchors) \union {r})
  BY DEF IsTable
<1>2. IsTable'
  <2>1. \A i \in 1 .. n + 1 : anchors'[i] \in ToSet(anchors')
    BY <1>1 DEF ToSet
  <2>2. QED
    BY <1>1, <2>1 DEF IsTable
<1>3. RowsOf(x)' = IF x = issuer THEN RowsOf(x) \union {n + 1} ELSE RowsOf(x)
  BY <1>1 DEF RowsOf
<1>4. PICK m \in 0 .. n : \E f \in [1 .. m -> RowsOf(x)] : Orders(f, x)
  BY DEF Ordered
<1>5. PICK f \in [1 .. m -> RowsOf(x)] : Orders(f, x)
  BY <1>4
<1>6. Ordered(x)'
  <2>1. CASE x # issuer
    <3>1. RowsOf(x)' = RowsOf(x)
      BY <1>3, <2>1
    <3>2. Orders(f, x)'
      BY <1>5, <3>1 DEF Orders
    <3>3. QED
      BY <1>1, <1>5, <3>1, <3>2 DEF Ordered
  <2>2. CASE x = issuer
    <3>0. PICK g : g = [i \in 1 .. m + 1 |-> IF i <= m THEN f[i] ELSE n + 1]
      OBVIOUS
    <3>1. RowsOf(x)' = RowsOf(x) \union {n + 1} /\ RowsOf(x) \in SUBSET (1 .. n)
      BY <1>3, <2>2, TableRows
    <3>2. /\ DOMAIN g = 1 .. m + 1 /\ m + 1 \in 0 .. n + 1 /\ m \in Nat
          /\ g[m + 1] = n + 1 /\ \A i \in 1 .. m : g[i] = f[i] /\ f[i] \in RowsOf(x)
          /\ DOMAIN f = 1 .. m
      BY <1>1, <1>4, <1>5, <3>0
    <3>3. g \in [1 .. m + 1 -> RowsOf(x)']
      BY <3>0, <3>1, <3>2
    <3>4. RowsOf(x)' = {g[i] : i \in DOMAIN g}
      <4>1. ASSUME NEW j \in RowsOf(x)' PROVE \E i \in DOMAIN g : j = g[i]
        <5>1. CASE j = n + 1
          BY <3>2, <5>1
        <5>2. CASE j \in RowsOf(x)
          <6>1. PICK i \in 1 .. m : j = f[i]
            BY <1>5, <3>2, <5>2 DEF Orders
          <6>2. i \in 1 .. m + 1
            BY <3>2
          <6>3. QED
            BY <3>2, <6>1, <6>2
        <5>3. QED
          BY <3>1, <5>1, <5>2
      <4>2. ASSUME NEW i \in DOMAIN g PROVE g[i] \in RowsOf(x)'
        BY <3>2, <3>3
      <4>3. QED
        BY <4>1, <4>2
    <3>5. ASSUME NEW i \in DOMAIN g, NEW j \in DOMAIN g, i < j PROVE g[i] < g[j]
      <4>1. i \in 1 .. m
        BY <3>2, <3>5
      <4>2. CASE j \in 1 .. m
        BY <1>5, <3>2, <3>5, <4>1, <4>2 DEF Orders
      <4>3. CASE j = m + 1
        BY <1>1, <3>1, <3>2, <4>1, <4>3
      <4>4. QED
        BY <3>2, <4>2, <4>3
    <3>6. Orders(g, x)'
      BY <3>4, <3>5 DEF Orders
    <3>7. QED
      BY <1>1, <3>2, <3>3, <3>6 DEF Ordered
  <2>3. QED
    BY <2>1, <2>2
<1>7. QED
  BY <1>2, <1>3, <1>6

\* anchor keeps the table.
LEMMA AnchorKeeps ==
  ASSUME LedgerInv, WitnessInv, NEW issuer \in Issuers, NEW proof \in Presented(issuer),
         AnchorNew(proof, issuer), UNCHANGED db
  PROVE  WitnessInv'
<1>0. PICK n : n = Len(anchors)
  OBVIOUS
<1> DEFINE r == NewReceipt(proof, issuer)
<1>1. /\ n \in Nat /\ anchors' = Append(anchors, r) /\ Len(anchors') = n + 1 /\ anchors'[n + 1] = r
      /\ \A i \in 1 .. n : anchors'[i] = anchors[i]
      /\ Accepts(proof, issuer) /\ ~Witnessed(proof, issuer)
  BY <1>0 DEF AnchorNew, WitnessInv, IsTable
<1>2. /\ r.unsigned.witness_seq = n + 1 /\ r.unsigned.issuer_key = issuer
      /\ r.unsigned.checkpoint_hash = CheckpointDigest(proof.checkpoint)
      /\ r.unsigned.size = proof.checkpoint.size /\ r.unsigned.head_hash = proof.checkpoint.head_hash
      /\ r.unsigned.previous_receipt_hash
           = IF RowsOf(issuer) = {} THEN GenesisReceiptHash ELSE anchors[Max(RowsOf(issuer))].receipt_hash
      /\ r.signature = SignPayload(WitnessKey, r.unsigned) /\ r.receipt_hash = ReceiptDigest(r)
  BY <1>0 DEF NewReceipt, NextNumber, Latest, ReceiptDigest
<1> HIDE DEF r
<1>3. IsTable /\ issuer \in AllowedIssuers
  BY <1>1 DEF WitnessInv, Accepts
<1>4. IsTable'
  BY <1>1, <1>2, <1>3, OrderGrows DEF WitnessInv
<1>5. \A x \in Issuers :
        /\ RowsOf(x)' = IF x = issuer THEN RowsOf(x) \union {n + 1} ELSE RowsOf(x)
        /\ Ordered(x)'
  BY <1>0, <1>1, <1>2, <1>3, OrderGrows DEF WitnessInv
<1>6. ASSUME NEW i \in 1 .. n
      PROVE  /\ anchors'[i] = anchors[i] /\ IssuerAt(i)' = IssuerAt(i) /\ SizeAt(i)' = SizeAt(i)
             /\ Before(i)' = Before(i) /\ Before(i) \in SUBSET (1 .. n)
             /\ Before(i) # {} => Max(Before(i)) \in 1 .. n
  <2>1. anchors'[i] = anchors[i] /\ IssuerAt(i)' = IssuerAt(i) /\ SizeAt(i)' = SizeAt(i)
    BY <1>1 DEF IssuerAt, SizeAt
  <2>2. Before(i) \in SUBSET (1 .. n) /\ (Before(i) # {} => Max(Before(i)) \in 1 .. n)
    BY <1>0, <1>3, RowsBefore
  <2>3. DOMAIN anchors = 1 .. n /\ DOMAIN anchors' = 1 .. n + 1
    BY <1>0, <1>1, <1>3, <1>4 DEF IsTable
  <2>4. ASSUME NEW j \in 1 .. (i - 1) PROVE (j \in RowsOf(IssuerAt(i)))' <=> j \in RowsOf(IssuerAt(i))
    BY <1>1, <2>1, <2>3, <2>4 DEF RowsOf
  <2>5. Before(i)' = Before(i)
    <3>1. \A j : j \in Before(i)' => j \in 1 .. (i - 1)
      BY <1>1, <2>3 DEF Before, RowsOf
    <3>2. \A j : j \in Before(i) => j \in 1 .. (i - 1)
      BY <1>1, <2>3 DEF Before, RowsOf
    <3>3. QED
      BY <2>4, <3>1, <3>2 DEF Before
  <2>6. QED
    BY <2>1, <2>2, <2>5
<1>7. ASSUME NEW i \in 1 .. n PROVE IsReceipt(i)'
  <2>1. IsReceipt(i)
    BY <1>0 DEF WitnessInv
  <2>2. Before(i) # {} => anchors'[Max(Before(i))] = anchors[Max(Before(i))]
    BY <1>1, <1>6
  <2>3. QED
    BY <1>6, <2>1, <2>2 DEF IsReceipt, ReceiptDigest
<1>8. ASSUME NEW c, NEW j \in 1 .. n, Carries(c, j) PROVE Carries(c, j)'
  BY <1>6, <1>8 DEF Carries
<1>9. ASSUME NEW i \in 1 .. n PROVE Attests(i)'
  <2>1. Attests(i)
    BY <1>0 DEF WitnessInv
  <2>2. PICK c \in CopiesOf(IssuerAt(i)) :
          /\ Carries(c, i) /\ \A j \in Before(i) : Carries(c, j)
          /\ anchors[i].unsigned.checkpoint_hash
               = CheckpointDigest(CheckpointOf(IssuerAt(i), c, SizeAt(i)))
    BY <2>1 DEF Attests
  <2>3. CheckpointOf(IssuerAt(i), c, SizeAt(i))' = CheckpointOf(IssuerAt(i), c, SizeAt(i))
    BY <1>6 DEF CheckpointOf
  <2>4. Carries(c, i)' /\ \A j \in Before(i) : Carries(c, j)'
    BY <1>6, <1>8, <2>2
  <2>5. \A j \in Before(i) : SizeAt(j)' < SizeAt(i)'
    BY <1>6, <2>1 DEF Attests
  <2>6. c \in CopiesOf(IssuerAt(i))'
    BY <1>6, <2>2 DEF CopiesOf
  <2>7. QED
    BY <1>6, <2>2, <2>3, <2>4, <2>5, <2>6 DEF Attests
<1>10. /\ IssuerAt(n + 1)' = issuer /\ SizeAt(n + 1)' = proof.checkpoint.size
       /\ Before(n + 1)' = RowsOf(issuer) /\ RowsOf(issuer) \in SUBSET (1 .. n)
       /\ RowsOf(issuer) # {} => Max(RowsOf(issuer)) \in 1 .. n
  <2>1. IssuerAt(n + 1)' = issuer /\ SizeAt(n + 1)' = proof.checkpoint.size
    BY <1>1, <1>2 DEF IssuerAt, SizeAt
  <2>2. /\ RowsOf(issuer) \in SUBSET (1 .. n)
        /\ RowsOf(issuer) # {} => Max(RowsOf(issuer)) \in 1 .. n
    BY <1>0, <1>3, TableRows
  <2>3. RowsOf(issuer)' = RowsOf(issuer) \union {n + 1}
    BY <1>5
  <2>4. Before(n + 1)' = {j \in RowsOf(issuer)' : j < n + 1}
    BY <2>1 DEF Before
  <2>5. ASSUME NEW R \in SUBSET (1 .. n) PROVE {j \in R \union {n + 1} : j < n + 1} = R
    BY <1>1
  <2>6. Before(n + 1)' = RowsOf(issuer)
    BY <2>2, <2>3, <2>4, <2>5
  <2>7. QED
    BY <2>1, <2>2, <2>6
<1>11. IsReceipt(n + 1)'
  <2>1. SizeAt(n + 1)' \in Nat
    BY <1>1, <1>10, TakenContinues
  <2>2. RowsOf(issuer) # {} => anchors'[Max(RowsOf(issuer))] = anchors[Max(RowsOf(issuer))]
    BY <1>1, <1>10
  <2>3. /\ anchors'[n + 1].unsigned.previous_receipt_hash
             = IF Before(n + 1)' = {} THEN GenesisReceiptHash
               ELSE anchors'[Max(Before(n + 1)')].receipt_hash
        /\ anchors'[n + 1].unsigned.witness_seq = n + 1
        /\ ReceiptDigest(anchors'[n + 1]) = anchors'[n + 1].receipt_hash
        /\ VerifyPayload(WitnessKey, anchors'[n + 1].unsigned, anchors'[n + 1].signature)
    BY <1>1, <1>2, <1>10, <2>2 DEF VerifyPayload
  <2>4. QED
    BY <1>3, <1>10, <2>1, <2>3 DEF IsReceipt
<1>12. Attests(n + 1)'
  <2>1. PICK c \in CopiesOf(issuer) : \E m \in 0 .. Len(db[c]) :
          /\ proof.checkpoint = CheckpointOf(issuer, c, m)
          /\ proof.checkpoint.size = m /\ proof.checkpoint.head_hash = HeadHash(SubSeq(db[c], 1, m))
          /\ \A j \in RowsOf(issuer) : Carries(c, j) /\ SizeAt(j) <= m
          /\ ~Witnessed(proof, issuer) => \A j \in RowsOf(issuer) : SizeAt(j) < m
    BY <1>1, TakenContinues
  <2>2. PICK m \in 0 .. Len(db[c]) :
          /\ proof.checkpoint = CheckpointOf(issuer, c, m)
          /\ proof.checkpoint.size = m /\ proof.checkpoint.head_hash = HeadHash(SubSeq(db[c], 1, m))
          /\ \A j \in RowsOf(issuer) : Carries(c, j) /\ SizeAt(j) < m
    BY <1>1, <2>1
  <2>3. m <= Len(db[c])
    BY RowsOfCopy, <2>1 DEF CopiesOf
  <2>4. Carries(c, n + 1)'
    BY <1>1, <1>2, <1>10, <2>2, <2>3 DEF Carries
  <2>5. \A j \in RowsOf(issuer) : Carries(c, j)' /\ SizeAt(j)' < m
    BY <1>6, <1>8, <1>10, <2>2
  <2>6. anchors'[n + 1].unsigned.checkpoint_hash = CheckpointDigest(CheckpointOf(issuer, c, m)')
    BY <1>1, <1>2, <2>2 DEF CheckpointOf
  <2>7. c \in CopiesOf(issuer)'
    BY <2>1 DEF CopiesOf
  <2>8. QED
    BY <1>10, <2>2, <2>4, <2>5, <2>6, <2>7 DEF Attests
<1>13. QED
  <2>1. \A i \in 1 .. n + 1 : IsReceipt(i)' /\ Attests(i)'
    BY <1>1, <1>7, <1>9, <1>11, <1>12
  <2>2. QED
    BY <1>1, <1>4, <1>5, <2>1 DEF WitnessInv

-----------------------------------------------------------------------------
(* What the witness's table says                                            *)

\* A history that passes with a receipt is in every database that the receipt is of.
LEMMA ReceiptFixesHistory ==
  ASSUME LedgerInv, WitnessInv, NEW issuer, NEW proof \in Presented(issuer),
         NEW i \in 1 .. Len(anchors), VerifyWitnessReceipt(proof, anchors[i], issuer),
         Sound(proof, issuer, anchors[i].unsigned.checkpoint_hash)
  PROVE  /\ IssuerAt(i) = issuer
         /\ \A c \in CopiesOf(issuer) : Carries(c, i) =>
              proof.entries = SubSeq(db[c], 1, SizeAt(i))
<1>1. /\ IssuerAt(i) = issuer /\ proof.checkpoint.size = SizeAt(i)
      /\ proof.checkpoint.head_hash = anchors[i].unsigned.head_hash
  BY DEF VerifyWitnessReceipt, ValidSignedReceipt, IssuerAt, SizeAt
<1>2. /\ Chained(issuer, proof.entries) /\ Len(proof.entries) = SizeAt(i)
      /\ HeadHash(proof.entries) = anchors[i].unsigned.head_hash
  BY <1>1, PresentedFrom, FineIsChained DEF Sound, Fine
<1>3. ASSUME NEW c \in CopiesOf(issuer), Carries(c, i)
      PROVE  proof.entries = SubSeq(db[c], 1, SizeAt(i))
  <2>1. c \in Copies /\ SizeAt(i) \in 0 .. Len(db[c])
    BY <1>3, RowsOfCopy DEF CopiesOf, Carries, WitnessInv, IsReceipt
  <2>2. HeadHash(proof.entries) = HeadHash(SubSeq(db[c], 1, SizeAt(i)))
    BY <1>2, <1>3 DEF Carries
  <2>3. QED
    BY <1>2, <2>1, <2>2, CheckpointFixesPast
<1>4. QED
  BY <1>1, <1>3

\* Of two of them the one with the earlier receipt is a beginning of the other.
LEMMA EarlierIsPrefix ==
  ASSUME LedgerInv, WitnessInv, NEW issuer,
         NEW p \in Presented(issuer), NEW q \in Presented(issuer),
         NEW i \in 1 .. Len(anchors), NEW j \in 1 .. Len(anchors), j <= i,
         VerifyWitnessReceipt(p, anchors[i], issuer),
         Sound(p, issuer, anchors[i].unsigned.checkpoint_hash),
         VerifyWitnessReceipt(q, anchors[j], issuer),
         Sound(q, issuer, anchors[j].unsigned.checkpoint_hash)
  PROVE  IsPrefix(q.entries, p.entries)
<1>1. IssuerAt(i) = issuer /\ IssuerAt(j) = issuer /\ Len(anchors) \in Nat
  BY ReceiptFixesHistory DEF WitnessInv, IsTable
<1>2. PICK c \in CopiesOf(issuer) : Carries(c, i) /\ \A k \in Before(i) : Carries(c, k)
  BY <1>1 DEF WitnessInv, Attests
<1>3. Carries(c, j) /\ SizeAt(j) <= SizeAt(i) /\ SizeAt(i) \in Nat /\ SizeAt(j) \in Nat
  <2>1. SizeAt(i) \in Nat /\ SizeAt(j) \in Nat /\ \A k \in Before(i) : SizeAt(k) < SizeAt(i)
    BY DEF WitnessInv, IsReceipt, Attests
  <2>2. j = i \/ j \in Before(i)
    BY <1>1, TableRows DEF Before, RowsOf, IssuerAt, WitnessInv
  <2>3. QED
    BY <1>2, <2>1, <2>2
<1> DEFINE s == db[c]
           m == SizeAt(j)
           n == SizeAt(i)
<1>4. p.entries = SubSeq(s, 1, n) /\ q.entries = SubSeq(s, 1, m)
  BY <1>2, <1>3, ReceiptFixesHistory
<1>5. s \in Seq(ToSet(s)) /\ n \in 0 .. Len(s) /\ m \in 0 .. n
  BY <1>2, <1>3, RowsOfCopy DEF CopiesOf, Carries
<1> HIDE DEF s, m, n
<1>6. Len(SubSeq(s, 1, n)) = n /\ Len(SubSeq(s, 1, m)) = m
  BY <1>5
<1>7. SubSeq(SubSeq(s, 1, m), 1, m) = SubSeq(SubSeq(s, 1, n), 1, m)
  BY <1>5
<1>8. QED
  BY <1>4, <1>5, <1>6, <1>7 DEF IsPrefix

\* Two believed histories have receipts, of which one came first.
LEMMA AuditorsAgreeFollows == LedgerInv /\ WitnessInv => AuditorsAgree
<1> SUFFICES ASSUME LedgerInv, WitnessInv, NEW issuer \in Issuers,
                    NEW one \in Believed(issuer), NEW other \in Believed(issuer)
             PROVE  IsPrefix(one, other) \/ IsPrefix(other, one)
  BY DEF AuditorsAgree
<1>1. DOMAIN anchors = 1 .. Len(anchors) /\ Len(anchors) \in Nat
  BY DEF WitnessInv, IsTable
<1>2. ASSUME NEW entries \in Believed(issuer)
      PROVE  \E p \in Presented(issuer) : \E i \in 1 .. Len(anchors) :
               /\ p.entries = entries /\ VerifyWitnessReceipt(p, anchors[i], issuer)
               /\ Sound(p, issuer, anchors[i].unsigned.checkpoint_hash)
  BY <1>1 DEF Believed, ToSet
<1>3. PICK p \in Presented(issuer) : \E i \in 1 .. Len(anchors) :
        /\ p.entries = one /\ VerifyWitnessReceipt(p, anchors[i], issuer)
        /\ Sound(p, issuer, anchors[i].unsigned.checkpoint_hash)
  BY <1>2
<1>4. PICK i \in 1 .. Len(anchors) :
        /\ p.entries = one /\ VerifyWitnessReceipt(p, anchors[i], issuer)
        /\ Sound(p, issuer, anchors[i].unsigned.checkpoint_hash)
  BY <1>3
<1>5. PICK q \in Presented(issuer) : \E j \in 1 .. Len(anchors) :
        /\ q.entries = other /\ VerifyWitnessReceipt(q, anchors[j], issuer)
        /\ Sound(q, issuer, anchors[j].unsigned.checkpoint_hash)
  BY <1>2
<1>6. PICK j \in 1 .. Len(anchors) :
        /\ q.entries = other /\ VerifyWitnessReceipt(q, anchors[j], issuer)
        /\ Sound(q, issuer, anchors[j].unsigned.checkpoint_hash)
  BY <1>5
<1>7. CASE j <= i
  BY <1>4, <1>6, <1>7, EarlierIsPrefix
<1>8. CASE i <= j
  BY <1>4, <1>6, <1>8, EarlierIsPrefix
<1>9. QED
  BY <1>1, <1>7, <1>8

\* In the order of an issuer's rows each comes right after the one before.
LEMMA OrderFollows ==
  ASSUME WitnessInv, NEW issuer, NEW n \in Nat, NEW f \in [1 .. n -> RowsOf(issuer)],
         Orders(f, issuer), NEW i \in 1 .. n
  PROVE  /\ f[i] \in 1 .. Len(anchors) /\ IssuerAt(f[i]) = issuer
         /\ i = 1 => Before(f[i]) = {}
         /\ i > 1 => f[i - 1] \in Before(f[i]) /\ Max(Before(f[i])) = f[i - 1]
<1>1. /\ DOMAIN f = 1 .. n /\ \A k \in 1 .. n : f[k] \in 1 .. Len(anchors) /\ IssuerAt(f[k]) = issuer
      /\ Len(anchors) \in Nat
  BY TableRows DEF WitnessInv
<1>2. \A k, l \in 1 .. n : k < l => f[k] < f[l]
  BY <1>1 DEF Orders
<1>3. ASSUME NEW j \in Before(f[i]) PROVE \E k \in 1 .. (i - 1) : j = f[k]
  <2>1. j \in RowsOf(issuer) /\ j < f[i]
    BY <1>1 DEF Before
  <2>2. PICK k \in 1 .. n : j = f[k]
    BY <1>1, <2>1 DEF Orders
  <2>3. k < i
    <3>1. ~(i < k)
      BY <1>1, <1>2, <2>1, <2>2
    <3>2. i # k
      BY <1>1, <2>1, <2>2
    <3>3. QED
      BY <3>1, <3>2
  <2>4. QED
    BY <2>2, <2>3
<1>4. CASE i = 1
  BY <1>1, <1>3, <1>4
<1>5. CASE i > 1
  <2>1. i - 1 \in 1 .. n /\ f[i - 1] < f[i] /\ f[i - 1] \in RowsOf(issuer)
    BY <1>1, <1>2, <1>5
  <2>2. f[i - 1] \in Before(f[i])
    BY <1>1, <2>1 DEF Before
  <2>3. Max(Before(f[i])) \in Before(f[i]) /\ f[i - 1] <= Max(Before(f[i]))
    BY <1>1, <2>2, RowsBefore DEF WitnessInv
  <2>4. PICK k \in 1 .. (i - 1) : Max(Before(f[i])) = f[k]
    BY <1>3, <2>3
  <2>5. k = i - 1
    <3>1. ~(k < i - 1)
      BY <1>1, <1>2, <2>1, <2>3, <2>4
    <3>2. QED
      BY <3>1
  <2>6. QED
    BY <1>1, <1>5, <2>2, <2>4, <2>5
<1>6. QED
  BY <1>4, <1>5

\* The rows of an issuer in their order are a chain of receipts.
LEMMA HistoryVerifiesFollows == WitnessInv => HistoryVerifies
<1> SUFFICES ASSUME WitnessInv, NEW issuer \in Issuers, History(issuer) # << >>
             PROVE  VerifyWitnessHistory(History(issuer), issuer)
  BY DEF HistoryVerifies
<1> DEFINE Maps == UNION {[1 .. m -> RowsOf(issuer)] : m \in 0 .. Len(anchors)}
           order == CHOOSE f \in Maps : Orders(f, issuer)
           receipts == History(issuer)
           terms(i) == receipts[i].unsigned
<1>1. receipts = [i \in DOMAIN order |-> anchors[order[i]]]
  BY DEF History, Orders
<1>2. order \in Maps /\ Orders(order, issuer)
  <2>1. \E f \in Maps : Orders(f, issuer)
    BY DEF WitnessInv, Ordered
  <2> HIDE DEF Maps
  <2>2. QED
    BY <2>1
<1>3. PICK n \in 0 .. Len(anchors) : order \in [1 .. n -> RowsOf(issuer)]
  BY <1>2
<1> HIDE DEF order, receipts
<1>4. n \in Nat /\ DOMAIN receipts = 1 .. n
  <2>1. Len(anchors) \in Nat
    BY DEF WitnessInv, IsTable
  <2>2. QED
    BY <1>1, <1>3, <2>1
<1>5. ASSUME NEW i \in 1 .. n
      PROVE  /\ receipts[i] = anchors[order[i]] /\ order[i] \in 1 .. Len(anchors)
             /\ IssuerAt(order[i]) = issuer
             /\ IsReceipt(order[i]) /\ Attests(order[i])
             /\ i = 1 => Before(order[i]) = {}
             /\ i > 1 => order[i - 1] \in Before(order[i]) /\ Max(Before(order[i])) = order[i - 1]
  <2>1. /\ order[i] \in 1 .. Len(anchors) /\ IssuerAt(order[i]) = issuer
        /\ i = 1 => Before(order[i]) = {}
        /\ i > 1 => order[i - 1] \in Before(order[i]) /\ Max(Before(order[i])) = order[i - 1]
    BY <1>2, <1>3, <1>4, OrderFollows
  <2>2. receipts[i] = anchors[order[i]]
    BY <1>1, <1>3
  <2>3. QED
    BY <2>1, <2>2 DEF WitnessInv
<1>6. n >= 1
  <2> SUFFICES ASSUME n = 0 PROVE receipts = << >>
    BY <1>4 DEF receipts
  <2>1. receipts = [i \in {} |-> anchors[order[i]]]
    BY <1>1, <1>3
  <2>2. QED
    BY <2>1
<1>7. ASSUME NEW i \in 1 .. n PROVE ValidSignedReceipt(receipts[i], issuer)
  <2> DEFINE k == order[i]
  <2>1. IsReceipt(k) /\ k > 0 /\ IssuerAt(k) = issuer /\ receipts[i] = anchors[k]
    BY <1>5
  <2> HIDE DEF k
  <2>2. QED
    BY <2>1 DEF IsReceipt, ValidSignedReceipt, IssuerAt, SizeAt
<1>8. terms(1).previous_receipt_hash = GenesisReceiptHash
  <2> DEFINE k == order[1]
  <2>1. 1 \in 1 .. n
    BY <1>4, <1>6
  <2>2. IsReceipt(k) /\ receipts[1] = anchors[k] /\ Before(k) = {}
    BY <1>5, <2>1
  <2> HIDE DEF k
  <2>3. QED
    BY <2>2 DEF IsReceipt
<1>9. ASSUME NEW i \in 2 .. n
      PROVE  /\ terms(i).previous_receipt_hash = receipts[i - 1].receipt_hash
             /\ terms(i).size > terms(i - 1).size
             /\ terms(i).witness_seq > terms(i - 1).witness_seq
  <2> DEFINE k == order[i]
             l == order[i - 1]
  <2>1. /\ k \in 1 .. Len(anchors) /\ l \in 1 .. Len(anchors)
        /\ IsReceipt(k) /\ IsReceipt(l) /\ Attests(k) /\ l \in Before(k) /\ Max(Before(k)) = l
        /\ receipts[i] = anchors[k] /\ receipts[i - 1] = anchors[l]
    <3>1. i \in 1 .. n /\ i > 1 /\ i - 1 \in 1 .. n
      BY <1>4
    <3>2. QED
      BY <1>5, <3>1
  <2> HIDE DEF k, l
  <2>2. anchors[k].unsigned.previous_receipt_hash = anchors[l].receipt_hash
    BY <2>1 DEF IsReceipt
  <2>3. SizeAt(l) < SizeAt(k) /\ SizeAt(l) \in Nat /\ SizeAt(k) \in Nat
    BY <2>1 DEF Attests, IsReceipt
  <2>4. l < k
    BY <2>1 DEF Before
  <2>5. anchors[k].unsigned.witness_seq = k /\ anchors[l].unsigned.witness_seq = l
    BY <2>1 DEF IsReceipt
  <2>6. QED
    BY <2>1, <2>2, <2>3, <2>4, <2>5 DEF SizeAt
<1>10. DOMAIN receipts \ {1} = 2 .. n
  BY <1>4
<1>11. QED
  BY <1>4, <1>7, <1>8, <1>9, <1>10 DEF VerifyWitnessHistory, receipts

\* The longest of databases that continue one another has the latest attested head.
LEMMA HonestIssuerFollows == LedgerInv /\ WitnessInv => HonestIssuerIsNotRefused
<1> SUFFICES ASSUME LedgerInv, WitnessInv, NEW issuer \in AllowedIssuers,
                    \A c, d \in CopiesOf(issuer) : IsPrefix(db[c], db[d]) \/ IsPrefix(db[d], db[c]),
                    NEW c \in CopiesOf(issuer), \A d \in CopiesOf(issuer) : Len(db[d]) <= Len(db[c])
             PROVE  Accepts(ExportProof(issuer, db[c]), issuer)
  BY DEF HonestIssuerIsNotRefused
<1> DEFINE s == db[c]
           proof == ExportProof(issuer, s)
<1>1. c \in Copies /\ IssuerOf[c] = issuer /\ s \in Seq(ToSet(s)) /\ Len(s) \in Nat
  BY RowsOfCopy DEF CopiesOf
<1>2. /\ proof.entries = s /\ proof.checkpoint = Checkpoint(issuer, Len(s), HeadHash(s))
      /\ proof.checkpoint.size = Len(s) /\ proof.checkpoint.head_hash = HeadHash(s)
  BY DEF ExportProof, Checkpoint
<1>3. Acceptable(proof, issuer)
  <2>1. AllowedAgents \subseteq Anyone.agents /\ EnterpriseKeys \subseteq Anyone.enterprises
    BY AllowedAgentsAssumption DEF Anyone
  <2>2. VerifyProof(proof, issuer, Pin(issuer, s), {}, Anyone)
          = [problems |-> Named("MISSING_DECISION", Undecided(s) # {}), missing |-> Undecided(s)]
    BY <1>1, <2>1, ExportExamined
  <2>3. CheckpointDigest(proof.checkpoint) = Pin(issuer, s)
    BY DEF Pin
  <2> HIDE DEF proof
  <2>4. QED
    BY <2>2, <2>3 DEF Acceptable, Named
<1>4. ASSUME RowsOf(issuer) # {} PROVE ~ForkOrRollback(Latest(issuer).unsigned, proof)
  <2> DEFINE last == Max(RowsOf(issuer))
             k == SizeAt(last)
  <2>1. last \in 1 .. Len(anchors) /\ IssuerAt(last) = issuer
    BY <1>4, TableRows DEF WitnessInv
  <2>2. /\ Latest(issuer).unsigned.size = k
        /\ Latest(issuer).unsigned.head_hash = anchors[last].unsigned.head_hash
        /\ Latest(issuer).unsigned.checkpoint_hash = anchors[last].unsigned.checkpoint_hash
    BY DEF Latest, SizeAt
  <2> HIDE DEF last
  <2>3. Attests(last) /\ k \in Nat
    BY <2>1 DEF WitnessInv, IsReceipt
  <2>4. PICK d \in CopiesOf(issuer) :
          /\ Carries(d, last)
          /\ anchors[last].unsigned.checkpoint_hash = CheckpointDigest(CheckpointOf(issuer, d, k))
    BY <2>1, <2>3 DEF Attests
  <2> HIDE DEF k
  <2> DEFINE t == db[d]
  <2>5. /\ d \in Copies /\ t \in Seq(ToSet(t)) /\ Len(t) \in Nat /\ k \in 0 .. Len(t)
        /\ Len(t) <= Len(s) /\ (IsPrefix(s, t) \/ IsPrefix(t, s))
    BY <2>3, <2>4, RowsOfCopy DEF CopiesOf, Carries, k
  <2>6. SubSeq(s, 1, Len(t)) = t
    BY <1>1, <2>5 DEF IsPrefix
  <2>7. SubSeq(s, 1, k) = SubSeq(t, 1, k)
    BY <1>1, <2>5, <2>6
  <2>8. anchors[last].unsigned.head_hash = HeadHash(SubSeq(s, 1, k))
    BY <2>4, <2>7 DEF Carries, k
  <2>9. anchors[last].unsigned.checkpoint_hash
          = CheckpointDigest(Checkpoint(issuer, k, HeadHash(SubSeq(s, 1, k))))
    <3>1. CheckpointOf(issuer, d, k) = Checkpoint(issuer, k, HeadHash(SubSeq(t, 1, k)))
      BY <2>5, CheckpointFields
    <3>2. QED
      BY <2>4, <2>7, <3>1
  <2>10. k <= Len(s) /\ (k = Len(s) => SubSeq(s, 1, k) = s)
    BY <1>1, <2>5
  <2>11. k > 0 => s[k].entry_hash = anchors[last].unsigned.head_hash
    <3> SUFFICES ASSUME k > 0 PROVE s[k].entry_hash = anchors[last].unsigned.head_hash
      OBVIOUS
    <3> DEFINE part == SubSeq(s, 1, k)
    <3>1. Len(part) = k /\ part[k] = s[k]
      BY <1>1, <2>5, <2>10, Beginning
    <3> HIDE DEF part
    <3>2. part # << >>
      BY <3>1
    <3>3. QED
      BY <2>8, <3>1, <3>2 DEF HeadHash, part
  <2>12. ~(Len(s) < k)
    BY <1>1, <2>5, <2>10
  <2> HIDE DEF proof, s
  <2>13. QED
    BY <1>2, <2>2, <2>8, <2>9, <2>10, <2>11, <2>12 DEF ForkOrRollback
<1>5. QED
  BY <1>3, <1>4 DEF Accepts

\* The types are part of the invariant.
LEMMA LogTypeFollows == LedgerInv /\ WitnessInv => LogTypeOK
<1> SUFFICES ASSUME LedgerInv, WitnessInv PROVE LogTypeOK
  OBVIOUS
<1>1. DOMAIN db = Copies
  BY DEF LedgerInv
<1>2. ASSUME NEW c \in Copies, NEW i \in DOMAIN db[c]
      PROVE  /\ db[c][i].seq = i /\ db[c][i].kind \in {"ACCEPT", "DECISION"}
             /\ db[c][i].created_at \in Times
             /\ VerifyPayload(IssuerOf[c], Unsigned(db[c][i]), db[c][i].signature)
  BY RowsOfCopy DEF Linked, Legal
<1>3. ASSUME NEW i \in DOMAIN anchors
      PROVE  /\ anchors[i].unsigned.witness_seq = i
             /\ anchors[i].unsigned.issuer_key \in AllowedIssuers
             /\ anchors[i].unsigned.size \in Nat
  BY DEF WitnessInv, IsTable, IsReceipt, IssuerAt, SizeAt
<1>4. QED
  BY <1>1, <1>2, <1>3 DEF LogTypeOK

-----------------------------------------------------------------------------
(* 5. The theorems                                                          *)

\* The inductive invariant: the databases are chained and legal, and the table
\* of receipts attests beginnings of them.
DInv == LedgerInv /\ WitnessInv

\* Empty databases and an empty table.
LEMMA InitDInv == Init => DInv
<1> SUFFICES ASSUME Init PROVE DInv
  OBVIOUS
<1>1. db = [c \in Copies |-> << >>] /\ anchors = << >>
  BY DEF Init, WitnessInit
<1>2. \A c \in Copies : db[c] = << >> /\ Len(db[c]) = 0
  BY <1>1
<1>3. ASSUME NEW c \in Copies PROVE Chained(IssuerOf[c], db[c])
  <2>1. \A S : << >> \in Seq(S)
    OBVIOUS
  <2>2. Chained(IssuerOf[c], << >>)
    BY <2>1 DEF Chained, IsRows
  <2>3. QED
    BY <1>2, <2>2
<1>4. LedgerInv
  BY <1>1, <1>2, <1>3 DEF LedgerInv
<1>5. IsTable /\ Len(anchors) = 0
  BY <1>1 DEF IsTable
<1>6. ASSUME NEW issuer PROVE Ordered(issuer)
  <2>1. RowsOf(issuer) = {}
    BY <1>1 DEF RowsOf
  <2>2. PICK f : f = [i \in 1 .. 0 |-> 0]
    OBVIOUS
  <2>3. f \in [1 .. 0 -> RowsOf(issuer)] /\ DOMAIN f = {}
    BY <2>2
  <2>4. Orders(f, issuer)
    BY <2>1, <2>3 DEF Orders
  <2>5. 0 \in 0 .. Len(anchors)
    BY <1>5
  <2>6. QED
    BY <2>3, <2>4, <2>5 DEF Ordered
<1>7. QED
  BY <1>4, <1>5, <1>6 DEF DInv, WitnessInv

\* Every step keeps both parts: the ledgers append, the witness takes what continues.
LEMMA NextDInv == DInv /\ [Next]_vars => DInv'
<1> SUFFICES ASSUME DInv, [Next]_vars PROVE DInv'
  OBVIOUS
<1>1. LedgerInv /\ WitnessInv
  BY DEF DInv
<1>2. ASSUME UNCHANGED vars PROVE DInv'
  <2>1. db' = db /\ anchors' = anchors
    BY <1>2 DEF vars
  <2>2. LedgerInv'
    BY <1>1, <2>1 DEF LedgerInv
  <2>3. WitnessInv'
    BY <1>1, <2>1, RowsOfCopy, GrowthKeepsReceipts
  <2>4. QED
    BY <2>2, <2>3 DEF DInv
<1>3. CASE AcceptAny \/ DecideAny
  <2>1. LedgerInv'
    BY <1>1, <1>3, LedgerSteps
  <2>2. WitnessInv'
    BY <1>1, <1>3, DatabasesGrow, GrowthKeepsReceipts
  <2>3. QED
    BY <2>1, <2>2 DEF DInv
<1>4. CASE AnchorAny
  <2>1. PICK issuer \in Issuers : \E proof \in Presented(issuer) :
          /\ \/ Len(anchors) < MaxAnchors /\ AnchorNew(proof, issuer)
             \/ AnchorAgain(proof, issuer)
          /\ UNCHANGED db
    BY <1>4 DEF AnchorAny
  <2>2. PICK proof \in Presented(issuer) :
          AnchorNew(proof, issuer) \/ AnchorAgain(proof, issuer)
    BY <2>1
  <2>3. db' = db
    BY <2>1
  <2>4. CASE AnchorNew(proof, issuer)
    <3>1. LedgerInv'
      BY <1>1, <2>3 DEF LedgerInv
    <3>2. QED
      BY <1>1, <2>3, <2>4, <3>1, AnchorKeeps DEF DInv
  <2>5. CASE AnchorAgain(proof, issuer)
    BY <1>2, <2>3, <2>5 DEF AnchorAgain, vars
  <2>6. QED
    BY <2>2, <2>4, <2>5
<1>5. QED
  BY <1>2, <1>3, <1>4 DEF Next

\* The invariant holds in every behaviour.
THEOREM LogInvariant == Spec => []DInv
<1>1. Init => DInv
  BY InitDInv
<1>2. DInv /\ [Next]_vars => DInv'
  BY NextDInv
<1>3. QED
  BY <1>1, <1>2, PTL DEF Spec

\* Rows are numbered from 1 without gaps and signed with the database's key;
\* the witness's receipts are numbered over all issuers.
THEOREM LogTypeCorrect == Spec => []LogTypeOK
<1>1. DInv => LogTypeOK
  BY LogTypeFollows DEF DInv
<1>2. QED
  BY <1>1, LogInvariant, PTL

\* Whatever was accepted and decided, the ledger's export passes the
\* examination by every holder of its receipts, lacking only open decisions.
THEOREM ExportsVerifyHolds == Spec => []ExportsVerify
<1>1. DInv => ExportsVerify
  BY ExportsVerifyFollows DEF DInv
<1>2. QED
  BY <1>1, LogInvariant, PTL

\* No export, splice or edit passes for an agent whose acceptance receipt it
\* leaves unanswered, under any pin or witness receipt.
THEOREM VerifiedMeansAnsweredHolds == Spec => []VerifiedMeansAnswered
<1>1. DInv => VerifiedMeansAnswered
  BY VerifiedMeansAnsweredFollows DEF DInv
<1>2. QED
  BY <1>1, LogInvariant, PTL

\* One digest, noted by anybody at any time, fixes every row before it.
THEOREM PinFixesHistoryHolds == Spec => []PinFixesHistory
<1>1. DInv => PinFixesHistory
  BY PinFixesHistoryFollows DEF DInv
<1>2. QED
  BY <1>1, LogInvariant, PTL

\* An issuer that keeps two histories cannot have both believed with receipts of
\* one witness, however often and in whatever order it anchors them.
THEOREM AuditorsAgreeHolds == Spec => []AuditorsAgree
<1>1. DInv => AuditorsAgree
  BY AuditorsAgreeFollows DEF DInv
<1>2. QED
  BY <1>1, LogInvariant, PTL

\* The receipts that witness_api publishes for an issuer pass verify_witness_history.
THEOREM HistoryVerifiesHolds == Spec => []HistoryVerifies
<1>1. DInv => HistoryVerifies
  BY HistoryVerifiesFollows DEF DInv
<1>2. QED
  BY <1>1, LogInvariant, PTL

\* The witness refuses no issuer whose databases continue one another.
THEOREM HonestIssuerIsNotRefusedHolds == Spec => []HonestIssuerIsNotRefused
<1>1. DInv => HonestIssuerIsNotRefused
  BY HonestIssuerFollows DEF DInv
<1>2. QED
  BY <1>1, LogInvariant, PTL
=============================================================================
