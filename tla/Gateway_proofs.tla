--------------------------- MODULE Gateway_proofs ---------------------------
(***************************************************************************)
(* Every property that Gateway states, for any number of calls, requests   *)
(* and decisions and any decision window, in three parts, each of which    *)
(* rests on the one before it:                                             *)
(*                                                                         *)
(*   1. types, and the agreement of the institution with those who check   *)
(*      its answers;                                                       *)
(*   2. what the store publishes is what the contract committed to;        *)
(*   3. the tables agree, evidence only grows, answers stay stored, and    *)
(*      the whole implements the lifecycle of evidence.                    *)
(***************************************************************************)
EXTENDS Gateway, TLAPS

-----------------------------------------------------------------------------
(***************************************************************************)
(* 1. Types.  The code after an await dereferences locals that were set    *)
(* before it, so types are not inductive alone: LocalsSet says which local *)
(* is present at which await.  There is one lemma per action.              *)
(***************************************************************************)

-----------------------------------------------------------------------------
(* The institution and those who check its answers (DecisionPolicy)         *)

\* Whatever the options, the institution's answer (mockWallet.ts:36-39, testOutcome.ts)
\* passes the check that the gateway and the verifier make of it (decisionPolicy.ts).
THEOREM InstitutionFollowsPolicy ==
  ASSUME NEW amount \in Nat, NEW limit \in Nat, NEW option \in Options
  PROVE  MatchesDecisionPolicy(amount, limit, InstitutionOutcome(amount, limit, option))
<1> DEFINE answer == InstitutionOutcome(amount, limit, option)
<1>1. CASE option = "rejectionTest"
  BY <1>1 DEF InstitutionOutcome, TestOutcome, Outcome, MatchesDecisionPolicy
<1>2. CASE option # "rejectionTest"
  BY <1>2 DEF InstitutionOutcome, Outcome, MatchesDecisionPolicy
<1>3. QED
  BY <1>1, <1>2

\* An approval that passes the check is within the limit: no decision, whoever made
\* it, is accepted as an approval of more than the policy allows.
LEMMA ApprovalIsWithinLimit ==
  ASSUME NEW amount \in Nat, NEW limit \in Nat, NEW answer,
         MatchesDecisionPolicy(amount, limit, answer), answer.verdict = "APPROVE"
  PROVE  amount <= limit /\ answer.reason = "WITHIN_LIMIT"
  BY DEF MatchesDecisionPolicy, Exceeded

-----------------------------------------------------------------------------
(* The types of what the calls build                                        *)

\* The hash of a request, and of a decision, has its type.
LEMMA HashTypes ==
  ASSUME NEW r \in Requests, NEW d \in Decisions
  PROVE  /\ RequestHash(r) \in RequestHashes
         /\ DecisionHash(d) \in DecisionHashes
  BY DEF Requests, Decisions, RequestHash, DecisionHash, RequestHashes, DecisionHashes

\* The receipt that the verification service signs for an anchored request has its type.
LEMMA ReceiptType ==
  ASSUME NEW r \in Requests, NEW tx \in RequestTxs, NEW at \in Nat, NEW deadline \in Nat
  PROVE  CreateReceipt(r, tx, at, deadline) \in Receipts
<1>1. [id |-> r.id, requestHash |-> RequestHash(r), policyHash |-> r.policyHash, tx |-> tx,
       observedAt |-> at, deadline |-> deadline] \in ReceiptHashes
  BY DEF ReceiptHashes, Requests, RequestHashes, RequestHash
<1>2. QED
  BY <1>1, SaltsAssumption DEF CreateReceipt, Receipts, ReceiptHashes, SignaturesOver, Sign, Signers

\* The transactions that calls broadcast have their types.
LEMMA RequestTxType ==
  ASSUME NEW c \in Calls, NEW r \in Requests
  PROVE  RequestTx(c, r) \in RequestTxs
  BY DEF RequestTx, RequestTxs, Requests, RequestHash, RequestHashes

\* The same for a decision's transaction.
LEMMA DecisionTxType ==
  ASSUME NEW c \in Calls, NEW d \in Decisions
  PROVE  DecisionTx(c, d.id, DecisionHash(d)) \in DecisionTxs
  BY DEF DecisionTx, DecisionTxs, Decisions, DecisionHash, DecisionHashes

\* The bundle that submitRequest builds from the record read back has its type.
LEMMA PendingBundleType ==
  ASSUME TypeOK, NEW r \in Requests, NEW tx \in RequestTxs
  PROVE  PendingBundle(r, tx) \in Bundles
<1>1. r.id \in Ids
  BY DEF Requests
<1>2. /\ record[r.id].requestAnchoredAt \in Nat
      /\ record[r.id].decisionDeadline \in Nat
      /\ policyRow \in Policies
  BY <1>1 DEF TypeOK, ChainTypeOK, StoreTypeOK, AnchorRecords
<1>3. CreateReceipt(r, tx, record[r.id].requestAnchoredAt, record[r.id].decisionDeadline) \in Receipts
  BY <1>2, ReceiptType
<1>4. QED
  BY <1>2, <1>3 DEF PendingBundle, Bundle, Bundles

\* Whatever the option, the institution answers with a typed decision.
LEMMA DecideRequestType ==
  ASSUME NEW r \in Requests, NEW p \in Policies, NEW option
  PROVE  DecideRequest(r, p, option) \in Decisions
<1> DEFINE answer == InstitutionOutcome(r.amount, p.limit, option)
<1>1. answer.verdict \in Verdicts /\ answer.reason \in Reasons
  BY DEF InstitutionOutcome, Outcome, TestOutcome, Verdicts, Reasons
<1>2. r.id \in Ids /\ RequestHash(r) \in RequestHashes /\ PolicyHash(p) \in Limits
  BY DEF Requests, RequestHash, RequestHashes, Policies, PolicyHash
<1> HIDE DEF answer
<1>3. [id |-> r.id, requestHash |-> RequestHash(r), policyHash |-> PolicyHash(p),
       verdict |-> answer.verdict, reason |-> answer.reason] \in DecisionHashes
  BY <1>1, <1>2 DEF DecisionHashes
<1>4. QED
  BY <1>1, <1>2, <1>3, SaltsAssumption
     DEF DecideRequest, answer, Decisions, DecisionHashes, SignaturesOver, Sign, Signers

\* Completing a bundle sets its decision and the decision's transaction only.
LEMMA CompletedType ==
  ASSUME NEW b \in Bundles, NEW d \in Decisions, NEW tx \in DecisionTxs
  PROVE  /\ Completed(b, d, tx) \in Bundles
         /\ Completed(b, d, tx).decision = d
         /\ Completed(b, d, tx).decisionTx = tx
         /\ Completed(b, d, tx).request = b.request
  BY DEF Completed, Bundles

\* A committed save leaves every table typed.
LEMMA PersistType ==
  ASSUME StoreTypeOK, NEW b \in Bundles, PersistBundle(b)
  PROVE  StoreTypeOK'
<1>1. /\ b.policy \in Policies /\ b.request \in Requests /\ b.receipt \in Receipts
      /\ b.decision \in Decisions \union {None}
      /\ b.requestTx \in RequestTxs /\ b.decisionTx \in DecisionTxs \union {None}
  BY DEF Bundles
<1>2. policyRow' \in Policies
  BY <1>1 DEF StoreTypeOK, PersistBundle, KeepRow
<1>3. requestRow' \in [Ids -> Requests \union {None}]
  BY <1>1 DEF StoreTypeOK, PersistBundle, KeepRow
<1>4. caseNumber' \in [Ids -> Nat] /\ nextCase' \in Nat
  <2>1. caseNumber \in [Ids -> Nat] /\ nextCase \in Nat
    BY DEF StoreTypeOK
  <2>2. \/ /\ caseNumber' = [caseNumber EXCEPT ![BundleId(b)] = nextCase]
           /\ nextCase' = nextCase + 1
        \/ caseNumber' = caseNumber /\ nextCase' = nextCase
    BY DEF PersistBundle
  <2>3. QED
    BY <2>1, <2>2
<1>5. receiptRow' \in [Ids -> Receipts \union {None}]
  BY <1>1 DEF StoreTypeOK, PersistBundle, KeepRow
<1>6. decisionRow' \in [Ids -> Decisions \union {None}]
  BY <1>1 DEF StoreTypeOK, PersistBundle, KeepRow
<1>7. anchorRow' \in [Ids -> [requestTx : RequestTxs, decisionTx : DecisionTxs \union {None}]
                             \union {None}]
  BY <1>1 DEF StoreTypeOK, PersistBundle
<1>8. bundleRow' \in [Ids -> Bundles \union {None}]
  BY DEF StoreTypeOK, PersistBundle
<1>9. QED
  BY <1>2, <1>3, <1>4, <1>5, <1>6, <1>7, <1>8 DEF StoreTypeOK

\* The awaits of submitRequest, of submitDecision, and those with a bundle in hand.
AtRequest == {"getBundle", "readRecord", "recover", "sendRequest", "waitRequest", "saveReceipt"}
AtDecision == {"getDecisionBundle", "readDecisionRecord", "chainTime", "sendDecision",
               "waitDecision", "findDecision", "saveDecision"}
WithBundle == (AtDecision \ {"getDecisionBundle"}) \union {"saveReceipt"}

\* The locals that the code after an await uses were set before it.
LocalsSet ==
  \A c \in Calls :
    /\ pc[c] \in AtRequest => req[c] \in Requests
    /\ pc[c] \in AtDecision => dec[c] \in Decisions
    /\ pc[c] \in WithBundle => snap[c] \in Bundles

\* What the actions keep of the calls.
CallsOK == CallTypeOK /\ LocalsSet

\* An error leaves the locals of every call as they have to be.
LEMMA ThrowOK ==
  ASSUME CallsOK, NEW c \in Calls, Throw(c)
  PROVE  CallsOK'
  BY DEF CallsOK, CallTypeOK, LocalsSet, Throw, Goto, Finished, AtRequest, AtDecision, WithBundle

\* So does an answer.
LEMMA ReturnOK ==
  ASSUME CallsOK, NEW c \in Calls, NEW b \in Bundles, Return(c, b)
  PROVE  CallsOK'
  BY DEF CallsOK, CallTypeOK, LocalsSet, Return, Goto, Finished, AtRequest, AtDecision, WithBundle

\* A step to an await that needs no local the call did not need before.
LEMMA StayOK ==
  ASSUME CallsOK, NEW c \in Calls, NEW to \in Awaits, Goto(c, to),
         UNCHANGED <<req, opt, dec, snap>>,
         to \in AtRequest => req[c] \in Requests,
         to \in AtDecision => dec[c] \in Decisions,
         to \in WithBundle => snap[c] \in Bundles
  PROVE  CallsOK'
  BY DEF CallsOK, CallTypeOK, LocalsSet, Goto, Awaits, AtRequest, AtDecision, WithBundle

\* A step that keeps a bundle for the awaits that need one.
LEMMA KeepBundleOK ==
  ASSUME CallsOK, NEW c \in Calls, NEW to \in Awaits, NEW b \in Bundles, Goto(c, to),
         snap' = [snap EXCEPT ![c] = b], UNCHANGED <<req, opt, dec>>,
         to \in AtRequest => req[c] \in Requests,
         to \in AtDecision => dec[c] \in Decisions
  PROVE  CallsOK'
  BY DEF CallsOK, CallTypeOK, LocalsSet, Goto, Awaits, AtRequest, AtDecision, WithBundle

\* A step that leaves the chain alone leaves it typed.
LEMMA ChainUnchanged ==
  ASSUME ChainTypeOK, UNCHANGED chainVars
  PROVE  ChainTypeOK'
  BY DEF ChainTypeOK, chainVars

\* A step that leaves the tables alone leaves them typed.
LEMMA StoreUnchanged ==
  ASSUME StoreTypeOK, UNCHANGED storeVars
  PROVE  StoreTypeOK'
  BY DEF StoreTypeOK, storeVars

\* Broadcasting a typed transaction leaves the chain typed.
LEMMA BroadcastType ==
  ASSUME ChainTypeOK, NEW tx \in Txs, Broadcast(tx)
  PROVE  ChainTypeOK'
  BY DEF ChainTypeOK, Broadcast

\* The inductive invariant.
Typed == TypeOK /\ LocalsSet

\* A new call of submitRequest holds a submitted, typed request.
LEMMA BeginRequestTyped ==
  ASSUME Typed, NEW c \in Calls, BeginRequest(c)
  PROVE  Typed'
<1>1. PICK r \in SubmittedRequests, o \in SubmittedOptions :
        req' = [req EXCEPT ![c] = r] /\ opt' = [opt EXCEPT ![c] = o]
  BY DEF BeginRequest
<1>2. r \in Requests /\ o \in CallOptions
  BY SubmittedRequestsAssumption, SubmittedOptionsAssumption
<1>3. CallsOK'
  BY <1>1, <1>2
     DEF BeginRequest, Typed, TypeOK, CallsOK, CallTypeOK, LocalsSet, Goto, Awaits, Finished,
         AtRequest, AtDecision, WithBundle
<1>4. QED
  BY <1>3, ChainUnchanged, StoreUnchanged DEF BeginRequest, Typed, TypeOK, CallsOK

\* A known request id is answered with a stored bundle.
LEMMA GetBundleTyped ==
  ASSUME Typed, NEW c \in Calls, GetBundle(c)
  PROVE  Typed'
<1>1. CallsOK /\ req[c] \in Requests /\ req[c].id \in Ids
  BY DEF Typed, TypeOK, CallsOK, LocalsSet, GetBundle, At, AtRequest, Requests
<1>2. bundleRow[req[c].id] # None => bundleRow[req[c].id] \in Bundles
  BY <1>1 DEF Typed, TypeOK, StoreTypeOK
<1>3. CallsOK'
  <2>1. CASE Goto(c, "readRecord") /\ UNCHANGED <<req, opt, dec, snap>>
    BY <1>1, <2>1, StayOK DEF Awaits, AtDecision, WithBundle
  <2>2. CASE bundleRow[req[c].id] # None /\ Return(c, bundleRow[req[c].id])
    BY <1>1, <1>2, <2>2, ReturnOK
  <2>3. CASE Throw(c)
    BY <1>1, <2>3, ThrowOK
  <2>4. QED
    BY <2>1, <2>2, <2>3 DEF GetBundle
<1>4. QED
  BY <1>3, ChainUnchanged, StoreUnchanged DEF GetBundle, Typed, TypeOK, CallsOK

\* A checked request is kept for the awaits that anchor or recover it.
LEMMA ReadRecordTyped ==
  ASSUME Typed, NEW c \in Calls, ReadRecord(c)
  PROVE  Typed'
<1>1. CallsOK /\ req[c] \in Requests
  BY DEF Typed, TypeOK, CallsOK, LocalsSet, ReadRecord, At, AtRequest
<1>2. CallsOK'
  <2>1. CASE Goto(c, "sendRequest") /\ UNCHANGED <<req, opt, dec, snap>>
    BY <1>1, <2>1, StayOK DEF Awaits, AtDecision, WithBundle
  <2>2. CASE Goto(c, "recover") /\ UNCHANGED <<req, opt, dec, snap>>
    BY <1>1, <2>2, StayOK DEF Awaits, AtDecision, WithBundle
  <2>3. CASE Throw(c)
    BY <1>1, <2>3, ThrowOK
  <2>4. QED
    BY <2>1, <2>2, <2>3 DEF ReadRecord
<1>3. QED
  BY <1>2, ChainUnchanged, StoreUnchanged DEF ReadRecord, Typed, TypeOK, CallsOK

\* A recovered request's bundle names a transaction of a mined request.
LEMMA RecoverRequestTyped ==
  ASSUME Typed, NEW c \in Calls, RecoverRequest(c)
  PROVE  Typed'
<1>1. CallsOK /\ req[c] \in Requests
  BY DEF Typed, TypeOK, CallsOK, LocalsSet, RecoverRequest, At, AtRequest
<1>2. CallsOK'
  <2>1. ASSUME NEW tx \in RequestAnchorTxs(req[c].id),
               Goto(c, "saveReceipt"), snap' = [snap EXCEPT ![c] = PendingBundle(req[c], tx)],
               UNCHANGED <<req, opt, dec>>
        PROVE  CallsOK'
    <3>1. tx \in RequestTxs
      BY DEF RequestAnchorTxs, Typed, TypeOK, ChainTypeOK, Txs, RequestTxs, DecisionTxs
    <3>2. PendingBundle(req[c], tx) \in Bundles
      BY <1>1, <3>1, PendingBundleType DEF Typed
    <3>3. QED
      BY <1>1, <2>1, <3>2, KeepBundleOK DEF Awaits, AtDecision
  <2>2. CASE Throw(c)
    BY <1>1, <2>2, ThrowOK
  <2>3. QED
    BY <2>1, <2>2 DEF RecoverRequest
<1>3. QED
  BY <1>2, ChainUnchanged, StoreUnchanged DEF RecoverRequest, Typed, TypeOK, CallsOK

\* Only a typed transaction is broadcast for a request.
LEMMA SendRequestTyped ==
  ASSUME Typed, NEW c \in Calls, SendRequest(c)
  PROVE  Typed'
<1>1. CallsOK /\ req[c] \in Requests
  BY DEF Typed, TypeOK, CallsOK, LocalsSet, SendRequest, At, AtRequest
<1>2. CallsOK'
  BY <1>1, StayOK DEF SendRequest, Awaits, AtDecision, WithBundle
<1>3. ChainTypeOK'
  <2>1. RequestTx(c, req[c]) \in Txs
    BY <1>1, RequestTxType DEF Txs
  <2>2. QED
    BY <2>1, BroadcastType DEF SendRequest, Typed, TypeOK
<1>4. QED
  BY <1>2, <1>3, StoreUnchanged DEF SendRequest, Typed, TypeOK, CallsOK

\* A mined request's bundle names the transaction of the call.
LEMMA AwaitRequestTyped ==
  ASSUME Typed, NEW c \in Calls, AwaitRequest(c)
  PROVE  Typed'
<1>1. CallsOK /\ req[c] \in Requests
  BY DEF Typed, TypeOK, CallsOK, LocalsSet, AwaitRequest, At, AtRequest
<1>2. CallsOK'
  <2>1. CASE /\ Goto(c, "saveReceipt")
             /\ snap' = [snap EXCEPT ![c] = PendingBundle(req[c], RequestTx(c, req[c]))]
             /\ UNCHANGED <<req, opt, dec>>
    <3>1. RequestTx(c, req[c]) \in RequestTxs
      BY <1>1, RequestTxType
    <3>2. PendingBundle(req[c], RequestTx(c, req[c])) \in Bundles
      BY <1>1, <3>1, PendingBundleType DEF Typed
    <3>3. QED
      BY <1>1, <2>1, <3>2, KeepBundleOK DEF Awaits, AtDecision
  <2>2. CASE Throw(c)
    BY <1>1, <2>2, ThrowOK
  <2>3. QED
    BY <2>1, <2>2 DEF AwaitRequest
<1>3. QED
  BY <1>2, ChainUnchanged, StoreUnchanged DEF AwaitRequest, Typed, TypeOK, CallsOK

\* Saving the receipt keeps the tables typed and leaves a typed decision to submit.
LEMMA SaveReceiptTyped ==
  ASSUME Typed, NEW c \in Calls, SaveReceipt(c)
  PROVE  Typed'
<1>1. CallsOK /\ req[c] \in Requests /\ snap[c] \in Bundles /\ snap[c].policy \in Policies
  BY DEF Typed, TypeOK, CallsOK, LocalsSet, SaveReceipt, At, AtRequest, WithBundle, Bundles
<1>2. StoreTypeOK'
  BY <1>1, PersistType, StoreUnchanged
     DEF SaveReceipt, PersistRaises, Typed, TypeOK
<1>3. CallsOK'
  <2>1. CASE Return(c, snap[c])
    BY <1>1, <2>1, ReturnOK
  <2>2. CASE /\ Goto(c, "getDecisionBundle")
             /\ dec' = [dec EXCEPT ![c] = DecideRequest(req[c], snap[c].policy, opt[c])]
             /\ snap' = [snap EXCEPT ![c] = None]
             /\ UNCHANGED <<req, opt>>
    <3>1. DecideRequest(req[c], snap[c].policy, opt[c]) \in Decisions
      BY <1>1, DecideRequestType
    <3>2. QED
      BY <1>1, <2>2, <3>1
         DEF CallsOK, CallTypeOK, LocalsSet, Goto, Awaits, AtRequest, AtDecision, WithBundle
  <2>3. CASE Throw(c)
    BY <1>1, <2>3, ThrowOK
  <2>4. QED
    BY <2>1, <2>2, <2>3 DEF SaveReceipt
<1>4. QED
  BY <1>2, <1>3, ChainUnchanged DEF SaveReceipt, Typed, TypeOK, CallsOK

\* A new call of submitDecision holds a submitted, typed decision.
LEMMA BeginDecisionTyped ==
  ASSUME Typed, NEW c \in Calls, BeginDecision(c)
  PROVE  Typed'
<1>1. PICK d \in SubmittedDecisions : dec' = [dec EXCEPT ![c] = d]
  BY DEF BeginDecision
<1>2. d \in Decisions
  BY SubmittedDecisionsAssumption
<1>3. CallsOK'
  BY <1>1, <1>2
     DEF BeginDecision, Typed, TypeOK, CallsOK, CallTypeOK, LocalsSet, Goto, Awaits,
         AtRequest, AtDecision, WithBundle
<1>4. QED
  BY <1>3, ChainUnchanged, StoreUnchanged DEF BeginDecision, Typed, TypeOK, CallsOK

\* The bundle that submitDecision completes is a stored one.
LEMMA GetDecisionBundleTyped ==
  ASSUME Typed, NEW c \in Calls, GetDecisionBundle(c)
  PROVE  Typed'
<1>1. CallsOK /\ dec[c] \in Decisions /\ dec[c].id \in Ids
  BY DEF Typed, TypeOK, CallsOK, LocalsSet, GetDecisionBundle, At, AtDecision, Decisions
<1>2. bundleRow[dec[c].id] # None => bundleRow[dec[c].id] \in Bundles
  BY <1>1 DEF Typed, TypeOK, StoreTypeOK
<1>3. CallsOK'
  <2>1. CASE /\ bundleRow[dec[c].id] # None
             /\ Goto(c, "readDecisionRecord")
             /\ snap' = [snap EXCEPT ![c] = bundleRow[dec[c].id]]
             /\ UNCHANGED <<req, opt, dec>>
    BY <1>1, <1>2, <2>1, KeepBundleOK DEF Awaits, AtRequest
  <2>2. CASE bundleRow[dec[c].id] # None /\ Return(c, bundleRow[dec[c].id])
    BY <1>1, <1>2, <2>2, ReturnOK
  <2>3. CASE Throw(c)
    BY <1>1, <2>3, ThrowOK
  <2>4. QED
    BY <2>1, <2>2, <2>3 DEF GetDecisionBundle
<1>4. QED
  BY <1>3, ChainUnchanged, StoreUnchanged DEF GetDecisionBundle, Typed, TypeOK, CallsOK

\* The decision and its bundle are kept for the awaits that anchor or find it.
LEMMA ReadDecisionRecordTyped ==
  ASSUME Typed, NEW c \in Calls, ReadDecisionRecord(c)
  PROVE  Typed'
<1>1. CallsOK /\ dec[c] \in Decisions /\ snap[c] \in Bundles
  BY DEF Typed, TypeOK, CallsOK, LocalsSet, ReadDecisionRecord, At, AtDecision, WithBundle
<1>2. CallsOK'
  <2>1. CASE Goto(c, "findDecision") /\ UNCHANGED <<req, opt, dec, snap>>
    BY <1>1, <2>1, StayOK DEF Awaits, AtRequest
  <2>2. CASE Goto(c, "chainTime") /\ UNCHANGED <<req, opt, dec, snap>>
    BY <1>1, <2>2, StayOK DEF Awaits, AtRequest
  <2>3. CASE Throw(c)
    BY <1>1, <2>3, ThrowOK
  <2>4. QED
    BY <2>1, <2>2, <2>3 DEF ReadDecisionRecord
<1>3. QED
  BY <1>2, ChainUnchanged, StoreUnchanged DEF ReadDecisionRecord, Typed, TypeOK, CallsOK

\* They are kept while the deadline is checked.
LEMMA CheckDeadlineTyped ==
  ASSUME Typed, NEW c \in Calls, CheckDeadline(c)
  PROVE  Typed'
<1>1. CallsOK /\ dec[c] \in Decisions /\ snap[c] \in Bundles
  BY DEF Typed, TypeOK, CallsOK, LocalsSet, CheckDeadline, At, AtDecision, WithBundle
<1>2. CallsOK'
  <2>1. CASE Goto(c, "sendDecision") /\ UNCHANGED <<req, opt, dec, snap>>
    BY <1>1, <2>1, StayOK DEF Awaits, AtRequest
  <2>2. CASE Throw(c)
    BY <1>1, <2>2, ThrowOK
  <2>3. QED
    BY <2>1, <2>2 DEF CheckDeadline
<1>3. QED
  BY <1>2, ChainUnchanged, StoreUnchanged DEF CheckDeadline, Typed, TypeOK, CallsOK

\* Only a typed transaction is broadcast for a decision.
LEMMA SendDecisionTyped ==
  ASSUME Typed, NEW c \in Calls, SendDecision(c)
  PROVE  Typed'
<1>1. CallsOK /\ dec[c] \in Decisions /\ snap[c] \in Bundles
  BY DEF Typed, TypeOK, CallsOK, LocalsSet, SendDecision, At, AtDecision, WithBundle
<1>2. CallsOK'
  BY <1>1, StayOK DEF SendDecision, Awaits, AtRequest
<1>3. ChainTypeOK'
  <2>1. DecisionTx(c, dec[c].id, DecisionHash(dec[c])) \in Txs
    BY <1>1, DecisionTxType DEF Txs
  <2>2. QED
    BY <2>1, BroadcastType DEF SendDecision, Typed, TypeOK
<1>4. QED
  BY <1>2, <1>3, StoreUnchanged DEF SendDecision, Typed, TypeOK, CallsOK

\* A mined decision completes the bundle with the transaction of the call.
LEMMA AwaitDecisionTyped ==
  ASSUME Typed, NEW c \in Calls, AwaitDecision(c)
  PROVE  Typed'
<1> DEFINE tx == DecisionTx(c, dec[c].id, DecisionHash(dec[c]))
<1>1. CallsOK /\ dec[c] \in Decisions /\ snap[c] \in Bundles
  BY DEF Typed, TypeOK, CallsOK, LocalsSet, AwaitDecision, At, AtDecision, WithBundle
<1>2. CallsOK'
  <2>1. CASE /\ Goto(c, "saveDecision")
             /\ snap' = [snap EXCEPT ![c] = Completed(@, dec[c], tx)]
             /\ UNCHANGED <<req, opt, dec>>
    <3>1. tx \in DecisionTxs
      BY <1>1, DecisionTxType
    <3>2. Completed(snap[c], dec[c], tx) \in Bundles
      BY <1>1, <3>1, CompletedType
    <3>3. QED
      BY <1>1, <2>1, <3>2, KeepBundleOK DEF Awaits, AtRequest
  <2>2. CASE Throw(c)
    BY <1>1, <2>2, ThrowOK
  <2>3. QED
    BY <2>1, <2>2 DEF AwaitDecision
<1>3. QED
  BY <1>2, ChainUnchanged, StoreUnchanged DEF AwaitDecision, Typed, TypeOK, CallsOK

\* A found decision completes the bundle with a mined decision's transaction.
LEMMA FindDecisionTyped ==
  ASSUME Typed, NEW c \in Calls, FindDecision(c)
  PROVE  Typed'
<1> DEFINE txs == DecisionAnchorTxs(dec[c].id, DecisionHash(dec[c]), snap[c].receipt.observedAt)
<1>1. CallsOK /\ dec[c] \in Decisions /\ snap[c] \in Bundles
  BY DEF Typed, TypeOK, CallsOK, LocalsSet, FindDecision, At, AtDecision, WithBundle
<1>2. CallsOK'
  <2>1. ASSUME NEW tx \in txs,
               Goto(c, "saveDecision"), snap' = [snap EXCEPT ![c] = Completed(@, dec[c], tx)],
               UNCHANGED <<req, opt, dec>>
        PROVE  CallsOK'
    <3>1. tx \in DecisionTxs
      BY DEF DecisionAnchorTxs, Typed, TypeOK, ChainTypeOK, Txs, RequestTxs, DecisionTxs
    <3>2. Completed(snap[c], dec[c], tx) \in Bundles
      BY <1>1, <3>1, CompletedType
    <3>3. QED
      BY <1>1, <2>1, <3>2, KeepBundleOK DEF Awaits, AtRequest
  <2>2. CASE Throw(c)
    BY <1>1, <2>2, ThrowOK
  <2>3. QED
    BY <2>1, <2>2 DEF FindDecision
<1>3. QED
  BY <1>2, ChainUnchanged, StoreUnchanged DEF FindDecision, Typed, TypeOK, CallsOK

\* Saving the completed bundle keeps the tables typed.
LEMMA SaveDecisionTyped ==
  ASSUME Typed, NEW c \in Calls, SaveDecision(c)
  PROVE  Typed'
<1>1. CallsOK /\ snap[c] \in Bundles
  BY DEF Typed, TypeOK, CallsOK, LocalsSet, SaveDecision, At, AtDecision, WithBundle
<1>2. StoreTypeOK'
  BY <1>1, PersistType, StoreUnchanged DEF SaveDecision, PersistRaises, Typed, TypeOK
<1>3. CallsOK'
  BY <1>1, ReturnOK, ThrowOK DEF SaveDecision
<1>4. QED
  BY <1>2, <1>3, ChainUnchanged DEF SaveDecision, Typed, TypeOK, CallsOK

\* A failure at any await leaves every other call as it was.
LEMMA FailTyped ==
  ASSUME Typed, NEW c \in Calls, Fail(c)
  PROVE  Typed'
<1>1. CallsOK'
  BY ThrowOK DEF Fail, Typed, TypeOK, CallsOK
<1>2. QED
  BY <1>1, ChainUnchanged, StoreUnchanged DEF Fail, Typed, TypeOK, CallsOK

\* A mined transaction, accepted or reverted, leaves the chain typed.
LEMMA MineTyped ==
  ASSUME ChainTypeOK, NEW tx \in mempool, Mine(tx)
  PROVE  ChainTypeOK'
<1>1. tx \in Txs /\ tx.id \in Ids /\ time' = time + 1 /\ time' \in Nat
  BY DEF ChainTypeOK, Mine, Txs, RequestTxs, DecisionTxs
<1>2. record[tx.id] \in AnchorRecords /\ record \in [Ids -> AnchorRecords]
  BY <1>1 DEF ChainTypeOK
<1>3. record' \in [Ids -> AnchorRecords]
  <2>1. CASE tx.kind = "request" /\ AnchorRequest(tx, time')
    <3>1. tx.hash \in RequestHashes /\ tx.policyHash \in Limits
      BY <1>1, <2>1 DEF Txs, RequestTxs, DecisionTxs
    <3>2. [requestHash |-> tx.hash, policyHash |-> tx.policyHash,
           requestAnchoredAt |-> time', decisionDeadline |-> time' + Window,
           decisionHash |-> None, decisionAnchoredAt |-> None] \in AnchorRecords
      BY <1>1, <3>1, WindowAssumption DEF AnchorRecords
    <3>3. QED
      BY <1>1, <1>2, <2>1, <3>2 DEF AnchorRequest
  <2>2. CASE tx.kind = "decision" /\ AnchorDecision(tx, time')
    <3>1. tx.hash \in DecisionHashes
      BY <1>1, <2>2 DEF Txs, RequestTxs, DecisionTxs
    <3>2. [record[tx.id] EXCEPT !.decisionHash = tx.hash, !.decisionAnchoredAt = time']
            \in AnchorRecords
      BY <1>1, <1>2, <3>1 DEF AnchorRecords
    <3>3. record' = record \/
          record' = [record EXCEPT ![tx.id] = [record[tx.id] EXCEPT
                       !.decisionHash = tx.hash, !.decisionAnchoredAt = time']]
      BY <1>1, <1>2, <2>2 DEF AnchorDecision
    <3>4. QED
      BY <1>1, <1>2, <3>2, <3>3
  <2>3. QED
    BY <2>1, <2>2 DEF Mine
<1>4. mempool' \subseteq Txs
  BY DEF Mine, ChainTypeOK
<1>5. mined' \subseteq [tx : Txs, block : Nat, success : BOOLEAN]
  <2>1. RequestAccepted(tx) \in BOOLEAN /\ DecisionAccepted(tx, time') \in BOOLEAN
    BY DEF RequestAccepted, DecisionAccepted
  <2>2. QED
    BY <1>1, <2>1 DEF Mine, ChainTypeOK
<1>6. QED
  BY <1>1, <1>3, <1>4, <1>5 DEF ChainTypeOK

\* So does any block.
LEMMA ChainTyped ==
  ASSUME Typed, Chain
  PROVE  Typed'
<1>1. ChainTypeOK'
  <2>1. CASE MineEmpty
    BY <2>1 DEF MineEmpty, ChainTypeOK, Typed, TypeOK
  <2>2. ASSUME NEW tx \in mempool, Mine(tx) PROVE ChainTypeOK'
    BY <2>2, MineTyped DEF Typed, TypeOK
  <2>3. QED
    BY <2>1, <2>2 DEF Chain
<1>2. StoreTypeOK'
  BY StoreUnchanged DEF Chain, Typed, TypeOK
<1>3. CallTypeOK' /\ LocalsSet'
  BY DEF Chain, callVars, Typed, TypeOK, CallTypeOK, LocalsSet
<1>4. QED
  BY <1>1, <1>2, <1>3 DEF Typed, TypeOK

\* The initial state is typed: the seeded policy is the enterprise's.
LEMMA InitTyped == Init => Typed
<1> SUFFICES ASSUME Init PROVE Typed
  OBVIOUS
<1>1. ChainTypeOK
  BY DEF Init, ChainInit, ChainTypeOK, NoRecord, AnchorRecords
<1>2. StoreTypeOK
  <2>1. CreatePolicy(PolicyLimit, 0) \in Policies
    BY PolicyLimitAssumption, SaltsAssumption
       DEF CreatePolicy, Policies, SignaturesOver, Sign, Signers
  <2>2. QED
    BY <2>1 DEF Init, StoreInit, NoRows, StoreTypeOK
<1>3. CallTypeOK /\ LocalsSet
  BY DEF Init, CallTypeOK, LocalsSet, AtRequest, AtDecision, WithBundle
<1>4. QED
  BY <1>1, <1>2, <1>3 DEF Typed, TypeOK

\* Every step keeps the types and the locals that later awaits use.
LEMMA NextTyped == Typed /\ [Next]_vars => Typed'
<1> SUFFICES ASSUME Typed, [Next]_vars PROVE Typed'
  OBVIOUS
<1>1. CASE Chain
  BY <1>1, ChainTyped
<1>2. ASSUME NEW c \in Calls, Step(c) PROVE Typed'
  BY <1>2, BeginRequestTyped, GetBundleTyped, ReadRecordTyped, RecoverRequestTyped,
     SendRequestTyped, AwaitRequestTyped, SaveReceiptTyped, BeginDecisionTyped,
     GetDecisionBundleTyped, ReadDecisionRecordTyped, CheckDeadlineTyped, SendDecisionTyped,
     AwaitDecisionTyped, FindDecisionTyped, SaveDecisionTyped, FailTyped
     DEF Step
<1>3. CASE UNCHANGED vars
  BY <1>3 DEF vars, chainVars, storeVars, callVars, Typed, TypeOK, ChainTypeOK, StoreTypeOK,
              CallTypeOK, LocalsSet
<1>4. QED
  BY <1>1, <1>2, <1>3 DEF Next

\* In every behaviour, each await finds the locals that the code after it uses.
THEOREM TypedInvariant == Spec => []Typed
  BY InitTyped, NextTyped, PTL DEF Spec

\* The types of the chain, the tables and the calls hold in every behaviour.
THEOREM TypeCorrect == Spec => []TypeOK
<1>1. Typed => TypeOK
  BY DEF Typed
<1>2. QED
  BY <1>1, TypedInvariant, PTL

-----------------------------------------------------------------------------
(***************************************************************************)
(* 2. What the store publishes is what the contract committed to.          *)
(*                                                                         *)
(* The inductive invariant follows the evidence from the chain to the      *)
(* store.  A successful transaction's effect is still in the contract      *)
(* record (History), because a record's request and its decision are each  *)
(* set once.  A call that is about to save holds a bundle that the chain   *)
(* proves (CallsProven), although other calls and blocks came between its  *)
(* reads; so every stored bundle is proven (StoredProven).                 *)
(***************************************************************************)

\* The chain with records rec and mined transactions txs proves the request of b.
RequestProof(b, rec, txs) ==
  /\ rec[BundleId(b)].requestHash = RequestHash(b.request)
  /\ \E m \in txs :
       /\ m.tx = b.requestTx /\ m.success
       /\ m.tx.kind = "request" /\ m.tx.id = BundleId(b)
       /\ m.tx.hash = RequestHash(b.request) /\ m.tx.policyHash = PolicyHash(b.policy)
       /\ m.block = b.receipt.observedAt /\ b.receipt.deadline = m.block + Window

\* It proves the decision of b.
DecisionProof(b, rec, txs) ==
  /\ rec[BundleId(b)].decisionHash = DecisionHash(b.decision)
  /\ InTime(rec[BundleId(b)])
  /\ \E m \in txs :
       /\ m.tx = b.decisionTx /\ m.success
       /\ m.tx.kind = "decision" /\ m.tx.id = BundleId(b)
       /\ m.tx.hash = DecisionHash(b.decision)
       /\ m.block = rec[BundleId(b)].decisionAnchoredAt

\* A successful transaction's effect is on record.
Effect(m, r) ==
  /\ m.tx.kind = "request" =>
       /\ r.requestHash = m.tx.hash /\ r.policyHash = m.tx.policyHash
       /\ r.requestAnchoredAt = m.block /\ r.decisionDeadline = m.block + Window
  /\ m.tx.kind = "decision" =>
       /\ r.requestHash # None
       /\ r.decisionHash = m.tx.hash
       /\ r.decisionAnchoredAt = m.block /\ m.block <= r.decisionDeadline

History == \A m \in mined : m.success => Effect(m, record[m.tx.id])

StoredProven ==
  \A i \in Ids : bundleRow[i] # None =>
    /\ BundleId(bundleRow[i]) = i
    /\ RequestProof(bundleRow[i], record, mined)
    /\ bundleRow[i].decision # None => DecisionProof(bundleRow[i], record, mined)

Anchoring == {"recover", "sendRequest", "waitRequest"}

CallProven(c) ==
  /\ pc[c] \in Anchoring => ValidRequest(req[c])
  /\ pc[c] = "recover" => AnchorsThisRequest(req[c])
  /\ pc[c] \in WithBundle => RequestProof(snap[c], record, mined)
  /\ pc[c] = "saveReceipt" => snap[c].decision = None
  /\ pc[c] \in WithBundle \ {"saveReceipt"} => BundleId(snap[c]) = dec[c].id
  /\ pc[c] = "saveDecision" =>
       snap[c].decision # None /\ DecisionProof(snap[c], record, mined)

CallsProven == \A c \in Calls : CallProven(c)

IInv == Typed /\ History /\ StoredProven /\ CallsProven

-----------------------------------------------------------------------------
(* The chain                                                                *)

\* What a later chain keeps of an earlier one.
Extends(rec, txs, rec2, txs2) ==
  /\ txs \subseteq txs2
  /\ \A i \in Ids :
       /\ rec[i].requestHash # None => /\ rec2[i].requestHash = rec[i].requestHash
                                       /\ rec2[i].policyHash = rec[i].policyHash
       /\ rec[i].requestHash # None /\ rec[i].decisionHash # None => rec2[i] = rec[i]

\* A request that was proven stays proven.
LEMMA RequestStaysProven ==
  ASSUME NEW b \in Bundles, NEW rec, NEW txs, NEW rec2, NEW txs2,
         Extends(rec, txs, rec2, txs2), RequestProof(b, rec, txs)
  PROVE  RequestProof(b, rec2, txs2)
<1>1. BundleId(b) \in Ids /\ b.request \in Requests
  BY DEF BundleId, Bundles, Requests
<1>2. rec[BundleId(b)].requestHash # None
  BY <1>1, HashTypes, NoneAssumption DEF RequestProof, Requests, RequestHash, RequestHashes
<1>3. rec2[BundleId(b)].requestHash = RequestHash(b.request)
  BY <1>1, <1>2 DEF Extends, RequestProof
<1>4. QED
  BY <1>3 DEF Extends, RequestProof

\* A decision that was proven on a proven request stays proven.
LEMMA DecisionStaysProven ==
  ASSUME NEW b \in Bundles, NEW rec, NEW txs, NEW rec2, NEW txs2,
         Extends(rec, txs, rec2, txs2), RequestProof(b, rec, txs), DecisionProof(b, rec, txs),
         b.decision # None
  PROVE  DecisionProof(b, rec2, txs2)
<1>1. BundleId(b) \in Ids /\ b.request \in Requests /\ b.decision \in Decisions
  BY DEF BundleId, Bundles, Requests
<1>2. rec[BundleId(b)].requestHash # None
  BY <1>1, NoneAssumption DEF RequestProof, Requests, RequestHash, RequestHashes
<1>3. rec[BundleId(b)].decisionHash # None
  BY <1>1, NoneAssumption DEF DecisionProof, Decisions, DecisionHash, DecisionHashes
<1>4. rec2[BundleId(b)] = rec[BundleId(b)]
  BY <1>1, <1>2, <1>3 DEF Extends
<1>5. QED
  BY <1>4 DEF Extends, DecisionProof

\* Mining extends the chain: a record's request and decision are set at most once.
LEMMA MineExtends ==
  ASSUME ChainTypeOK, NEW tx \in mempool, Mine(tx)
  PROVE  Extends(record, mined, record', mined')
<1>1. tx.id \in Ids /\ record \in [Ids -> AnchorRecords]
  BY DEF ChainTypeOK, Txs, RequestTxs, DecisionTxs
<1>2. mined \subseteq mined'
  BY DEF Mine
<1>3. ASSUME NEW i \in Ids
      PROVE  /\ record[i].requestHash # None => /\ record'[i].requestHash = record[i].requestHash
                                                 /\ record'[i].policyHash = record[i].policyHash
             /\ record[i].requestHash # None /\ record[i].decisionHash # None =>
                  record'[i] = record[i]
  <2>1. CASE AnchorRequest(tx, time')
    BY <1>1, <2>1 DEF AnchorRequest, RequestAccepted
  <2>2. CASE AnchorDecision(tx, time')
    <3>1. CASE DecisionAccepted(tx, time')
      <4>1. record' = [record EXCEPT ![tx.id].decisionHash = tx.hash,
                                     ![tx.id].decisionAnchoredAt = time']
        BY <2>2, <3>1 DEF AnchorDecision
      <4>2. record[i] \in AnchorRecords
        BY <1>1
      <4>3. QED
        BY <1>1, <3>1, <4>1, <4>2 DEF DecisionAccepted, AnchorRecords
    <3>2. CASE ~DecisionAccepted(tx, time')
      BY <2>2, <3>2 DEF AnchorDecision
    <3>3. QED
      BY <3>1, <3>2
  <2>3. QED
    BY <2>1, <2>2 DEF Mine
<1>4. QED
  BY <1>2, <1>3 DEF Extends

\* A successful transaction of the new chain is the new one or an old one.
LEMMA NewOrOld ==
  ASSUME NEW tx, mined' = mined \union {[tx |-> tx, block |-> time', success |-> TRUE]},
         Effect([tx |-> tx, block |-> time', success |-> TRUE], record'[tx.id]),
         \A m \in mined : m.success => Effect(m, record'[m.tx.id])
  PROVE  History'
<1> SUFFICES ASSUME NEW m \in mined', m.success PROVE Effect(m, record'[m.tx.id])
  BY DEF History
<1>1. CASE m \in mined
  BY <1>1
<1>2. CASE m = [tx |-> tx, block |-> time', success |-> TRUE]
  <2>1. m.tx = tx
    BY <1>2
  <2>2. QED
    BY <1>2, <2>1
<1>3. QED
  BY <1>1, <1>2

\* The effect of every successful transaction, the new one's included, is on record.
LEMMA MineHistory ==
  ASSUME ChainTypeOK, History, NEW tx \in mempool, Mine(tx)
  PROVE  History'
<1>1. tx.id \in Ids /\ tx \in Txs /\ record \in [Ids -> AnchorRecords] /\ time' \in Nat
  BY DEF ChainTypeOK, Mine, Txs, RequestTxs, DecisionTxs
<1>2. \A m \in mined : m.tx \in Txs /\ m.tx.id \in Ids /\ m.block \in Nat
  BY DEF ChainTypeOK, Txs, RequestTxs, DecisionTxs
<1>3. record[tx.id] \in AnchorRecords
  BY <1>1
<1>4. CASE tx.kind = "request" /\ AnchorRequest(tx, time') /\ RequestAccepted(tx)
  <2>1. mined' = mined \union {[tx |-> tx, block |-> time', success |-> TRUE]}
    BY <1>4 DEF Mine
  <2>2. record' = [record EXCEPT ![tx.id] =
                     [requestHash |-> tx.hash, policyHash |-> tx.policyHash,
                      requestAnchoredAt |-> time', decisionDeadline |-> time' + Window,
                      decisionHash |-> None, decisionAnchoredAt |-> None]]
    BY <1>4 DEF AnchorRequest
  <2>3. Effect([tx |-> tx, block |-> time', success |-> TRUE], record'[tx.id])
    BY <1>1, <1>4, <2>2 DEF Effect
  \* No earlier transaction succeeded on a record that had no request.
  <2>4. ASSUME NEW m \in mined, m.success PROVE m.tx.id # tx.id
    <3>1. m.tx.hash # None
      BY <1>2, NoneAssumption DEF Txs, RequestTxs, DecisionTxs
    <3>2. m.tx.kind = "request" \/ m.tx.kind = "decision"
      BY <1>2 DEF Txs, RequestTxs, DecisionTxs
    <3>3. record[m.tx.id].requestHash # None
      BY <2>4, <3>1, <3>2 DEF History, Effect
    <3>4. QED
      BY <1>4, <3>3 DEF RequestAccepted
  <2>5. ASSUME NEW m \in mined, m.success PROVE Effect(m, record'[m.tx.id])
    <3>1. record'[m.tx.id] = record[m.tx.id]
      BY <1>1, <1>2, <2>2, <2>4, <2>5
    <3>2. QED
      BY <2>5, <3>1 DEF History
  <2>6. QED
    BY <2>1, <2>3, <2>5, NewOrOld
<1>5. CASE tx.kind = "decision" /\ AnchorDecision(tx, time') /\ DecisionAccepted(tx, time')
  <2>1. mined' = mined \union {[tx |-> tx, block |-> time', success |-> TRUE]}
    BY <1>5 DEF Mine
  <2>2. record' = [record EXCEPT ![tx.id].decisionHash = tx.hash,
                                 ![tx.id].decisionAnchoredAt = time']
    BY <1>5 DEF AnchorDecision
  <2>3. /\ record'[tx.id].requestHash = record[tx.id].requestHash
        /\ record'[tx.id].policyHash = record[tx.id].policyHash
        /\ record'[tx.id].requestAnchoredAt = record[tx.id].requestAnchoredAt
        /\ record'[tx.id].decisionDeadline = record[tx.id].decisionDeadline
        /\ record'[tx.id].decisionHash = tx.hash
        /\ record'[tx.id].decisionAnchoredAt = time'
    BY <1>1, <1>3, <2>2 DEF AnchorRecords
  <2>4. Effect([tx |-> tx, block |-> time', success |-> TRUE], record'[tx.id])
    BY <1>5, <2>3 DEF Effect, DecisionAccepted
  \* No earlier decision succeeded on a record that had none.
  <2>5. ASSUME NEW m \in mined, m.success PROVE Effect(m, record'[m.tx.id])
    <3>1. Effect(m, record[m.tx.id])
      BY <2>5 DEF History
    <3>2. CASE m.tx.id # tx.id
      BY <1>1, <1>2, <2>2, <3>1, <3>2
    <3>3. CASE m.tx.id = tx.id
      <4>1. m.tx.kind # "decision"
        <5>1. m.tx.hash # None
          BY <1>2, NoneAssumption DEF Txs, RequestTxs, DecisionTxs
        <5>2. QED
          BY <1>5, <3>1, <3>3, <5>1 DEF Effect, DecisionAccepted
      <4>2. QED
        BY <2>3, <3>1, <3>3, <4>1 DEF Effect
    <3>4. QED
      BY <3>2, <3>3
  <2>6. QED
    BY <2>1, <2>4, <2>5, NewOrOld
<1>6. ASSUME record' = record,
             mined' = mined \union {[tx |-> tx, block |-> time', success |-> FALSE]}
      PROVE  History'
  BY <1>6 DEF History
<1>7. CASE tx.kind = "request" /\ AnchorRequest(tx, time') /\ ~RequestAccepted(tx)
  <2>1. mined' = mined \union {[tx |-> tx, block |-> time', success |-> FALSE]}
    <3>1. RequestAccepted(tx) = FALSE
      BY <1>7 DEF RequestAccepted
    <3>2. mined' = mined \union {[tx |-> tx, block |-> time', success |-> RequestAccepted(tx)]}
      BY <1>7 DEF Mine
    <3>3. QED
      BY <3>1, <3>2
  <2>2. record' = record
    BY <1>7 DEF AnchorRequest
  <2>3. QED
    BY <1>6, <2>1, <2>2
<1>8. CASE tx.kind = "decision" /\ AnchorDecision(tx, time') /\ ~DecisionAccepted(tx, time')
  <2>1. mined' = mined \union {[tx |-> tx, block |-> time', success |-> FALSE]}
    <3>1. DecisionAccepted(tx, time') = FALSE
      BY <1>8 DEF DecisionAccepted
    <3>2. mined' = mined \union {[tx |-> tx, block |-> time', success |-> DecisionAccepted(tx, time')]}
      BY <1>8 DEF Mine
    <3>3. QED
      BY <3>1, <3>2
  <2>2. record' = record
    BY <1>8 DEF AnchorDecision
  <2>3. QED
    BY <1>6, <2>1, <2>2
<1>9. QED
  BY <1>4, <1>5, <1>7, <1>8 DEF Mine

\* A block leaves what was proven proven.
LEMMA ChainSafe ==
  ASSUME IInv, Chain
  PROVE  IInv'
<1>1. Typed'
  BY ChainTyped DEF IInv
<1>2. Extends(record, mined, record', mined') /\ History'
  <2>1. CASE MineEmpty
    BY <2>1 DEF MineEmpty, Extends, IInv, History
  <2>2. ASSUME NEW tx \in mempool, Mine(tx)
        PROVE  Extends(record, mined, record', mined') /\ History'
    BY <2>2, MineExtends, MineHistory DEF IInv, Typed, TypeOK
  <2>3. QED
    BY <2>1, <2>2 DEF Chain
<1>3. UNCHANGED <<policyRow, bundleRow, pc, req, dec, snap>>
  BY DEF Chain, storeVars, callVars
<1>4. StoredProven'
  <2> SUFFICES ASSUME NEW i \in Ids, bundleRow[i] # None
               PROVE  /\ BundleId(bundleRow[i]) = i
                      /\ RequestProof(bundleRow[i], record', mined')
                      /\ bundleRow[i].decision # None =>
                           DecisionProof(bundleRow[i], record', mined')
    BY <1>3 DEF StoredProven
  <2>1. bundleRow[i] \in Bundles
    BY DEF IInv, Typed, TypeOK, StoreTypeOK
  <2>2. QED
    BY <1>2, <2>1, RequestStaysProven, DecisionStaysProven DEF IInv, StoredProven
<1>5. CallsProven'
  <2> SUFFICES ASSUME NEW c \in Calls
               PROVE  /\ pc[c] = "recover" => AnchorsThisRequest(req[c])'
                      /\ pc[c] \in WithBundle => RequestProof(snap[c], record', mined')
                      /\ pc[c] = "saveDecision" =>
                           snap[c].decision # None /\ DecisionProof(snap[c], record', mined')
    BY <1>3 DEF CallsProven, CallProven, IInv, ValidRequest
  <2>1. CallProven(c)
    BY DEF IInv, CallsProven
  <2>2. pc[c] \in WithBundle => snap[c] \in Bundles
    BY DEF IInv, Typed, LocalsSet
  <2>3. pc[c] \in WithBundle => RequestProof(snap[c], record', mined')
    BY <1>2, <2>1, <2>2, RequestStaysProven DEF CallProven
  <2>4. pc[c] = "saveDecision" =>
          snap[c].decision # None /\ DecisionProof(snap[c], record', mined')
    <3> SUFFICES ASSUME pc[c] = "saveDecision"
                 PROVE  snap[c].decision # None /\ DecisionProof(snap[c], record', mined')
      OBVIOUS
    <3>1. pc[c] \in WithBundle
      BY DEF WithBundle, AtDecision
    <3>2. QED
      BY <1>2, <2>1, <2>2, <3>1, DecisionStaysProven DEF CallProven
  <2>5. ASSUME pc[c] = "recover" PROVE AnchorsThisRequest(req[c])'
    <3>1. req[c] \in Requests /\ req[c].id \in Ids
      BY <2>5 DEF IInv, Typed, LocalsSet, AtRequest, Requests
    <3>2. AnchorsThisRequest(req[c])
      BY <2>1, <2>5 DEF CallProven
    <3>3. record[req[c].id].requestHash # None
      BY <3>1, <3>2, HashTypes, NoneAssumption DEF AnchorsThisRequest, Requests, RequestHash, RequestHashes
    <3>4. req'[c] = req[c]
      BY <1>3
    <3>5. QED
      BY <1>2, <3>1, <3>2, <3>3, <3>4 DEF AnchorsThisRequest, Extends
  <2>6. QED
    BY <2>3, <2>4, <2>5
<1>6. QED
  BY <1>1, <1>2, <1>4, <1>5 DEF IInv

-----------------------------------------------------------------------------
(* The calls                                                                *)

OnlyCall(c) ==
  /\ UNCHANGED <<policyRow, record, mined>>
  /\ \A o \in Calls \ {c} :
       pc'[o] = pc[o] /\ req'[o] = req[o] /\ dec'[o] = dec[o] /\ snap'[o] = snap[o]

\* A step of one call leaves what the others proved alone.
LEMMA OthersSafe ==
  ASSUME CallsProven, NEW c \in Calls, OnlyCall(c), CallProven(c)'
  PROVE  CallsProven'
<1> SUFFICES ASSUME NEW o \in Calls, o # c PROVE CallProven(o)'
  BY DEF CallsProven
<1>1. CallProven(o)
  BY DEF CallsProven
<1>2. /\ policyRow' = policyRow /\ record' = record /\ mined' = mined
      /\ pc'[o] = pc[o] /\ req'[o] = req[o] /\ dec'[o] = dec[o] /\ snap'[o] = snap[o]
  BY DEF OnlyCall
<1>3. QED
  BY <1>1, <1>2 DEF CallProven, ValidRequest, AnchorsThisRequest

\* An ended call has nothing left to prove.
LEMMA EndSafe ==
  ASSUME CallTypeOK, CallsProven, NEW c \in Calls, UNCHANGED <<policyRow, record, mined>>,
         Throw(c) \/ \E b \in Bundles : Return(c, b)
  PROVE  CallsProven'
<1>1. OnlyCall(c)
  BY DEF CallTypeOK, Throw, Return, Goto, OnlyCall
<1>2. pc'[c] \in Finished
  BY DEF CallTypeOK, Throw, Return, Goto, Finished
<1>3. CallProven(c)'
  BY <1>2 DEF CallProven, Finished, Anchoring, WithBundle, AtDecision
<1>4. QED
  BY <1>1, <1>3, OthersSafe

\* A call that goes on to another await with its locals must have proven what that
\* await relies on.
LEMMA GoOnSafe ==
  ASSUME CallTypeOK, CallsProven, NEW c \in Calls, UNCHANGED <<policyRow, record, mined>>,
         NEW to \in Awaits \ {"saveReceipt", "saveDecision"},
         Goto(c, to), UNCHANGED <<req, dec, snap>>,
         to \in Anchoring => ValidRequest(req[c]),
         to = "recover" => AnchorsThisRequest(req[c]),
         to \in WithBundle => /\ RequestProof(snap[c], record, mined)
                              /\ BundleId(snap[c]) = dec[c].id
  PROVE  CallsProven'
<1>1. OnlyCall(c)
  BY DEF CallTypeOK, Goto, OnlyCall
<1>2. pc'[c] = to
  BY DEF CallTypeOK, Goto
<1>3. CallProven(c)'
  BY <1>2 DEF CallProven, ValidRequest, AnchorsThisRequest
<1>4. QED
  BY <1>1, <1>3, OthersSafe

\* So must a call that goes on with another bundle.
LEMMA KeepSafe ==
  ASSUME CallTypeOK, CallsProven, NEW c \in Calls, UNCHANGED <<policyRow, record, mined>>,
         NEW to \in WithBundle, NEW b \in Bundles,
         Goto(c, to), snap' = [snap EXCEPT ![c] = b], UNCHANGED <<req, dec>>,
         RequestProof(b, record, mined),
         to = "saveReceipt" => b.decision = None,
         to # "saveReceipt" => BundleId(b) = dec[c].id,
         to = "saveDecision" => b.decision # None /\ DecisionProof(b, record, mined)
  PROVE  CallsProven'
<1>1. OnlyCall(c)
  BY DEF CallTypeOK, Goto, OnlyCall
<1>2. pc'[c] = to /\ snap'[c] = b /\ dec'[c] = dec[c] /\ to \notin Anchoring
  BY DEF CallTypeOK, Goto, WithBundle, AtDecision, Anchoring
<1>3. CallProven(c)'
  BY <1>2 DEF CallProven, Anchoring
<1>4. QED
  BY <1>1, <1>3, OthersSafe

\* A call at an await that relies on nothing.
LEMMA FreshSafe ==
  ASSUME CallsProven, NEW c \in Calls, OnlyCall(c),
         pc'[c] \in {"getBundle", "getDecisionBundle"}
  PROVE  CallsProven'
<1>1. CallProven(c)'
  BY DEF CallProven, Anchoring, WithBundle, AtDecision
<1>2. QED
  BY <1>1, OthersSafe

\* What a call saves is proven, and so the store is.
LEMMA PersistSafe ==
  ASSUME StoreTypeOK, StoredProven, NEW b \in Bundles, PersistBundle(b),
         UNCHANGED <<record, mined>>, RequestProof(b, record, mined),
         b.decision # None => DecisionProof(b, record, mined)
  PROVE  StoredProven' /\ policyRow' = policyRow
<1>1. policyRow' = policyRow
  BY NoneAssumption DEF StoreTypeOK, PersistBundle, KeepRow
<1>2. ASSUME NEW i \in Ids, bundleRow'[i] # None
      PROVE  /\ BundleId(bundleRow'[i]) = i
             /\ RequestProof(bundleRow'[i], record, mined)
             /\ bundleRow'[i].decision # None => DecisionProof(bundleRow'[i], record, mined)
  <2>1. bundleRow' = [bundleRow EXCEPT ![BundleId(b)] = b] /\ BundleId(b) \in Ids
    BY DEF PersistBundle, BundleId, Bundles, Requests
  <2>2. CASE i = BundleId(b)
    BY <2>1, <2>2 DEF StoreTypeOK
  <2>3. CASE i # BundleId(b)
    BY <1>2, <2>1, <2>3 DEF StoreTypeOK, StoredProven
  <2>4. QED
    BY <2>2, <2>3
<1>3. StoredProven'
  BY <1>2 DEF StoredProven
<1>4. QED
  BY <1>1, <1>3

\* A step that changes neither the stored bundles nor the chain leaves them proven.
LEMMA StoreKept ==
  ASSUME StoredProven, History, UNCHANGED <<bundleRow, record, mined>>
  PROVE  StoredProven' /\ History'
  BY DEF StoredProven, History

-----------------------------------------------------------------------------
(* What the chain's answers prove                                           *)

\* The bundle of a request that the contract holds, with a successful transaction.
LEMMA PendingProven ==
  ASSUME Typed, History, NEW r \in Requests, ValidRequest(r), AnchorsThisRequest(r),
         NEW m \in mined, m.success, m.tx.kind = "request", m.tx.id = r.id
  PROVE  /\ PendingBundle(r, m.tx) \in Bundles
         /\ PendingBundle(r, m.tx).decision = None
         /\ RequestProof(PendingBundle(r, m.tx), record, mined)
<1> DEFINE b == PendingBundle(r, m.tx)
<1>1. m.tx \in RequestTxs
  BY DEF Typed, TypeOK, ChainTypeOK, Txs, RequestTxs, DecisionTxs
<1>2. b \in Bundles
  BY <1>1, PendingBundleType DEF Typed
<1>3. /\ b.policy = policyRow /\ b.request = r /\ b.decision = None /\ b.requestTx = m.tx
      /\ b.receipt.observedAt = record[r.id].requestAnchoredAt
      /\ b.receipt.deadline = record[r.id].decisionDeadline
  BY DEF PendingBundle, Bundle, CreateReceipt
<1>4. /\ record[r.id].requestHash = m.tx.hash /\ record[r.id].policyHash = m.tx.policyHash
      /\ record[r.id].requestAnchoredAt = m.block
      /\ record[r.id].decisionDeadline = m.block + Window
  BY DEF History, Effect
<1>5. m.tx.hash = RequestHash(r) /\ m.tx.policyHash = PolicyHash(policyRow)
  BY <1>4 DEF AnchorsThisRequest, ValidRequest
<1> HIDE DEF b
<1>6. RequestProof(b, record, mined)
  BY <1>3, <1>4, <1>5 DEF RequestProof, BundleId
<1>7. QED
  BY <1>2, <1>3, <1>6 DEF b

\* A proven bundle completed with a decision that a successful transaction carries.
LEMMA CompletedProven ==
  ASSUME Typed, History, NEW b \in Bundles, RequestProof(b, record, mined),
         NEW d \in Decisions, BundleId(b) = d.id,
         NEW m \in mined, m.success, m.tx.kind = "decision", m.tx.id = d.id,
         m.tx.hash = DecisionHash(d)
  PROVE  /\ Completed(b, d, m.tx) \in Bundles
         /\ BundleId(Completed(b, d, m.tx)) = d.id
         /\ Completed(b, d, m.tx).decision # None
         /\ RequestProof(Completed(b, d, m.tx), record, mined)
         /\ DecisionProof(Completed(b, d, m.tx), record, mined)
<1> DEFINE e == Completed(b, d, m.tx)
<1>1. m.tx \in DecisionTxs /\ m.block \in Nat
  BY DEF Typed, TypeOK, ChainTypeOK, Txs, RequestTxs, DecisionTxs
<1>2. e \in Bundles /\ e.decision = d /\ e.decisionTx = m.tx /\ e.request = b.request
  BY <1>1, CompletedType
<1>3. e.requestTx = b.requestTx /\ e.policy = b.policy /\ e.receipt = b.receipt
  BY DEF Completed, Bundles
<1>4. d # None
  BY NoneAssumption
<1>5. /\ record[d.id].decisionHash = DecisionHash(d)
      /\ record[d.id].decisionAnchoredAt = m.block
      /\ m.block <= record[d.id].decisionDeadline
  BY DEF History, Effect
<1>6. InTime(record[d.id])
  BY <1>1, <1>5, NoneAssumption DEF InTime
<1> HIDE DEF e
<1>7. BundleId(e) = d.id
  BY <1>2 DEF BundleId
<1>8. RequestProof(e, record, mined)
  BY <1>2, <1>3, <1>7 DEF RequestProof, BundleId
<1>9. DecisionProof(e, record, mined)
  BY <1>2, <1>5, <1>6, <1>7 DEF DecisionProof
<1>10. QED
  BY <1>2, <1>4, <1>7, <1>8, <1>9 DEF e

-----------------------------------------------------------------------------
(* submitRequest                                                            *)

\* A new call relies on nothing.
LEMMA BeginRequestSafe ==
  ASSUME IInv, NEW c \in Calls, BeginRequest(c)
  PROVE  IInv'
<1>1. Typed'
  BY BeginRequestTyped DEF IInv
<1>2. StoredProven' /\ History'
  BY StoreKept DEF IInv, BeginRequest, storeVars, chainVars
<1>3. OnlyCall(c) /\ pc'[c] = "getBundle"
  BY DEF BeginRequest, Goto, OnlyCall, IInv, Typed, TypeOK, CallTypeOK, storeVars, chainVars
<1>4. CallsProven'
  BY <1>3, FreshSafe DEF IInv
<1>5. QED
  BY <1>1, <1>2, <1>4 DEF IInv

\* An answered or refused call has ended; another goes on to check its request.
LEMMA GetBundleSafe ==
  ASSUME IInv, NEW c \in Calls, GetBundle(c)
  PROVE  IInv'
<1>1. Typed'
  BY GetBundleTyped DEF IInv
<1>2. UNCHANGED <<policyRow, bundleRow, record, mined>> /\ CallTypeOK
  BY DEF GetBundle, storeVars, chainVars, IInv, Typed, TypeOK
<1>3. StoredProven' /\ History'
  BY <1>2, StoreKept DEF IInv
<1>4. CallsProven'
  <2>1. CASE Goto(c, "readRecord") /\ UNCHANGED <<req, opt, dec, snap>>
    BY <1>2, <2>1, GoOnSafe DEF IInv, Awaits, Anchoring, WithBundle, AtDecision
  <2>2. CASE bundleRow[req[c].id] # None /\ Return(c, bundleRow[req[c].id])
    <3>1. req[c].id \in Ids
      BY DEF GetBundle, At, IInv, Typed, LocalsSet, AtRequest, Requests
    <3>2. bundleRow[req[c].id] \in Bundles
      BY <2>2, <3>1 DEF IInv, Typed, TypeOK, StoreTypeOK
    <3>3. QED
      BY <1>2, <2>2, <3>2, EndSafe DEF IInv
  <2>3. CASE Throw(c)
    BY <1>2, <2>3, EndSafe DEF IInv
  <2>4. QED
    BY <2>1, <2>2, <2>3 DEF GetBundle
<1>5. QED
  BY <1>1, <1>3, <1>4 DEF IInv

\* Only a valid request is anchored or recovered.
LEMMA ReadRecordSafe ==
  ASSUME IInv, NEW c \in Calls, ReadRecord(c)
  PROVE  IInv'
<1>1. Typed'
  BY ReadRecordTyped DEF IInv
<1>2. UNCHANGED <<policyRow, bundleRow, record, mined>> /\ CallTypeOK
  BY DEF ReadRecord, storeVars, chainVars, IInv, Typed, TypeOK
<1>3. StoredProven' /\ History'
  BY <1>2, StoreKept DEF IInv
<1>4. CallsProven'
  <2>1. CASE /\ ValidRequest(req[c])
             /\ Goto(c, "sendRequest") /\ UNCHANGED <<req, opt, dec, snap>>
    BY <1>2, <2>1, GoOnSafe DEF IInv, Awaits, Anchoring, WithBundle, AtDecision
  <2>2. CASE /\ ValidRequest(req[c]) /\ AnchorsThisRequest(req[c])
             /\ Goto(c, "recover") /\ UNCHANGED <<req, opt, dec, snap>>
    BY <1>2, <2>2, GoOnSafe DEF IInv, Awaits, Anchoring, WithBundle, AtDecision
  <2>3. CASE Throw(c)
    BY <1>2, <2>3, EndSafe DEF IInv
  <2>4. QED
    BY <2>1, <2>2, <2>3 DEF ReadRecord
<1>5. QED
  BY <1>1, <1>3, <1>4 DEF IInv

\* The transaction that is found by its event anchored this request.
LEMMA RecoverRequestSafe ==
  ASSUME IInv, NEW c \in Calls, RecoverRequest(c)
  PROVE  IInv'
<1>1. Typed'
  BY RecoverRequestTyped DEF IInv
<1>2. UNCHANGED <<policyRow, bundleRow, record, mined>> /\ CallTypeOK
  BY DEF RecoverRequest, storeVars, chainVars, IInv, Typed, TypeOK
<1>3. StoredProven' /\ History'
  BY <1>2, StoreKept DEF IInv
<1>4. /\ req[c] \in Requests
      /\ ValidRequest(req[c]) /\ AnchorsThisRequest(req[c])
  BY DEF RecoverRequest, At, IInv, Typed, LocalsSet, AtRequest, CallsProven, CallProven, Anchoring
<1>5. CallsProven'
  <2>1. ASSUME NEW tx \in RequestAnchorTxs(req[c].id),
               Goto(c, "saveReceipt"), snap' = [snap EXCEPT ![c] = PendingBundle(req[c], tx)],
               UNCHANGED <<req, opt, dec>>
        PROVE  CallsProven'
    <3>1. PICK m \in mined : m.tx = tx /\ m.success /\ m.tx.kind = "request"
                             /\ m.tx.id = req[c].id
      BY DEF RequestAnchorTxs
    <3>2. /\ PendingBundle(req[c], tx) \in Bundles
          /\ PendingBundle(req[c], tx).decision = None
          /\ RequestProof(PendingBundle(req[c], tx), record, mined)
      BY <1>4, <3>1, PendingProven DEF IInv
    <3>3. QED
      BY <1>2, <2>1, <3>2, KeepSafe DEF IInv, WithBundle
  <2>2. CASE Throw(c)
    BY <1>2, <2>2, EndSafe DEF IInv
  <2>3. QED
    BY <2>1, <2>2 DEF RecoverRequest
<1>6. QED
  BY <1>1, <1>3, <1>5 DEF IInv

\* Broadcasting changes no record.
LEMMA SendRequestSafe ==
  ASSUME IInv, NEW c \in Calls, SendRequest(c)
  PROVE  IInv'
<1>1. Typed'
  BY SendRequestTyped DEF IInv
<1>2. UNCHANGED <<policyRow, bundleRow, record, mined>> /\ CallTypeOK
  BY DEF SendRequest, Broadcast, storeVars, IInv, Typed, TypeOK
<1>3. StoredProven' /\ History'
  BY <1>2, StoreKept DEF IInv
<1>4. ValidRequest(req[c])
  BY DEF SendRequest, At, IInv, CallsProven, CallProven, Anchoring
<1>5. CallsProven'
  BY <1>2, <1>4, GoOnSafe DEF SendRequest, IInv, Awaits, Anchoring, WithBundle, AtDecision
<1>6. QED
  BY <1>1, <1>3, <1>5 DEF IInv

\* A successful receipt and the record read back prove the request.
LEMMA AwaitRequestSafe ==
  ASSUME IInv, NEW c \in Calls, AwaitRequest(c)
  PROVE  IInv'
<1> DEFINE tx == RequestTx(c, req[c])
<1>1. Typed'
  BY AwaitRequestTyped DEF IInv
<1>2. UNCHANGED <<policyRow, bundleRow, record, mined>> /\ CallTypeOK
  BY DEF AwaitRequest, storeVars, chainVars, IInv, Typed, TypeOK
<1>3. StoredProven' /\ History'
  BY <1>2, StoreKept DEF IInv
<1>4. req[c] \in Requests /\ ValidRequest(req[c])
  BY DEF AwaitRequest, At, IInv, Typed, LocalsSet, AtRequest, CallsProven, CallProven, Anchoring
<1>5. CallsProven'
  <2>1. CASE /\ Succeeded(tx) /\ AnchorsThisRequest(req[c])
             /\ Goto(c, "saveReceipt")
             /\ snap' = [snap EXCEPT ![c] = PendingBundle(req[c], tx)]
             /\ UNCHANGED <<req, opt, dec>>
    <3>1. PICK m \in mined : m.tx = tx /\ m.success
      BY <2>1 DEF Succeeded
    <3>2. tx.kind = "request" /\ tx.id = req[c].id
      BY DEF RequestTx
    <3>3. /\ PendingBundle(req[c], tx) \in Bundles
          /\ PendingBundle(req[c], tx).decision = None
          /\ RequestProof(PendingBundle(req[c], tx), record, mined)
      BY <1>4, <2>1, <3>1, <3>2, PendingProven DEF IInv
    <3>4. QED
      BY <1>2, <2>1, <3>3, KeepSafe DEF IInv, WithBundle
  <2>2. CASE Throw(c)
    BY <1>2, <2>2, EndSafe DEF IInv
  <2>3. QED
    BY <2>1, <2>2 DEF AwaitRequest
<1>6. QED
  BY <1>1, <1>3, <1>5 DEF IInv

\* The pending bundle that is saved is proven.
LEMMA SaveReceiptSafe ==
  ASSUME IInv, NEW c \in Calls, SaveReceipt(c)
  PROVE  IInv'
<1>1. Typed'
  BY SaveReceiptTyped DEF IInv
<1>2. UNCHANGED <<record, mined>> /\ CallTypeOK /\ StoreTypeOK
  BY DEF SaveReceipt, chainVars, IInv, Typed, TypeOK
<1>3. /\ snap[c] \in Bundles /\ snap[c].decision = None
      /\ RequestProof(snap[c], record, mined)
  BY DEF SaveReceipt, At, IInv, Typed, LocalsSet, WithBundle, CallsProven, CallProven
<1>4. StoredProven' /\ policyRow' = policyRow
  <2>1. CASE PersistBundle(snap[c])
    BY <1>2, <1>3, <2>1, PersistSafe DEF IInv
  <2>2. CASE PersistRaises(snap[c])
    BY <1>2, <2>2 DEF PersistRaises, storeVars, IInv, StoredProven
  <2>3. QED
    BY <2>1, <2>2 DEF SaveReceipt
<1>5. History'
  BY <1>2 DEF IInv, History
<1>6. CallsProven'
  <2>1. CASE Return(c, snap[c])
    BY <1>2, <1>3, <1>4, <2>1, EndSafe DEF IInv
  <2>2. CASE /\ Goto(c, "getDecisionBundle")
             /\ dec' = [dec EXCEPT ![c] = DecideRequest(req[c], snap[c].policy, opt[c])]
             /\ snap' = [snap EXCEPT ![c] = None]
             /\ UNCHANGED <<req, opt>>
    <3>1. OnlyCall(c) /\ pc'[c] = "getDecisionBundle"
      BY <1>2, <1>4, <2>2 DEF OnlyCall, Goto, CallTypeOK
    <3>2. QED
      BY <3>1, FreshSafe DEF IInv
  <2>3. CASE Throw(c)
    BY <1>2, <1>4, <2>3, EndSafe DEF IInv
  <2>4. QED
    BY <2>1, <2>2, <2>3 DEF SaveReceipt
<1>7. QED
  BY <1>1, <1>4, <1>5, <1>6 DEF IInv

-----------------------------------------------------------------------------
(* submitDecision                                                           *)

\* A decision from outside relies on nothing.
LEMMA BeginDecisionSafe ==
  ASSUME IInv, NEW c \in Calls, BeginDecision(c)
  PROVE  IInv'
<1>1. Typed'
  BY BeginDecisionTyped DEF IInv
<1>2. StoredProven' /\ History'
  BY StoreKept DEF IInv, BeginDecision, storeVars, chainVars
<1>3. OnlyCall(c) /\ pc'[c] = "getDecisionBundle"
  BY DEF BeginDecision, Goto, OnlyCall, IInv, Typed, TypeOK, CallTypeOK, storeVars, chainVars
<1>4. CallsProven'
  BY <1>3, FreshSafe DEF IInv
<1>5. QED
  BY <1>1, <1>2, <1>4 DEF IInv

\* The bundle that is read is proven, like every stored one.
LEMMA GetDecisionBundleSafe ==
  ASSUME IInv, NEW c \in Calls, GetDecisionBundle(c)
  PROVE  IInv'
<1> DEFINE b == bundleRow[dec[c].id]
<1>1. Typed'
  BY GetDecisionBundleTyped DEF IInv
<1>2. UNCHANGED <<policyRow, bundleRow, record, mined>> /\ CallTypeOK
  BY DEF GetDecisionBundle, storeVars, chainVars, IInv, Typed, TypeOK
<1>3. StoredProven' /\ History'
  BY <1>2, StoreKept DEF IInv
<1>4. dec[c].id \in Ids
  BY DEF GetDecisionBundle, At, IInv, Typed, LocalsSet, AtDecision, Decisions
<1>5. b # None => b \in Bundles /\ BundleId(b) = dec[c].id /\ RequestProof(b, record, mined)
  BY <1>4 DEF IInv, Typed, TypeOK, StoreTypeOK, StoredProven
<1>6. CallsProven'
  <2>1. CASE /\ b # None
             /\ Goto(c, "readDecisionRecord")
             /\ snap' = [snap EXCEPT ![c] = b]
             /\ UNCHANGED <<req, opt, dec>>
    BY <1>2, <1>5, <2>1, KeepSafe DEF IInv, WithBundle, AtDecision
  <2>2. CASE b # None /\ Return(c, b)
    BY <1>2, <1>5, <2>2, EndSafe DEF IInv
  <2>3. CASE Throw(c)
    BY <1>2, <2>3, EndSafe DEF IInv
  <2>4. QED
    BY <2>1, <2>2, <2>3 DEF GetDecisionBundle
<1>7. QED
  BY <1>1, <1>3, <1>6 DEF IInv

\* What a call at an await of submitDecision holds.
LEMMA HeldBundle ==
  ASSUME IInv, NEW c \in Calls, pc[c] \in AtDecision \ {"getDecisionBundle"}
  PROVE  /\ dec[c] \in Decisions /\ snap[c] \in Bundles
         /\ BundleId(snap[c]) = dec[c].id
         /\ RequestProof(snap[c], record, mined)
<1>1. pc[c] \in WithBundle \ {"saveReceipt"}
  BY DEF WithBundle, AtDecision
<1>2. QED
  BY <1>1 DEF IInv, Typed, LocalsSet, CallsProven, CallProven

\* Reading the record changes nothing.
LEMMA ReadDecisionRecordSafe ==
  ASSUME IInv, NEW c \in Calls, ReadDecisionRecord(c)
  PROVE  IInv'
<1>1. Typed'
  BY ReadDecisionRecordTyped DEF IInv
<1>2. UNCHANGED <<policyRow, bundleRow, record, mined>> /\ CallTypeOK
  BY DEF ReadDecisionRecord, storeVars, chainVars, IInv, Typed, TypeOK
<1>3. StoredProven' /\ History'
  BY <1>2, StoreKept DEF IInv
<1>4. BundleId(snap[c]) = dec[c].id /\ RequestProof(snap[c], record, mined)
  BY HeldBundle DEF ReadDecisionRecord, At, AtDecision
<1>5. CallsProven'
  <2>1. CASE Goto(c, "findDecision") /\ UNCHANGED <<req, opt, dec, snap>>
    BY <1>2, <1>4, <2>1, GoOnSafe DEF IInv, Awaits, Anchoring
  <2>2. CASE Goto(c, "chainTime") /\ UNCHANGED <<req, opt, dec, snap>>
    BY <1>2, <1>4, <2>2, GoOnSafe DEF IInv, Awaits, Anchoring
  <2>3. CASE Throw(c)
    BY <1>2, <2>3, EndSafe DEF IInv
  <2>4. QED
    BY <2>1, <2>2, <2>3 DEF ReadDecisionRecord
<1>6. QED
  BY <1>1, <1>3, <1>5 DEF IInv

\* Reading the chain's time changes nothing.
LEMMA CheckDeadlineSafe ==
  ASSUME IInv, NEW c \in Calls, CheckDeadline(c)
  PROVE  IInv'
<1>1. Typed'
  BY CheckDeadlineTyped DEF IInv
<1>2. UNCHANGED <<policyRow, bundleRow, record, mined>> /\ CallTypeOK
  BY DEF CheckDeadline, storeVars, chainVars, IInv, Typed, TypeOK
<1>3. StoredProven' /\ History'
  BY <1>2, StoreKept DEF IInv
<1>4. BundleId(snap[c]) = dec[c].id /\ RequestProof(snap[c], record, mined)
  BY HeldBundle DEF CheckDeadline, At, AtDecision
<1>5. CallsProven'
  <2>1. CASE Goto(c, "sendDecision") /\ UNCHANGED <<req, opt, dec, snap>>
    BY <1>2, <1>4, <2>1, GoOnSafe DEF IInv, Awaits, Anchoring
  <2>2. CASE Throw(c)
    BY <1>2, <2>2, EndSafe DEF IInv
  <2>3. QED
    BY <2>1, <2>2 DEF CheckDeadline
<1>6. QED
  BY <1>1, <1>3, <1>5 DEF IInv

\* Broadcasting changes no record.
LEMMA SendDecisionSafe ==
  ASSUME IInv, NEW c \in Calls, SendDecision(c)
  PROVE  IInv'
<1>1. Typed'
  BY SendDecisionTyped DEF IInv
<1>2. UNCHANGED <<policyRow, bundleRow, record, mined>> /\ CallTypeOK
  BY DEF SendDecision, Broadcast, storeVars, IInv, Typed, TypeOK
<1>3. StoredProven' /\ History'
  BY <1>2, StoreKept DEF IInv
<1>4. BundleId(snap[c]) = dec[c].id /\ RequestProof(snap[c], record, mined)
  BY HeldBundle DEF SendDecision, At, AtDecision
<1>5. CallsProven'
  BY <1>2, <1>4, GoOnSafe DEF SendDecision, IInv, Awaits, Anchoring
<1>6. QED
  BY <1>1, <1>3, <1>5 DEF IInv

\* A call that goes on to save its decision holds the transaction that anchored it.
LEMMA AnchoredSafe ==
  ASSUME IInv, NEW c \in Calls, pc[c] \in AtDecision \ {"getDecisionBundle"},
         UNCHANGED <<policyRow, record, mined>>,
         NEW m \in mined, m.success, m.tx.kind = "decision", m.tx.id = dec[c].id,
         m.tx.hash = DecisionHash(dec[c]),
         Goto(c, "saveDecision"), snap' = [snap EXCEPT ![c] = Completed(@, dec[c], m.tx)],
         UNCHANGED <<req, dec>>
  PROVE  CallsProven'
<1>1. /\ dec[c] \in Decisions /\ snap[c] \in Bundles
      /\ BundleId(snap[c]) = dec[c].id
      /\ RequestProof(snap[c], record, mined)
  BY HeldBundle
<1> DEFINE b == Completed(snap[c], dec[c], m.tx)
<1>2. /\ b \in Bundles /\ BundleId(b) = dec[c].id /\ b.decision # None
      /\ RequestProof(b, record, mined) /\ DecisionProof(b, record, mined)
  BY <1>1, CompletedProven DEF IInv
<1>3. snap' = [snap EXCEPT ![c] = b] /\ CallTypeOK
  BY DEF IInv, Typed, TypeOK
<1> HIDE DEF b
<1>4. QED
  BY <1>2, <1>3, KeepSafe DEF IInv, WithBundle, AtDecision

\* A successful receipt proves the decision.
LEMMA AwaitDecisionSafe ==
  ASSUME IInv, NEW c \in Calls, AwaitDecision(c)
  PROVE  IInv'
<1> DEFINE tx == DecisionTx(c, dec[c].id, DecisionHash(dec[c]))
<1>1. Typed'
  BY AwaitDecisionTyped DEF IInv
<1>2. UNCHANGED <<policyRow, bundleRow, record, mined>> /\ CallTypeOK
  BY DEF AwaitDecision, storeVars, chainVars, IInv, Typed, TypeOK
<1>3. StoredProven' /\ History'
  BY <1>2, StoreKept DEF IInv
<1>4. CallsProven'
  <2>1. CASE /\ Succeeded(tx)
             /\ Goto(c, "saveDecision")
             /\ snap' = [snap EXCEPT ![c] = Completed(@, dec[c], tx)]
             /\ UNCHANGED <<req, opt, dec>>
    <3>1. PICK m \in mined : m.tx = tx /\ m.success
      BY <2>1 DEF Succeeded
    <3>2. tx.kind = "decision" /\ tx.id = dec[c].id /\ tx.hash = DecisionHash(dec[c])
      BY DEF DecisionTx
    <3>3. pc[c] \in AtDecision \ {"getDecisionBundle"}
      BY DEF AwaitDecision, At, AtDecision
    <3> HIDE DEF tx
    <3>4. QED
      BY <1>2, <2>1, <3>1, <3>2, <3>3, AnchoredSafe
  <2>2. CASE Throw(c)
    BY <1>2, <2>2, EndSafe DEF IInv
  <2>3. QED
    BY <2>1, <2>2 DEF AwaitDecision
<1>5. QED
  BY <1>1, <1>3, <1>4 DEF IInv

\* So does the transaction that is found by its event.
LEMMA FindDecisionSafe ==
  ASSUME IInv, NEW c \in Calls, FindDecision(c)
  PROVE  IInv'
<1> DEFINE txs == DecisionAnchorTxs(dec[c].id, DecisionHash(dec[c]), snap[c].receipt.observedAt)
<1>1. Typed'
  BY FindDecisionTyped DEF IInv
<1>2. UNCHANGED <<policyRow, bundleRow, record, mined>> /\ CallTypeOK
  BY DEF FindDecision, storeVars, chainVars, IInv, Typed, TypeOK
<1>3. StoredProven' /\ History'
  BY <1>2, StoreKept DEF IInv
<1>4. CallsProven'
  <2>1. ASSUME NEW tx \in txs,
               Goto(c, "saveDecision"), snap' = [snap EXCEPT ![c] = Completed(@, dec[c], tx)],
               UNCHANGED <<req, opt, dec>>
        PROVE  CallsProven'
    <3>1. PICK m \in mined : /\ m.tx = tx /\ m.success /\ m.tx.kind = "decision"
                             /\ m.tx.id = dec[c].id /\ m.tx.hash = DecisionHash(dec[c])
      BY DEF DecisionAnchorTxs
    <3>2. pc[c] \in AtDecision \ {"getDecisionBundle"}
      BY DEF FindDecision, At, AtDecision
    <3>3. QED
      BY <1>2, <2>1, <3>1, <3>2, AnchoredSafe
  <2>2. CASE Throw(c)
    BY <1>2, <2>2, EndSafe DEF IInv
  <2>3. QED
    BY <2>1, <2>2 DEF FindDecision
<1>5. QED
  BY <1>1, <1>3, <1>4 DEF IInv

\* The completed bundle that is saved is proven.
LEMMA SaveDecisionSafe ==
  ASSUME IInv, NEW c \in Calls, SaveDecision(c)
  PROVE  IInv'
<1>1. Typed'
  BY SaveDecisionTyped DEF IInv
<1>2. UNCHANGED <<record, mined>> /\ CallTypeOK /\ StoreTypeOK
  BY DEF SaveDecision, chainVars, IInv, Typed, TypeOK
<1>3. /\ snap[c] \in Bundles
      /\ RequestProof(snap[c], record, mined) /\ DecisionProof(snap[c], record, mined)
  BY HeldBundle DEF SaveDecision, At, AtDecision, IInv, CallsProven, CallProven
<1>4. StoredProven' /\ policyRow' = policyRow
  <2>1. CASE PersistBundle(snap[c])
    BY <1>2, <1>3, <2>1, PersistSafe DEF IInv
  <2>2. CASE PersistRaises(snap[c])
    BY <1>2, <2>2 DEF PersistRaises, storeVars, IInv, StoredProven
  <2>3. QED
    BY <2>1, <2>2 DEF SaveDecision
<1>5. History'
  BY <1>2 DEF IInv, History
<1>6. CallsProven'
  BY <1>2, <1>3, <1>4, EndSafe DEF SaveDecision, IInv
<1>7. QED
  BY <1>1, <1>4, <1>5, <1>6 DEF IInv

\* A call that fails has nothing left to prove, and the store and the chain stay.
LEMMA FailSafe ==
  ASSUME IInv, NEW c \in Calls, Fail(c)
  PROVE  IInv'
<1>1. Typed'
  BY FailTyped DEF IInv
<1>2. UNCHANGED <<policyRow, bundleRow, record, mined>> /\ CallTypeOK
  BY DEF Fail, storeVars, chainVars, IInv, Typed, TypeOK
<1>3. StoredProven' /\ History'
  BY <1>2, StoreKept DEF IInv
<1>4. CallsProven'
  BY <1>2, EndSafe DEF Fail, IInv
<1>5. QED
  BY <1>1, <1>3, <1>4 DEF IInv

-----------------------------------------------------------------------------
(* The invariant and what follows from it                                   *)

\* At the start nothing is stored, mined or held.
LEMMA InitIInv == Init => IInv
<1> SUFFICES ASSUME Init PROVE IInv
  OBVIOUS
<1>1. Typed
  BY InitTyped
<1>2. History
  BY DEF Init, ChainInit, History
<1>3. StoredProven
  BY DEF Init, StoreInit, NoRows, StoredProven
<1>4. CallsProven
  BY DEF Init, CallsProven, CallProven, Anchoring, WithBundle, AtDecision
<1>5. QED
  BY <1>1, <1>2, <1>3, <1>4 DEF IInv

\* Every step of the chain and of every call keeps the invariant.
LEMMA NextIInv == IInv /\ [Next]_vars => IInv'
<1> SUFFICES ASSUME IInv, [Next]_vars PROVE IInv'
  OBVIOUS
<1>1. CASE Chain
  BY <1>1, ChainSafe
<1>2. ASSUME NEW c \in Calls, Step(c) PROVE IInv'
  BY <1>2, BeginRequestSafe, GetBundleSafe, ReadRecordSafe, RecoverRequestSafe,
     SendRequestSafe, AwaitRequestSafe, SaveReceiptSafe, BeginDecisionSafe,
     GetDecisionBundleSafe, ReadDecisionRecordSafe, CheckDeadlineSafe, SendDecisionSafe,
     AwaitDecisionSafe, FindDecisionSafe, SaveDecisionSafe, FailSafe
     DEF Step
<1>3. CASE UNCHANGED vars
  <2>1. Typed'
    BY <1>3, NextTyped DEF IInv
  <2>2. UNCHANGED <<policyRow, bundleRow, record, mined, pc, req, dec, snap>>
    BY <1>3 DEF vars, chainVars, storeVars, callVars
  <2>3. StoredProven' /\ History'
    BY <2>2, StoreKept DEF IInv
  <2>4. CallsProven'
    BY <2>2 DEF IInv, CallsProven, CallProven, ValidRequest, AnchorsThisRequest
  <2>5. QED
    BY <2>1, <2>3, <2>4 DEF IInv
<1>4. QED
  BY <1>1, <1>2, <1>3 DEF Next

\* The invariant holds in every behaviour.
THEOREM ProvenInvariant == Spec => []IInv
  BY InitIInv, NextIInv, PTL DEF Spec

\* Every stored bundle's request is the one its contract record commits to, and its
\* receipt names the transaction, the block and the deadline that committed it.
THEOREM ReceiptsMatchChain == Spec => []StoredReceiptMatchesChain
<1>1. IInv => StoredReceiptMatchesChain
  <2> SUFFICES ASSUME IInv, NEW i \in Ids, bundleRow[i] # None
               PROVE  LET b == bundleRow[i] IN
                      /\ record[i].requestHash = RequestHash(b.request)
                      /\ VerifyRequestTx(b.requestTx, i, RequestHash(b.request),
                           PolicyHash(b.policy), b.receipt.observedAt,
                           b.receipt.observedAt, b.receipt.deadline)
    BY DEF StoredReceiptMatchesChain
  <2>1. BundleId(bundleRow[i]) = i /\ RequestProof(bundleRow[i], record, mined)
    BY DEF IInv, StoredProven
  <2>2. QED
    BY <2>1 DEF RequestProof, VerifyRequestTx
<1>2. QED
  BY <1>1, ProvenInvariant, PTL

\* Every stored decision is the one the contract holds, committed in time by the
\* transaction that its bundle names.
THEOREM DecisionsAreAnchored == Spec => []StoredDecisionIsAnchored
<1>1. IInv => StoredDecisionIsAnchored
  <2> SUFFICES ASSUME IInv, NEW i \in Ids, bundleRow[i] # None, bundleRow[i].decision # None
               PROVE  LET b == bundleRow[i] IN
                      /\ record[i].decisionHash = DecisionHash(b.decision)
                      /\ InTime(record[i])
                      /\ VerifyDecisionTx(b.decisionTx, i, DecisionHash(b.decision),
                                          record[i].decisionAnchoredAt)
    BY DEF StoredDecisionIsAnchored
  <2>1. BundleId(bundleRow[i]) = i /\ DecisionProof(bundleRow[i], record, mined)
    BY DEF IInv, StoredProven
  <2>2. QED
    BY <2>1 DEF DecisionProof, VerifyDecisionTx
<1>2. QED
  BY <1>1, ProvenInvariant, PTL

-----------------------------------------------------------------------------
(***************************************************************************)
(* 3. The tables agree, stored evidence only grows, what a caller was      *)
(* answered stays stored, and the gateway with its contract and its tables *)
(* implements the lifecycle of evidence.                                   *)
(*                                                                         *)
(* A save overwrites the bundle row with what its call read or built       *)
(* earlier.  That it changes nothing else rests on three facts: the chain  *)
(* has one successful decision of a request (OneDecision), a bundle names  *)
(* its transactions consistently (Whole), and the comparison with the      *)
(* other tables means a comparison with the stored bundle (TablesAgree).   *)
(***************************************************************************)

\* The receipt names the request's transaction; a decision comes with its own.
Whole(b) ==
  /\ b.requestTx = b.receipt.tx
  /\ (b.decision = None) = (b.decisionTx = None)

OneDecision ==
  \A m, n \in mined :
    /\ m.success /\ m.tx.kind = "decision" /\ n.success /\ n.tx.kind = "decision"
    /\ m.tx.id = n.tx.id
    => m = n

DecidedIsCommitted ==
  \A i \in Ids : record[i].requestHash = None => record[i].decisionHash = None

StoredWhole == \A i \in Ids : bundleRow[i] # None => Whole(bundleRow[i])

HoldsWhole(c) ==
  /\ pc[c] \in WithBundle => Whole(snap[c])
  /\ pc[c] \in AtRequest \union {"idle"} => dec[c] = None
  /\ pc[c] \in WithBundle \ {"saveReceipt"} => bundleRow[dec[c].id] # None
  /\ pc[c] = "saveDecision" => snap[c].decision = dec[c]
  /\ pc[c] = "returned" => snap[c] \in Bundles

AnswerStored(c) ==
  pc[c] = "returned" =>
    LET answer == snap[c]
        stored == bundleRow[BundleId(answer)]
    IN
    /\ stored # None
    /\ answer.request = stored.request /\ answer.receipt = stored.receipt
    /\ answer.decision # None => answer = stored
    /\ dec[c] # None => /\ answer.decision # None
                        /\ DecisionHash(answer.decision) = DecisionHash(dec[c])

CallsHold == \A c \in Calls : HoldsWhole(c) /\ AnswerStored(c)

StoreInv ==
  OneDecision /\ DecidedIsCommitted /\ StoredWhole /\ TablesAgree /\ CallsHold

SInv == IInv /\ StoreInv

\* What a step may do to the stored bundle of a request.
Grows(old, new) ==
  \/ new = old
  \/ /\ old.decision = None
     /\ new # None /\ new.decision # None
     /\ new = Completed(old, new.decision, new.decisionTx)

EvidenceGrows == \A i \in Ids : bundleRow[i] # None => Grows(bundleRow[i], bundleRow'[i])

-----------------------------------------------------------------------------
(* The chain                                                                *)

\* The contract takes one decision of a request, after the request.
LEMMA MineOnce ==
  ASSUME ChainTypeOK, History, OneDecision, DecidedIsCommitted, NEW tx \in mempool, Mine(tx)
  PROVE  OneDecision' /\ DecidedIsCommitted'
<1>1. tx.id \in Ids /\ tx \in Txs /\ record \in [Ids -> AnchorRecords]
  BY DEF ChainTypeOK, Txs, RequestTxs, DecisionTxs
<1>2. \A m \in mined : m.tx \in Txs /\ m.tx.hash # None
  BY NoneAssumption DEF ChainTypeOK, Txs, RequestTxs, DecisionTxs
<1>3. CASE tx.kind = "request" /\ AnchorRequest(tx, time')
  <2>1. PICK done \in BOOLEAN : mined' = mined \union {[tx |-> tx, block |-> time', success |-> done]}
    BY <1>3 DEF Mine, RequestAccepted, DecisionAccepted
  <2>2. OneDecision'
    BY <1>3, <2>1 DEF OneDecision
  <2>3. DecidedIsCommitted'
    BY <1>1, <1>3 DEF DecidedIsCommitted, AnchorRequest, RequestAccepted
  <2>4. QED
    BY <2>2, <2>3
<1>4. CASE tx.kind = "decision" /\ AnchorDecision(tx, time')
  <2> DEFINE new == [tx |-> tx, block |-> time', success |-> DecisionAccepted(tx, time')]
  <2>1. mined' = mined \union {new}
    BY <1>4 DEF Mine
  \* The contract refuses a second decision.
  <2>2. ASSUME DecisionAccepted(tx, time'), NEW m \in mined, m.success,
               m.tx.kind = "decision", m.tx.id = tx.id
        PROVE  FALSE
    <3>1. record[tx.id].decisionHash = m.tx.hash
      BY <2>2 DEF History, Effect
    <3>2. QED
      BY <1>2, <2>2, <3>1 DEF DecisionAccepted
  <2>3. new.tx = tx /\ (new.success => DecisionAccepted(tx, time'))
    OBVIOUS
  <2> HIDE DEF new
  <2>4. OneDecision'
    BY <2>1, <2>2, <2>3 DEF OneDecision
  <2>5. DecidedIsCommitted'
    <3>1. CASE DecisionAccepted(tx, time')
      <4>1. record' = [record EXCEPT ![tx.id].decisionHash = tx.hash,
                                     ![tx.id].decisionAnchoredAt = time']
        BY <1>4, <3>1 DEF AnchorDecision
      <4>2. ASSUME NEW i \in Ids, i # tx.id PROVE record'[i] = record[i]
        BY <1>1, <4>1, <4>2
      <4>3. record[tx.id] \in AnchorRecords
        BY <1>1
      <4>4. record'[tx.id].requestHash = record[tx.id].requestHash
        BY <1>1, <4>1, <4>3 DEF AnchorRecords
      <4>5. QED
        BY <3>1, <4>2, <4>4 DEF DecidedIsCommitted, DecisionAccepted
    <3>2. CASE ~DecisionAccepted(tx, time')
      BY <1>4, <3>2 DEF AnchorDecision, DecidedIsCommitted
    <3>3. QED
      BY <3>1, <3>2
  <2>6. QED
    BY <2>4, <2>5
<1>5. QED
  BY <1>3, <1>4 DEF Mine

\* A block changes no table and no call.
LEMMA ChainKeepsStore ==
  ASSUME SInv, Chain
  PROVE  StoreInv'
<1>1. OneDecision' /\ DecidedIsCommitted'
  <2>1. CASE MineEmpty
    BY <2>1 DEF MineEmpty, SInv, StoreInv, OneDecision, DecidedIsCommitted
  <2>2. ASSUME NEW tx \in mempool, Mine(tx) PROVE OneDecision' /\ DecidedIsCommitted'
    BY <2>2, MineOnce DEF SInv, IInv, StoreInv, Typed, TypeOK
  <2>3. QED
    BY <2>1, <2>2 DEF Chain
<1>2. UNCHANGED <<policyRow, requestRow, receiptRow, decisionRow, anchorRow, bundleRow,
                  pc, dec, snap>>
  BY DEF Chain, storeVars, callVars
<1>3. StoredWhole'
  BY <1>2 DEF SInv, StoreInv, StoredWhole
<1>4. TablesAgree'
  BY <1>2 DEF SInv, StoreInv, TablesAgree
<1>5. CallsHold'
  BY <1>2 DEF SInv, StoreInv, CallsHold, HoldsWhole, AnswerStored
<1>6. QED
  BY <1>1, <1>3, <1>4, <1>5 DEF StoreInv

-----------------------------------------------------------------------------
(* A save                                                                   *)

\* Two bundles with the same fields are one.
LEMMA SameFields ==
  ASSUME NEW a \in Bundles, NEW b \in Bundles,
         a.policy = b.policy, a.request = b.request, a.receipt = b.receipt,
         a.requestTx = b.requestTx
  PROVE  /\ b = Completed(a, b.decision, b.decisionTx)
         /\ a.decision = b.decision /\ a.decisionTx = b.decisionTx => b = a
<1>1. /\ a = [policy |-> a.policy, request |-> a.request, receipt |-> a.receipt,
               decision |-> a.decision, requestTx |-> a.requestTx, decisionTx |-> a.decisionTx]
      /\ b = [policy |-> b.policy, request |-> b.request, receipt |-> b.receipt,
               decision |-> b.decision, requestTx |-> b.requestTx, decisionTx |-> b.decisionTx]
  BY DEF Bundles
<1>2. a.decision = b.decision /\ a.decisionTx = b.decisionTx => b = a
  BY <1>1
<1>3. b = Completed(a, b.decision, b.decisionTx)
  BY <1>1 DEF Bundles, Completed
<1>4. QED
  BY <1>2, <1>3

\* A bundle that the tables do not refuse is the stored one, or completes it.
LEMMA SaveGrows ==
  ASSUME Typed, StoredProven, OneDecision, StoredWhole, TablesAgree,
         NEW b \in Bundles, Whole(b), PersistBundle(b),
         b.decision # None => DecisionProof(b, record, mined),
         bundleRow[BundleId(b)] # None
  PROVE  Grows(bundleRow[BundleId(b)], b)
<1> DEFINE i == BundleId(b)
           old == bundleRow[i]
<1>1. i \in Ids /\ b # None
  BY RowsAssumption DEF BundleId, Bundles, Requests
<1>2. old \in Bundles
  BY <1>1 DEF Typed, TypeOK, StoreTypeOK
<1>3. /\ policyRow = old.policy /\ requestRow[i] = old.request /\ receiptRow[i] = old.receipt
      /\ decisionRow[i] = old.decision
  BY <1>1 DEF TablesAgree
<1>4. policyRow # None /\ requestRow[i] # None /\ receiptRow[i] # None
  BY <1>2, <1>3, NoneAssumption, RowsAssumption DEF Bundles
<1>5. /\ b.policy = old.policy /\ b.request = old.request /\ b.receipt = old.receipt
      /\ b.decision # None /\ old.decision # None => b.decision = old.decision
      /\ b.decision = None => old.decision = None
  BY <1>3, <1>4 DEF PersistBundle, PersistRefused, Downgrades, ConflictsWithRows, Differs
<1>6. Whole(old)
  BY <1>1 DEF StoredWhole
<1>7. b.requestTx = old.requestTx
  BY <1>5, <1>6 DEF Whole
<1>8. CASE old.decision = None /\ b.decision # None
  BY <1>1, <1>2, <1>5, <1>7, <1>8, SameFields DEF Grows
<1>9. CASE old.decision = None /\ b.decision = None
  <2>1. old.decisionTx = b.decisionTx
    BY <1>6, <1>9 DEF Whole
  <2>2. QED
    BY <1>2, <1>5, <1>7, <1>9, <2>1, SameFields DEF Grows
\* The chain has one successful decision of the request, and both bundles name it.
<1>10. CASE old.decision # None
  <2>1. b.decision # None /\ b.decision = old.decision
    BY <1>5, <1>10
  <2>2. BundleId(old) = i /\ DecisionProof(old, record, mined) /\ DecisionProof(b, record, mined)
    BY <1>1, <1>10, <2>1 DEF StoredProven
  <2>3. PICK m \in mined : m.tx = old.decisionTx /\ m.success /\ m.tx.kind = "decision" /\ m.tx.id = i
    BY <2>2 DEF DecisionProof
  <2>4. PICK n \in mined : n.tx = b.decisionTx /\ n.success /\ n.tx.kind = "decision" /\ n.tx.id = i
    BY <2>2 DEF DecisionProof
  <2>5. old.decisionTx = b.decisionTx
    BY <2>3, <2>4 DEF OneDecision
  <2>6. QED
    BY <1>2, <1>5, <1>7, <2>1, <2>5, SameFields DEF Grows
<1>11. QED
  BY <1>5, <1>8, <1>9, <1>10

\* A committed save leaves the tables in agreement, and every stored bundle whole.
LEMMA SaveAgrees ==
  ASSUME Typed, StoredProven, OneDecision, StoredWhole, TablesAgree,
         NEW b \in Bundles, Whole(b), PersistBundle(b),
         b.decision # None => DecisionProof(b, record, mined)
  PROVE  /\ TablesAgree' /\ StoredWhole' /\ EvidenceGrows
         /\ bundleRow' = [bundleRow EXCEPT ![BundleId(b)] = b]
         /\ bundleRow'[BundleId(b)] = b
<1> DEFINE i == BundleId(b)
<1>1. i \in Ids /\ b # None
  BY RowsAssumption DEF BundleId, Bundles, Requests
<1>2. /\ bundleRow \in [Ids -> Bundles \union {None}]
      /\ requestRow \in [Ids -> Requests \union {None}]
      /\ receiptRow \in [Ids -> Receipts \union {None}]
      /\ decisionRow \in [Ids -> Decisions \union {None}]
      /\ policyRow \in Policies
      /\ DOMAIN anchorRow = Ids
  BY DEF Typed, TypeOK, StoreTypeOK
<1>3. /\ policyRow' = policyRow
      /\ requestRow' = [requestRow EXCEPT ![i] = KeepRow(requestRow[i], b.request)]
      /\ receiptRow' = [receiptRow EXCEPT ![i] = KeepRow(receiptRow[i], b.receipt)]
      /\ anchorRow' = [anchorRow EXCEPT
                         ![i] = [requestTx |-> b.requestTx, decisionTx |-> b.decisionTx]]
      /\ decisionRow' = IF b.decision = None THEN decisionRow
                        ELSE [decisionRow EXCEPT ![i] = KeepRow(decisionRow[i], b.decision)]
      /\ bundleRow' = [bundleRow EXCEPT ![i] = b]
  BY <1>2, NoneAssumption DEF PersistBundle, KeepRow
<1>4. bundleRow'[i] = b
  BY <1>1, <1>2, <1>3
<1>5. ASSUME NEW j \in Ids, j # i
      PROVE  /\ bundleRow'[j] = bundleRow[j] /\ requestRow'[j] = requestRow[j]
             /\ receiptRow'[j] = receiptRow[j] /\ decisionRow'[j] = decisionRow[j]
             /\ anchorRow'[j] = anchorRow[j]
  BY <1>1, <1>2, <1>3, <1>5
<1>6. StoredWhole'
  BY <1>4, <1>5 DEF StoredWhole
<1>7. EvidenceGrows
  BY <1>1, <1>4, <1>5, SaveGrows DEF EvidenceGrows, Grows
<1>8. /\ policyRow' = b.policy /\ requestRow'[i] = b.request /\ receiptRow'[i] = b.receipt
      /\ decisionRow'[i] = b.decision
      /\ anchorRow'[i] = [requestTx |-> b.requestTx, decisionTx |-> b.decisionTx]
  <2>1. policyRow' = b.policy
    BY <1>2, <1>3, NoneAssumption DEF PersistBundle, PersistRefused, ConflictsWithRows, Differs
  <2>2. requestRow'[i] = b.request /\ receiptRow'[i] = b.receipt
    BY <1>1, <1>2, <1>3 DEF PersistBundle, PersistRefused, ConflictsWithRows, Differs, KeepRow
  <2>3. anchorRow'[i] = [requestTx |-> b.requestTx, decisionTx |-> b.decisionTx]
    BY <1>1, <1>2, <1>3
  <2>4. CASE b.decision # None
    <3>1. decisionRow'[i] = KeepRow(decisionRow[i], b.decision)
      BY <1>1, <1>2, <1>3, <2>4
    <3>2. decisionRow[i] \in {None, b.decision}
      BY <2>4 DEF PersistBundle, PersistRefused, ConflictsWithRows, Differs
    <3>3. QED
      BY <2>1, <2>2, <2>3, <3>1, <3>2 DEF KeepRow
  <2>5. CASE b.decision = None
    <3>1. decisionRow'[i] = decisionRow[i]
      BY <1>3, <2>5
    <3>2. bundleRow[i] = None \/ bundleRow[i].decision = None
      BY <2>5 DEF PersistBundle, PersistRefused, Downgrades
    <3>3. decisionRow[i] = None
      BY <1>1, <3>2 DEF TablesAgree
    <3>4. QED
      BY <2>1, <2>2, <2>3, <2>5, <3>1, <3>3
  <2>6. QED
    BY <2>4, <2>5
<1>9. TablesAgree'
  <2> SUFFICES ASSUME NEW j \in Ids
               PROVE  IF bundleRow'[j] = None
                      THEN requestRow'[j] = None /\ receiptRow'[j] = None
                           /\ decisionRow'[j] = None /\ anchorRow'[j] = None
                      ELSE /\ BundleId(bundleRow'[j]) = j
                           /\ policyRow' = bundleRow'[j].policy
                           /\ requestRow'[j] = bundleRow'[j].request
                           /\ receiptRow'[j] = bundleRow'[j].receipt
                           /\ decisionRow'[j] = bundleRow'[j].decision
                           /\ anchorRow'[j] = [requestTx |-> bundleRow'[j].requestTx,
                                               decisionTx |-> bundleRow'[j].decisionTx]
                           /\ (bundleRow'[j].decision = None) = (bundleRow'[j].decisionTx = None)
    BY DEF TablesAgree
  <2>1. CASE j = i
    BY <1>1, <1>4, <1>8, <2>1 DEF Whole
  <2>2. CASE j # i
    BY <1>3, <1>5, <2>2 DEF TablesAgree
  <2>3. QED
    BY <2>1, <2>2
<1>10. QED
  BY <1>3, <1>4, <1>6, <1>7, <1>9

-----------------------------------------------------------------------------
(* The calls                                                                *)

\* What a call holds and was answered outlives a step of another call.
LEMMA OthersHold ==
  ASSUME SInv, NEW c \in Calls, OnlyCall(c), EvidenceGrows, HoldsWhole(c)', AnswerStored(c)'
  PROVE  CallsHold'
<1> SUFFICES ASSUME NEW o \in Calls, o # c PROVE HoldsWhole(o)' /\ AnswerStored(o)'
  BY DEF CallsHold
<1>1. HoldsWhole(o) /\ AnswerStored(o)
  BY DEF SInv, StoreInv, CallsHold
<1>2. pc'[o] = pc[o] /\ dec'[o] = dec[o] /\ snap'[o] = snap[o]
  BY DEF OnlyCall
<1>3. \A i \in Ids : bundleRow[i] \in Bundles \union {None}
  BY DEF SInv, IInv, Typed, TypeOK, StoreTypeOK
<1>4. HoldsWhole(o)'
  <2>1. ASSUME pc[o] \in WithBundle \ {"saveReceipt"} PROVE bundleRow'[dec[o].id] # None
    <3>1. dec[o].id \in Ids
      BY <2>1 DEF SInv, IInv, Typed, LocalsSet, WithBundle, AtDecision, Decisions
    <3>2. QED
      BY <1>1, <2>1, <3>1 DEF HoldsWhole, EvidenceGrows, Grows
  <2>2. QED
    BY <1>1, <1>2, <2>1 DEF HoldsWhole
<1>5. AnswerStored(o)'
  <2> SUFFICES ASSUME pc[o] = "returned" PROVE AnswerStored(o)'
    BY <1>2 DEF AnswerStored
  <2> DEFINE i == BundleId(snap[o])
  <2>1. snap[o] \in Bundles /\ i \in Ids
    BY <1>1 DEF HoldsWhole, BundleId, Bundles, Requests
  <2>2. bundleRow[i] # None /\ bundleRow[i] \in Bundles
    BY <1>1, <1>3, <2>1 DEF AnswerStored
  <2>3. Grows(bundleRow[i], bundleRow'[i])
    BY <2>1, <2>2 DEF EvidenceGrows
  <2>4. /\ bundleRow'[i] # None
        /\ bundleRow'[i].request = bundleRow[i].request
        /\ bundleRow'[i].receipt = bundleRow[i].receipt
        /\ bundleRow[i].decision # None => bundleRow'[i] = bundleRow[i]
    BY <2>2, <2>3 DEF Grows, Completed, Bundles
  <2> HIDE DEF i
  <2>5. AnswerStored(o)' = (
          /\ bundleRow'[i] # None
          /\ snap[o].request = bundleRow'[i].request /\ snap[o].receipt = bundleRow'[i].receipt
          /\ snap[o].decision # None => snap[o] = bundleRow'[i]
          /\ dec[o] # None => /\ snap[o].decision # None
                              /\ DecisionHash(snap[o].decision) = DecisionHash(dec[o]))
    BY <1>2 DEF AnswerStored, i
  <2>6. /\ snap[o].request = bundleRow[i].request /\ snap[o].receipt = bundleRow[i].receipt
        /\ snap[o].decision # None => snap[o] = bundleRow[i]
        /\ dec[o] # None => /\ snap[o].decision # None
                            /\ DecisionHash(snap[o].decision) = DecisionHash(dec[o])
    BY <1>1 DEF AnswerStored, i
  <2>7. QED
    BY <2>4, <2>5, <2>6
<1>6. QED
  BY <1>4, <1>5

\* A step of a call that leaves the tables and the chain alone.
LEMMA QuietStep ==
  ASSUME SInv, NEW c \in Calls, OnlyCall(c), UNCHANGED storeVars,
         HoldsWhole(c)', AnswerStored(c)'
  PROVE  StoreInv'
<1>1. UNCHANGED <<policyRow, requestRow, receiptRow, decisionRow, anchorRow, bundleRow,
                  record, mined>>
  BY DEF storeVars, OnlyCall
<1>2. EvidenceGrows
  BY <1>1 DEF EvidenceGrows, Grows
<1>3. OneDecision' /\ DecidedIsCommitted' /\ StoredWhole'
  BY <1>1 DEF SInv, StoreInv, OneDecision, DecidedIsCommitted, StoredWhole
<1>4. TablesAgree'
  BY <1>1 DEF SInv, StoreInv, TablesAgree
<1>5. QED
  BY <1>2, <1>3, <1>4, OthersHold DEF StoreInv

\* What a call that is about to save holds.
LEMMA SavedBundle ==
  ASSUME SInv, NEW c \in Calls, pc[c] \in {"saveReceipt", "saveDecision"}
  PROVE  /\ snap[c] \in Bundles /\ Whole(snap[c])
         /\ RequestProof(snap[c], record, mined)
         /\ snap[c].decision # None => DecisionProof(snap[c], record, mined)
<1>1. pc[c] \in WithBundle
  BY DEF WithBundle, AtDecision
<1>2. QED
  BY <1>1 DEF SInv, IInv, StoreInv, Typed, LocalsSet, CallsProven, CallProven, CallsHold, HoldsWhole

\* A step of a call that saves its bundle.
LEMMA SavingStep ==
  ASSUME SInv, NEW c \in Calls, OnlyCall(c), pc[c] \in {"saveReceipt", "saveDecision"},
         PersistBundle(snap[c]), HoldsWhole(c)', AnswerStored(c)'
  PROVE  StoreInv'
<1>1. TablesAgree' /\ StoredWhole' /\ EvidenceGrows
  BY SavedBundle, SaveAgrees DEF SInv, IInv, StoreInv
<1>2. OneDecision' /\ DecidedIsCommitted'
  BY DEF SInv, StoreInv, OneDecision, DecidedIsCommitted, OnlyCall
<1>3. QED
  BY <1>1, <1>2, OthersHold DEF StoreInv

\* A call that fails holds nothing.
LEMMA ThrowHolds ==
  ASSUME CallTypeOK, NEW c \in Calls, Throw(c), UNCHANGED <<policyRow, record, mined>>
  PROVE  OnlyCall(c) /\ HoldsWhole(c)' /\ AnswerStored(c)'
<1>1. OnlyCall(c)
  BY DEF CallTypeOK, Throw, Goto, OnlyCall
<1>2. pc'[c] = "failed"
  BY DEF CallTypeOK, Throw, Goto
<1>3. QED
  BY <1>1, <1>2 DEF HoldsWhole, AnswerStored, WithBundle, AtDecision, AtRequest

\* A call that returns a stored bundle, with the decision it was asked to record.
LEMMA ReturnHolds ==
  ASSUME CallTypeOK, NEW c \in Calls, NEW b \in Bundles, Return(c, b),
         UNCHANGED <<policyRow, record, mined>>,
         bundleRow'[BundleId(b)] = b,
         dec[c] # None => b.decision # None /\ DecisionHash(b.decision) = DecisionHash(dec[c])
  PROVE  OnlyCall(c) /\ HoldsWhole(c)' /\ AnswerStored(c)'
<1>1. OnlyCall(c)
  BY DEF CallTypeOK, Return, Goto, OnlyCall
<1>2. pc'[c] = "returned" /\ snap'[c] = b /\ dec'[c] = dec[c]
  BY DEF CallTypeOK, Return, Goto
<1>3. HoldsWhole(c)'
  BY <1>2 DEF HoldsWhole, WithBundle, AtDecision, AtRequest
<1>4. b # None
  BY RowsAssumption
<1>5. AnswerStored(c)'
  BY <1>2, <1>4 DEF AnswerStored
<1>6. QED
  BY <1>1, <1>3, <1>5

\* A call that goes on with its locals.
LEMMA GoOnHolds ==
  ASSUME SInv, NEW c \in Calls, UNCHANGED <<record, mined, storeVars, req, dec, snap>>,
         NEW to \in Awaits \ {"saveDecision"}, Goto(c, to),
         to \in WithBundle => Whole(snap[c]),
         to \in AtRequest => dec[c] = None,
         to \in WithBundle \ {"saveReceipt"} => bundleRow[dec[c].id] # None
  PROVE  StoreInv'
<1>1. OnlyCall(c)
  BY DEF SInv, IInv, Typed, TypeOK, CallTypeOK, Goto, OnlyCall, storeVars
<1>2. pc'[c] = to /\ bundleRow' = bundleRow
  BY DEF SInv, IInv, Typed, TypeOK, CallTypeOK, Goto, storeVars
<1>3. HoldsWhole(c)' /\ AnswerStored(c)'
  BY <1>2 DEF HoldsWhole, AnswerStored, Awaits
<1>4. QED
  BY <1>1, <1>3, QuietStep

\* A call that goes on with another bundle.
LEMMA KeepHolds ==
  ASSUME SInv, NEW c \in Calls, UNCHANGED <<record, mined, storeVars, req, dec>>,
         NEW to \in WithBundle, NEW b, Goto(c, to), snap' = [snap EXCEPT ![c] = b],
         Whole(b),
         to = "saveReceipt" => dec[c] = None,
         to # "saveReceipt" => bundleRow[dec[c].id] # None,
         to = "saveDecision" => b.decision = dec[c]
  PROVE  StoreInv'
<1>1. OnlyCall(c)
  BY DEF SInv, IInv, Typed, TypeOK, CallTypeOK, Goto, OnlyCall, storeVars
<1>2. pc'[c] = to /\ snap'[c] = b /\ dec'[c] = dec[c] /\ bundleRow' = bundleRow
  BY DEF SInv, IInv, Typed, TypeOK, CallTypeOK, Goto, storeVars
<1>3. HoldsWhole(c)' /\ AnswerStored(c)'
  BY <1>2 DEF HoldsWhole, AnswerStored, WithBundle, AtDecision, AtRequest
<1>4. QED
  BY <1>1, <1>3, QuietStep

\* What the invariant says of the call itself.
LEMMA OwnFacts ==
  ASSUME SInv, NEW c \in Calls
  PROVE  CallTypeOK /\ HoldsWhole(c) /\ CallProven(c)
  BY DEF SInv, IInv, StoreInv, Typed, TypeOK, CallsHold, CallsProven

-----------------------------------------------------------------------------
(* submitRequest                                                            *)

\* A new request has no decision yet.
LEMMA BeginRequestHolds ==
  ASSUME SInv, NEW c \in Calls, BeginRequest(c)
  PROVE  StoreInv'
<1>1. OnlyCall(c) /\ pc'[c] = "getBundle" /\ UNCHANGED <<dec, storeVars>>
  BY OwnFacts DEF BeginRequest, Goto, OnlyCall, CallTypeOK, storeVars, chainVars
<1>2. dec[c] = None
  BY OwnFacts DEF BeginRequest, At, HoldsWhole
<1>3. HoldsWhole(c)' /\ AnswerStored(c)'
  BY <1>1, <1>2 DEF HoldsWhole, AnswerStored, WithBundle, AtDecision
<1>4. QED
  BY <1>1, <1>3, QuietStep

\* A known request is answered with the stored bundle.
LEMMA GetBundleHolds ==
  ASSUME SInv, NEW c \in Calls, GetBundle(c)
  PROVE  StoreInv'
<1>1. UNCHANGED <<record, mined, storeVars, policyRow, bundleRow>>
  BY DEF GetBundle, chainVars, storeVars
<1>2. req[c].id \in Ids /\ dec[c] = None
  BY OwnFacts DEF GetBundle, At, HoldsWhole, SInv, IInv, Typed, LocalsSet, AtRequest, Requests
<1> DEFINE b == bundleRow[req[c].id]
<1>3. CASE Goto(c, "readRecord") /\ UNCHANGED <<req, opt, dec, snap>>
  BY <1>1, <1>2, <1>3, GoOnHolds DEF Awaits, WithBundle, AtDecision
<1>4. CASE b # None /\ Return(c, b)
  <2>1. b \in Bundles
    BY <1>2, <1>4 DEF SInv, IInv, Typed, TypeOK, StoreTypeOK
  <2>2. BundleId(b) = req[c].id
    BY <1>2, <1>4 DEF SInv, IInv, StoredProven
  <2>3. bundleRow'[BundleId(b)] = b
    BY <1>1, <2>2
  <2> HIDE DEF b
  <2>4. OnlyCall(c) /\ HoldsWhole(c)' /\ AnswerStored(c)'
    BY <1>1, <1>2, <1>4, <2>1, <2>3, ReturnHolds, OwnFacts
  <2>5. QED
    BY <1>1, <2>4, QuietStep
<1>5. CASE Throw(c)
  BY <1>1, <1>5, ThrowHolds, OwnFacts, QuietStep
<1>6. QED
  BY <1>3, <1>4, <1>5 DEF GetBundle

\* Reading the record changes nothing.
LEMMA ReadRecordHolds ==
  ASSUME SInv, NEW c \in Calls, ReadRecord(c)
  PROVE  StoreInv'
<1>1. UNCHANGED <<record, mined, storeVars, policyRow>>
  BY DEF ReadRecord, chainVars, storeVars
<1>2. dec[c] = None
  BY OwnFacts DEF ReadRecord, At, HoldsWhole, AtRequest
<1>3. ASSUME NEW to \in {"sendRequest", "recover"}, Goto(c, to), UNCHANGED <<req, opt, dec, snap>>
      PROVE  StoreInv'
  BY <1>1, <1>2, <1>3, GoOnHolds DEF Awaits, WithBundle, AtDecision
<1>4. CASE Throw(c)
  BY <1>1, <1>4, ThrowHolds, OwnFacts, QuietStep
<1>5. QED
  BY <1>3, <1>4 DEF ReadRecord

\* The bundle of an anchored request is whole.
LEMMA PendingWhole ==
  ASSUME NEW r, NEW tx
  PROVE  Whole(PendingBundle(r, tx))
  BY DEF Whole, PendingBundle, Bundle, CreateReceipt

\* The bundle of a recovered request is whole.
LEMMA RecoverRequestHolds ==
  ASSUME SInv, NEW c \in Calls, RecoverRequest(c)
  PROVE  StoreInv'
<1>1. UNCHANGED <<record, mined, storeVars, policyRow>>
  BY DEF RecoverRequest, chainVars, storeVars
<1>2. dec[c] = None
  BY OwnFacts DEF RecoverRequest, At, HoldsWhole, AtRequest
<1>3. ASSUME NEW tx, Goto(c, "saveReceipt"),
             snap' = [snap EXCEPT ![c] = PendingBundle(req[c], tx)], UNCHANGED <<req, opt, dec>>
      PROVE  StoreInv'
  BY <1>1, <1>2, <1>3, PendingWhole, KeepHolds DEF WithBundle
<1>4. CASE Throw(c)
  BY <1>1, <1>4, ThrowHolds, OwnFacts, QuietStep
<1>5. QED
  BY <1>3, <1>4 DEF RecoverRequest

\* A broadcast changes the mempool only.
LEMMA SendRequestHolds ==
  ASSUME SInv, NEW c \in Calls, SendRequest(c)
  PROVE  StoreInv'
<1>1. UNCHANGED <<record, mined, storeVars, req, dec, snap>> /\ Goto(c, "waitRequest")
  BY DEF SendRequest, Broadcast
<1>2. dec[c] = None
  BY OwnFacts DEF SendRequest, At, HoldsWhole, AtRequest
<1>3. QED
  BY <1>1, <1>2, GoOnHolds DEF Awaits, WithBundle, AtDecision

\* The bundle of a request that was just anchored is whole.
LEMMA AwaitRequestHolds ==
  ASSUME SInv, NEW c \in Calls, AwaitRequest(c)
  PROVE  StoreInv'
<1>1. UNCHANGED <<record, mined, storeVars, policyRow>>
  BY DEF AwaitRequest, chainVars, storeVars
<1>2. dec[c] = None
  BY OwnFacts DEF AwaitRequest, At, HoldsWhole, AtRequest
<1>3. ASSUME NEW tx, Goto(c, "saveReceipt"),
             snap' = [snap EXCEPT ![c] = PendingBundle(req[c], tx)], UNCHANGED <<req, opt, dec>>
      PROVE  StoreInv'
  BY <1>1, <1>2, <1>3, PendingWhole, KeepHolds DEF WithBundle
<1>4. CASE Throw(c)
  BY <1>1, <1>4, ThrowHolds, OwnFacts, QuietStep
<1>5. QED
  BY <1>3, <1>4 DEF AwaitRequest

\* The receipt is saved and answered, or the institution is asked.
LEMMA SaveReceiptHolds ==
  ASSUME SInv, NEW c \in Calls, SaveReceipt(c)
  PROVE  StoreInv'
<1>1. pc[c] = "saveReceipt" /\ UNCHANGED <<record, mined>>
  BY DEF SaveReceipt, At, chainVars
<1>2. dec[c] = None /\ snap[c] \in Bundles
  BY <1>1, OwnFacts, SavedBundle DEF HoldsWhole, AtRequest
<1>3. ASSUME PersistBundle(snap[c])
      PROVE  UNCHANGED policyRow /\ bundleRow'[BundleId(snap[c])] = snap[c]
  BY <1>1, <1>3, SavedBundle, SaveAgrees, PersistSafe DEF SInv, IInv, StoreInv, Typed, TypeOK
<1>4. CASE PersistBundle(snap[c]) /\ Return(c, snap[c])
  BY <1>1, <1>2, <1>3, <1>4, ReturnHolds, OwnFacts, SavingStep
<1>5. ASSUME NEW d, PersistBundle(snap[c]), Goto(c, "getDecisionBundle"),
             dec' = [dec EXCEPT ![c] = d], snap' = [snap EXCEPT ![c] = None],
             UNCHANGED <<req, opt>>
      PROVE  StoreInv'
  <2>1. OnlyCall(c) /\ pc'[c] = "getDecisionBundle"
    BY <1>1, <1>3, <1>5, OwnFacts DEF CallTypeOK, Goto, OnlyCall
  <2>2. HoldsWhole(c)' /\ AnswerStored(c)'
    BY <2>1 DEF HoldsWhole, AnswerStored, WithBundle, AtDecision, AtRequest
  <2>3. QED
    BY <1>1, <1>5, <2>1, <2>2, SavingStep
<1>6. CASE PersistBundle(snap[c]) /\ Throw(c)
  BY <1>1, <1>3, <1>6, ThrowHolds, OwnFacts, SavingStep
<1>7. CASE PersistRaises(snap[c]) /\ Throw(c)
  <2>1. UNCHANGED storeVars /\ UNCHANGED policyRow
    BY <1>7 DEF PersistRaises, storeVars
  <2>2. QED
    BY <1>1, <1>7, <2>1, ThrowHolds, OwnFacts, QuietStep
<1>8. QED
  BY <1>4, <1>5, <1>6, <1>7 DEF SaveReceipt

-----------------------------------------------------------------------------
(* submitDecision                                                           *)

\* A decision from outside holds no bundle yet.
LEMMA BeginDecisionHolds ==
  ASSUME SInv, NEW c \in Calls, BeginDecision(c)
  PROVE  StoreInv'
<1>1. OnlyCall(c) /\ pc'[c] = "getDecisionBundle" /\ UNCHANGED storeVars
  BY OwnFacts DEF BeginDecision, Goto, OnlyCall, CallTypeOK, storeVars, chainVars
<1>2. HoldsWhole(c)' /\ AnswerStored(c)'
  BY <1>1 DEF HoldsWhole, AnswerStored, WithBundle, AtDecision, AtRequest
<1>3. QED
  BY <1>1, <1>2, QuietStep

\* The bundle that is read is stored; a completed one answers the same decision.
LEMMA GetDecisionBundleHolds ==
  ASSUME SInv, NEW c \in Calls, GetDecisionBundle(c)
  PROVE  StoreInv'
<1>1. UNCHANGED <<record, mined, storeVars, policyRow, bundleRow>>
  BY DEF GetDecisionBundle, chainVars, storeVars
<1>2. dec[c] \in Decisions /\ dec[c].id \in Ids
  BY DEF GetDecisionBundle, At, SInv, IInv, Typed, LocalsSet, AtDecision, Decisions
<1> DEFINE b == bundleRow[dec[c].id]
<1>3. CASE b # None /\ Goto(c, "readDecisionRecord") /\ snap' = [snap EXCEPT ![c] = b]
           /\ UNCHANGED <<req, opt, dec>>
  <2>1. Whole(b)
    BY <1>2, <1>3 DEF SInv, StoreInv, StoredWhole
  <2>2. QED
    BY <1>1, <1>3, <2>1, KeepHolds DEF WithBundle, AtDecision
<1>4. CASE b # None /\ b.decision # None /\ DecisionHash(b.decision) = DecisionHash(dec[c])
           /\ Return(c, b)
  <2>1. b \in Bundles
    BY <1>2, <1>4 DEF SInv, IInv, Typed, TypeOK, StoreTypeOK
  <2>2. BundleId(b) = dec[c].id
    BY <1>2, <1>4 DEF SInv, IInv, StoredProven
  <2>3. bundleRow'[BundleId(b)] = b
    BY <1>1, <2>2
  <2> HIDE DEF b
  <2>4. OnlyCall(c) /\ HoldsWhole(c)' /\ AnswerStored(c)'
    BY <1>1, <1>4, <2>1, <2>3, ReturnHolds, OwnFacts
  <2>5. QED
    BY <1>1, <2>4, QuietStep
<1>5. CASE Throw(c)
  BY <1>1, <1>5, ThrowHolds, OwnFacts, QuietStep
<1>6. QED
  BY <1>3, <1>4, <1>5 DEF GetDecisionBundle

\* What a call that holds a stored bundle keeps when it goes on.
LEMMA DecisionGoesOn ==
  ASSUME SInv, NEW c \in Calls, pc[c] \in AtDecision \ {"getDecisionBundle"},
         UNCHANGED <<record, mined, storeVars, req, dec, snap>>,
         NEW to \in AtDecision \ {"getDecisionBundle", "saveDecision"}, Goto(c, to)
  PROVE  StoreInv'
<1>1. Whole(snap[c]) /\ bundleRow[dec[c].id] # None
  BY OwnFacts DEF HoldsWhole, WithBundle, AtDecision
<1>2. to \in Awaits /\ to \notin AtRequest /\ to # "saveDecision"
  BY DEF Awaits, AtDecision, AtRequest
<1>3. QED
  BY <1>1, <1>2, GoOnHolds

\* Reading the record changes nothing.
LEMMA ReadDecisionRecordHolds ==
  ASSUME SInv, NEW c \in Calls, ReadDecisionRecord(c)
  PROVE  StoreInv'
<1>1. UNCHANGED <<record, mined, storeVars, policyRow>>
  BY DEF ReadDecisionRecord, chainVars, storeVars
<1>2. CASE Throw(c)
  BY <1>1, <1>2, ThrowHolds, OwnFacts, QuietStep
<1>3. QED
  BY <1>1, <1>2, DecisionGoesOn DEF ReadDecisionRecord, At, AtDecision

\* Reading the time changes nothing.
LEMMA CheckDeadlineHolds ==
  ASSUME SInv, NEW c \in Calls, CheckDeadline(c)
  PROVE  StoreInv'
<1>1. UNCHANGED <<record, mined, storeVars, policyRow>>
  BY DEF CheckDeadline, chainVars, storeVars
<1>2. CASE Throw(c)
  BY <1>1, <1>2, ThrowHolds, OwnFacts, QuietStep
<1>3. QED
  BY <1>1, <1>2, DecisionGoesOn DEF CheckDeadline, At, AtDecision

\* A broadcast changes the mempool only.
LEMMA SendDecisionHolds ==
  ASSUME SInv, NEW c \in Calls, SendDecision(c)
  PROVE  StoreInv'
<1>1. UNCHANGED <<record, mined, storeVars, req, dec, snap>> /\ Goto(c, "waitDecision")
  BY DEF SendDecision, Broadcast
<1>2. QED
  BY <1>1, DecisionGoesOn DEF SendDecision, At, AtDecision

\* A bundle completed with a decision and its transaction is whole.
LEMMA CompletedHolds ==
  ASSUME SInv, NEW c \in Calls, pc[c] \in {"waitDecision", "findDecision"},
         UNCHANGED <<record, mined, storeVars, req, dec>>, NEW tx \in DecisionTxs,
         Goto(c, "saveDecision"), snap' = [snap EXCEPT ![c] = Completed(@, dec[c], tx)]
  PROVE  StoreInv'
<1>1. pc[c] \in AtDecision \ {"getDecisionBundle"} /\ pc[c] \in WithBundle \ {"saveReceipt"}
  BY DEF AtDecision, WithBundle
<1>2. dec[c] \in Decisions /\ snap[c] \in Bundles
  BY <1>1, HeldBundle DEF SInv
<1>3. Whole(snap[c]) /\ bundleRow[dec[c].id] # None
  BY <1>1, OwnFacts DEF HoldsWhole
<1> DEFINE b == Completed(snap[c], dec[c], tx)
<1>4. /\ b.decision = dec[c] /\ b.decisionTx = tx
      /\ b.requestTx = snap[c].requestTx /\ b.receipt = snap[c].receipt
  BY <1>2 DEF Completed, Bundles
<1>5. snap' = [snap EXCEPT ![c] = b]
  OBVIOUS
<1>6. dec[c] # None /\ tx # None
  BY <1>2, NoneAssumption, RowsAssumption
<1> HIDE DEF b
<1>7. Whole(b)
  BY <1>3, <1>4, <1>6 DEF Whole
<1>8. QED
  BY <1>3, <1>4, <1>5, <1>7, KeepHolds DEF WithBundle, AtDecision

\* The decision was anchored by the call itself.
LEMMA AwaitDecisionHolds ==
  ASSUME SInv, NEW c \in Calls, AwaitDecision(c)
  PROVE  StoreInv'
<1>1. UNCHANGED <<record, mined, storeVars, policyRow>> /\ pc[c] = "waitDecision"
  BY DEF AwaitDecision, chainVars, storeVars, At
<1>2. CASE Throw(c)
  BY <1>1, <1>2, ThrowHolds, OwnFacts, QuietStep
<1>3. dec[c] \in Decisions
  BY <1>1, HeldBundle DEF SInv, AtDecision
<1>4. DecisionTx(c, dec[c].id, DecisionHash(dec[c])) \in DecisionTxs
  BY <1>3, DecisionTxType
<1>5. QED
  BY <1>1, <1>2, <1>4, CompletedHolds DEF AwaitDecision

\* The decision was found on the chain.
LEMMA FindDecisionHolds ==
  ASSUME SInv, NEW c \in Calls, FindDecision(c)
  PROVE  StoreInv'
<1>1. UNCHANGED <<record, mined, storeVars, policyRow>> /\ pc[c] = "findDecision"
  BY DEF FindDecision, chainVars, storeVars, At
<1>2. CASE Throw(c)
  BY <1>1, <1>2, ThrowHolds, OwnFacts, QuietStep
<1>3. ASSUME NEW tx \in DecisionAnchorTxs(dec[c].id, DecisionHash(dec[c]), snap[c].receipt.observedAt)
      PROVE  tx \in DecisionTxs
  BY DEF DecisionAnchorTxs, SInv, IInv, Typed, TypeOK, ChainTypeOK, Txs, RequestTxs, DecisionTxs
<1>4. QED
  BY <1>1, <1>2, <1>3, CompletedHolds DEF FindDecision

\* The completed bundle is saved and answered, or refused.
LEMMA SaveDecisionHolds ==
  ASSUME SInv, NEW c \in Calls, SaveDecision(c)
  PROVE  StoreInv'
<1>1. pc[c] = "saveDecision" /\ UNCHANGED <<record, mined>>
  BY DEF SaveDecision, At, chainVars
<1>2. snap[c] \in Bundles /\ snap[c].decision = dec[c] /\ snap[c].decision # None
  BY <1>1, OwnFacts, SavedBundle DEF HoldsWhole, CallProven
<1>3. ASSUME PersistBundle(snap[c])
      PROVE  UNCHANGED policyRow /\ bundleRow'[BundleId(snap[c])] = snap[c]
  BY <1>1, <1>3, SavedBundle, SaveAgrees, PersistSafe DEF SInv, IInv, StoreInv, Typed, TypeOK
<1>4. CASE PersistBundle(snap[c]) /\ Return(c, snap[c])
  BY <1>1, <1>2, <1>3, <1>4, ReturnHolds, OwnFacts, SavingStep
<1>5. CASE PersistRaises(snap[c]) /\ Throw(c)
  <2>1. UNCHANGED storeVars /\ UNCHANGED policyRow
    BY <1>5 DEF PersistRaises, storeVars
  <2>2. QED
    BY <1>1, <1>5, <2>1, ThrowHolds, OwnFacts, QuietStep
<1>6. QED
  BY <1>4, <1>5 DEF SaveDecision

\* A call that fails leaves the tables and the chain alone.
LEMMA FailHolds ==
  ASSUME SInv, NEW c \in Calls, Fail(c)
  PROVE  StoreInv'
<1>1. UNCHANGED <<record, mined, storeVars, policyRow>> /\ Throw(c)
  BY DEF Fail, chainVars, storeVars
<1>2. QED
  BY <1>1, ThrowHolds, OwnFacts, QuietStep

-----------------------------------------------------------------------------
(* The invariant and what follows from it                                   *)

\* At the start the tables are empty and no call holds anything.
LEMMA InitSInv == Init => SInv
<1> SUFFICES ASSUME Init PROVE StoreInv
  BY InitIInv DEF SInv
<1>1. OneDecision /\ DecidedIsCommitted
  BY DEF Init, ChainInit, NoRecord, OneDecision, DecidedIsCommitted
<1>2. StoredWhole /\ TablesAgree
  BY DEF Init, StoreInit, NoRows, StoredWhole, TablesAgree
<1>3. CallsHold
  BY DEF Init, CallsHold, HoldsWhole, AnswerStored, WithBundle, AtDecision, AtRequest
<1>4. QED
  BY <1>1, <1>2, <1>3 DEF StoreInv

\* Every step keeps the invariant.
LEMMA NextSInv == SInv /\ [Next]_vars => SInv'
<1> SUFFICES ASSUME SInv, [Next]_vars PROVE StoreInv'
  BY NextIInv DEF SInv
<1>1. CASE Chain
  BY <1>1, ChainKeepsStore
<1>2. ASSUME NEW c \in Calls, Step(c) PROVE StoreInv'
  BY <1>2, BeginRequestHolds, GetBundleHolds, ReadRecordHolds, RecoverRequestHolds,
     SendRequestHolds, AwaitRequestHolds, SaveReceiptHolds, BeginDecisionHolds,
     GetDecisionBundleHolds, ReadDecisionRecordHolds, CheckDeadlineHolds, SendDecisionHolds,
     AwaitDecisionHolds, FindDecisionHolds, SaveDecisionHolds, FailHolds
     DEF Step
<1>3. CASE UNCHANGED vars
  <2>1. UNCHANGED <<policyRow, requestRow, receiptRow, decisionRow, anchorRow, bundleRow,
                    record, mined, pc, dec, snap>>
    BY <1>3 DEF vars, chainVars, storeVars, callVars
  <2>2. OneDecision' /\ DecidedIsCommitted' /\ StoredWhole'
    BY <2>1 DEF SInv, StoreInv, OneDecision, DecidedIsCommitted, StoredWhole
  <2>3. TablesAgree'
    BY <2>1 DEF SInv, StoreInv, TablesAgree
  <2>4. CallsHold'
    BY <2>1 DEF SInv, StoreInv, CallsHold, HoldsWhole, AnswerStored
  <2>5. QED
    BY <2>2, <2>3, <2>4 DEF StoreInv
<1>4. QED
  BY <1>1, <1>2, <1>3 DEF Next

\* The invariant holds in every behaviour.
LEMMA StoreInvariant == Spec => []SInv
  BY InitSInv, NextSInv, PTL DEF Spec

\* The six tables that one transaction writes agree, and whole records are compared,
\* so a bundle whose parts come from two attempts is never stored.
THEOREM TablesAgreeHolds == Spec => []TablesAgree
<1>1. SInv => TablesAgree
  BY DEF SInv, StoreInv
<1>2. QED
  BY <1>1, StoreInvariant, PTL

\* What a caller was answered stays what the store holds.
THEOREM AnswerIsStoredHolds == Spec => []AnswerIsStored
<1>1. SInv => AnswerIsStored
  BY DEF SInv, StoreInv, CallsHold, AnswerStored, AnswerIsStored
<1>2. QED
  BY <1>1, StoreInvariant, PTL

\* A step of a call leaves the contract alone and saves its bundle or nothing.
LEMMA StepSaves ==
  ASSUME SInv, NEW c \in Calls, Step(c)
  PROVE  /\ UNCHANGED <<time, record, mined>>
         /\ \/ UNCHANGED bundleRow
            \/ pc[c] \in {"saveReceipt", "saveDecision"} /\ PersistBundle(snap[c])
<1>1. CASE SaveReceipt(c)
  BY <1>1 DEF SaveReceipt, At, chainVars, PersistRaises, storeVars
<1>2. CASE SaveDecision(c)
  BY <1>2 DEF SaveDecision, At, chainVars, PersistRaises, storeVars
<1>3. CASE SendRequest(c) \/ SendDecision(c)
  BY <1>3 DEF SendRequest, SendDecision, Broadcast, storeVars
<1>4. CASE BeginRequest(c) \/ GetBundle(c) \/ ReadRecord(c) \/ RecoverRequest(c) \/ AwaitRequest(c)
  BY <1>4 DEF BeginRequest, GetBundle, ReadRecord, RecoverRequest, AwaitRequest,
              chainVars, storeVars
<1>5. CASE \/ BeginDecision(c) \/ GetDecisionBundle(c) \/ ReadDecisionRecord(c)
           \/ CheckDeadline(c) \/ AwaitDecision(c) \/ FindDecision(c) \/ Fail(c)
  BY <1>5 DEF BeginDecision, GetDecisionBundle, ReadDecisionRecord, CheckDeadline,
              AwaitDecision, FindDecision, Fail, chainVars, storeVars
<1>6. QED
  BY <1>1, <1>2, <1>3, <1>4, <1>5 DEF Step

\* What a save does to the stored bundles.
LEMMA SaveEffect ==
  ASSUME SInv, NEW c \in Calls, pc[c] \in {"saveReceipt", "saveDecision"},
         PersistBundle(snap[c])
  PROVE  /\ EvidenceGrows
         /\ bundleRow' = [bundleRow EXCEPT ![BundleId(snap[c])] = snap[c]]
  BY SavedBundle, SaveAgrees DEF SInv, IInv, StoreInv

\* Stored evidence only gains its decision, although every save overwrites the row.
THEOREM EvidenceOnlyGrowsHolds == Spec => EvidenceOnlyGrows
<1>1. SInv /\ [Next]_vars =>
        [\A i \in Ids : bundleRow[i] # None /\ bundleRow'[i] # bundleRow[i] =>
           /\ bundleRow[i].decision = None
           /\ bundleRow'[i] # None
           /\ bundleRow'[i].decision # None
           /\ bundleRow'[i] = Completed(bundleRow[i], bundleRow'[i].decision,
                                        bundleRow'[i].decisionTx)]_vars
  <2> SUFFICES ASSUME SInv, Next,
                      NEW i \in Ids, bundleRow[i] # None, bundleRow'[i] # bundleRow[i]
               PROVE  /\ bundleRow[i].decision = None
                      /\ bundleRow'[i] # None
                      /\ bundleRow'[i].decision # None
                      /\ bundleRow'[i] = Completed(bundleRow[i], bundleRow'[i].decision,
                                                   bundleRow'[i].decisionTx)
    OBVIOUS
  <2>1. ~Chain
    BY DEF Chain, storeVars
  <2>2. PICK c \in Calls : Step(c)
    BY <2>1 DEF Next
  <2>3. EvidenceGrows
    BY <2>2, StepSaves, SaveEffect
  <2>4. QED
    BY <2>3 DEF EvidenceGrows, Grows
<1>2. QED
  BY <1>1, StoreInvariant, PTL DEF Spec, EvidenceOnlyGrows

-----------------------------------------------------------------------------
(* The gateway implements the lifecycle of evidence                         *)

AllCommitted == [i \in Ids |-> Committed(i)]
AllDecided == [i \in Ids |-> record[i].decisionHash]
AllPublished == [i \in Ids |-> Published(i)]

\* A block waits, or commits a request or a decision.
LEMMA ChainProgress ==
  ASSUME SInv, Chain
  PROVE  Evidence!Progress
<1>1. AllPublished' = AllPublished
  BY DEF Chain, storeVars, AllPublished, Published
<1>2. record \in [Ids -> AnchorRecords] /\ time \in Nat
  BY DEF SInv, IInv, Typed, TypeOK, ChainTypeOK
<1>3. ASSUME time' = time + 1, UNCHANGED record PROVE Evidence!Progress
  <2>1. AllCommitted' = AllCommitted /\ AllDecided' = AllDecided
    BY <1>3 DEF AllCommitted, Committed, AllDecided
  <2>2. Evidence!Wait
    BY <1>1, <1>3, <2>1 DEF Evidence!Wait, Evidence!Tick, AllCommitted, AllDecided, AllPublished
  <2>3. QED
    BY <2>2 DEF Evidence!Progress
<1>4. CASE MineEmpty
  BY <1>3, <1>4 DEF MineEmpty
<1>5. ASSUME NEW tx \in mempool, Mine(tx) PROVE Evidence!Progress
  <2>1. tx \in Txs /\ tx.id \in Ids /\ time' = time + 1
    BY <1>5 DEF Mine, SInv, IInv, Typed, TypeOK, ChainTypeOK, Txs, RequestTxs, DecisionTxs
  <2>2. CASE UNCHANGED record
    BY <1>3, <2>1, <2>2
  <2>3. CASE tx.kind = "request" /\ RequestAccepted(tx) /\ AnchorRequest(tx, time')
    <3> DEFINE new == [requestHash |-> tx.hash, policyHash |-> tx.policyHash,
                       requestAnchoredAt |-> time', decisionDeadline |-> time' + Window,
                       decisionHash |-> None, decisionAnchoredAt |-> None]
               content == [content |-> tx.hash, deadline |-> time' + Window]
    <3>1. record' = [record EXCEPT ![tx.id] = new]
      BY <2>3 DEF AnchorRequest
    <3>2. record'[tx.id] = new /\ \A i \in Ids : i # tx.id => record'[i] = record[i]
      BY <1>2, <2>1, <3>1
    <3>3. tx.hash \in RequestHashes /\ tx.hash # None
      BY <2>1, <2>3, NoneAssumption DEF Txs, RequestTxs, DecisionTxs
    <3>4. AllCommitted[tx.id] = None
      BY <2>1, <2>3 DEF RequestAccepted, AllCommitted, Committed
    <3>5. AllCommitted' = [AllCommitted EXCEPT ![tx.id] = content]
      <4>1. \A i \in Ids : AllCommitted'[i] = IF i = tx.id THEN content ELSE AllCommitted[i]
        BY <3>2, <3>3 DEF AllCommitted, Committed
      <4>2. DOMAIN AllCommitted = Ids /\ DOMAIN AllCommitted' = Ids
        BY DEF AllCommitted
      <4>3. QED
        BY <4>1, <4>2 DEF AllCommitted
    \* A record without a request has no decision.
    <3>6. AllDecided' = AllDecided
      <4>1. record[tx.id].decisionHash = None
        BY <2>1, <2>3 DEF SInv, StoreInv, DecidedIsCommitted, RequestAccepted
      <4>2. \A i \in Ids : record'[i].decisionHash = record[i].decisionHash
        BY <3>2, <4>1
      <4>3. QED
        BY <4>2 DEF AllDecided
    <3>7. Evidence!CommitRequest(tx.id)
      BY <1>1, <2>1, <3>3, <3>4, <3>5, <3>6
         DEF Evidence!CommitRequest, Evidence!Tick, AllCommitted, AllDecided, AllPublished
    <3>8. QED
      BY <2>1, <3>7 DEF Evidence!Progress
  <2>4. CASE tx.kind = "decision" /\ DecisionAccepted(tx, time') /\ AnchorDecision(tx, time')
    <3>1. record' = [record EXCEPT ![tx.id].decisionHash = tx.hash,
                                   ![tx.id].decisionAnchoredAt = time']
      BY <2>4 DEF AnchorDecision
    <3>2. record[tx.id] \in AnchorRecords
      BY <1>2, <2>1
    <3>3. /\ record'[tx.id].requestHash = record[tx.id].requestHash
          /\ record'[tx.id].decisionDeadline = record[tx.id].decisionDeadline
          /\ record'[tx.id].decisionHash = tx.hash
          /\ \A i \in Ids : i # tx.id => record'[i] = record[i]
      BY <1>2, <2>1, <3>1, <3>2 DEF AnchorRecords
    <3>4. AllCommitted' = AllCommitted
      <4>1. \A i \in Ids : Committed(i)' = Committed(i)
        BY <3>3 DEF Committed
      <4>2. QED
        BY <4>1 DEF AllCommitted
    <3>5. AllDecided' = [AllDecided EXCEPT ![tx.id] = tx.hash]
      BY <3>3 DEF AllDecided
    <3>6. /\ AllCommitted[tx.id] # None /\ AllDecided[tx.id] = None
          /\ time' <= AllCommitted[tx.id].deadline
      <4>1. /\ record[tx.id].requestHash # None /\ record[tx.id].decisionHash = None
            /\ time' <= record[tx.id].decisionDeadline
        BY <2>4 DEF DecisionAccepted
      <4>2. AllCommitted[tx.id] = [content |-> record[tx.id].requestHash,
                                   deadline |-> record[tx.id].decisionDeadline]
        BY <2>1, <4>1 DEF AllCommitted, Committed
      <4>3. AllCommitted[tx.id] \in [content : RequestHashes, deadline : Nat]
        BY <3>2, <4>1, <4>2 DEF AnchorRecords
      <4>4. QED
        BY <2>1, <4>1, <4>2, <4>3, LifecycleNoneAssumption DEF AllDecided
    <3>7. tx.hash \in DecisionHashes
      BY <2>1, <2>4 DEF Txs, RequestTxs, DecisionTxs
    <3>8. Evidence!CommitDecision(tx.id)
      BY <1>1, <2>1, <3>4, <3>5, <3>6, <3>7
         DEF Evidence!CommitDecision, Evidence!Tick, AllCommitted, AllDecided, AllPublished
    <3>9. QED
      BY <2>1, <3>8 DEF Evidence!Progress
  <2>5. QED
    BY <1>5, <2>2, <2>3, <2>4 DEF Mine, AnchorRequest, AnchorDecision
<1>6. QED
  BY <1>4, <1>5 DEF Chain

\* A save publishes the committed request, or the committed decision, or nothing new.
LEMMA SaveProgress ==
  ASSUME SInv, NEW c \in Calls, pc[c] \in {"saveReceipt", "saveDecision"},
         PersistBundle(snap[c]), UNCHANGED <<time, record>>
  PROVE  Evidence!Progress \/ AllPublished' = AllPublished
<1> DEFINE b == snap[c]
           i == BundleId(b)
           old == bundleRow[i]
<1>1. b \in Bundles /\ RequestProof(b, record, mined)
  BY SavedBundle
<1>2. i \in Ids /\ b # None /\ RequestHash(b.request) \in RequestHashes
  BY <1>1, RowsAssumption DEF BundleId, Bundles, Requests, RequestHash, RequestHashes
<1>3. bundleRow \in [Ids -> Bundles \union {None}] /\ record \in [Ids -> AnchorRecords]
  BY DEF SInv, IInv, Typed, TypeOK, StoreTypeOK, ChainTypeOK
<1>4. /\ bundleRow'[i] = b
      /\ \A j \in Ids : j # i => bundleRow'[j] = bundleRow[j]
      /\ old # None => Grows(old, b)
  BY <1>2, <1>3, SaveEffect DEF EvidenceGrows
<1>5. AllCommitted' = AllCommitted /\ AllDecided' = AllDecided
  BY DEF AllCommitted, Committed, AllDecided
<1>6. /\ AllCommitted[i] = [content |-> RequestHash(b.request),
                            deadline |-> record[i].decisionDeadline]
      /\ AllCommitted[i] # None
  <2>1. record[i].requestHash = RequestHash(b.request) /\ record[i].requestHash # None
    BY <1>1, <1>2, NoneAssumption DEF RequestProof
  <2>2. AllCommitted[i] = [content |-> RequestHash(b.request),
                           deadline |-> record[i].decisionDeadline]
    BY <1>2, <2>1 DEF AllCommitted, Committed
  <2>3. AllCommitted[i] \in [content : RequestHashes, deadline : Nat]
    BY <1>2, <1>3, <2>2 DEF AnchorRecords
  <2>4. QED
    BY <2>2, <2>3, LifecycleNoneAssumption
<1>7. AllPublished'[i] = [request |-> RequestHash(b.request),
                          decision |-> IF b.decision = None THEN None ELSE DecisionHash(b.decision)]
  BY <1>2, <1>4 DEF AllPublished, Published
<1>8. /\ \A j \in Ids : j # i => AllPublished'[j] = AllPublished[j]
      /\ DOMAIN AllPublished' = Ids /\ DOMAIN AllPublished = Ids
  BY <1>4 DEF AllPublished, Published
<1>9. AllPublished' = [j \in Ids |-> AllPublished'[j]] /\ AllPublished = [j \in Ids |-> AllPublished[j]]
  BY DEF AllPublished
\* The first save of a request is the receipt's: a decision is saved on a stored bundle.
<1>10. CASE old = None
  <2>1. b.decision = None
    <3>1. HoldsWhole(c) /\ CallProven(c)
      BY OwnFacts
    <3>2. CASE pc[c] = "saveReceipt"
      BY <3>1, <3>2 DEF CallProven
    <3>3. CASE pc[c] = "saveDecision"
      <4>1. pc[c] \in WithBundle \ {"saveReceipt"}
        BY <3>3 DEF WithBundle, AtDecision
      <4>2. QED
        BY <1>10, <3>1, <4>1 DEF HoldsWhole, CallProven
    <3>4. QED
      BY <3>2, <3>3
  <2>2. AllPublished[i] = None
    BY <1>2, <1>10 DEF AllPublished, Published
  <2>3. AllPublished' = [AllPublished EXCEPT
                           ![i] = [request |-> AllCommitted[i].content, decision |-> None]]
    BY <1>2, <1>6, <1>7, <1>8, <1>9, <2>1
  <2>4. Evidence!PublishRequest(i)
    BY <1>5, <1>6, <2>2, <2>3
       DEF Evidence!PublishRequest, AllCommitted, AllDecided, AllPublished
  <2>5. QED
    BY <1>2, <2>4 DEF Evidence!Progress
<1>11. CASE old # None /\ b = old
  <2>1. bundleRow' = bundleRow
    BY <1>2, <1>3, <1>11, SaveEffect
  <2>2. QED
    BY <2>1 DEF AllPublished, Published
<1>12. CASE old # None /\ b # old
  <2>1. old.decision = None /\ b.decision # None /\ b.request = old.request
    BY <1>3, <1>2, <1>4, <1>12 DEF Grows, Completed, Bundles
  <2>2. AllPublished[i] = [request |-> RequestHash(b.request), decision |-> None]
    BY <1>2, <1>12, <2>1 DEF AllPublished, Published
  <2>3. b.decision \in Decisions /\ DecisionHash(b.decision) \in DecisionHashes
    BY <1>1, <2>1 DEF Bundles, Decisions, DecisionHash, DecisionHashes
  <2>4. AllDecided[i] = DecisionHash(b.decision) /\ AllDecided[i] # None
    BY <1>2, <2>1, <2>3, SavedBundle, NoneAssumption DEF DecisionProof, AllDecided
  <2>5. AllPublished[i] # None
    BY <1>2, <2>2, LifecycleNoneAssumption
  <2>6. AllPublished'[i] = [AllPublished[i] EXCEPT !.decision = AllDecided[i]]
    BY <1>7, <2>1, <2>2, <2>4
  <2>7. AllPublished' = [AllPublished EXCEPT ![i].decision = AllDecided[i]]
    BY <1>2, <1>8, <1>9, <2>6
  <2>8. Evidence!PublishDecision(i)
    BY <1>5, <2>2, <2>4, <2>5, <2>7
       DEF Evidence!PublishDecision, AllCommitted, AllDecided, AllPublished
  <2>9. QED
    BY <1>2, <2>8 DEF Evidence!Progress
<1>13. QED
  BY <1>10, <1>11, <1>12

\* Every step of the chain and of the calls is a step of the lifecycle or leaves
\* everything that it names.
LEMMA NextProgress == SInv /\ [Next]_vars => [Evidence!Progress]_(Evidence!lifecycle)
<1> SUFFICES ASSUME SInv, [Next]_vars
             PROVE  \/ Evidence!Progress
                    \/ /\ time' = time /\ AllCommitted' = AllCommitted
                       /\ AllDecided' = AllDecided /\ AllPublished' = AllPublished
  BY DEF Evidence!lifecycle, AllCommitted, AllDecided, AllPublished
<1>1. CASE Chain
  BY <1>1, ChainProgress
<1>2. ASSUME NEW c \in Calls, Step(c)
      PROVE  \/ Evidence!Progress
             \/ /\ time' = time /\ AllCommitted' = AllCommitted
                /\ AllDecided' = AllDecided /\ AllPublished' = AllPublished
  <2>1. UNCHANGED <<time, record>>
    BY <1>2, StepSaves
  <2>2. AllCommitted' = AllCommitted /\ AllDecided' = AllDecided
    BY <2>1 DEF AllCommitted, Committed, AllDecided
  <2>3. CASE UNCHANGED bundleRow
    BY <2>1, <2>2, <2>3 DEF AllPublished, Published
  <2>4. CASE pc[c] \in {"saveReceipt", "saveDecision"} /\ PersistBundle(snap[c])
    BY <2>1, <2>2, <2>4, SaveProgress
  <2>5. QED
    BY <1>2, <2>3, <2>4, StepSaves
<1>3. CASE UNCHANGED vars
  BY <1>3 DEF vars, chainVars, storeVars, AllCommitted, Committed, AllDecided, AllPublished, Published
<1>4. QED
  BY <1>1, <1>2, <1>3 DEF Next

\* At the start nothing is committed, decided or published.
LEMMA InitStart == Init => Evidence!Start
  BY DEF Init, ChainInit, StoreInit, NoRecord, NoRows, Evidence!Start, Committed, Published

\* The calls, the contract and the tables together implement the lifecycle: every
\* behaviour commits a request and a decision at most once, the decision in time, and
\* publishes what was committed and nothing else.
THEOREM LifecycleImplemented == Spec => ImplementsLifecycle
<1>1. SInv /\ [Next]_vars => [Evidence!Progress]_(Evidence!lifecycle)
  BY NextProgress
<1>2. QED
  BY <1>1, InitStart, StoreInvariant, PTL DEF Spec, ImplementsLifecycle, Evidence!Lifecycle

-----------------------------------------------------------------------------
(* Recovery                                                                 *)

\* What is on record was brought about by a transaction that can be found.
Witnessed ==
  \A i \in Ids :
    /\ record[i].requestHash # None =>
         /\ record[i].requestAnchoredAt <= time
         /\ \E m \in mined :
              /\ m.success /\ m.tx.kind = "request" /\ m.tx.id = i
              /\ m.block = record[i].requestAnchoredAt
              /\ m.tx.hash = record[i].requestHash /\ m.tx.policyHash = record[i].policyHash
    /\ record[i].decisionHash # None =>
         \E m \in mined :
           /\ m.success /\ m.tx.kind = "decision" /\ m.tx.id = i
           /\ m.tx.hash = record[i].decisionHash
           /\ m.block >= record[i].requestAnchoredAt

\* A transaction that changes the record is in the chain from then on.
LEMMA MineWitnessed ==
  ASSUME ChainTypeOK, DecidedIsCommitted, Witnessed, NEW tx \in mempool, Mine(tx)
  PROVE  Witnessed'
<1>1. tx.id \in Ids /\ tx \in Txs /\ record \in [Ids -> AnchorRecords] /\ time \in Nat
  BY DEF ChainTypeOK, Txs, RequestTxs, DecisionTxs
<1>2. time' = time + 1 /\ mined \subseteq mined'
  BY DEF Mine
<1> SUFFICES ASSUME NEW i \in Ids
             PROVE  /\ record'[i].requestHash # None =>
                         /\ record'[i].requestAnchoredAt <= time'
                         /\ \E m \in mined' :
                              /\ m.success /\ m.tx.kind = "request" /\ m.tx.id = i
                              /\ m.block = record'[i].requestAnchoredAt
                              /\ m.tx.hash = record'[i].requestHash
                              /\ m.tx.policyHash = record'[i].policyHash
                    /\ record'[i].decisionHash # None =>
                         \E m \in mined' :
                           /\ m.success /\ m.tx.kind = "decision" /\ m.tx.id = i
                           /\ m.tx.hash = record'[i].decisionHash
                           /\ m.block >= record'[i].requestAnchoredAt
  BY DEF Witnessed
<1>3. record[i] \in AnchorRecords
  BY <1>1
<1>4. CASE record'[i] = record[i]
  BY <1>1, <1>2, <1>3, <1>4 DEF Witnessed, AnchorRecords
<1>5. CASE /\ tx.kind = "request" /\ RequestAccepted(tx) /\ AnchorRequest(tx, time') /\ i = tx.id
           /\ mined' = mined \union {[tx |-> tx, block |-> time', success |-> RequestAccepted(tx)]}
  <2> DEFINE new == [tx |-> tx, block |-> time', success |-> RequestAccepted(tx)]
  <2>1. /\ record'[i].requestHash = tx.hash /\ record'[i].policyHash = tx.policyHash
        /\ record'[i].requestAnchoredAt = time' /\ record'[i].decisionHash = None
    BY <1>1, <1>5 DEF AnchorRequest
  <2>2. new \in mined' /\ new.tx = tx /\ new.block = time' /\ new.success
    BY <1>5
  <2> HIDE DEF new
  <2>3. QED
    BY <1>1, <1>2, <1>5, <2>1, <2>2
<1>6. CASE /\ tx.kind = "decision" /\ DecisionAccepted(tx, time') /\ AnchorDecision(tx, time')
           /\ i = tx.id
           /\ mined' = mined \union
                {[tx |-> tx, block |-> time', success |-> DecisionAccepted(tx, time')]}
  <2> DEFINE new == [tx |-> tx, block |-> time', success |-> DecisionAccepted(tx, time')]
  <2>1. record' = [record EXCEPT ![tx.id].decisionHash = tx.hash,
                                 ![tx.id].decisionAnchoredAt = time']
    BY <1>6 DEF AnchorDecision
  <2>2. /\ record'[i].requestHash = record[i].requestHash
        /\ record'[i].policyHash = record[i].policyHash
        /\ record'[i].requestAnchoredAt = record[i].requestAnchoredAt
        /\ record'[i].decisionHash = tx.hash
    BY <1>1, <1>3, <1>6, <2>1 DEF AnchorRecords
  <2>3. record[i].requestHash # None /\ record[i].requestAnchoredAt \in Nat
    BY <1>3, <1>6 DEF DecisionAccepted, AnchorRecords
  <2>4. new \in mined' /\ new.tx = tx /\ new.block = time' /\ new.success
    BY <1>6
  <2> HIDE DEF new
  <2>5. record[i].requestAnchoredAt <= time
    BY <2>3 DEF Witnessed
  <2>6. time' >= record'[i].requestAnchoredAt
    BY <1>1, <1>2, <2>2, <2>3, <2>5
  <2>7. PICK m \in mined :
          /\ m.success /\ m.tx.kind = "request" /\ m.tx.id = i
          /\ m.block = record[i].requestAnchoredAt
          /\ m.tx.hash = record[i].requestHash /\ m.tx.policyHash = record[i].policyHash
    BY <2>3 DEF Witnessed
  <2>8. QED
    BY <1>2, <1>6, <2>2, <2>4, <2>6, <2>7
<1>7. QED
  BY <1>1, <1>4, <1>5, <1>6 DEF Mine, AnchorRequest, AnchorDecision

\* Every step of the chain and of the calls keeps it.
LEMMA WitnessedInvariant == Spec => []Witnessed
<1>1. Init => Witnessed
  <2> SUFFICES ASSUME Init, NEW i \in Ids
               PROVE  record[i].requestHash = None /\ record[i].decisionHash = None
    BY DEF Witnessed
  <2>1. record[i] = NoRecord
    BY DEF Init, ChainInit
  <2>2. QED
    BY <2>1 DEF NoRecord
<1>2. SInv /\ Witnessed /\ [Next]_vars => Witnessed'
  <2> SUFFICES ASSUME SInv, Witnessed, [Next]_vars PROVE Witnessed'
    OBVIOUS
  <2>1. ASSUME UNCHANGED <<record, mined>>, time' \in {time, time + 1} PROVE Witnessed'
    <3>1. time \in Nat /\ \A i \in Ids : record[i].requestAnchoredAt \in Nat
      BY DEF SInv, IInv, Typed, TypeOK, ChainTypeOK, AnchorRecords
    <3>2. QED
      BY <2>1, <3>1 DEF Witnessed
  <2>2. ASSUME NEW tx \in mempool, Mine(tx) PROVE Witnessed'
    BY <2>2, MineWitnessed DEF SInv, IInv, StoreInv, Typed, TypeOK
  <2>3. CASE Chain
    BY <2>1, <2>2, <2>3 DEF Chain, MineEmpty
  <2>4. ASSUME NEW c \in Calls, Step(c) PROVE Witnessed'
    BY <2>1, <2>4, StepSaves
  <2>5. CASE UNCHANGED vars
    BY <2>1, <2>5 DEF vars, chainVars
  <2>6. QED
    BY <2>3, <2>4, <2>5 DEF Next
<1>3. QED
  BY <1>1, <1>2, StoreInvariant, PTL DEF Spec

\* A request that is anchored and not stored can be stored.
LEMMA RequestRecoverable ==
  ASSUME SInv, Witnessed, NEW i \in Ids, bundleRow[i] = None,
         NEW r \in Requests, r.id = i, ValidRequest(r), AnchorsThisRequest(r)
  PROVE  \E tx \in RequestAnchorTxs(i) : ~PersistRefused(PendingBundle(r, tx))
<1>1. record[i].requestHash # None
  BY HashTypes, NoneAssumption DEF AnchorsThisRequest, Requests, RequestHash, RequestHashes
<1>2. PICK m \in mined :
        /\ m.success /\ m.tx.kind = "request" /\ m.tx.id = i
        /\ m.block = record[i].requestAnchoredAt
        /\ m.tx.hash = record[i].requestHash /\ m.tx.policyHash = record[i].policyHash
  BY <1>1 DEF Witnessed
<1>3. m.tx \in RequestAnchorTxs(i)
  BY <1>2 DEF RequestAnchorTxs
<1> DEFINE b == PendingBundle(r, m.tx)
<1>4. BundleId(b) = i /\ b.policy = policyRow /\ b.decision = None
  BY DEF PendingBundle, Bundle, BundleId
<1>5. requestRow[i] = None /\ receiptRow[i] = None
  BY DEF SInv, StoreInv, TablesAgree
<1> HIDE DEF b
<1>6. ~PersistRefused(b)
  BY <1>4, <1>5 DEF PersistRefused, Downgrades, ConflictsWithRows, Differs
<1>7. QED
  BY <1>3, <1>6 DEF b

\* A stored request whose decision is anchored can be completed.
LEMMA DecisionRecoverable ==
  ASSUME SInv, Witnessed, NEW i \in Ids, bundleRow[i] # None, bundleRow[i].decision = None,
         NEW d \in Decisions, record[i].decisionHash = DecisionHash(d)
  PROVE  \E tx \in DecisionAnchorTxs(i, DecisionHash(d), bundleRow[i].receipt.observedAt) :
           ~PersistRefused(Completed(bundleRow[i], d, tx))
<1>1. record[i].decisionHash # None
  BY NoneAssumption DEF Decisions, DecisionHash, DecisionHashes
<1>2. PICK m \in mined :
        /\ m.success /\ m.tx.kind = "decision" /\ m.tx.id = i
        /\ m.tx.hash = record[i].decisionHash
        /\ m.block >= record[i].requestAnchoredAt
  BY <1>1 DEF Witnessed
<1> DEFINE old == bundleRow[i]
           b == Completed(old, d, m.tx)
<1>3. old \in Bundles /\ BundleId(old) = i /\ RequestProof(old, record, mined)
  BY DEF SInv, IInv, Typed, TypeOK, StoreTypeOK, StoredProven
\* The receipt says when the request was anchored.
<1>4. old.receipt.observedAt = record[i].requestAnchoredAt
  BY <1>3 DEF RequestProof, SInv, IInv, History, Effect
<1>5. m.tx \in DecisionAnchorTxs(i, DecisionHash(d), old.receipt.observedAt)
  BY <1>2, <1>4 DEF DecisionAnchorTxs
<1>6. BundleId(b) = i /\ b.policy = old.policy /\ b.request = old.request
      /\ b.receipt = old.receipt /\ b.decision = d
  BY <1>3 DEF Completed, Bundles, BundleId
<1>7. /\ policyRow = old.policy /\ requestRow[i] = old.request /\ receiptRow[i] = old.receipt
      /\ decisionRow[i] = None
  BY DEF SInv, StoreInv, TablesAgree
<1>8. d # None
  BY NoneAssumption
<1> HIDE DEF b
<1>9. ~PersistRefused(b)
  BY <1>6, <1>7, <1>8 DEF PersistRefused, Downgrades, ConflictsWithRows, Differs
<1>10. QED
  BY <1>5, <1>9 DEF b

\* Whatever failed between the chain and the tables, a retry with the record whose hash
\* is on chain finds the transaction and is not refused by the tables.
THEOREM AnchoredIsRecoverableHolds == Spec => []AnchoredIsRecoverable
<1>1. SInv /\ Witnessed => AnchoredIsRecoverable
  BY RequestRecoverable, DecisionRecoverable, SubmittedRequestsAssumption,
     SubmittedDecisionsAssumption
     DEF AnchoredIsRecoverable
<1>2. QED
  BY <1>1, StoreInvariant, WitnessedInvariant, PTL
=============================================================================
