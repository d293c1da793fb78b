--------------------------- MODULE Verifier_proofs ---------------------------
(***************************************************************************)
(* The verifier's verdicts, for any number of verifications beside any     *)
(* number of gateway calls: proofs of every property of Verifier.          *)
(*                                                                         *)
(* Part 1 shows that what the gateway holds and stores is coherent: the    *)
(* checks of the verifier that need no chain pass on it.  Part 2 relates a *)
(* judgement to the proofs of Gateway_proofs: the checks pass exactly when *)
(* the evidence is coherent and the chain proves it.  Since a proof stays  *)
(* a proof on every later chain, verdicts last (part 3).                   *)
(***************************************************************************)
EXTENDS Verifier, Gateway_proofs

-----------------------------------------------------------------------------
(* 1. What the gateway stores is coherent                                   *)

Coherent(b) == ~BadSignature(b) /\ ~PolicyMismatch(b) /\ ~InvalidReference(b)

\* The awaits between the check of a decision and its anchoring.
Deciding == WithBundle \ {"saveReceipt", "saveDecision"}

CallCoherent(c) ==
  /\ pc[c] \in WithBundle => Coherent(snap[c])
  /\ pc[c] \in Deciding => ValidDecision(dec[c], snap[c]) /\ snap[c].decision = None

CallsCoherent == \A c \in Calls : CallCoherent(c)

StoredCoherent == \A i \in Ids : bundleRow[i] # None => Coherent(bundleRow[i])

\* A decision is on record with its time, and in time.
DecidedInTime ==
  \A i \in Ids :
    /\ (record[i].decisionHash = None) = (record[i].decisionAnchoredAt = None)
    /\ record[i].decisionAnchoredAt # None => InTime(record[i])

CInv == SInv /\ CallsCoherent /\ StoredCoherent /\ DecidedInTime

\* The bundle of a valid request and the receipt signed for it is coherent.
LEMMA PendingCoherent ==
  ASSUME NEW r \in Requests, NEW tx, ValidRequest(r)
  PROVE  Coherent(PendingBundle(r, tx))
<1> DEFINE b == PendingBundle(r, tx)
           content == [id |-> r.id, requestHash |-> RequestHash(r), policyHash |-> r.policyHash,
                       tx |-> tx, observedAt |-> record[r.id].requestAnchoredAt,
                       deadline |-> record[r.id].decisionDeadline]
<1>1. /\ b.policy = policyRow /\ b.request = r /\ b.decision = None
      /\ b.requestTx = tx /\ b.decisionTx = None
      /\ b.receipt.id = r.id /\ b.receipt.requestHash = RequestHash(r)
      /\ b.receipt.policyHash = r.policyHash /\ b.receipt.tx = tx
  BY DEF PendingBundle, Bundle, CreateReceipt
<1>2. b.receipt.sig = Sign("verification", content, 0) /\ ReceiptHash(b.receipt) = content
  BY DEF PendingBundle, Bundle, CreateReceipt, ReceiptHash
<1> HIDE DEF b, content
<1>3. VerifySignature(b.receipt.sig, "verification", ReceiptHash(b.receipt))
  BY <1>2 DEF Sign, VerifySignature
<1>4. ~BadSignature(b)
  BY <1>1, <1>3 DEF BadSignature, ValidRequest
<1>5. ~PolicyMismatch(b) /\ ~InvalidReference(b)
  BY <1>1 DEF PolicyMismatch, InvalidReference, ValidRequest
<1>6. QED
  BY <1>4, <1>5 DEF Coherent, b

\* A coherent bundle without a decision stays coherent when a valid decision completes it.
LEMMA CompletedCoherent ==
  ASSUME NEW b \in Bundles, Coherent(b), NEW d \in Decisions, ValidDecision(d, b),
         BundleId(b) = d.id, NEW tx \in DecisionTxs
  PROVE  Coherent(Completed(b, d, tx))
<1> DEFINE e == Completed(b, d, tx)
<1>1. /\ e.policy = b.policy /\ e.request = b.request /\ e.receipt = b.receipt
      /\ e.requestTx = b.requestTx /\ e.decision = d /\ e.decisionTx = tx
  BY DEF Completed, Bundles
<1>2. d # None /\ tx # None
  BY NoneAssumption, RowsAssumption
<1> HIDE DEF e
<1>3. ~BadSignature(e)
  BY <1>1 DEF Coherent, BadSignature, ValidDecision
<1>4. ~PolicyMismatch(e)
  BY <1>1 DEF Coherent, PolicyMismatch, ValidDecision
<1>5. ~InvalidReference(e)
  BY <1>1, <1>2 DEF Coherent, InvalidReference, ValidDecision, BundleId
<1>6. QED
  BY <1>3, <1>4, <1>5 DEF Coherent, e

\* A step of one call leaves the bundles of the others alone.
LEMMA OthersCoherent ==
  ASSUME CallsCoherent, NEW c \in Calls, OnlyCall(c), CallCoherent(c)'
  PROVE  CallsCoherent'
<1> SUFFICES ASSUME NEW o \in Calls, o # c PROVE CallCoherent(o)'
  BY DEF CallsCoherent
<1>1. CallCoherent(o) /\ pc'[o] = pc[o] /\ dec'[o] = dec[o] /\ snap'[o] = snap[o]
  BY DEF CallsCoherent, OnlyCall
<1>2. QED
  BY <1>1 DEF CallCoherent

\* A call without a bundle has nothing to be coherent.
LEMMA LeaveCoherent ==
  ASSUME CallsCoherent, NEW c \in Calls, OnlyCall(c), pc'[c] \notin WithBundle
  PROVE  CallsCoherent'
<1>1. CallCoherent(c)'
  BY DEF CallCoherent, Deciding
<1>2. QED
  BY <1>1, OthersCoherent

\* An error and an answer leave no bundle in the hands of the call.
LEMMA EndCoherent ==
  ASSUME CallTypeOK, CallsCoherent, NEW c \in Calls, UNCHANGED <<policyRow, record, mined>>,
         Throw(c) \/ \E b : Return(c, b)
  PROVE  CallsCoherent'
<1>1. OnlyCall(c) /\ pc'[c] \notin WithBundle
  BY DEF CallTypeOK, Throw, Return, Goto, OnlyCall, WithBundle, AtDecision
<1>2. QED
  BY <1>1, LeaveCoherent

\* A call that goes on with another bundle.
LEMMA KeepCoherent ==
  ASSUME CallTypeOK, CallsCoherent, NEW c \in Calls, UNCHANGED <<policyRow, record, mined>>,
         NEW to, NEW b, Goto(c, to), snap' = [snap EXCEPT ![c] = b], UNCHANGED <<req, dec>>,
         Coherent(b), to \in Deciding => ValidDecision(dec[c], b) /\ b.decision = None
  PROVE  CallsCoherent'
<1>1. OnlyCall(c) /\ pc'[c] = to /\ snap'[c] = b /\ dec'[c] = dec[c]
  BY DEF CallTypeOK, Goto, OnlyCall
<1>2. CallCoherent(c)'
  BY <1>1 DEF CallCoherent
<1>3. QED
  BY <1>1, <1>2, OthersCoherent

\* A call that has a checked decision and goes on with it.
LEMMA CarryCoherent ==
  ASSUME CallTypeOK, CallsCoherent, NEW c \in Calls, UNCHANGED <<policyRow, record, mined>>,
         pc[c] \in Deciding, NEW to \in Deciding, Goto(c, to), UNCHANGED <<req, dec, snap>>
  PROVE  CallsCoherent'
<1>1. OnlyCall(c) /\ pc'[c] = to /\ snap'[c] = snap[c] /\ dec'[c] = dec[c]
  BY DEF CallTypeOK, Goto, OnlyCall
<1>2. CallCoherent(c)'
  BY <1>1 DEF CallCoherent, CallsCoherent, Deciding
<1>3. QED
  BY <1>1, <1>2, OthersCoherent

-----------------------------------------------------------------------------
(* The steps of a call                                                      *)

\* submitRequest before a bundle is built.
LEMMA BeforeBundleCoherent ==
  ASSUME CInv, NEW c \in Calls,
         BeginRequest(c) \/ GetBundle(c) \/ ReadRecord(c) \/ SendRequest(c) \/ BeginDecision(c)
           \/ Fail(c)
  PROVE  CallsCoherent'
<1>1. CallTypeOK /\ CallsCoherent
  BY DEF CInv, SInv, IInv, Typed, TypeOK
<1>2. CASE BeginRequest(c)
  <2>1. OnlyCall(c) /\ pc'[c] = "getBundle"
    BY <1>1, <1>2 DEF BeginRequest, Goto, OnlyCall, CallTypeOK, storeVars, chainVars
  <2>2. QED
    BY <1>1, <2>1, LeaveCoherent DEF WithBundle, AtDecision
<1>3. CASE BeginDecision(c)
  <2>1. OnlyCall(c) /\ pc'[c] = "getDecisionBundle"
    BY <1>1, <1>3 DEF BeginDecision, Goto, OnlyCall, CallTypeOK, storeVars, chainVars
  <2>2. QED
    BY <1>1, <2>1, LeaveCoherent DEF WithBundle, AtDecision
<1>4. CASE SendRequest(c)
  <2>1. OnlyCall(c) /\ pc'[c] = "waitRequest"
    BY <1>1, <1>4 DEF SendRequest, Broadcast, Goto, OnlyCall, CallTypeOK, storeVars
  <2>2. QED
    BY <1>1, <2>1, LeaveCoherent DEF WithBundle, AtDecision
<1>5. ASSUME NEW to \in {"readRecord", "recover", "sendRequest"}, Goto(c, to),
             UNCHANGED <<policyRow, record, mined, req, dec, snap>>
      PROVE  CallsCoherent'
  <2>1. OnlyCall(c) /\ pc'[c] = to
    BY <1>1, <1>5 DEF Goto, OnlyCall, CallTypeOK
  <2>2. QED
    BY <1>1, <2>1, LeaveCoherent DEF WithBundle, AtDecision
<1>6. CASE GetBundle(c)
  BY <1>1, <1>5, <1>6, EndCoherent DEF GetBundle, storeVars, chainVars
<1>7. CASE ReadRecord(c)
  BY <1>1, <1>5, <1>7, EndCoherent DEF ReadRecord, storeVars, chainVars
<1>8. CASE Fail(c)
  BY <1>1, <1>8, EndCoherent DEF Fail, storeVars, chainVars
<1>9. QED
  BY <1>2, <1>3, <1>4, <1>6, <1>7, <1>8

\* The bundle that submitRequest builds.
LEMMA BuildCoherent ==
  ASSUME CInv, NEW c \in Calls, RecoverRequest(c) \/ AwaitRequest(c)
  PROVE  CallsCoherent'
<1>1. CallTypeOK /\ CallsCoherent /\ UNCHANGED <<policyRow, record, mined>>
  BY DEF CInv, SInv, IInv, Typed, TypeOK, RecoverRequest, AwaitRequest, storeVars, chainVars
<1>2. pc[c] \in {"recover", "waitRequest"}
  BY DEF RecoverRequest, AwaitRequest, At
<1>3. req[c] \in Requests /\ ValidRequest(req[c])
  BY <1>2 DEF CInv, SInv, IInv, Typed, LocalsSet, AtRequest, CallsProven, CallProven, Anchoring
<1>4. ASSUME NEW tx, Goto(c, "saveReceipt"),
             snap' = [snap EXCEPT ![c] = PendingBundle(req[c], tx)], UNCHANGED <<req, opt, dec>>
      PROVE  CallsCoherent'
  <2>1. Coherent(PendingBundle(req[c], tx)) /\ "saveReceipt" \notin Deciding
    BY <1>3, PendingCoherent DEF Deciding
  <2>2. QED
    BY <1>1, <1>4, <2>1, KeepCoherent
<1>5. CASE Throw(c)
  BY <1>1, <1>5, EndCoherent
<1>6. QED
  BY <1>4, <1>5 DEF RecoverRequest, AwaitRequest

\* A save leaves the call without a bundle and stores the one it held.
LEMMA SaveCoherent ==
  ASSUME CInv, NEW c \in Calls, SaveReceipt(c) \/ SaveDecision(c)
  PROVE  CallsCoherent'
<1>1. CallTypeOK /\ CallsCoherent /\ pc[c] \in {"saveReceipt", "saveDecision"}
  BY DEF CInv, SInv, IInv, Typed, TypeOK, SaveReceipt, SaveDecision, At
<1>2. UNCHANGED <<record, mined>>
  BY DEF SaveReceipt, SaveDecision, chainVars
<1>3. PersistBundle(snap[c]) \/ PersistRaises(snap[c])
  BY DEF SaveReceipt, SaveDecision
<1>4. policyRow' = policyRow
  <2>1. CASE PersistBundle(snap[c])
    BY <1>1, <1>2, <2>1, SavedBundle, PersistSafe DEF CInv, SInv, IInv, Typed, TypeOK
  <2>2. CASE PersistRaises(snap[c])
    BY <2>2 DEF PersistRaises, storeVars
  <2>3. QED
    BY <1>3, <2>1, <2>2
<1>5. CASE Throw(c) \/ Return(c, snap[c])
  BY <1>1, <1>2, <1>4, <1>5, EndCoherent
<1>6. CASE /\ Goto(c, "getDecisionBundle")
           /\ dec' = [dec EXCEPT ![c] = DecideRequest(req[c], snap[c].policy, opt[c])]
           /\ snap' = [snap EXCEPT ![c] = None]
           /\ UNCHANGED <<req, opt>>
  <2>1. OnlyCall(c) /\ pc'[c] = "getDecisionBundle"
    BY <1>1, <1>2, <1>4, <1>6 DEF OnlyCall, Goto, CallTypeOK
  <2>2. QED
    BY <1>1, <2>1, LeaveCoherent DEF WithBundle, AtDecision
<1>7. QED
  BY <1>5, <1>6 DEF SaveReceipt, SaveDecision

\* submitDecision checks the decision against the stored bundle once, and goes on.
LEMMA DecideCoherent ==
  ASSUME CInv, NEW c \in Calls,
         GetDecisionBundle(c) \/ ReadDecisionRecord(c) \/ CheckDeadline(c) \/ SendDecision(c)
  PROVE  CallsCoherent'
<1>1. /\ CallTypeOK /\ CallsCoherent /\ StoredCoherent
      /\ UNCHANGED <<policyRow, record, mined>>
  BY DEF CInv, SInv, IInv, Typed, TypeOK, GetDecisionBundle, ReadDecisionRecord, CheckDeadline,
         SendDecision, Broadcast, storeVars, chainVars
<1>2. CASE GetDecisionBundle(c)
  <2>1. dec[c].id \in Ids
    BY <1>2 DEF GetDecisionBundle, At, CInv, SInv, IInv, Typed, LocalsSet, AtDecision, Decisions
  <2> DEFINE b == bundleRow[dec[c].id]
  <2>2. CASE /\ b # None /\ ValidDecision(dec[c], b) /\ b.decision = None
             /\ Goto(c, "readDecisionRecord") /\ snap' = [snap EXCEPT ![c] = b]
             /\ UNCHANGED <<req, opt, dec>>
    <3>1. Coherent(b)
      BY <1>1, <2>1, <2>2 DEF StoredCoherent
    <3>2. QED
      BY <1>1, <2>2, <3>1, KeepCoherent
  <2>3. CASE Throw(c) \/ Return(c, b)
    BY <1>1, <2>3, EndCoherent
  <2>4. QED
    BY <1>2, <2>2, <2>3 DEF GetDecisionBundle
<1>3. CASE ReadDecisionRecord(c)
  <2>1. pc[c] \in Deciding /\ {"findDecision", "chainTime"} \subseteq Deciding
    BY <1>3 DEF ReadDecisionRecord, At, Deciding, WithBundle, AtDecision
  <2>2. QED
    BY <1>1, <1>3, <2>1, CarryCoherent, EndCoherent DEF ReadDecisionRecord
<1>4. CASE CheckDeadline(c)
  <2>1. pc[c] \in Deciding /\ "sendDecision" \in Deciding
    BY <1>4 DEF CheckDeadline, At, Deciding, WithBundle, AtDecision
  <2>2. QED
    BY <1>1, <1>4, <2>1, CarryCoherent, EndCoherent DEF CheckDeadline
<1>5. CASE SendDecision(c)
  <2>1. pc[c] \in Deciding /\ "waitDecision" \in Deciding
    BY <1>5 DEF SendDecision, At, Deciding, WithBundle, AtDecision
  <2>2. QED
    BY <1>1, <1>5, <2>1, CarryCoherent DEF SendDecision
<1>6. QED
  BY <1>2, <1>3, <1>4, <1>5

\* The bundle that submitDecision completes.
LEMMA CompleteCoherent ==
  ASSUME CInv, NEW c \in Calls, AwaitDecision(c) \/ FindDecision(c)
  PROVE  CallsCoherent'
<1>1. CallTypeOK /\ CallsCoherent /\ UNCHANGED <<policyRow, record, mined>>
  BY DEF CInv, SInv, IInv, Typed, TypeOK, AwaitDecision, FindDecision, storeVars, chainVars
<1>2. pc[c] \in Deciding /\ pc[c] \in AtDecision \ {"getDecisionBundle"}
  BY DEF AwaitDecision, FindDecision, At, Deciding, WithBundle, AtDecision
<1>3. /\ dec[c] \in Decisions /\ snap[c] \in Bundles /\ BundleId(snap[c]) = dec[c].id
      /\ Coherent(snap[c]) /\ ValidDecision(dec[c], snap[c])
  BY <1>2, HeldBundle DEF CInv, SInv, CallsCoherent, CallCoherent, Deciding
<1>4. ASSUME NEW tx \in DecisionTxs, Goto(c, "saveDecision"),
             snap' = [snap EXCEPT ![c] = Completed(@, dec[c], tx)], UNCHANGED <<req, opt, dec>>
      PROVE  CallsCoherent'
  <2>1. Coherent(Completed(snap[c], dec[c], tx)) /\ "saveDecision" \notin Deciding
    BY <1>3, CompletedCoherent DEF Deciding
  <2>2. snap' = [snap EXCEPT ![c] = Completed(snap[c], dec[c], tx)]
    BY <1>4
  <2>3. QED
    BY <1>1, <1>4, <2>1, <2>2, KeepCoherent
<1>5. CASE AwaitDecision(c)
  <2>1. DecisionTx(c, dec[c].id, DecisionHash(dec[c])) \in DecisionTxs
    BY <1>3, DecisionTxType
  <2>2. QED
    BY <1>1, <1>4, <1>5, <2>1, EndCoherent DEF AwaitDecision
<1>6. CASE FindDecision(c)
  <2> DEFINE txs == DecisionAnchorTxs(dec[c].id, DecisionHash(dec[c]), snap[c].receipt.observedAt)
  <2>1. txs \subseteq DecisionTxs
    BY DEF DecisionAnchorTxs, CInv, SInv, IInv, Typed, TypeOK, ChainTypeOK, Txs, RequestTxs,
           DecisionTxs
  <2> HIDE DEF txs
  <2>2. CASE \E tx \in txs : /\ Goto(c, "saveDecision")
                             /\ snap' = [snap EXCEPT ![c] = Completed(@, dec[c], tx)]
                             /\ UNCHANGED <<req, opt, dec>>
    BY <1>4, <2>1, <2>2
  <2>3. CASE Throw(c)
    BY <1>1, <2>3, EndCoherent
  <2>4. QED
    BY <1>6, <2>2, <2>3 DEF FindDecision, txs
<1>7. QED
  BY <1>5, <1>6

-----------------------------------------------------------------------------
(* The invariant                                                            *)

\* The contract records a decision with its time, before the deadline.
LEMMA MineDecidedInTime ==
  ASSUME ChainTypeOK, DecidedInTime, NEW tx \in mempool, Mine(tx)
  PROVE  DecidedInTime'
<1>1. tx.id \in Ids /\ tx \in Txs /\ record \in [Ids -> AnchorRecords] /\ time' \in Nat
  BY DEF ChainTypeOK, Mine, Txs, RequestTxs, DecisionTxs
<1> SUFFICES ASSUME NEW i \in Ids
             PROVE  /\ (record'[i].decisionHash = None) = (record'[i].decisionAnchoredAt = None)
                    /\ record'[i].decisionAnchoredAt # None => InTime(record'[i])
  BY DEF DecidedInTime
<1>2. CASE record'[i] = record[i]
  BY <1>2 DEF DecidedInTime
<1>3. CASE RequestAccepted(tx) /\ AnchorRequest(tx, time') /\ i = tx.id
  BY <1>1, <1>3 DEF AnchorRequest
<1>4. CASE /\ tx.kind = "decision" /\ DecisionAccepted(tx, time') /\ AnchorDecision(tx, time')
           /\ i = tx.id
  <2>1. record' = [record EXCEPT ![tx.id].decisionHash = tx.hash,
                                 ![tx.id].decisionAnchoredAt = time']
    BY <1>4 DEF AnchorDecision
  <2>2. record[i] \in AnchorRecords /\ tx.hash # None /\ time' # None
    BY <1>1, <1>4, NoneAssumption DEF Txs, RequestTxs, DecisionTxs
  <2>3. /\ record'[i].decisionHash = tx.hash /\ record'[i].decisionAnchoredAt = time'
        /\ record'[i].decisionDeadline = record[i].decisionDeadline
    BY <1>1, <1>4, <2>1, <2>2 DEF AnchorRecords
  <2>4. QED
    BY <1>4, <2>2, <2>3 DEF DecisionAccepted, InTime
<1>5. QED
  BY <1>1, <1>2, <1>3, <1>4 DEF Mine, AnchorRequest, AnchorDecision

\* Initially nothing is held, stored or decided.
LEMMA InitCInv == Init => CInv
<1> SUFFICES ASSUME Init PROVE CInv
  OBVIOUS
<1>1. SInv
  BY InitSInv
<1>2. CallsCoherent
  BY DEF Init, CallsCoherent, CallCoherent, Deciding, WithBundle, AtDecision
<1>3. StoredCoherent
  BY DEF Init, StoreInit, NoRows, StoredCoherent
<1>4. ASSUME NEW i \in Ids
      PROVE  record[i].decisionHash = None /\ record[i].decisionAnchoredAt = None
  <2>1. record[i] = NoRecord
    BY DEF Init, ChainInit
  <2>2. QED
    BY <2>1 DEF NoRecord
<1>5. QED
  BY <1>1, <1>2, <1>3, <1>4 DEF CInv, DecidedInTime

\* Every step of the calls and of the chain keeps what is held and stored coherent.
LEMMA NextCInv == CInv /\ [Next]_vars => CInv'
<1> SUFFICES ASSUME CInv, [Next]_vars PROVE CallsCoherent' /\ StoredCoherent' /\ DecidedInTime'
  BY NextSInv DEF CInv
<1>1. ASSUME UNCHANGED <<record, pc, dec, snap, bundleRow>>
      PROVE  CallsCoherent' /\ StoredCoherent' /\ DecidedInTime'
  BY <1>1 DEF CInv, CallsCoherent, CallCoherent, StoredCoherent, DecidedInTime
<1>2. CASE UNCHANGED vars
  BY <1>1, <1>2 DEF vars, chainVars, storeVars, callVars
<1>3. CASE Chain
  <2>1. CASE MineEmpty
    BY <1>1, <1>3, <2>1 DEF Chain, MineEmpty, storeVars, callVars
  <2>2. ASSUME NEW tx \in mempool, Mine(tx) PROVE DecidedInTime'
    BY <2>2, MineDecidedInTime DEF CInv, SInv, IInv, Typed, TypeOK
  <2>3. CallsCoherent' /\ StoredCoherent'
    BY <1>3 DEF Chain, storeVars, callVars, CInv, CallsCoherent, CallCoherent, StoredCoherent
  <2>4. QED
    BY <1>3, <2>1, <2>2, <2>3 DEF Chain
<1>4. ASSUME NEW c \in Calls, Step(c) PROVE CallsCoherent' /\ StoredCoherent' /\ DecidedInTime'
  <2>1. CallsCoherent'
    BY <1>4, BeforeBundleCoherent, BuildCoherent, SaveCoherent, DecideCoherent, CompleteCoherent
       DEF Step
  <2>2. DecidedInTime'
    BY <1>4, StepSaves DEF CInv, DecidedInTime
  <2>3. StoredCoherent'
    <3>1. CASE UNCHANGED bundleRow
      BY <3>1 DEF CInv, StoredCoherent
    <3>2. CASE pc[c] \in {"saveReceipt", "saveDecision"} /\ PersistBundle(snap[c])
      <4>1. bundleRow' = [bundleRow EXCEPT ![BundleId(snap[c])] = snap[c]]
        BY <3>2 DEF PersistBundle
      <4>2. Coherent(snap[c])
        BY <3>2 DEF CInv, CallsCoherent, CallCoherent, WithBundle, AtDecision
      <4>3. QED
        BY <4>1, <4>2 DEF CInv, SInv, IInv, Typed, TypeOK, StoreTypeOK, StoredCoherent
    <3>3. QED
      BY <1>4, <3>1, <3>2, StepSaves DEF CInv
  <2>4. QED
    BY <2>1, <2>2, <2>3
<1>5. QED
  BY <1>2, <1>3, <1>4 DEF Next
-----------------------------------------------------------------------------
(* 2. The checks pass exactly on evidence that the chain proves             *)

\* What the verifier establishes about evidence, at the chain of this moment.
Proven(b) ==
  /\ Coherent(b)
  /\ RequestProof(b, record, mined)
  /\ b.decision # None => DecisionProof(b, record, mined)

\* What a bundle consists of, and that its hashes are none of them None.
LEMMA BundleParts ==
  ASSUME NEW b \in Bundles
  PROVE  /\ b.request.id \in Ids /\ BundleId(b) = b.request.id /\ b.receipt.deadline \in Nat
         /\ RequestHash(b.request) # None /\ RequestHash(b.request) \in RequestHashes
         /\ b.decision # None => DecisionHash(b.decision) # None
<1>1. b.request \in Requests /\ b.receipt \in Receipts /\ b.decision \in Decisions \union {None}
  BY DEF Bundles
<1>2. b.decision # None => DecisionHash(b.decision) \in DecisionHashes
  BY <1>1, HashTypes
<1>3. RequestHash(b.request) \in RequestHashes
  BY <1>1 DEF Requests, RequestHash, RequestHashes
<1>4. QED
  BY <1>1, <1>2, <1>3, NoneAssumption DEF BundleId, Requests, Receipts

\* The record of a proven request says what the evidence says.
LEMMA RecordOfProven ==
  ASSUME CInv, NEW b \in Bundles, RequestProof(b, record, mined)
  PROVE  /\ record[b.request.id].requestHash = RequestHash(b.request)
         /\ record[b.request.id].policyHash = PolicyHash(b.policy)
         /\ record[b.request.id].requestAnchoredAt = b.receipt.observedAt
         /\ record[b.request.id].decisionDeadline = b.receipt.deadline
<1>1. PICK m \in mined :
        /\ m.tx = b.requestTx /\ m.success
        /\ m.tx.kind = "request" /\ m.tx.id = BundleId(b)
        /\ m.tx.hash = RequestHash(b.request) /\ m.tx.policyHash = PolicyHash(b.policy)
        /\ m.block = b.receipt.observedAt /\ b.receipt.deadline = m.block + Window
  BY DEF RequestProof
<1>2. Effect(m, record[m.tx.id])
  BY <1>1 DEF CInv, SInv, IInv, History
<1>3. QED
  BY <1>1, <1>2, BundleParts DEF Effect

\* Judging proven evidence: nothing is wrong with it but a decision it may lack.
LEMMA JudgementOfProven ==
  ASSUME CInv, NEW b \in Bundles, Proven(b)
  PROVE  Judgement(b, record[b.request.id]) =
           IF b.decision # None THEN "VERIFIED"
           ELSE IF record[b.request.id].decisionHash # None THEN "TAMPERED"
           ELSE "UNDECIDED"
<1> DEFINE onChain == record[b.request.id]
<1>1. RequestProof(b, record, mined) /\ Coherent(b)
  BY DEF Proven
<1>2. /\ onChain.requestHash = RequestHash(b.request) /\ onChain.requestHash # None
      /\ onChain.policyHash = PolicyHash(b.policy)
      /\ onChain.requestAnchoredAt = b.receipt.observedAt
      /\ onChain.decisionDeadline = b.receipt.deadline
  BY <1>1, RecordOfProven, BundleParts
<1>3. VerifyRequestTx(b.requestTx, b.request.id, RequestHash(b.request), PolicyHash(b.policy),
                      b.receipt.observedAt, b.receipt.observedAt, b.receipt.deadline)
  BY <1>1, BundleParts DEF RequestProof, VerifyRequestTx
<1>4. ~LateDecision(onChain)
  BY <1>2, BundleParts DEF LateDecision, CInv, DecidedInTime, InTime, SInv, IInv, Typed, TypeOK,
     ChainTypeOK, AnchorRecords
<1>5. CASE b.decision # None
  <2>1. DecisionProof(b, record, mined)
    BY <1>5 DEF Proven
  <2>2. ~ChainMismatch(b, onChain)
    BY <1>2, <1>5, <2>1, BundleParts DEF ChainMismatch, DecisionHashOf, DecisionProof
  <2>3. VerifyDecisionTx(b.decisionTx, b.request.id, DecisionHash(b.decision),
                         onChain.decisionAnchoredAt)
    BY <2>1, BundleParts DEF DecisionProof, VerifyDecisionTx
  <2>4. ~UnanchoredReference(b, onChain)
    BY <1>2, <1>3, <2>3 DEF UnanchoredReference
  <2>5. QED
    BY <1>1, <1>4, <1>5, <2>2, <2>4 DEF Judgement, Coherent
<1>6. CASE b.decision = None
  <2>1. ChainMismatch(b, onChain) = (onChain.decisionHash # None)
    BY <1>2, <1>6 DEF ChainMismatch, DecisionHashOf
  <2>2. ~UnanchoredReference(b, onChain)
    BY <1>2, <1>3, <1>6 DEF UnanchoredReference
  <2>3. QED
    BY <1>1, <1>4, <1>6, <2>1, <2>2 DEF Judgement, Coherent
<1>7. QED
  BY <1>5, <1>6

\* Evidence that passes every check is proven, whoever presented it.
LEMMA ProvenByJudgement ==
  ASSUME CInv, NEW b \in Bundles,
         Judgement(b, record[b.request.id]) \in {"VERIFIED", "UNDECIDED"}
  PROVE  /\ Proven(b)
         /\ Judgement(b, record[b.request.id]) = "VERIFIED" => b.decision # None
         /\ Judgement(b, record[b.request.id]) = "UNDECIDED" =>
              b.decision = None /\ record[b.request.id].decisionHash = None
<1> DEFINE onChain == record[b.request.id]
<1>1. /\ ~ChainMismatch(b, onChain) /\ Coherent(b) /\ ~UnanchoredReference(b, onChain)
      /\ Judgement(b, onChain) = "VERIFIED" => b.decision # None
      /\ Judgement(b, onChain) = "UNDECIDED" => b.decision = None
  BY DEF Judgement, Coherent
<1>2. /\ onChain.requestHash = RequestHash(b.request) /\ onChain.policyHash = PolicyHash(b.policy)
      /\ onChain.decisionHash = DecisionHashOf(b)
  BY <1>1 DEF ChainMismatch, UnanchoredReference
<1>3. PICK m \in mined :
        /\ m.tx = b.requestTx /\ m.success /\ m.block = b.receipt.observedAt
        /\ b.requestTx.kind = "request" /\ b.requestTx.id = b.request.id
        /\ b.requestTx.hash = RequestHash(b.request)
        /\ b.requestTx.policyHash = PolicyHash(b.policy)
        /\ b.receipt.observedAt = m.block /\ b.receipt.deadline = m.block + Window
  BY <1>1 DEF UnanchoredReference, VerifyRequestTx
<1>4. RequestProof(b, record, mined)
  BY <1>2, <1>3, BundleParts DEF RequestProof
<1>5. ASSUME b.decision # None PROVE DecisionProof(b, record, mined)
  <2>1. onChain.decisionHash = DecisionHash(b.decision) /\ onChain.decisionHash # None
    BY <1>2, <1>5, BundleParts DEF DecisionHashOf
  <2>2. onChain.decisionAnchoredAt # None /\ InTime(onChain)
    BY <2>1, BundleParts DEF CInv, DecidedInTime
  <2>3. b.decisionTx # None
    BY <1>1, <1>5 DEF Coherent, InvalidReference
  <2>4. VerifyDecisionTx(b.decisionTx, b.request.id, DecisionHash(b.decision),
                         onChain.decisionAnchoredAt)
    BY <1>1, <1>5, <2>2, <2>3 DEF UnanchoredReference
  <2>5. QED
    BY <2>1, <2>2, <2>4, BundleParts DEF VerifyDecisionTx, DecisionProof
<1>6. QED
  BY <1>1, <1>2, <1>4, <1>5 DEF Proven, DecisionHashOf

\* What the store holds is proven.
LEMMA StoredIsProven ==
  ASSUME CInv, NEW i \in Ids, bundleRow[i] # None
  PROVE  bundleRow[i] \in Bundles /\ bundleRow[i].request.id = i /\ Proven(bundleRow[i])
  BY DEF CInv, SInv, IInv, StoredProven, Typed, TypeOK, StoreTypeOK, StoredCoherent, Proven,
         BundleId

\* Two proven bundles of one request have one content.
LEMMA ProvenAgree ==
  ASSUME CInv, NEW a \in Bundles, NEW b \in Bundles, a.request.id = b.request.id,
         Proven(a), Proven(b)
  PROVE  /\ PolicyHash(a.policy) = PolicyHash(b.policy)
         /\ RequestHash(a.request) = RequestHash(b.request)
         /\ a.decision # None /\ b.decision # None =>
              DecisionHash(a.decision) = DecisionHash(b.decision)
  BY RecordOfProven, BundleParts DEF Proven, DecisionProof

-----------------------------------------------------------------------------
(* 3. Verdicts                                                              *)

\* No decision was on record when the evidence was examined.
Undecided(v) == stage[v] = "chainTime" \/ verdict[v] \in {"PROCESSING", "MISSING"}

CheckHolds(v) ==
  LET b == evidence[v]
      onChain == record[b.request.id]
      stored == bundleRow[b.request.id]
  IN
  /\ stage[v] # "done" => verdict[v] = None
  /\ stage[v] # "idle" =>
       /\ b # None /\ stored # None /\ (b.decision # None => stored.decision # None)
       /\ ~altered[v] \/ Undecided(v) \/ verdict[v] = "VERIFIED" => Proven(b)
       /\ verdict[v] = "VERIFIED" => b.decision # None
       /\ Undecided(v) =>
            /\ b.decision = None /\ readAt[v] <= time
            /\ seen[v].decisionDeadline = b.receipt.deadline
            /\ onChain.decisionHash # None => onChain.decisionAnchoredAt > readAt[v]
       /\ ~altered[v] /\ verdict[v] # None =>
            /\ verdict[v] # "INVALID"
            /\ verdict[v] = "TAMPERED" => b.decision = None /\ onChain.decisionHash # None
            /\ b.decision # None => verdict[v] = "VERIFIED"

VInv == CInv /\ VerifierTypeOK /\ \A v \in Checks : CheckHolds(v)

\* What a later state keeps of the chain and the store: commitments, decisions with
\* their times, later decisions at later times, and stored evidence.
Later(oldTime, old, oldMined, oldBundles, newTime, new, newMined, newBundles) ==
  /\ oldTime <= newTime
  /\ Extends(old, oldMined, new, newMined)
  /\ \A i \in Ids :
       /\ new[i].decisionHash # None /\ old[i].decisionHash = None =>
            new[i].decisionAnchoredAt > oldTime
       /\ oldBundles[i] # None =>
            /\ newBundles[i] # None
            /\ oldBundles[i].decision # None => newBundles[i].decision # None

\* The contract notes a decision at the block that takes it.
LEMMA MineLater ==
  ASSUME CInv, NEW tx \in mempool, Mine(tx), NEW i \in Ids,
         record'[i].decisionHash # None, record[i].decisionHash = None
  PROVE  record'[i].decisionAnchoredAt > time
<1>1. /\ tx.id \in Ids /\ record \in [Ids -> AnchorRecords] /\ time \in Nat /\ time' = time + 1
  BY DEF CInv, SInv, IInv, Typed, TypeOK, ChainTypeOK, Mine, Txs, RequestTxs, DecisionTxs
<1>2. record[i] \in AnchorRecords
  BY <1>1
<1>3. CASE AnchorRequest(tx, time')
  BY <1>1, <1>3 DEF AnchorRequest
<1>4. CASE AnchorDecision(tx, time') /\ DecisionAccepted(tx, time')
  <2>1. record' = [record EXCEPT ![tx.id].decisionHash = tx.hash,
                                 ![tx.id].decisionAnchoredAt = time']
    BY <1>4 DEF AnchorDecision
  <2>2. CASE i = tx.id
    BY <1>1, <1>2, <2>1, <2>2 DEF AnchorRecords
  <2>3. CASE i # tx.id
    BY <1>1, <2>1, <2>3
  <2>4. QED
    BY <2>2, <2>3
<1>5. CASE AnchorDecision(tx, time') /\ ~DecisionAccepted(tx, time')
  BY <1>5 DEF AnchorDecision
<1>6. QED
  BY <1>3, <1>4, <1>5 DEF Mine

\* Every step of the gateway and its chain leads to a later state.
LEMMA NextLater ==
  ASSUME CInv, [Next]_vars
  PROVE  Later(time, record, mined, bundleRow, time', record', mined', bundleRow')
<1>1. time \in Nat /\ ChainTypeOK /\ StoreTypeOK
  BY DEF CInv, SInv, IInv, Typed, TypeOK, ChainTypeOK
<1>2. ASSUME UNCHANGED <<time, record, mined, bundleRow>>
      PROVE  Later(time, record, mined, bundleRow, time', record', mined', bundleRow')
  BY <1>1, <1>2 DEF Later, Extends
<1>3. CASE UNCHANGED vars
  BY <1>2, <1>3 DEF vars, chainVars, storeVars
<1>4. CASE Chain
  <2>1. bundleRow' = bundleRow
    BY <1>4 DEF Chain, storeVars
  <2>2. CASE MineEmpty
    BY <1>1, <2>1, <2>2 DEF MineEmpty, Later, Extends
  <2>3. ASSUME NEW tx \in mempool, Mine(tx)
        PROVE  Later(time, record, mined, bundleRow, time', record', mined', bundleRow')
    <3>1. time' = time + 1 /\ Extends(record, mined, record', mined')
      BY <1>1, <2>3, MineExtends DEF Mine
    <3>2. QED
      BY <1>1, <2>1, <2>3, <3>1, MineLater DEF Later
  <2>4. QED
    BY <1>4, <2>2, <2>3 DEF Chain
<1>5. ASSUME NEW c \in Calls, Step(c)
      PROVE  Later(time, record, mined, bundleRow, time', record', mined', bundleRow')
  <2>1. UNCHANGED <<time, record, mined>>
    BY <1>5, StepSaves DEF CInv
  <2>2. ASSUME NEW i \in Ids, bundleRow[i] # None
        PROVE  bundleRow'[i] # None /\ (bundleRow[i].decision # None => bundleRow'[i].decision # None)
    <3>1. CASE UNCHANGED bundleRow
      BY <2>2, <3>1
    <3>2. CASE EvidenceGrows
      BY <2>2, <3>2 DEF EvidenceGrows, Grows
    <3>3. QED
      BY <1>5, <3>1, <3>2, StepSaves, SaveEffect DEF CInv
  <2>3. QED
    BY <1>1, <2>1, <2>2 DEF Later, Extends
<1>6. QED
  BY <1>3, <1>4, <1>5 DEF Next

\* Whatever the gateway and the chain do, what a verification established stays.
LEMMA ChecksLast ==
  ASSUME VInv, [Next]_vars, UNCHANGED verifierVars, NEW v \in Checks
  PROVE  CheckHolds(v)'
<1> DEFINE b == evidence[v]
           i == b.request.id
<1>1. /\ UNCHANGED <<stage, evidence, seen, readAt, altered, verdict>>
      /\ CheckHolds(v) /\ evidence[v] \in Bundles \union {None} /\ readAt[v] \in Nat
      /\ time \in Nat /\ time' \in Nat
  <2>1. CInv'
    BY NextCInv DEF VInv
  <2>2. QED
    BY <2>1 DEF VInv, CInv, SInv, IInv, Typed, TypeOK, ChainTypeOK, VerifierTypeOK, verifierVars
<1>2. Later(time, record, mined, bundleRow, time', record', mined', bundleRow')
  BY NextLater DEF VInv
<1>3. CASE stage[v] = "idle"
  BY <1>1, <1>3 DEF CheckHolds
<1>4. CASE stage[v] # "idle"
  <2>1. b # None /\ b \in Bundles /\ i \in Ids /\ bundleRow[i] # None
        /\ (b.decision # None => bundleRow[i].decision # None)
    BY <1>1, <1>4, BundleParts DEF CheckHolds
  <2>2. bundleRow'[i] # None /\ (b.decision # None => bundleRow'[i].decision # None)
    BY <1>2, <2>1 DEF Later
  <2>3. Proven(b) => Coherent(b) /\ RequestProof(b, record', mined')
                     /\ (b.decision # None => DecisionProof(b, record', mined'))
    BY <1>2, <2>1, RequestStaysProven, DecisionStaysProven DEF Proven, Later
  <2>4. ASSUME Proven(b), record[i].decisionHash # None PROVE record'[i] = record[i]
    <3>1. record[i].requestHash # None
      BY <2>1, <2>4, BundleParts DEF Proven, RequestProof
    <3>2. QED
      BY <1>2, <2>1, <2>4, <3>1 DEF Later, Extends
  <2>5. ASSUME Undecided(v), record'[i].decisionHash # None
        PROVE  record'[i].decisionAnchoredAt > readAt[v]
    <3>1. Proven(b) /\ readAt[v] <= time
          /\ (record[i].decisionHash # None => record[i].decisionAnchoredAt > readAt[v])
      BY <1>1, <1>4, <2>5 DEF CheckHolds
    <3>2. CASE record[i].decisionHash # None
      BY <2>4, <3>1, <3>2
    <3>3. CASE record[i].decisionHash = None
      <4>1. record'[i].decisionAnchoredAt > time
        BY <1>2, <2>1, <2>5, <3>3 DEF Later
      <4>2. record'[i].decisionAnchoredAt \in Nat
        <5>1. CInv'
          BY NextCInv DEF VInv
        <5>2. record'[i] \in AnchorRecords
          BY <2>1, <5>1 DEF CInv, SInv, IInv, Typed, TypeOK, ChainTypeOK
        <5>3. record'[i].decisionAnchoredAt # None
          BY <2>1, <2>5, <5>1 DEF CInv, DecidedInTime
        <5>4. QED
          BY <5>2, <5>3 DEF AnchorRecords
      <4>3. QED
        BY <1>1, <3>1, <4>1, <4>2
    <3>4. QED
      BY <3>2, <3>3
  <2>6. ASSUME ~altered[v], verdict[v] = "TAMPERED" PROVE record'[i].decisionHash # None
    <3>1. verdict[v] # None
      BY <2>6, StatusesAssumption DEF Statuses
    <3>2. Proven(b) /\ record[i].decisionHash # None
      BY <1>1, <1>4, <2>6, <3>1 DEF CheckHolds
    <3>3. QED
      BY <2>4, <3>2
  <2>7. time <= time'
    BY <1>2 DEF Later
  <2>8. QED
    BY <1>1, <1>4, <2>1, <2>2, <2>3, <2>5, <2>6, <2>7 DEF CheckHolds, Undecided, Proven
<1>5. QED
  BY <1>3, <1>4

-----------------------------------------------------------------------------
(* The steps of a verification                                              *)

\* An altered copy is still a bundle for the same request, and has a decision only
\* if the original had one.
LEMMA AlterationType ==
  ASSUME NEW b \in Bundles, NEW a \in Alterations(b)
  PROVE  a \in Bundles /\ a.request.id = b.request.id /\ (a.decision # None => b.decision # None)
<1>1. /\ b.policy \in Policies /\ b.request \in Requests /\ b.decision \in Decisions \union {None}
  BY DEF Bundles
<1>2. CASE \E l \in Limits : a = TamperedCopy(b, l)
  <2>1. PICK l \in Limits : a = TamperedCopy(b, l)
    BY <1>2
  <2>2. DEFINE p == [b.policy EXCEPT !.limit = l]
               d == IF b.decision = None THEN None
                    ELSE [b.decision EXCEPT !.reason = "LIMIT_EXCEEDED"]
  <2>3. a = [b EXCEPT !.policy = p, !.decision = d]
    BY <2>1 DEF TamperedCopy, Bundles
  <2>4. p \in Policies
    BY <1>1 DEF Policies
  <2>5. d \in Decisions \union {None} /\ (d # None => b.decision # None)
    BY <1>1 DEF Decisions, Reasons
  <2> HIDE DEF p, d
  <2>6. QED
    BY <2>3, <2>4, <2>5 DEF Bundles
<1>3. CASE \E l \in Limits : a = [b EXCEPT !.policy = CreatePolicy(l, 0)]
  <2>1. PICK l \in Limits : a = [b EXCEPT !.policy = CreatePolicy(l, 0)]
    BY <1>3
  <2>2. CreatePolicy(l, 0) \in Policies
    BY SaltsAssumption DEF CreatePolicy, Policies, Sign, SignaturesOver, Signers
  <2>3. QED
    BY <2>1, <2>2 DEF Bundles
<1>4. CASE \E n \in Amounts : a = [b EXCEPT !.request.amount = n]
  <2>1. PICK n \in Amounts : a = [b EXCEPT !.request.amount = n]
    BY <1>4
  <2>2. DEFINE r == [b.request EXCEPT !.amount = n]
  <2>3. a = [b EXCEPT !.request = r]
    BY <2>1 DEF Bundles
  <2>4. r \in Requests /\ r.id = b.request.id
    BY <1>1 DEF Requests
  <2> HIDE DEF r
  <2>5. QED
    BY <2>3, <2>4 DEF Bundles
<1>5. CASE b.decision # None /\ \E d \in SubmittedDecisions : a = [b EXCEPT !.decision = d]
  BY <1>5, SubmittedDecisionsAssumption DEF Bundles
<1>6. CASE a = [b EXCEPT !.decision = None, !.decisionTx = None]
  BY <1>6 DEF Bundles
<1>7. QED
  BY <1>2, <1>3, <1>4, <1>5, <1>6 DEF Alterations

\* A step of one verification leaves the others as they are.
OnlyCheck(v) ==
  \A o \in Checks \ {v} :
    /\ stage'[o] = stage[o] /\ evidence'[o] = evidence[o] /\ seen'[o] = seen[o]
    /\ readAt'[o] = readAt[o] /\ altered'[o] = altered[o] /\ verdict'[o] = verdict[o]

\* A step of one verification leaves the others as they are.
LEMMA OthersLast ==
  ASSUME VInv, UNCHANGED vars, NEW v \in Checks, OnlyCheck(v), CheckHolds(v)'
  PROVE  \A o \in Checks : CheckHolds(o)'
<1> SUFFICES ASSUME NEW o \in Checks, o # v PROVE CheckHolds(o)'
  OBVIOUS
<1>1. CheckHolds(o) /\ UNCHANGED <<time, record, mined, bundleRow>>
  BY DEF VInv, vars, chainVars, storeVars
<1>2. /\ stage'[o] = stage[o] /\ evidence'[o] = evidence[o] /\ seen'[o] = seen[o]
      /\ readAt'[o] = readAt[o] /\ altered'[o] = altered[o] /\ verdict'[o] = verdict[o]
  BY DEF OnlyCheck
<1>3. QED
  BY <1>1, <1>2 DEF CheckHolds, Undecided, Proven

\* What is presented: the stored evidence, or a copy of it.
LEMMA PresentHolds ==
  ASSUME VInv, NEW v \in Checks, PresentStored(v) \/ PresentAltered(v)
  PROVE  VerifierTypeOK' /\ \A o \in Checks : CheckHolds(o)'
<1> DEFINE Of(i, b, a) == /\ bundleRow[i] # None /\ Present(v, b, a)
                          /\ a \in BOOLEAN /\ (b \in Alterations(bundleRow[i]) \/ b = bundleRow[i])
                          /\ a \/ b = bundleRow[i]
<1>1. PICK i \in Ids : \E b, a : Of(i, b, a)
  <2>1. CASE PresentStored(v)
    <3>1. PICK i \in Ids : bundleRow[i] # None /\ Present(v, bundleRow[i], FALSE)
      BY <2>1 DEF PresentStored
    <3>2. Of(i, bundleRow[i], FALSE)
      BY <3>1
    <3>3. QED
      BY <3>2
  <2>2. CASE PresentAltered(v)
    <3>1. PICK i \in Ids : bundleRow[i] # None
                           /\ \E b \in Alterations(bundleRow[i]) : Present(v, b, TRUE)
      BY <2>2 DEF PresentAltered
    <3>2. PICK b \in Alterations(bundleRow[i]) : Present(v, b, TRUE)
      BY <3>1
    <3>3. Of(i, b, TRUE)
      BY <3>1, <3>2
    <3>4. QED
      BY <3>3
  <2>3. QED
    BY <2>1, <2>2
<1> SUFFICES ASSUME NEW b, NEW a, Of(i, b, a)
             PROVE  VerifierTypeOK' /\ \A o \in Checks : CheckHolds(o)'
  BY <1>1
<1>2. bundleRow[i] \in Bundles /\ bundleRow[i].request.id = i /\ Proven(bundleRow[i])
  BY StoredIsProven DEF VInv
<1>3. b \in Bundles /\ b.request.id = i /\ (b.decision # None => bundleRow[i].decision # None)
  BY <1>2, AlterationType
<1>4. VerifierTypeOK
  BY DEF VInv
<1>5. VerifierTypeOK'
  BY <1>3, <1>4 DEF VerifierTypeOK, Present
<1>6. /\ stage'[v] = "readRecord" /\ stage[v] = "idle" /\ evidence'[v] = b /\ altered'[v] = a
      /\ verdict'[v] = verdict[v] /\ OnlyCheck(v) /\ UNCHANGED vars
  BY <1>4 DEF VerifierTypeOK, Present, OnlyCheck
<1>7. UNCHANGED <<time, record, mined, bundleRow>>
  BY <1>6 DEF vars, chainVars, storeVars
<1>8. verdict[v] = None
  BY <1>6 DEF VInv, CheckHolds
<1>9. b # None
  BY <1>3, RowsAssumption
<1>10. CheckHolds(v)'
  BY <1>2, <1>3, <1>6, <1>7, <1>8, <1>9, StatusesAssumption
     DEF CheckHolds, Undecided, Proven, Statuses
<1>11. QED
  BY <1>5, <1>6, <1>10, OthersLast

\* The record is examined: a status, or the question what time it is.
LEMMA ExamineHolds ==
  ASSUME VInv, NEW v \in Checks, Examine(v)
  PROVE  VerifierTypeOK' /\ \A o \in Checks : CheckHolds(o)'
<1> DEFINE b == evidence[v]
           onChain == record[b.request.id]
           status == Judgement(b, onChain)
<1>1. VerifierTypeOK /\ CheckHolds(v) /\ CInv /\ time \in Nat
  BY DEF VInv, CInv, SInv, IInv, Typed, TypeOK, ChainTypeOK
<1>2. stage[v] = "readRecord" /\ verdict[v] = None /\ b \in Bundles /\ b.request.id \in Ids
  <2>1. stage[v] = "readRecord" /\ b # None
    BY <1>1 DEF Examine, CheckHolds
  <2>2. b \in Bundles
    BY <1>1, <2>1 DEF VerifierTypeOK
  <2>3. QED
    BY <1>1, <2>1, <2>2, BundleParts DEF CheckHolds
<1>3. onChain \in AnchorRecords
  BY <1>1, <1>2 DEF CInv, SInv, IInv, Typed, TypeOK, ChainTypeOK
<1>4. status \in {"VERIFIED", "UNDECIDED", "TAMPERED", "INVALID"}
  BY DEF Judgement
<1>5. /\ UNCHANGED <<vars, evidence, altered>> /\ OnlyCheck(v)
      /\ seen'[v] = onChain /\ readAt'[v] = time
      /\ \/ status # "UNDECIDED" /\ stage'[v] = "done" /\ verdict'[v] = status
         \/ status = "UNDECIDED" /\ stage'[v] = "chainTime" /\ verdict'[v] = None
  BY <1>1, <1>2 DEF Examine, Report, VerifierTypeOK, OnlyCheck
<1>6. VerifierTypeOK'
  BY <1>1, <1>3, <1>4 DEF Examine, Report, VerifierTypeOK, Statuses
<1>7. UNCHANGED <<time, record, mined, bundleRow>>
  BY <1>5 DEF vars, chainVars, storeVars
<1>8. /\ status \in {"VERIFIED", "UNDECIDED"} => Proven(b)
      /\ status = "VERIFIED" => b.decision # None
      /\ status = "UNDECIDED" => b.decision = None /\ onChain.decisionHash = None
                                 /\ onChain.decisionDeadline = b.receipt.deadline
  BY <1>1, <1>2, ProvenByJudgement, RecordOfProven DEF Proven
<1>9. ~altered[v] =>
        /\ Proven(b) /\ status # "INVALID"
        /\ status = "TAMPERED" => b.decision = None /\ onChain.decisionHash # None
        /\ b.decision # None => status = "VERIFIED"
  BY <1>1, <1>2, JudgementOfProven DEF CheckHolds
<1>10. CheckHolds(v)'
  <2>1. None \notin Statuses
    BY StatusesAssumption
  <2> HIDE DEF status
  <2>2. CASE status = "UNDECIDED"
    BY <1>1, <1>2, <1>3, <1>5, <1>7, <1>8, <1>9, <2>1, <2>2
       DEF CheckHolds, Undecided, Proven, Statuses
  <2>3. CASE status # "UNDECIDED"
    BY <1>1, <1>2, <1>4, <1>5, <1>7, <1>8, <1>9, <2>1, <2>3
       DEF CheckHolds, Undecided, Proven, Statuses
  <2>4. QED
    BY <2>2, <2>3
<1>11. QED
  BY <1>5, <1>6, <1>10, OthersLast

\* The last answer, and the errors of the RPC.
LEMMA AnswerHolds ==
  ASSUME VInv, NEW v \in Checks, ReadChainTime(v) \/ VerificationFails(v)
  PROVE  VerifierTypeOK' /\ \A o \in Checks : CheckHolds(o)'
<1>1. /\ VerifierTypeOK /\ CheckHolds(v) /\ UNCHANGED <<vars, evidence, seen, readAt, altered>>
      /\ stage[v] \in {"readRecord", "chainTime"}
  BY DEF VInv, ReadChainTime, VerificationFails
<1>2. UNCHANGED <<time, record, mined, bundleRow>> /\ verdict[v] = None
  BY <1>1 DEF vars, chainVars, storeVars, CheckHolds
<1>3. /\ OnlyCheck(v) /\ VerifierTypeOK' /\ stage'[v] = "done"
      /\ \/ verdict'[v] = None
         \/ stage[v] = "chainTime" /\ verdict'[v] \in {"PROCESSING", "MISSING"}
  BY <1>1, <1>2 DEF ReadChainTime, VerificationFails, Report, VerifierTypeOK, OnlyCheck, Statuses
<1>4. CheckHolds(v)'
  <2>1. None \notin Statuses
    BY StatusesAssumption
  <2>2. CASE verdict'[v] = None
    BY <1>1, <1>2, <1>3, <2>1, <2>2 DEF CheckHolds, Undecided, Proven, Statuses
  <2>3. CASE stage[v] = "chainTime" /\ verdict'[v] \in {"PROCESSING", "MISSING"}
    BY <1>1, <1>2, <1>3, <2>1, <2>3 DEF CheckHolds, Undecided, Proven, Statuses
  <2>4. QED
    BY <1>3, <2>2, <2>3
<1>5. QED
  BY <1>1, <1>3, <1>4, OthersLast

-----------------------------------------------------------------------------
(* The invariant, and the properties                                        *)

\* Initially no verification has begun.
LEMMA InitVInv == VerifierInit => VInv
<1> SUFFICES ASSUME VerifierInit PROVE VInv
  OBVIOUS
<1>1. CInv
  BY InitCInv DEF VerifierInit
<1>2. VerifierTypeOK
  BY DEF VerifierInit, VerifierTypeOK
<1>3. ASSUME NEW v \in Checks PROVE CheckHolds(v)
  BY <1>3 DEF VerifierInit, CheckHolds
<1>4. QED
  BY <1>1, <1>2, <1>3 DEF VInv

\* Every step of the gateway, the chain and a verification keeps the invariant.
LEMMA NextVInv == VInv /\ [VerifierNext]_allVars => VInv'
<1> SUFFICES ASSUME VInv, [VerifierNext]_allVars PROVE VInv'
  OBVIOUS
<1>1. CASE [Next]_vars /\ UNCHANGED verifierVars
  <2>1. CInv'
    BY <1>1, NextCInv DEF VInv
  <2>2. VerifierTypeOK'
    BY <1>1 DEF VInv, VerifierTypeOK, verifierVars
  <2>3. QED
    BY <1>1, <2>1, <2>2, ChecksLast DEF VInv
<1>2. ASSUME NEW v \in Checks, Verify(v) PROVE VInv'
  <2>1. UNCHANGED vars
    BY <1>2 DEF Verify, PresentStored, PresentAltered, Present, Examine, ReadChainTime,
                VerificationFails
  <2>2. CInv'
    BY <2>1, NextCInv DEF VInv
  <2>3. VerifierTypeOK' /\ \A o \in Checks : CheckHolds(o)'
    BY <1>2, PresentHolds, ExamineHolds, AnswerHolds DEF Verify
  <2>4. QED
    BY <2>2, <2>3 DEF VInv
<1>3. QED
  BY <1>1, <1>2 DEF VerifierNext, allVars

\* The invariant holds in every behaviour.
LEMMA VerifierInvariant == VerifierSpec => []VInv
  BY InitVInv, NextVInv, PTL DEF VerifierSpec

\* The types of the verifier's variables.
THEOREM VerifierTypeCorrect == VerifierSpec => []VerifierTypeOK
<1>1. VInv => VerifierTypeOK
  BY DEF VInv
<1>2. QED
  BY <1>1, VerifierInvariant, PTL

\* No approval that was ever published exceeds the limit of the policy that the
\* contract holds for its request, whoever signed the decision and whichever call
\* saved it: submitRequest reads the policy (service.ts:58), submitDecision checks the
\* answer against a stored bundle (101, 110) and saves it several awaits later (138).
THEOREM PublishedApprovalIsWithinLimit ==
  Spec => [](\A i \in Ids :
               LET b == bundleRow[i] IN
               b # None /\ b.decision # None /\ b.decision.verdict = "APPROVE" =>
                 b.request.amount <= b.policy.limit /\ record[i].policyHash = PolicyHash(b.policy))
<1> DEFINE WithinLimit(i) ==
             LET b == bundleRow[i] IN
             b # None /\ b.decision # None /\ b.decision.verdict = "APPROVE" =>
               b.request.amount <= b.policy.limit /\ record[i].policyHash = PolicyHash(b.policy)
<1>1. CInv => \A i \in Ids : WithinLimit(i)
  <2> SUFFICES ASSUME CInv, NEW i \in Ids, bundleRow[i] # None, bundleRow[i].decision # None,
                      bundleRow[i].decision.verdict = "APPROVE"
               PROVE  /\ bundleRow[i].request.amount <= bundleRow[i].policy.limit
                      /\ record[i].policyHash = PolicyHash(bundleRow[i].policy)
    OBVIOUS
  <2> DEFINE b == bundleRow[i]
  <2>1. b \in Bundles /\ b.request.id = i /\ Proven(b)
    BY StoredIsProven
  <2>2. b.request.amount \in Nat /\ b.policy.limit \in Nat
    BY <2>1, AmountsAssumption, LimitsAssumption DEF Bundles, Requests, Policies
  <2>3. MatchesDecisionPolicy(b.request.amount, b.policy.limit, b.decision)
    BY <2>1 DEF Proven, Coherent, PolicyMismatch
  <2>4. b.request.amount <= b.policy.limit
    BY <2>2, <2>3, ApprovalIsWithinLimit
  <2>5. record[i].policyHash = PolicyHash(b.policy)
    BY <2>1, RecordOfProven DEF Proven
  <2>6. QED
    BY <2>4, <2>5
<1>2. Spec => []CInv
  BY InitCInv, NextCInv, PTL DEF Spec
<1>3. QED
  BY <1>1, <1>2, PTL

\* The evidence under verification is a bundle for a stored request.
LEMMA Examined ==
  ASSUME VInv, NEW v \in Checks, verdict[v] # None
  PROVE  /\ stage[v] = "done" /\ evidence[v] \in Bundles /\ evidence[v].request.id \in Ids
         /\ bundleRow[evidence[v].request.id] # None
<1>1. stage[v] = "done" /\ evidence[v] # None /\ bundleRow[evidence[v].request.id] # None
  BY DEF VInv, CheckHolds, VerifierTypeOK
<1>2. evidence[v] \in Bundles
  BY <1>1 DEF VInv, VerifierTypeOK
<1>3. QED
  BY <1>1, <1>2, BundleParts

\* Evidence that was VERIFIED would be verified again at any later moment, and is the
\* evidence the store published and the contract committed to in time; after a MISSING
\* whose record was read after the deadline no decision is anchored.
THEOREM VerdictsAreFinalHolds == VerifierSpec => []VerdictsAreFinal
<1>1. VInv => VerdictsAreFinal
  <2> SUFFICES ASSUME VInv, NEW v \in Checks
               PROVE  LET b == evidence[v]
                          onChain == record[b.request.id]
                          stored == bundleRow[b.request.id]
                      IN
                      /\ verdict[v] = "VERIFIED" =>
                           /\ Judgement(b, onChain) = "VERIFIED"
                           /\ InTime(onChain)
                           /\ PolicyHash(b.policy) = PolicyHash(stored.policy)
                           /\ RequestHash(b.request) = RequestHash(stored.request)
                           /\ DecisionHash(b.decision) = DecisionHash(stored.decision)
                      /\ verdict[v] = "MISSING" /\ readAt[v] > seen[v].decisionDeadline =>
                           onChain.decisionHash = None
    BY DEF VerdictsAreFinal
  <2> DEFINE b == evidence[v]
             onChain == record[b.request.id]
             stored == bundleRow[b.request.id]
  <2>1. CInv /\ CheckHolds(v)
    BY DEF VInv
  <2>2. verdict[v] \in {"VERIFIED", "MISSING"} => verdict[v] # None
    BY StatusesAssumption DEF Statuses
  <2>3. ASSUME verdict[v] = "VERIFIED"
        PROVE  /\ Judgement(b, onChain) = "VERIFIED" /\ InTime(onChain)
               /\ PolicyHash(b.policy) = PolicyHash(stored.policy)
               /\ RequestHash(b.request) = RequestHash(stored.request)
               /\ DecisionHash(b.decision) = DecisionHash(stored.decision)
    <3>1. b \in Bundles /\ stored # None /\ b.request.id \in Ids /\ stage[v] # "idle"
      BY <2>2, <2>3, Examined
    <3>2. Proven(b) /\ b.decision # None /\ stored.decision # None
      BY <2>1, <2>3, <3>1 DEF CheckHolds
    <3>3. Judgement(b, onChain) = "VERIFIED"
      BY <2>1, <3>1, <3>2, JudgementOfProven
    <3>4. InTime(onChain)
      BY <3>1, <3>2, BundleParts DEF Proven, DecisionProof
    <3>5. stored \in Bundles /\ stored.request.id = b.request.id /\ Proven(stored)
      BY <2>1, <3>1, StoredIsProven
    <3>6. QED
      BY <2>1, <3>1, <3>2, <3>3, <3>4, <3>5, ProvenAgree
  <2>4. ASSUME verdict[v] = "MISSING", readAt[v] > seen[v].decisionDeadline,
               onChain.decisionHash # None
        PROVE  FALSE
    <3>1. b \in Bundles /\ b.request.id \in Ids /\ stage[v] # "idle"
      BY <2>2, <2>4, Examined
    <3>2. /\ Proven(b) /\ seen[v].decisionDeadline = b.receipt.deadline
          /\ onChain.decisionAnchoredAt > readAt[v]
      BY <2>1, <2>4, <3>1 DEF CheckHolds, Undecided
    <3>3. onChain.decisionDeadline = b.receipt.deadline
      BY <2>1, <3>1, <3>2, RecordOfProven DEF Proven
    <3>4. onChain.decisionAnchoredAt # None /\ onChain.decisionAnchoredAt <= onChain.decisionDeadline
      BY <2>1, <2>4, <3>1 DEF CInv, DecidedInTime, InTime
    <3>5. onChain.decisionAnchoredAt \in Nat /\ onChain.decisionDeadline \in Nat /\ readAt[v] \in Nat
      <4>1. onChain \in AnchorRecords
        BY <2>1, <3>1 DEF CInv, SInv, IInv, Typed, TypeOK, ChainTypeOK
      <4>2. QED
        BY <3>4, <4>1 DEF AnchorRecords, VInv, VerifierTypeOK
    <3>6. QED
      BY <2>4, <3>2, <3>3, <3>4, <3>5
  <2>5. QED
    BY <2>3, <2>4
<1>2. QED
  BY <1>1, VerifierInvariant, PTL

\* Evidence the store published is never INVALID, is TAMPERED only while it lacks a
\* decision that is anchored already, and is VERIFIED once it has its decision.
THEOREM StoredEvidenceIsBelievedHolds == VerifierSpec => []StoredEvidenceIsBelieved
<1>1. VInv => StoredEvidenceIsBelieved
  <2> SUFFICES ASSUME VInv, NEW v \in Checks, verdict[v] # None, ~altered[v]
               PROVE  IF evidence[v].decision # None THEN verdict[v] = "VERIFIED"
                      ELSE \/ verdict[v] \in {"PROCESSING", "MISSING"}
                           \/ /\ verdict[v] = "TAMPERED"
                              /\ record[evidence[v].request.id].decisionHash # None
    BY DEF StoredEvidenceIsBelieved
  <2>1. CheckHolds(v) /\ stage[v] # "idle" /\ verdict[v] \in Statuses
    BY Examined DEF VInv, VerifierTypeOK
  <2>2. QED
    BY <2>1 DEF CheckHolds, Statuses
<1>2. QED
  BY <1>1, VerifierInvariant, PTL

\* What is not called wrong has the request, the policy and the decision that the
\* store published, whatever was altered, and lacks no decision that was anchored when
\* the record was read.
THEOREM AlterationIsNoticedHolds == VerifierSpec => []AlterationIsNoticed
<1>1. VInv => AlterationIsNoticed
  <2> SUFFICES ASSUME VInv, NEW v \in Checks, verdict[v] # None,
                      verdict[v] \in {"VERIFIED", "PROCESSING", "MISSING"}
               PROVE  LET b == evidence[v]
                          stored == bundleRow[b.request.id]
                      IN
                      /\ RequestHash(b.request) = RequestHash(stored.request)
                      /\ PolicyHash(b.policy) = PolicyHash(stored.policy)
                      /\ b.decision # None =>
                           /\ stored.decision # None
                           /\ DecisionHash(b.decision) = DecisionHash(stored.decision)
                      /\ b.decision # None \/ record[b.request.id].decisionHash = None
                           \/ record[b.request.id].decisionAnchoredAt > readAt[v]
    BY DEF AlterationIsNoticed
  <2> DEFINE b == evidence[v]
             stored == bundleRow[b.request.id]
  <2>1. /\ CInv /\ CheckHolds(v) /\ stage[v] # "idle" /\ b \in Bundles
        /\ b.request.id \in Ids /\ stored # None
    BY Examined DEF VInv
  <2>2. Proven(b) /\ (b.decision # None => stored.decision # None)
    BY <2>1 DEF CheckHolds, Undecided
  <2>3. stored \in Bundles /\ stored.request.id = b.request.id /\ Proven(stored)
    BY <2>1, StoredIsProven
  <2>4. /\ RequestHash(b.request) = RequestHash(stored.request)
        /\ PolicyHash(b.policy) = PolicyHash(stored.policy)
        /\ b.decision # None =>
             stored.decision # None /\ DecisionHash(b.decision) = DecisionHash(stored.decision)
    BY <2>1, <2>2, <2>3, ProvenAgree
  <2>5. b.decision # None \/ record[b.request.id].decisionHash = None
           \/ record[b.request.id].decisionAnchoredAt > readAt[v]
    BY <2>1 DEF CheckHolds, Undecided
  <2>6. QED
    BY <2>4, <2>5
<1>2. QED
  BY <1>1, VerifierInvariant, PTL
=============================================================================
