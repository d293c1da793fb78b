------------------------------- MODULE Gateway -------------------------------
(***************************************************************************)
(* GatewayService (backend/src/verification/service.ts): every call of     *)
(* submitRequest and submitDecision, from any number of API instances, on  *)
(* one store and one contract.                                             *)
(*                                                                         *)
(* A call is a process.  Each of its actions ends at an await of the code, *)
(* with the read or the write that the await performs; whatever the call   *)
(* read earlier is in its locals and may be stale.  Reads of immutable     *)
(* data (the policy row, the key registry) ride along with the next read.  *)
(* A call that is repeated is another call.                                *)
(***************************************************************************)
EXTENDS DecisionAnchor, EvidenceStore, DecisionPolicy

CONSTANTS
  Calls,                \* the calls of a behaviour
  PolicyLimit,          \* limit of the policy seeded at start-up
  SubmittedOptions,     \* options the requests are submitted with
  SubmittedRequests,    \* what clients post to the request endpoint
  SubmittedDecisions    \* what clients post to the decision endpoint

ASSUME PolicyLimitAssumption == PolicyLimit \in Limits
CallOptions == Options \union {"omitDecision"}

ASSUME SubmittedOptionsAssumption == SubmittedOptions \subseteq CallOptions
ASSUME SubmittedRequestsAssumption == SubmittedRequests \subseteq Requests
ASSUME SubmittedDecisionsAssumption == SubmittedDecisions \subseteq Decisions

VARIABLES
  pc,       \* the await a call is at
  req,      \* the signed request a call handles
  opt,      \* the options of submitRequest
  dec,      \* the decision a call handles
  snap      \* the bundle a call read or built; its answer once it returned

callVars == <<pc, req, opt, dec, snap>>
vars == <<chainVars, storeVars, callVars>>

Finished == {"returned", "failed"}
Awaits == {"getBundle", "readRecord", "recover", "sendRequest", "waitRequest", "saveReceipt",
           "getDecisionBundle", "readDecisionRecord", "chainTime", "sendDecision",
           "waitDecision", "findDecision", "saveDecision"}

Init ==
  /\ ChainInit
  /\ StoreInit(CreatePolicy(PolicyLimit, 0))
  /\ pc = [c \in Calls |-> "idle"]
  /\ req = [c \in Calls |-> None]
  /\ opt = [c \in Calls |-> None]
  /\ dec = [c \in Calls |-> None]
  /\ snap = [c \in Calls |-> None]

At(c, await) == pc[c] = await
Goto(c, to) == pc' = [pc EXCEPT ![c] = to]

\* An error leaves the method: nothing of the call is left but what it wrote.
Throw(c) ==
  /\ Goto(c, "failed")
  /\ req' = [req EXCEPT ![c] = None]
  /\ opt' = [opt EXCEPT ![c] = None]
  /\ dec' = [dec EXCEPT ![c] = None]
  /\ snap' = [snap EXCEPT ![c] = None]

\* The method returns a bundle to its caller.
Return(c, bundle) ==
  /\ Goto(c, "returned")
  /\ snap' = [snap EXCEPT ![c] = bundle]
  /\ req' = [req EXCEPT ![c] = None]
  /\ opt' = [opt EXCEPT ![c] = None]
  /\ UNCHANGED dec

-----------------------------------------------------------------------------
(* submitRequest                                                            *)

BeginRequest(c) ==
  /\ At(c, "idle")
  /\ Goto(c, "getBundle")
  /\ \E r \in SubmittedRequests : req' = [req EXCEPT ![c] = r]
  /\ \E o \in SubmittedOptions : opt' = [opt EXCEPT ![c] = o]
  /\ UNCHANGED <<dec, snap, chainVars, storeVars>>

\* A known request id answers with its bundle, or refuses another request.
GetBundle(c) ==
  LET existing == bundleRow[req[c].id] IN
  /\ At(c, "getBundle")
  /\ \/ /\ existing = None
        /\ Goto(c, "readRecord")
        /\ UNCHANGED <<req, opt, dec, snap>>
     \/ /\ existing # None
        /\ RequestHash(existing.request) = RequestHash(req[c])
        /\ Return(c, existing)
     \/ /\ existing # None
        /\ RequestHash(existing.request) # RequestHash(req[c])
        /\ Throw(c)
  /\ UNCHANGED <<chainVars, storeVars>>

ValidRequest(r) ==
  /\ policyRow # None
  /\ r.policyHash = PolicyHash(policyRow)
  /\ VerifySignature(policyRow.sig, "enterprise", PolicyHash(policyRow))
  /\ VerifySignature(r.sig, "agent", RequestHash(r))

AnchorsThisRequest(r) ==
  /\ record[r.id].requestHash = RequestHash(r)
  /\ record[r.id].policyHash = r.policyHash

\* The contract decides whether to anchor the request or to recover its anchor.
ReadRecord(c) ==
  LET r == req[c]
      anchored == record[r.id].requestHash # None
  IN
  /\ At(c, "readRecord")
  /\ \/ /\ ValidRequest(r) /\ ~anchored
        /\ Goto(c, "sendRequest")
        /\ UNCHANGED <<req, opt, dec, snap>>
     \/ /\ ValidRequest(r) /\ anchored /\ AnchorsThisRequest(r)
        /\ Goto(c, "recover")
        /\ UNCHANGED <<req, opt, dec, snap>>
     \/ /\ ~ValidRequest(r) \/ (anchored /\ ~AnchorsThisRequest(r))
        /\ Throw(c)
  /\ UNCHANGED <<chainVars, storeVars>>

\* createReceipt: the block number is the timestamp in this model.
CreateReceipt(request, tx, observedAt, deadline) ==
  LET content == [id |-> request.id, requestHash |-> RequestHash(request),
                  policyHash |-> request.policyHash, tx |-> tx,
                  observedAt |-> observedAt, deadline |-> deadline]
  IN [id |-> content.id, requestHash |-> content.requestHash,
      policyHash |-> content.policyHash, tx |-> content.tx,
      observedAt |-> content.observedAt, deadline |-> content.deadline,
      sig |-> Sign("verification", content, 0)]

\* The bundle that submitRequest saves once the request is anchored by tx.
PendingBundle(request, tx) ==
  Bundle(policyRow, request,
         CreateReceipt(request, tx, record[request.id].requestAnchoredAt,
                       record[request.id].decisionDeadline),
         None, tx, None)

RecoverRequest(c) ==
  LET txs == RequestAnchorTxs(req[c].id) IN
  /\ At(c, "recover")
  /\ \/ \E tx \in txs :
          /\ Goto(c, "saveReceipt")
          /\ snap' = [snap EXCEPT ![c] = PendingBundle(req[c], tx)]
          /\ UNCHANGED <<req, opt, dec>>
     \/ txs = {} /\ Throw(c)
  /\ UNCHANGED <<chainVars, storeVars>>

SendRequest(c) ==
  /\ At(c, "sendRequest")
  /\ Goto(c, "waitRequest")
  /\ Broadcast(RequestTx(c, req[c]))
  /\ UNCHANGED <<req, opt, dec, snap, storeVars>>

\* waitForTransactionReceipt, its status, and the record read back.
AwaitRequest(c) ==
  LET tx == RequestTx(c, req[c])
      anchored == Succeeded(tx) /\ AnchorsThisRequest(req[c])
  IN
  /\ At(c, "waitRequest")
  /\ IsMined(tx)
  /\ \/ /\ anchored
        /\ Goto(c, "saveReceipt")
        /\ snap' = [snap EXCEPT ![c] = PendingBundle(req[c], tx)]
        /\ UNCHANGED <<req, opt, dec>>
     \/ ~anchored /\ Throw(c)
  /\ UNCHANGED <<chainVars, storeVars>>

\* saveBundle; then the request goes to the institution, unless the caller omits
\* the decision, and its answer is submitted like a decision from outside.
SaveReceipt(c) ==
  /\ At(c, "saveReceipt")
  /\ \/ /\ PersistBundle(snap[c])
        /\ opt[c] = "omitDecision"
        /\ Return(c, snap[c])
     \/ /\ PersistBundle(snap[c])
        /\ opt[c] # "omitDecision"
        /\ DecidableRequest(req[c], snap[c].policy, snap[c].receipt)
        /\ Goto(c, "getDecisionBundle")
        /\ dec' = [dec EXCEPT ![c] = DecideRequest(req[c], snap[c].policy, opt[c])]
        /\ snap' = [snap EXCEPT ![c] = None]
        /\ UNCHANGED <<req, opt>>
     \/ /\ PersistBundle(snap[c])
        /\ opt[c] # "omitDecision"
        /\ ~DecidableRequest(req[c], snap[c].policy, snap[c].receipt)
        /\ Throw(c)
     \/ PersistRaises(snap[c]) /\ Throw(c)
  /\ UNCHANGED chainVars

-----------------------------------------------------------------------------
(* submitDecision                                                           *)

BeginDecision(c) ==
  /\ At(c, "idle")
  /\ Goto(c, "getDecisionBundle")
  /\ \E d \in SubmittedDecisions : dec' = [dec EXCEPT ![c] = d]
  /\ UNCHANGED <<req, opt, snap, chainVars, storeVars>>

\* References, the institution's signature and the amount policy.
ValidDecision(d, b) ==
  /\ d.requestHash = RequestHash(b.request)
  /\ d.policyHash = b.request.policyHash
  /\ VerifySignature(d.sig, "institution", DecisionHash(d))
  /\ MatchesDecisionPolicy(b.request.amount, b.policy.limit, d)

\* The bundle read here is the one the call completes and saves at its end.
GetDecisionBundle(c) ==
  LET b == bundleRow[dec[c].id]
      d == dec[c]
  IN
  /\ At(c, "getDecisionBundle")
  /\ \/ /\ b # None /\ ValidDecision(d, b) /\ b.decision = None
        /\ Goto(c, "readDecisionRecord")
        /\ snap' = [snap EXCEPT ![c] = b]
        /\ UNCHANGED <<req, opt, dec>>
     \/ /\ b # None /\ ValidDecision(d, b) /\ b.decision # None
        /\ DecisionHash(b.decision) = DecisionHash(d)
        /\ Return(c, b)
     \/ /\ \/ b = None
           \/ b # None /\ ~ValidDecision(d, b)
           \/ b # None /\ b.decision # None /\ DecisionHash(b.decision) # DecisionHash(d)
        /\ Throw(c)
  /\ UNCHANGED <<chainVars, storeVars>>

InTime(r) == r.decisionAnchoredAt # None /\ r.decisionAnchoredAt <= r.decisionDeadline

\* The decision is anchored already (recovered), or it has to be.
ReadDecisionRecord(c) ==
  LET r == record[dec[c].id]
      known == r.requestHash = RequestHash(snap[c].request)
      recovered == r.decisionHash = DecisionHash(dec[c])
  IN
  /\ At(c, "readDecisionRecord")
  /\ \/ /\ known /\ recovered /\ InTime(r)
        /\ Goto(c, "findDecision")
        /\ UNCHANGED <<req, opt, dec, snap>>
     \/ /\ known /\ ~recovered
        /\ Goto(c, "chainTime")
        /\ UNCHANGED <<req, opt, dec, snap>>
     \/ /\ ~known \/ (recovered /\ ~InTime(r))
        /\ Throw(c)
  /\ UNCHANGED <<chainVars, storeVars>>

\* The deadline read with the record is compared with the latest block.  The
\* deadline of an anchored request never changes.
CheckDeadline(c) ==
  LET late == time > record[dec[c].id].decisionDeadline IN
  /\ At(c, "chainTime")
  /\ \/ /\ ~late
        /\ Goto(c, "sendDecision")
        /\ UNCHANGED <<req, opt, dec, snap>>
     \/ late /\ Throw(c)
  /\ UNCHANGED <<chainVars, storeVars>>

SendDecision(c) ==
  /\ At(c, "sendDecision")
  /\ Goto(c, "waitDecision")
  /\ Broadcast(DecisionTx(c, dec[c].id, DecisionHash(dec[c])))
  /\ UNCHANGED <<req, opt, dec, snap, storeVars>>

Completed(bundle, decision, tx) ==
  [bundle EXCEPT !.decision = decision, !.decisionTx = tx]

AwaitDecision(c) ==
  LET d == dec[c]
      tx == DecisionTx(c, d.id, DecisionHash(d))
      anchored == Succeeded(tx) /\ record[d.id].decisionHash = DecisionHash(d)
  IN
  /\ At(c, "waitDecision")
  /\ IsMined(tx)
  /\ \/ /\ anchored
        /\ Goto(c, "saveDecision")
        /\ snap' = [snap EXCEPT ![c] = Completed(@, d, tx)]
        /\ UNCHANGED <<req, opt, dec>>
     \/ ~anchored /\ Throw(c)
  /\ UNCHANGED <<chainVars, storeVars>>

FindDecision(c) ==
  LET d == dec[c]
      txs == DecisionAnchorTxs(d.id, DecisionHash(d), snap[c].receipt.observedAt)
  IN
  /\ At(c, "findDecision")
  /\ \/ \E tx \in txs :
          /\ Goto(c, "saveDecision")
          /\ snap' = [snap EXCEPT ![c] = Completed(@, d, tx)]
          /\ UNCHANGED <<req, opt, dec>>
     \/ txs = {} /\ Throw(c)
  /\ UNCHANGED <<chainVars, storeVars>>

\* Mutant of SaveDecision: a refused save is answered like a committed one.
SaveDecisionIgnoringRefusal(c) ==
  /\ At(c, "saveDecision")
  /\ PersistBundle(snap[c]) \/ PersistRaises(snap[c])
  /\ Return(c, snap[c])
  /\ UNCHANGED chainVars

SaveDecision(c) ==
  /\ At(c, "saveDecision")
  /\ \/ PersistBundle(snap[c]) /\ Return(c, snap[c])
     \/ PersistRaises(snap[c]) /\ Throw(c)
  /\ UNCHANGED chainVars

-----------------------------------------------------------------------------
\* Any await may throw: an RPC or database error, a timeout, a progress callback
\* that cannot save the run; or the process is gone.  What it sent stays sent.
Fail(c) ==
  /\ pc[c] \in Awaits
  /\ Throw(c)
  /\ UNCHANGED <<chainVars, storeVars>>

Step(c) ==
  \/ BeginRequest(c) \/ GetBundle(c) \/ ReadRecord(c) \/ RecoverRequest(c)
  \/ SendRequest(c) \/ AwaitRequest(c) \/ SaveReceipt(c)
  \/ BeginDecision(c) \/ GetDecisionBundle(c) \/ ReadDecisionRecord(c) \/ CheckDeadline(c)
  \/ SendDecision(c) \/ AwaitDecision(c) \/ FindDecision(c) \/ SaveDecision(c)
  \/ Fail(c)

Chain ==
  /\ MineEmpty \/ \E tx \in mempool : Mine(tx)
  /\ UNCHANGED <<storeVars, callVars>>

Next == Chain \/ \E c \in Calls : Step(c)

Spec == Init /\ [][Next]_vars

-----------------------------------------------------------------------------
(* Properties                                                               *)

RequestTxs == [kind : {"request"}, from : Calls, id : Ids, hash : RequestHashes,
               policyHash : Limits]
DecisionTxs == [kind : {"decision"}, from : Calls, id : Ids, hash : DecisionHashes,
                policyHash : {None}]
Txs == RequestTxs \union DecisionTxs

AnchorRecords ==
  [requestHash : RequestHashes \union {None}, policyHash : Limits \union {None},
   requestAnchoredAt : Nat, decisionDeadline : Nat,
   decisionHash : DecisionHashes \union {None}, decisionAnchoredAt : Nat \union {None}]

ReceiptHashes == [id : Ids, requestHash : RequestHashes, policyHash : Limits,
                  tx : RequestTxs, observedAt : Nat, deadline : Nat]
Receipts == [id : Ids, requestHash : RequestHashes, policyHash : Limits, tx : RequestTxs,
             observedAt : Nat, deadline : Nat, sig : SignaturesOver(ReceiptHashes)]
Bundles == [policy : Policies, request : Requests, receipt : Receipts,
            decision : Decisions \union {None},
            requestTx : RequestTxs, decisionTx : DecisionTxs \union {None}]

\* None is no row and no transaction.
ASSUME RowsAssumption == None \notin Receipts \union DecisionTxs \union Bundles

ChainTypeOK ==
  /\ time \in Nat
  /\ record \in [Ids -> AnchorRecords]
  /\ mempool \subseteq Txs
  /\ mined \subseteq [tx : Txs, block : Nat, success : BOOLEAN]

StoreTypeOK ==
  /\ policyRow \in Policies
  /\ requestRow \in [Ids -> Requests \union {None}]
  /\ caseNumber \in [Ids -> Nat]
  /\ nextCase \in Nat
  /\ receiptRow \in [Ids -> Receipts \union {None}]
  /\ decisionRow \in [Ids -> Decisions \union {None}]
  /\ anchorRow \in [Ids -> [requestTx : RequestTxs, decisionTx : DecisionTxs \union {None}]
                           \union {None}]
  /\ bundleRow \in [Ids -> Bundles \union {None}]

CallTypeOK ==
  /\ pc \in [Calls -> Awaits \union Finished \union {"idle"}]
  /\ req \in [Calls -> Requests \union {None}]
  /\ opt \in [Calls -> CallOptions \union {None}]
  /\ dec \in [Calls -> Decisions \union {None}]
  /\ snap \in [Calls -> Bundles \union {None}]

\* The types of every variable.
TypeOK == ChainTypeOK /\ StoreTypeOK /\ CallTypeOK

\* A stored bundle's request is the one its contract record commits to, and its
\* receipt names the transaction, block and deadline that committed it, whichever
\* call anchored it and whichever call saved it.
StoredReceiptMatchesChain ==
  \A i \in Ids : bundleRow[i] # None =>
    LET b == bundleRow[i] IN
    /\ record[i].requestHash = RequestHash(b.request)
    /\ VerifyRequestTx(b.requestTx, i, RequestHash(b.request), PolicyHash(b.policy),
                       b.receipt.observedAt, b.receipt.observedAt, b.receipt.deadline)

\* A stored decision is the one the contract holds, committed in time by the
\* transaction that the bundle names: no interleaving of calls, no failure and no
\* retry stores a decision that lost the race for the anchor, or a late one.
StoredDecisionIsAnchored ==
  \A i \in Ids : bundleRow[i] # None /\ bundleRow[i].decision # None =>
    LET b == bundleRow[i] IN
    /\ record[i].decisionHash = DecisionHash(b.decision)
    /\ InTime(record[i])
    /\ VerifyDecisionTx(b.decisionTx, i, DecisionHash(b.decision),
                        record[i].decisionAnchoredAt)

\* Whatever failed between anchoring and saving, evidence whose hash is on chain
\* can still be saved: the rows that a retry with the same record meets never
\* conflict with the bundle it rebuilds (service.ts:69-74, 116-131).
AnchoredIsRecoverable ==
  \A i \in Ids :
    /\ bundleRow[i] = None =>
         \A r \in SubmittedRequests : r.id = i /\ ValidRequest(r) /\ AnchorsThisRequest(r) =>
           \E tx \in RequestAnchorTxs(i) : ~PersistRefused(PendingBundle(r, tx))
    /\ bundleRow[i] # None /\ bundleRow[i].decision = None =>
         \A d \in SubmittedDecisions : d.id = i /\ record[i].decisionHash = DecisionHash(d) =>
           \E tx \in DecisionAnchorTxs(i, DecisionHash(d), bundleRow[i].receipt.observedAt) :
             ~PersistRefused(Completed(bundleRow[i], d, tx))

\* What a call answered is, and stays, what the store holds: the same request and
\* receipt, and the decision that was answered; a caller that was told of its
\* decision finds that decision.
AnswerIsStored ==
  \A c \in Calls : pc[c] = "returned" =>
    LET answer == snap[c]
        stored == bundleRow[BundleId(answer)]
    IN
    /\ stored # None
    /\ answer.request = stored.request /\ answer.receipt = stored.receipt
    /\ answer.decision # None => answer = stored
    /\ dec[c] # None => /\ answer.decision # None
                        /\ DecisionHash(answer.decision) = DecisionHash(dec[c])

\* The per-kind tables and the bundle are written by one transaction and agree.
TablesAgree ==
  \A i \in Ids :
    IF bundleRow[i] = None
    THEN requestRow[i] = None /\ receiptRow[i] = None /\ decisionRow[i] = None
         /\ anchorRow[i] = None
    ELSE LET b == bundleRow[i] IN
         /\ BundleId(b) = i
         /\ policyRow = b.policy /\ requestRow[i] = b.request /\ receiptRow[i] = b.receipt
         /\ decisionRow[i] = b.decision
         /\ anchorRow[i] = [requestTx |-> b.requestTx, decisionTx |-> b.decisionTx]
         /\ (b.decision = None) = (b.decisionTx = None)

\* Stored evidence only grows: a step may add the decision to a bundle and may do
\* nothing else to it, although every save overwrites the row with a bundle that
\* its call read or built earlier (service.ts:101, 135).
EvidenceOnlyGrows ==
  [][\A i \in Ids : bundleRow[i] # None /\ bundleRow'[i] # bundleRow[i] =>
       /\ bundleRow[i].decision = None
       /\ bundleRow'[i] # None
       /\ bundleRow'[i].decision # None
       /\ bundleRow'[i] = Completed(bundleRow[i], bundleRow'[i].decision,
                                    bundleRow'[i].decisionTx)]_vars

-----------------------------------------------------------------------------
(* The gateway, the contract and the store together implement the lifecycle *)
(* of evidence.                                                             *)

Committed(i) ==
  IF record[i].requestHash = None THEN None
  ELSE [content |-> record[i].requestHash, deadline |-> record[i].decisionDeadline]

Published(i) ==
  IF bundleRow[i] = None THEN None
  ELSE [request |-> RequestHash(bundleRow[i].request),
        decision |-> IF bundleRow[i].decision = None THEN None
                     ELSE DecisionHash(bundleRow[i].decision)]

\* None is no value of the two.
ASSUME LifecycleNoneAssumption ==
  None \notin [content : RequestHashes, deadline : Nat]
            \union [request : RequestHashes, decision : DecisionHashes \union {None}]

Evidence == INSTANCE EvidenceLifecycle WITH
  Keys <- Ids,
  RequestContents <- RequestHashes,
  DecisionContents <- DecisionHashes,
  DecisionWindow <- Window,
  Nothing <- None,
  clock <- time,
  committed <- [i \in Ids |-> Committed(i)],
  decided <- [i \in Ids |-> record[i].decisionHash],
  published <- [i \in Ids |-> Published(i)]

\* Every behaviour of the calls, the chain and the tables is one the evidence
\* lifecycle allows.
ImplementsLifecycle == Evidence!Lifecycle
=============================================================================
