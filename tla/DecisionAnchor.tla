--------------------------- MODULE DecisionAnchor ---------------------------
(***************************************************************************)
(* The contract DecisionAnchor.sol and the chain it runs on.               *)
(*                                                                         *)
(* Timestamps of blocks strictly increase, so a block is named by its      *)
(* timestamp, and `time` is that of the latest one.  A block carries at    *)
(* most one transaction of the gateway's wallet: the contract distinguishes*)
(* nothing between two transactions of one block and one of the next.      *)
(* A submitted transaction stays in the mempool until a block takes it,    *)
(* possibly never, and executes on the state and timestamp of that block.  *)
(***************************************************************************)
EXTENDS EvidenceRecords

CONSTANTS
  Window,     \* DECISION_WINDOW, 30 seconds in the contract
  MaxTime     \* bound: the last timestamp of a behaviour

ASSUME WindowAssumption == Window \in Nat
ASSUME MaxTimeAssumption == MaxTime \in Nat

VARIABLES
  time,       \* timestamp of the latest block
  record,     \* the contract's records, by request id
  mempool,    \* transactions broadcast and not mined
  mined       \* mined transactions with their receipt: block and status

chainVars == <<time, record, mempool, mined>>

NoRecord == [requestHash |-> None, policyHash |-> None,
             requestAnchoredAt |-> 0, decisionDeadline |-> 0,
             decisionHash |-> None, decisionAnchoredAt |-> None]

ChainInit ==
  /\ time = 1
  /\ record = [i \in Ids |-> NoRecord]
  /\ mempool = {}
  /\ mined = {}

\* `from` identifies the call that broadcasts it: the transaction hash is unique.
RequestTx(from, request) ==
  [kind |-> "request", from |-> from, id |-> request.id,
   hash |-> RequestHash(request), policyHash |-> request.policyHash]

DecisionTx(from, id, hash) ==
  [kind |-> "decision", from |-> from, id |-> id, hash |-> hash, policyHash |-> None]

\* writeContract: the wallet signs and broadcasts.
Broadcast(tx) ==
  /\ mempool' = mempool \union {tx}
  /\ UNCHANGED <<time, record, mined>>

\* anchorRequest's require's, then the decision's.
RequestAccepted(tx) == record[tx.id].requestHash = None

\* Mutant of DecisionAccepted: the deadline is not enforced.
DecisionAcceptedLate(tx, timestamp) ==
  /\ record[tx.id].requestHash # None
  /\ record[tx.id].decisionHash = None

DecisionAccepted(tx, timestamp) ==
  /\ record[tx.id].requestHash # None
  /\ record[tx.id].decisionHash = None
  /\ timestamp <= record[tx.id].decisionDeadline

AnchorRequest(tx, timestamp) ==
  record' = IF RequestAccepted(tx)
            THEN [record EXCEPT ![tx.id] =
                    [requestHash |-> tx.hash, policyHash |-> tx.policyHash,
                     requestAnchoredAt |-> timestamp,
                     decisionDeadline |-> timestamp + Window,
                     decisionHash |-> None, decisionAnchoredAt |-> None]]
            ELSE record

AnchorDecision(tx, timestamp) ==
  record' = IF DecisionAccepted(tx, timestamp)
            THEN [record EXCEPT ![tx.id].decisionHash = tx.hash,
                                ![tx.id].decisionAnchoredAt = timestamp]
            ELSE record

\* The next block takes a transaction: it succeeds or reverts, for good.
Mine(tx) ==
  /\ time < MaxTime
  /\ tx \in mempool
  /\ time' = time + 1
  /\ mempool' = mempool \ {tx}
  /\ \/ /\ tx.kind = "request"
        /\ AnchorRequest(tx, time')
        /\ mined' = mined \union {[tx |-> tx, block |-> time', success |-> RequestAccepted(tx)]}
     \/ /\ tx.kind = "decision"
        /\ AnchorDecision(tx, time')
        /\ mined' = mined \union
             {[tx |-> tx, block |-> time', success |-> DecisionAccepted(tx, time')]}

\* A block without a transaction of ours.
MineEmpty ==
  /\ time < MaxTime
  /\ time' = time + 1
  /\ UNCHANGED <<record, mempool, mined>>

-----------------------------------------------------------------------------
(* What anchorClient.ts reads back.                                         *)

IsMined(tx) == \E m \in mined : m.tx = tx

\* Mutant of Succeeded: a reverted transaction's receipt is taken for a success.
SucceededOrReverted(tx) == IsMined(tx)

Succeeded(tx) == \E m \in mined : m.tx = tx /\ m.success

\* Mutant of RequestAnchorTxs: the search ends one block too far.
NextBlockRequestTxs(id) ==
  {m.tx : m \in {n \in mined :
      /\ n.success /\ n.tx.kind = "request" /\ n.tx.id = id
      /\ n.block = record[id].requestAnchoredAt + 1
      /\ n.tx.hash = record[id].requestHash
      /\ n.tx.policyHash = record[id].policyHash}}

\* recoverRequestAnchor: the transaction whose event is in the block of the
\* committed timestamp (AnchorRecovery models the search for the block).
RequestAnchorTxs(id) ==
  {m.tx : m \in {n \in mined :
      /\ n.success /\ n.tx.kind = "request" /\ n.tx.id = id
      /\ n.block = record[id].requestAnchoredAt
      /\ n.tx.hash = record[id].requestHash
      /\ n.tx.policyHash = record[id].policyHash}}

\* Mutant of DecisionAnchorTxs: any event of the request is taken for its decision.
AnyEventTxs(id, hash, fromBlock) ==
  {m.tx : m \in {n \in mined : n.success /\ n.tx.id = id /\ n.block >= fromBlock}}

\* findDecisionTx: the transactions whose DecisionAnchored event carries the hash.
DecisionAnchorTxs(id, hash, fromBlock) ==
  {m.tx : m \in {n \in mined :
      /\ n.success /\ n.tx.kind = "decision" /\ n.tx.id = id
      /\ n.tx.hash = hash /\ n.block >= fromBlock}}

\* verifyRequestTx: the receipt is successful, in the claimed block, and its
\* event says what the evidence says.
VerifyRequestTx(tx, id, hash, policyHash, block, observedAt, deadline) ==
  \E m \in mined :
    /\ m.tx = tx /\ m.success /\ m.block = block
    /\ tx.kind = "request" /\ tx.id = id /\ tx.hash = hash /\ tx.policyHash = policyHash
    /\ observedAt = m.block /\ deadline = m.block + Window

VerifyDecisionTx(tx, id, hash, anchoredAt) ==
  \E m \in mined :
    /\ m.tx = tx /\ m.success
    /\ tx.kind = "decision" /\ tx.id = id /\ tx.hash = hash
    /\ anchoredAt = m.block
=============================================================================
