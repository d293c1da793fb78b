---------------------------- MODULE AnchorRecovery ----------------------------
(***************************************************************************)
(* recoverRequestAnchor (anchorClient.ts): the block that anchored a       *)
(* request is found again by a binary search for the timestamp that the    *)
(* contract recorded, one getBlock at a time, while the chain grows.       *)
(*                                                                         *)
(* The timestamps of a chain strictly increase.  The block number that the *)
(* search starts from may be old: the client caches it, and the nodes      *)
(* behind one RPC address lag.                                             *)
(***************************************************************************)
EXTENDS Integers

CONSTANTS
  Gaps,       \* what timestamps may increase by from a block to the next
  MaxHeight,  \* bound: the last block of a behaviour, and the most that probes counts
  None

ASSUME GapsAssumption == Gaps \subseteq Nat \ {0}
ASSUME MaxHeightAssumption == MaxHeight \in Nat
ASSUME NoneAssumption == None \notin Nat

VARIABLES
  height,       \* the latest block
  timestamp,    \* of every block up to it
  anchorBlock,  \* the block that emitted RequestAnchored, or None
  stage,        \* where the recovery is
  low, high,    \* the search interval
  head,         \* the block number the search began with
  probes        \* history: the blocks fetched by this search, at most MaxHeight

chain == <<height, timestamp, anchorBlock>>
search == <<stage, low, high, head, probes>>
vars == <<chain, search>>

Init ==
  /\ height = 0
  /\ timestamp = [b \in {0} |-> 1]
  /\ anchorBlock = None
  /\ stage = "idle"
  /\ low = 0 /\ high = 0 /\ head = 0 /\ probes = 0

\* A block, with the request's anchor or without.
NewBlock(gap) ==
  /\ height < MaxHeight
  /\ height' = height + 1
  /\ timestamp' = [b \in 0..height' |-> IF b = height' THEN timestamp[height] + gap
                                        ELSE timestamp[b]]
  /\ anchorBlock' \in IF anchorBlock = None THEN {None, height'} ELSE {anchorBlock}
  /\ UNCHANGED search

\* Mutant of BeginSearch: the interval begins past the latest block.
BeginSearchAhead(number) ==
  /\ stage = "idle"
  /\ anchorBlock # None
  /\ stage' = "search"
  /\ low' = 0
  /\ high' = number + 1
  /\ head' = number + 1
  /\ probes' = 0
  /\ UNCHANGED chain

\* The record says that the request is anchored, and when; the height may be stale.
BeginSearch(number) ==
  /\ stage = "idle"
  /\ anchorBlock # None
  /\ stage' = "search"
  /\ low' = 0
  /\ high' = number
  /\ head' = number
  /\ probes' = 0
  /\ UNCHANGED chain

\* Mutants of Middle: the interval hardly shrinks, and it shrinks too far.
MiddleAtLow == low
MiddleAbove == (low + high) \div 2 + 1

Middle == (low + high) \div 2

\* requestAnchoredAt of the record.
RequestAnchoredAt == timestamp[anchorBlock]

\* Mutant of Below: the block of the timestamp itself is passed over.
NotAbove(block) == timestamp[block] <= RequestAnchoredAt

Below(block) == timestamp[block] < RequestAnchoredAt

Probe ==
  /\ stage = "search"
  /\ low < high
  /\ probes' = IF probes < MaxHeight THEN probes + 1 ELSE probes
  /\ \/ Below(Middle) /\ low' = Middle + 1 /\ UNCHANGED high
     \/ ~Below(Middle) /\ high' = Middle /\ UNCHANGED low
  /\ UNCHANGED <<chain, stage, head>>

\* The event is looked for in the one block that is left.
ReadEvent ==
  /\ stage = "search"
  /\ low >= high
  /\ stage' = IF low = anchorBlock THEN "found" ELSE "failed"
  /\ UNCHANGED <<chain, low, high, head, probes>>

\* An RPC error ends the recovery, and an ended recovery may be tried again.
Retry ==
  /\ stage # "idle"
  /\ stage' = "idle"
  /\ UNCHANGED <<chain, low, high, head, probes>>

Next ==
  \/ \E gap \in Gaps : NewBlock(gap)
  \/ \E number \in 0..height : BeginSearch(number)
  \/ Probe \/ ReadEvent \/ Retry

Spec == Init /\ [][Next]_vars

\* Requests to the RPC endpoint are answered.
FairSpec == Spec /\ WF_vars(Probe) /\ WF_vars(ReadEvent)

-----------------------------------------------------------------------------
(* Properties                                                               *)

\* The types of every variable.
SearchTypeOK ==
  /\ height \in Nat
  /\ timestamp \in [0..height -> Nat]
  /\ anchorBlock \in 0..height \union {None}
  /\ stage \in {"idle", "search", "found", "failed"}
  /\ low \in Nat /\ high \in Nat /\ head \in 0..height /\ probes \in Nat

\* Timestamps strictly increase.
Increasing == \A a, b \in 0..height : a < b => timestamp[a] < timestamp[b]

\* The search never leaves the blocks it knows to exist, and never loses the anchor
\* from its interval unless the anchor is above the height it began with.
AnchorInInterval ==
  stage = "search" =>
    /\ anchorBlock # None
    /\ low <= high /\ high <= head
    /\ anchorBlock <= head => low <= anchorBlock /\ anchorBlock <= high

\* An anchored request is found again, however far the chain has grown; only a
\* height older than the anchor makes the recovery fail, and a retry is then safe
\* (anchorClient.ts:63-77, service.ts:72-74).
FailsOnlyWhenStale == stage = "failed" => anchorBlock > head

\* 2 to the power of n.
Doubled[n \in Nat] == IF n = 0 THEN 1 ELSE 2 * Doubled[n - 1]

\* The scan is bounded: the number of blocks fetched grows with the logarithm of
\* the height (anchorClient.ts:62).
LogarithmicScan == probes > 0 => Doubled[probes - 1] <= head

\* Every search ends.
SearchEnds == (stage = "search") ~> (stage # "search")
=============================================================================
