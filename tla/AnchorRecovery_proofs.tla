------------------------ MODULE AnchorRecovery_proofs ------------------------
(***************************************************************************)
(* Proofs about AnchorRecovery, for every set of gaps and every height.    *)
(* The inductive invariant adds to the type invariant that timestamps      *)
(* strictly increase, which makes the comparison of a timestamp with the   *)
(* recorded one a comparison of block numbers, and that the interval of a  *)
(* running search encloses the anchor unless the anchor is above the head. *)
(* For the length of a search it adds that every probe halves the          *)
(* interval, so as many doublings still fit into the chain.                *)
(***************************************************************************)
EXTENDS AnchorRecovery, WellFoundedInduction, TLAPS

-----------------------------------------------------------------------------
(* Powers of two.  A recursive function is what its equation says: tables    *)
(* of its first values exist and agree, by the least number for which they   *)
(* would not.                                                                *)

\* A set of numbers that is not empty has a least one.
LEMMA LeastNumber ==
  ASSUME NEW T \in SUBSET Nat, T # {}
  PROVE  \E m \in T : \A k \in T : m <= k
<1> DEFINE R == {p \in Nat \X Nat : p[1] < p[2]}
<1>1. IsWellFoundedOn(OpToRel(<, Nat), Nat)
  BY NatLessThanWellFounded
<1>2. OpToRel(<, Nat) = R
  BY DEF OpToRel
<1>3. PICK x \in T : \A y \in T : ~(<<y, x>> \in R)
  BY <1>1, <1>2, WFMin
<1>4. \A y \in T : ~(y < x)
  <2> SUFFICES ASSUME NEW y \in T, y < x PROVE <<y, x>> \in R
    BY <1>3
  <2>1. <<y, x>> \in Nat \X Nat /\ <<y, x>>[1] = y /\ <<y, x>>[2] = x
    OBVIOUS
  <2>2. QED
    BY <2>1
<1>5. QED
  BY <1>4

\* A table of the first powers.
Table(g, n) == g \in [0 .. n -> Nat] /\ \A i \in 0 .. n : g[i] = IF i = 0 THEN 1 ELSE 2 * g[i - 1]

\* Two tables agree where both have a value.
LEMMA TablesAgree ==
  ASSUME NEW m \in Nat, NEW n \in Nat, NEW g, NEW h, Table(g, m), Table(h, n),
         NEW i \in Nat, i <= m, i <= n
  PROVE  g[i] = h[i]
<1> DEFINE T == {k \in 0 .. i : g[k] # h[k]}
<1> SUFFICES ASSUME g[i] # h[i] PROVE FALSE
  OBVIOUS
<1>1. T \in SUBSET Nat /\ i \in T
  OBVIOUS
<1>2. PICK k \in T : \A l \in T : k <= l
  BY <1>1, LeastNumber
<1>3. k # 0
  BY DEF Table
<1>4. k - 1 \in 0 .. i /\ k - 1 \notin T
  BY <1>2, <1>3
<1>5. QED
  BY <1>3, <1>4 DEF Table

\* There is a table of any length.
LEMMA TableExists ==
  ASSUME NEW n \in Nat
  PROVE  \E g : Table(g, n)
<1> DEFINE T == {k \in Nat : ~\E g : Table(g, k)}
<1> SUFFICES ASSUME n \in T PROVE FALSE
  OBVIOUS
<1>1. PICK k \in T : \A l \in T : k <= l
  BY LeastNumber
<1>2. CASE k = 0
  <2>1. Table([i \in 0 .. 0 |-> 1], 0)
    BY DEF Table
  <2>2. QED
    BY <1>2, <2>1
<1>3. CASE k > 0
  <2>1. k - 1 \in Nat /\ k - 1 \notin T
    BY <1>1, <1>3
  <2>2. PICK g : Table(g, k - 1)
    BY <2>1
  <2>3. Table([i \in 0 .. k |-> IF i = k THEN 2 * g[k - 1] ELSE g[i]], k)
    BY <1>3, <2>1, <2>2 DEF Table
  <2>4. QED
    BY <2>3
<1>4. QED
  BY <1>2, <1>3

\* So the function that has the last value of every table solves the equation.
LEMMA DoubledDef ==
  /\ Doubled[0] = 1 
  /\ \A n \in Nat : Doubled[n] \in Nat /\ Doubled[n + 1] = 2 * Doubled[n]
<1> DEFINE table(n) == CHOOSE g : Table(g, n)
           f == [n \in Nat |-> table(n)[n]]
<1>1. \A n \in Nat : Table(table(n), n)
  BY TableExists
<1>2. ASSUME NEW n \in Nat PROVE f[n] \in Nat /\ f[n] = IF n = 0 THEN 1 ELSE 2 * f[n - 1]
  <2>1. f[n] = table(n)[n] /\ Table(table(n), n)
    BY <1>1
  <2>2. CASE n = 0
    BY <2>1, <2>2 DEF Table
  <2>3. CASE n > 0
    <3>1. n - 1 \in Nat /\ f[n - 1] = table(n - 1)[n - 1] /\ Table(table(n - 1), n - 1)
      BY <1>1, <2>3
    <3> HIDE DEF table, f
    <3>2. table(n)[n - 1] = table(n - 1)[n - 1]
      BY <2>1, <3>1, TablesAgree
    <3>3. QED
      BY <2>1, <2>3, <3>1, <3>2 DEF Table
  <2>4. QED
    BY <2>2, <2>3
<1>3. f = [n \in Nat |-> IF n = 0 THEN 1 ELSE 2 * f[n - 1]]
  <2> HIDE DEF table
  <2>1. f = [n \in Nat |-> f[n]]
    OBVIOUS
  <2> HIDE DEF f
  <2>2. QED
    BY <1>2, <2>1
<1> HIDE DEF f
<1>4. Doubled = [n \in Nat |-> IF n = 0 THEN 1 ELSE 2 * Doubled[n - 1]]
  BY <1>3 DEF Doubled
<1>5. \A n \in Nat : Doubled[n] = IF n = 0 THEN 1 ELSE 2 * Doubled[n - 1]
  BY <1>4
<1>6. ASSUME NEW n \in Nat PROVE Doubled[n] \in Nat
  <2> DEFINE T == {k \in Nat : Doubled[k] \notin Nat}
  <2> SUFFICES ASSUME n \in T PROVE FALSE
    OBVIOUS
  <2>1. PICK k \in T : \A l \in T : k <= l
    BY LeastNumber
  <2>2. k # 0
    BY <1>5
  <2>3. k - 1 \in Nat /\ k - 1 \notin T
    BY <2>1, <2>2
  <2>4. QED
    BY <1>5, <2>2, <2>3
<1>7. \A n \in Nat : Doubled[n + 1] = 2 * Doubled[n]
  BY <1>5
<1>8. QED
  BY <1>5, <1>6, <1>7

-----------------------------------------------------------------------------
(* The invariant                                                             *)

IInv == SearchTypeOK /\ Increasing /\ AnchorInInterval /\ FailsOnlyWhenStale

\* The middle of a proper interval lies in it, below its upper end: both halves are
\* smaller than the interval, and no block beyond the head is fetched.
LEMMA MiddleBetween ==
  ASSUME low \in Nat, high \in Nat, low < high
  PROVE  /\ Middle \in Nat
         /\ low <= Middle /\ Middle < high
  BY DEF Middle

\* With strictly increasing timestamps a block is below the recorded time exactly
\* when it is below the anchor's block.
LEMMA BelowIsBefore ==
  ASSUME SearchTypeOK, Increasing, anchorBlock # None, NEW b \in 0..height
  PROVE  Below(b) <=> b < anchorBlock
<1>1. anchorBlock \in 0..height /\ anchorBlock \in Nat /\ b \in Nat
  BY DEF SearchTypeOK
<1>2. timestamp[b] \in Nat /\ timestamp[anchorBlock] \in Nat
  BY <1>1 DEF SearchTypeOK
<1>3. CASE b < anchorBlock
  BY <1>1, <1>2, <1>3 DEF Increasing, Below, RequestAnchoredAt
<1>4. CASE b = anchorBlock
  BY <1>1, <1>2, <1>4 DEF Below, RequestAnchoredAt
<1>5. CASE anchorBlock < b
  <2>1. timestamp[anchorBlock] < timestamp[b]
    BY <1>1, <1>5 DEF Increasing
  <2>2. QED
    BY <1>1, <1>2, <1>5, <2>1 DEF Below, RequestAnchoredAt
<1>6. QED
  BY <1>1, <1>3, <1>4, <1>5

\* A one-block chain and an idle search satisfy the invariant.
LEMMA InitIInv == Init => IInv
  BY GapsAssumption, MaxHeightAssumption, NoneAssumption
     DEF Init, IInv, SearchTypeOK, Increasing, AnchorInInterval, FailsOnlyWhenStale

\* A block keeps the timestamps increasing, and every number that was known.
LEMMA NewBlockIInv ==
  ASSUME IInv, NEW gap \in Gaps, NewBlock(gap)
  PROVE  IInv'
<1> USE DEF IInv
<1>1. gap \in Nat /\ gap > 0 /\ height \in Nat /\ height' = height + 1 /\ height' \in Nat
  BY GapsAssumption DEF NewBlock, SearchTypeOK
<1>2. \A b \in 0..height : timestamp[b] \in Nat
  BY DEF SearchTypeOK
<1>3. \A b \in 0..height' :
        timestamp'[b] = IF b = height' THEN timestamp[height] + gap ELSE timestamp[b]
  BY DEF NewBlock
<1>4. \A b \in 0..height' : b = height' \/ b \in 0..height
  BY <1>1
<1>5. height \in 0..height /\ timestamp[height] \in Nat
  BY <1>1, <1>2
<1>6. timestamp' \in [0..height' -> Nat]
  <2>1. \A b \in 0..height' :
          (IF b = height' THEN timestamp[height] + gap ELSE timestamp[b]) \in Nat
    BY <1>1, <1>2, <1>4, <1>5
  <2>2. QED
    BY <2>1 DEF NewBlock
<1>7. SearchTypeOK'
  <2>1. anchorBlock' \in 0..height' \union {None}
    BY <1>1 DEF NewBlock, SearchTypeOK
  <2>2. head' \in 0..height'
    BY <1>1 DEF NewBlock, SearchTypeOK, search
  <2>3. QED
    BY <1>1, <1>6, <2>1, <2>2 DEF NewBlock, SearchTypeOK, search
<1>8. Increasing'
  <2> SUFFICES ASSUME NEW a \in 0..height', NEW b \in 0..height', a < b
               PROVE  timestamp'[a] < timestamp'[b]
    BY DEF Increasing
  <2>1. a \in 0..height /\ a # height'
    BY <1>1
  <2>2. timestamp'[a] = timestamp[a] /\ timestamp[a] \in Nat
    BY <1>2, <1>3, <2>1
  <2>3. CASE b # height'
    <3>1. b \in 0..height
      BY <1>4, <2>3
    <3>2. timestamp'[b] = timestamp[b]
      BY <1>3, <2>3
    <3>3. timestamp[a] < timestamp[b]
      BY <2>1, <3>1 DEF Increasing
    <3>4. QED
      BY <2>2, <3>2, <3>3
  <2>4. CASE b = height'
    <3>1. timestamp'[b] = timestamp[height] + gap
      BY <1>3, <2>4
    <3>2. timestamp[a] <= timestamp[height]
      BY <1>1, <1>5, <2>1, <2>2 DEF Increasing
    <3>3. QED
      BY <1>1, <1>5, <2>2, <3>1, <3>2
  <2>5. QED
    BY <2>3, <2>4
\* The anchor of a running search is known already and stays.
<1>9. AnchorInInterval'
  BY <1>1 DEF NewBlock, AnchorInInterval, search
<1>10. FailsOnlyWhenStale'
  <2>1. CASE anchorBlock # None
    BY <2>1 DEF NewBlock, FailsOnlyWhenStale, search
  <2>2. CASE anchorBlock = None
    <3>1. head \in 0..height /\ head < height'
      BY <1>1 DEF SearchTypeOK
    <3>2. QED
      BY <2>2, <3>1 DEF NewBlock, FailsOnlyWhenStale, search
  <2>3. QED
    BY <2>1, <2>2
<1>11. QED
  BY <1>7, <1>8, <1>9, <1>10

\* A search begins with the interval from genesis to a height that may be stale.
LEMMA BeginSearchIInv ==
  ASSUME IInv, NEW number \in 0..height, BeginSearch(number)
  PROVE  IInv'
<1> USE DEF IInv
<1>1. SearchTypeOK'
  BY DEF BeginSearch, SearchTypeOK, chain
<1>2. Increasing'
  BY DEF BeginSearch, Increasing, chain
<1>3. AnchorInInterval'
  BY NoneAssumption DEF BeginSearch, AnchorInInterval, SearchTypeOK, chain
<1>4. FailsOnlyWhenStale'
  BY DEF BeginSearch, FailsOnlyWhenStale
<1>5. QED
  BY <1>1, <1>2, <1>3, <1>4

\* Whichever half a probe keeps, the anchor is in it if it was in the whole.
LEMMA ProbeIInv ==
  ASSUME IInv, Probe
  PROVE  IInv'
<1> USE DEF IInv
<1>1. /\ low \in Nat /\ high \in Nat /\ head \in Nat /\ height \in Nat /\ head <= height
      /\ low < high /\ high <= head /\ anchorBlock # None /\ anchorBlock \in Nat
  BY DEF Probe, AnchorInInterval, SearchTypeOK
<1>2. Middle \in Nat /\ low <= Middle /\ Middle < high
  BY <1>1, MiddleBetween
<1>3. Below(Middle) <=> Middle < anchorBlock
  <2>1. Middle \in 0..height
    BY <1>1, <1>2
  <2>2. QED
    BY <1>1, <2>1, BelowIsBefore
<1>4. \/ Middle < anchorBlock /\ low' = Middle + 1 /\ high' = high
      \/ anchorBlock <= Middle /\ high' = Middle /\ low' = low
  BY <1>1, <1>2, <1>3 DEF Probe
<1>5. /\ stage' = stage /\ anchorBlock' = anchorBlock /\ head' = head
      /\ height' = height /\ timestamp' = timestamp
  BY DEF Probe, chain
<1>6. probes' \in Nat
  BY DEF Probe, SearchTypeOK
<1>7. SearchTypeOK'
  BY <1>1, <1>2, <1>4, <1>5, <1>6 DEF SearchTypeOK
<1>8. Increasing'
  BY <1>5 DEF Increasing
<1>9. AnchorInInterval'
  BY <1>1, <1>2, <1>4, <1>5 DEF AnchorInInterval
<1>10. FailsOnlyWhenStale'
  BY <1>5 DEF FailsOnlyWhenStale
<1>11. QED
  BY <1>7, <1>8, <1>9, <1>10

\* The block that is left is the anchor's, if the anchor was in the interval.
LEMMA ReadEventIInv ==
  ASSUME IInv, ReadEvent
  PROVE  IInv'
<1> USE DEF IInv
<1>1. SearchTypeOK' /\ Increasing' /\ AnchorInInterval'
  BY DEF ReadEvent, SearchTypeOK, Increasing, AnchorInInterval, chain
<1>2. FailsOnlyWhenStale'
  <2> SUFFICES ASSUME low # anchorBlock
               PROVE  anchorBlock > head
    BY DEF ReadEvent, FailsOnlyWhenStale, chain
  <2>1. /\ low \in Nat /\ high \in Nat /\ head \in Nat /\ anchorBlock \in Nat
        /\ low = high
    BY DEF ReadEvent, AnchorInInterval, SearchTypeOK
  <2>2. ~(anchorBlock <= head)
    BY <2>1 DEF ReadEvent, AnchorInInterval
  <2>3. QED
    BY <2>1, <2>2
<1>3. QED
  BY <1>1, <1>2

\* A repeated call forgets the interval of the one before.
LEMMA RetryIInv ==
  ASSUME IInv, Retry
  PROVE  IInv'
  BY DEF IInv, Retry, SearchTypeOK, Increasing, AnchorInInterval, FailsOnlyWhenStale, chain

\* Every step keeps the invariant.
LEMMA IInvInductive == IInv /\ [Next]_vars => IInv'
<1> SUFFICES ASSUME IInv, [Next]_vars PROVE IInv'
  OBVIOUS
<1>1. ASSUME NEW gap \in Gaps, NewBlock(gap) PROVE IInv'
  BY <1>1, NewBlockIInv
<1>2. ASSUME NEW number \in 0..height, BeginSearch(number) PROVE IInv'
  BY <1>2, BeginSearchIInv
<1>3. CASE Probe
  BY <1>3, ProbeIInv
<1>4. CASE ReadEvent
  BY <1>4, ReadEventIInv
<1>5. CASE Retry
  BY <1>5, RetryIInv
<1>6. CASE UNCHANGED vars
  BY <1>6 DEF vars, chain, search, IInv, SearchTypeOK, Increasing, AnchorInInterval,
              FailsOnlyWhenStale
<1>7. QED
  BY <1>1, <1>2, <1>3, <1>4, <1>5, <1>6 DEF Next

\* The invariant holds in every behaviour.
THEOREM IInvInvariant == Spec => []IInv
<1>1. QED
  BY InitIInv, IInvInductive, PTL DEF Spec

\* The interval and the timestamps keep their types: no block beyond the head of the
\* chain is ever fetched.
THEOREM SearchTypeCorrect == Spec => []SearchTypeOK
<1>1. IInv => SearchTypeOK
  BY DEF IInv
<1>2. QED
  BY <1>1, IInvInvariant, PTL

\* The search keeps the anchor in its interval, on a chain of any length and while
\* the chain grows.
THEOREM SearchKeepsAnchor == Spec => []AnchorInInterval
<1>1. IInv => AnchorInInterval
  BY DEF IInv
<1>2. QED
  BY <1>1, IInvInvariant, PTL

\* Recovery fails only when it began from a height older than the anchor.
THEOREM RecoveryIsComplete == Spec => []FailsOnlyWhenStale
<1>1. IInv => FailsOnlyWhenStale
  BY DEF IInv
<1>2. QED
  BY <1>1, IInvInvariant, PTL

-----------------------------------------------------------------------------
(* The length of the scan                                                    *)

\* Every block fetched halves the interval at least: what is left of it and the
\* blocks fetched fit into the height that the search began with.
Halving == stage = "search" => Doubled[probes] * (high - low) <= head

ScanInv == Halving /\ LogarithmicScan

\* Half of an interval, twice.
LEMMA HalfTwice ==
  ASSUME NEW w \in Nat, NEW m \in Nat, NEW n \in Nat, NEW h \in Nat, w * n <= h, 2 * m <= n
  PROVE  (2 * w) * m <= h /\ w * m <= h /\ (n >= 1 => w <= h)
<1>1. w * (2 * m) <= w * n
  BY Z3
<1>2. w * (2 * m) = (2 * w) * m /\ w * m <= (2 * w) * m
  BY Z3
<1>3. n >= 1 => w <= w * n
  BY Z3
<1>4. w * n \in Nat /\ (2 * w) * m \in Nat /\ w * m \in Nat
  BY Z3
<1>5. QED
  BY <1>1, <1>2, <1>3, <1>4

\* A probe doubles the count and halves the interval.
LEMMA ProbeHalves ==
  ASSUME IInv, ScanInv, Probe
  PROVE  ScanInv'
<1> DEFINE n == high - low
           m == high' - low'
           w == Doubled[probes]
<1>1. /\ low \in Nat /\ high \in Nat /\ head \in Nat /\ probes \in Nat
      /\ low < high /\ stage = "search" /\ head' = head /\ stage' = stage
      /\ probes' \in {probes, probes + 1} /\ (probes = 0 /\ probes' = 0 => MaxHeight = 0)
  BY MaxHeightAssumption DEF Probe, IInv, SearchTypeOK
<1>2. m \in Nat /\ n \in Nat /\ n >= 1 /\ 2 * m <= n
  BY <1>1 DEF Probe, Middle
<1>3. w \in Nat /\ Doubled[probes + 1] = 2 * w /\ w * n <= head
  BY <1>1, DoubledDef DEF ScanInv, Halving
<1> HIDE DEF m, n, w
<1>4. (2 * w) * m <= head /\ w * m <= head /\ w <= head
  BY <1>1, <1>2, <1>3, HalfTwice
<1>5. Halving'
  BY <1>1, <1>3, <1>4 DEF Halving, m, w
<1>6. LogarithmicScan'
  BY <1>1, <1>3, <1>4 DEF LogarithmicScan, ScanInv, w
<1>7. QED
  BY <1>5, <1>6 DEF ScanInv

\* Every other step keeps both or begins a search.
LEMMA ScanInductive == IInv /\ ScanInv /\ [Next]_vars => ScanInv'
<1> SUFFICES ASSUME IInv, ScanInv, [Next]_vars PROVE ScanInv'
  OBVIOUS
<1>1. ASSUME NEW number \in 0..height, BeginSearch(number) PROVE ScanInv'
  <2>1. number \in Nat
    BY DEF IInv, SearchTypeOK
  <2>2. low' = 0 /\ high' = number /\ head' = number /\ probes' = 0
    BY <1>1 DEF BeginSearch
  <2>3. QED
    BY <2>1, <2>2, DoubledDef DEF ScanInv, Halving, LogarithmicScan
<1>2. CASE Probe
  BY <1>2, ProbeHalves
<1>3. CASE ReadEvent \/ Retry
  BY <1>3 DEF ReadEvent, Retry, ScanInv, Halving, LogarithmicScan
<1>4. CASE UNCHANGED search
  BY <1>4 DEF search, ScanInv, Halving, LogarithmicScan
<1>5. QED
  BY <1>1, <1>2, <1>3, <1>4 DEF Next, NewBlock, vars

\* A recovery fetches at most one block more than the logarithm of the height it
\* began with, on a chain of any length and while the chain grows.
THEOREM ScanIsLogarithmic == Spec => []LogarithmicScan
<1>1. Init => ScanInv
  BY DoubledDef DEF Init, ScanInv, Halving, LogarithmicScan
<1>2. IInv /\ ScanInv /\ [Next]_vars => ScanInv'
  BY ScanInductive
<1>3. ScanInv => LogarithmicScan
  BY DEF ScanInv
<1>4. QED
  BY <1>1, <1>2, <1>3, IInvInvariant, PTL DEF Spec
=============================================================================
