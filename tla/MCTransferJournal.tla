-------------------------- MODULE MCTransferJournal --------------------------
(* Two invocations that send, with one or two intent files, one that        *)
(* verifies, and one more transaction of the wallet.                        *)
EXTENDS TransferJournal, TLC

CONSTANTS p1, p2, v1, o1, j1, j2

TwoRuns == {p1, p2}
TwoJournals == {j1, j2}
Symmetric == Permutations(TwoRuns) \union Permutations(TwoJournals)
=============================================================================
