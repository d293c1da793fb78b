----------------------------- MODULE MCRunControl -----------------------------
(***************************************************************************)
(* Instances of RunControl for TLC.                                        *)
(***************************************************************************)
EXTENDS RunControl, TLC

CONSTANTS a1, a2, r1, r2

TwoInstances == {a1, a2}
TwoRuns == {r1, r2}
Symmetric == Permutations(TwoRuns) \union Permutations(TwoInstances)
=============================================================================
