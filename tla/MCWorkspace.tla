----------------------------- MODULE MCWorkspace -----------------------------
(* API: a case whose run is about to end, and one that a test request may  *)
(* create.  Mock: a case that waits for its decision, and a settled one.   *)
EXTENDS Workspace, TLC

CONSTANTS c1, c2

BothRepositories ==
  [api |-> (c1 :> Running) @@ (c2 :> Unknown), mock |-> (c1 :> Processing) @@ (c2 :> Settled)]
=============================================================================
