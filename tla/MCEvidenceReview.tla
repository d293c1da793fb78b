--------------------------- MODULE MCEvidenceReview ---------------------------
(* Two instances, of one deployment or of two with different policies,      *)
(* which race for the policy; a window with a good file, an unreadable one  *)
(* and two cases.                                                           *)
EXTENDS EvidenceReview, TLC

CONSTANTS i1, i2, k1, k2, f1, f2, c1, c2

OneOrTwo == {[i \in {i1, i2} |-> "new"], (i1 :> "new") @@ (i2 :> "old")}
=============================================================================
