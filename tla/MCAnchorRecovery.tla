--------------------------- MODULE MCAnchorRecovery ---------------------------
(***************************************************************************)
(* Instances of AnchorRecovery for TLC: gaps of one and two seconds.       *)
(***************************************************************************)
EXTENDS AnchorRecovery
=============================================================================
