----------------------------- MODULE MCFillPane -----------------------------
(* Instances of FillPane for TLC. *)
EXTENDS FillPane, TLC
=============================================================================
