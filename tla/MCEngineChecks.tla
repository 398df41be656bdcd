--------------------------- MODULE MCEngineChecks ---------------------------
(* Two fields: one with two checks, of which the first is not supplied, and *)
(* one with one check.                                                      *)
EXTENDS EngineChecks, TLC

TwoFields == {1, 2}
TwoRules == 1 :> {1, 2} @@ 2 :> {1}
FirstMissing == {<<1, 1>>}
=============================================================================
