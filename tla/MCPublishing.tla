---------------------------- MODULE MCPublishing ----------------------------
(* Publishing on a small instance. *)
EXTENDS Publishing, TLC

\* No definition tells two documents, or two publishers, apart.
Symmetry == Permutations(Docs) \cup Permutations(Publishers)
=============================================================================
