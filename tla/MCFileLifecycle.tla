-------------------------- MODULE MCFileLifecycle --------------------------
(* FileLifecycle on a small instance, with the symmetries TLC may use.     *)
EXTENDS FileLifecycle, TLC

\* Sound for invariants and action properties: no definition tells the
\* members of these sets apart, and None is not one of them.
Symmetry ==
    Permutations(Requests) \cup Permutations(Subs) \cup Permutations(Files) \cup Permutations(Forms)
=============================================================================
