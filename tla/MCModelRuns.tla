---------------------------- MODULE MCModelRuns ----------------------------
EXTENDS ModelRuns

Alike == Permutations(Messages) \cup Permutations(Forms)
=============================================================================
