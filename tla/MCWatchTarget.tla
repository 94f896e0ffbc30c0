--------------------------- MODULE MCWatchTarget ---------------------------
EXTENDS WatchTarget, TLC

Symmetry == Permutations(Docs)
=============================================================================
