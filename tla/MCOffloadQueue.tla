--------------------------- MODULE MCOffloadQueue ---------------------------
EXTENDS OffloadQueue, TLC

Symmetry == Permutations(Threads)

=============================================================================
