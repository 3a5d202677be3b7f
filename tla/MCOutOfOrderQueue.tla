------------------------- MODULE MCOutOfOrderQueue -------------------------
EXTENDS OutOfOrderQueue, TLC

Symmetry == Permutations(Threads)

=============================================================================
