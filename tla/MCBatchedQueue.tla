--------------------------- MODULE MCBatchedQueue ---------------------------
EXTENDS BatchedQueue, TLC

Symmetry == Permutations(Threads) \cup Permutations(Queues) \cup Permutations(Lists)

=============================================================================
