---------------------------- MODULE MCStreamQueue ----------------------------
EXTENDS StreamQueue, TLC

Symmetry == Permutations(Threads) \cup Permutations(Queues)

=============================================================================
