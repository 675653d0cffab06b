----------------------------- MODULE MC_TSQueue -----------------------------
EXTENDS TSQueue, TLC

CONSTANTS t1, t2, t3, n1, n2, n3, n4, a, b, c

Alike == Permutations(Threads) \cup Permutations(Nodes) \cup Permutations(Items)
=============================================================================
