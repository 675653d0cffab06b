------------------------------ MODULE MC_TSList ------------------------------
EXTENDS TSList, TLC

CONSTANTS t1, t2, n1, n2, n3, a, b

Alike == Permutations(Threads) \cup Permutations(Nodes)
==============================================================================
