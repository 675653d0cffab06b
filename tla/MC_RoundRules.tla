---------------------------- MODULE MC_RoundRules ----------------------------
EXTENDS RoundRules, TLC

Symmetry == Permutations({Red, Blue})
NoWins == {}
ResetOnly == {<<TRUE, FALSE>>}
MiniRounds == {<<TRUE, FALSE>>, <<FALSE, FALSE>>}
==============================================================================
