------------------------------- MODULE MCCycle -------------------------------
EXTENDS DevelopmentCycle, TLC

Symmetry == Permutations(Pairs) \cup Permutations(Revisions)
=============================================================================
