------------------------- MODULE MCAccountRegistry -------------------------
EXTENDS AccountRegistry, TLC
Symmetry == Permutations(Tasks \ Adders) \cup Permutations(Adders)
=============================================================================
