---------------------------------- MODULE MCFiles ----------------------------------
EXTENDS Files, TLC
Symmetry == Permutations(Name)
MCCreateSizes == {-1, 2}
MCWriteSizes == {0, 2}
=============================================================================
