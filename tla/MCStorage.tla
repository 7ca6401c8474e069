-------------------------------- MODULE MCStorage --------------------------------
EXTENDS Storage, TLC

\* Servers differ in nothing but their name.
Symmetry == Permutations(Servers)
===================================================================================
