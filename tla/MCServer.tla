------------------------------ MODULE MCServer ------------------------------
EXTENDS Server, TLC

MCSymmetry == Permutations(Threads)
=============================================================================
