------------------------------- MODULE MCTurns -------------------------------
EXTENDS Turns, TLC

MCSymmetry == Permutations(Drivers) \cup Permutations(Personas)
==============================================================================
