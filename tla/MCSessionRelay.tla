--------------------------- MODULE MCSessionRelay ---------------------------
EXTENDS SessionRelay, TLC

Symmetry == Permutations(Guests)
=============================================================================
