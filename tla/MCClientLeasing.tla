--------------------------- MODULE MCClientLeasing ---------------------------
EXTENDS ClientLeasing, TLC

OneTick == {1}
Symmetry == Permutations(Request) \cup Permutations(Controller)
=============================================================================
