--------------------------- MODULE MCDistccLeasing ---------------------------
EXTENDS DistccLeasing, TLC

OneTick == {1}
TwoTicks == {2}
TwoDurations == {2, 3}
Symmetry == Permutations(Request) \cup Permutations(Controller)
=============================================================================
