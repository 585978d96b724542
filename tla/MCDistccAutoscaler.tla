-------------------------- MODULE MCDistccAutoscaler --------------------------
EXTENDS DistccAutoscaler, TLC

\* With two claims Large exceeds its maximum, and Wrapping the four bits of
\* an int32.
Window   == [min |-> Unset, max |-> 2, user |-> 2, lease |-> 1, window |-> 2, selects |-> Claim]
Large    == [Window EXCEPT !.user = 3, !.max = 4]
Wrapping == [Window EXCEPT !.user = 5, !.max = 7, !.min = 1, !.window = 1]

OneSpec     == {Window}
SafetySpecs == {Large, Wrapping}
ShortWindow == {[Window EXCEPT !.window = 1]}
Symmetry    == Permutations(Claim)
=============================================================================
