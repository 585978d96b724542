--------------------------- MODULE MCControllerKit ---------------------------
EXTENDS ControllerKit, TLC

Symmetry == Permutations(Worker) \cup Permutations(Key)

\* No action and no safety property looks at the counts of failures, at the
\* outcomes, or at what changed without notice: states that differ in these
\* only are the same one to the runs that check nothing else.
SafetyView ==
  <<queueVars, waitCh, delayed, cache, told, events, run, stopped, worker>>
=============================================================================
