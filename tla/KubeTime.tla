------------------------------- MODULE KubeTime -------------------------------
(***************************************************************************)
(* Instants, as the processes of k8cc read them and as Kubernetes stores   *)
(* them (pkg/conv/time.go).                                                *)
(***************************************************************************)
EXTENDS Naturals

CONSTANT SecondTicks  \* ticks in a second, the grain of stored timestamps

ASSUME SecondAssumption == SecondTicks \in Nat \ {0}

Time == Nat

\* metav1.Time is serialised with the seconds only: conv.ToKubeTime truncates.
\* Mutant: the seconds are rounded up.
ToKubeTimeRoundedUp(t) == t + SecondTicks - (t % SecondTicks)
ToKubeTime(t) == t - (t % SecondTicks)
=============================================================================
