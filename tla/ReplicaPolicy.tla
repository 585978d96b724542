----------------------------- MODULE ReplicaPolicy -----------------------------
(***************************************************************************)
(* How many distcc servers there should be, and when to change how many    *)
(* there are: the arithmetic of the Distcc controller                      *)
(* (pkg/controller/distcc/distcc_controller.go).                           *)
(***************************************************************************)
EXTENDS Integers, KubeTime

CONSTANTS
  Claim,        \* the DistccClaims in the namespace of the Distcc
  DistccSpecs,  \* the values Distcc.Spec takes
  Half,         \* 2^31: replicas are of type int32
  Unset         \* a nil pointer

\* What of Distcc.Spec the controller computes with; selects is the set of
\* the claims whose labels Spec.Selector matches.
DistccSpec ==
  [min : Nat \cup {Unset}, max : Nat, user : Nat, lease : Time,
   window : Time \cup {Unset}, selects : SUBSET Claim]

ASSUME HalfAssumption == Half \in Nat \ {0}
ASSUME SpecAssumption ==
  /\ DistccSpecs \subseteq DistccSpec
  /\ \A s \in DistccSpecs : s.max < Half /\ (s.min # Unset => s.min < Half)
ASSUME UnsetAssumption == Unset \notin Int

Int32 == -Half .. Half - 1

\* The product of two int32 is truncated to 32 bits.
Wrap(n) == ((n + Half) % (2 * Half)) - Half

\* desiredReplicas, for the number of claims that have replicas.
\* Mutant: MaxReplicas is not applied.
DesiredReplicasUnlimited(valid, spec) ==
  LET ideal == Wrap(valid * spec.user)
  IN  IF spec.min # Unset /\ ideal < spec.min THEN spec.min ELSE ideal

DesiredReplicas(valid, spec) ==
  LET ideal == Wrap(valid * spec.user)
  IN  IF ideal >= spec.max THEN spec.max
      ELSE IF spec.min # Unset /\ ideal < spec.min THEN spec.min
      ELSE ideal

\* needScale: more replicas at once, fewer when the downscale window is over.
\* Mutant: the downscale window is not looked at.
NeedScaleAtOnce(current, desired, window, lastScale, at) == current # desired

NeedScale(current, desired, window, lastScale, at) ==
  \/ current < desired
  \/ /\ current > desired
     /\ window = Unset \/ lastScale = Unset \/ at > lastScale + window
=============================================================================
