------------------------------- MODULE LeaseLife -------------------------------
(***************************************************************************)
(* What the Status.ExpirationTime of a claim goes through, whoever writes  *)
(* it: this is all that the Distcc controller, which counts the claims,    *)
(* relies on.                                                              *)
(***************************************************************************)
EXTENDS Naturals

CONSTANTS
  LeaseDuration,  \* how long a lease may last
  Nobody,         \* there is no claim
  Asked           \* a lease is asked for and not granted yet

\* At any instant a claim may be made, removed, or asked for again; one that
\* is asked for may be granted, for no more than a duration from now, and a
\* lease may be shortened.
NextLeases(lease, now) ==
  {Asked, Nobody}
    \cup (IF lease = Asked THEN UNION {0 .. now + d : d \in LeaseDuration}
          ELSE IF lease = Nobody THEN {}
          ELSE 0 .. lease)
=============================================================================
