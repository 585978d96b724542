----------------------------- MODULE LeaseContract -----------------------------
(***************************************************************************)
(* What the leasing of distcc servers promises, whatever the timing of its *)
(* parts: a claim is asked for, granted once for each time it is asked     *)
(* for, and then only shortened; it is removed when its user releases it,  *)
(* or when a lease that was issued under its name has ended.               *)
(*                                                                         *)
(* "A lease that was issued" and not "its lease": the implementation may   *)
(* decide on a lease that a renewal has replaced in the meantime, or that  *)
(* was issued before the claim was released and asked for again.           *)
(***************************************************************************)
EXTENDS Naturals

CONSTANTS
  Claim,
  LeaseDuration,  \* how long a lease may last
  Nobody,         \* nobody holds a claim
  Asked           \* a lease is asked for and not granted yet

VARIABLES
  clock,
  lease,      \* lease[c]: Nobody, Asked, or the instant at which it ends
  issued,     \* issued[c]: the ends of all the leases ever granted for c
  releasing   \* the claims that a user is releasing

vars == <<clock, lease, issued, releasing>>

Init ==
  /\ clock = 0
  /\ lease = [c \in Claim |-> Nobody]
  /\ issued = [c \in Claim |-> {}]
  /\ releasing = {}

Pass == clock' = clock + 1 /\ UNCHANGED <<lease, issued, releasing>>

Ask(c) ==
  /\ lease' = [lease EXCEPT ![c] = Asked]
  /\ UNCHANGED <<clock, issued, releasing>>

Issue(c, e) ==
  /\ lease' = [lease EXCEPT ![c] = e]
  /\ issued' = [issued EXCEPT ![c] = @ \cup {e}]
  /\ UNCHANGED <<clock, releasing>>

Grant(c) ==
  /\ lease[c] = Asked
  /\ \E d \in LeaseDuration : \E e \in 0 .. clock + d : Issue(c, e)

Shorten(c) ==
  /\ lease[c] \notin {Asked, Nobody}
  /\ \E e \in 0 .. lease[c] : Issue(c, e)

\* The call that removes a claim may be the last thing its release does.
Remove(c) ==
  /\ lease[c] # Nobody
  /\ c \in releasing \/ \E e \in issued[c] : clock > e
  /\ lease' = [lease EXCEPT ![c] = Nobody]
  /\ releasing' \in {releasing, releasing \ {c}}
  /\ UNCHANGED <<clock, issued>>

\* Users start and give up releasing claims.
Release ==
  /\ releasing' \in SUBSET Claim
  /\ UNCHANGED <<clock, lease, issued>>

Next ==
  \/ Pass
  \/ Release
  \/ \E c \in Claim : Ask(c) \/ Grant(c) \/ Shorten(c) \/ Remove(c)

Spec == Init /\ [][Next]_vars
=============================================================================
