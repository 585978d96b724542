-------------------------- MODULE ClientLeaseContract --------------------------
(***************************************************************************)
(* What the leasing of clients promises, whatever the timing of its parts: *)
(* a claim is granted once for each time it is asked for, and then only    *)
(* shortened; it is granted together with a pod and a port that were made  *)
(* for it, and keeps them until it is removed.                             *)
(*                                                                         *)
(* A claim that is made again is another one, and nothing of an earlier    *)
(* claim serves it.  It may end it, though: a claim is removed when its    *)
(* user releases it, after a lease of its own, or after a lease of an      *)
(* earlier claim of that user, even if it was never granted itself.  That  *)
(* takes somebody who still knows of the lease.                            *)
(***************************************************************************)
EXTENDS Naturals, Sequences

CONSTANTS
  Kind,           \* the kinds of objects that a claim comes with
  LeaseDuration,  \* how long a lease may last
  Nobody,         \* there is no claim
  Asked           \* a lease is asked for and not granted yet

VARIABLES
  clock,
  lease,     \* Nobody, Asked, or the instant at which the lease ends
  uid,       \* which claim it is, 0 for none
  pod,       \* pod[kind]: the object that the claim refers to, 0 for none
  count,     \* how often the claim was written
  made,      \* made[kind]: the claims that the objects were made for
  known,     \* the leases that somebody still knows of: whose, and until when
  releasing  \* whether the user is releasing the claim

claimVars == <<lease, uid, pod, count>>
vars == <<clock, claimVars, made, known, releasing>>

None == [kind \in Kind |-> 0]

NothingYet ==
  /\ lease = Nobody /\ uid = 0 /\ pod = None /\ count = 0
  /\ made = [kind \in Kind |-> <<>>]
  /\ known = {}

\* A claim was asked for and granted before.
Granted ==
  /\ \E d \in LeaseDuration : lease \in 0 .. d
  /\ uid = 1 /\ count = 2
  /\ pod = [kind \in Kind |-> 1]
  /\ made = [kind \in Kind |-> <<1>>]
  /\ known = {[uid |-> 1, end |-> lease]}

Init ==
  /\ clock = 0
  /\ releasing = FALSE
  /\ NothingYet \/ Granted

Pass == clock' = clock + 1 /\ UNCHANGED <<claimVars, made, known, releasing>>

\* The user starts or gives up releasing.
Release == releasing' \in BOOLEAN /\ UNCHANGED <<clock, claimVars, made, known>>

Forget == known' \in SUBSET known /\ UNCHANGED <<clock, claimVars, made, releasing>>

\* For a claim that there is or was, or by somebody else.
Make(kind, owner) ==
  /\ made' = [made EXCEPT ![kind] = Append(@, owner)]
  /\ UNCHANGED <<clock, claimVars, known, releasing>>

Written == count' = count + 1 /\ UNCHANGED <<clock, made>>

Ask ==
  /\ lease = Nobody
  /\ lease' = Asked /\ uid' = count' /\ pod' = None
  /\ known' \in SUBSET known
  /\ Written /\ UNCHANGED releasing

Renew ==
  /\ lease # Nobody
  /\ lease' = Asked
  /\ known' \in SUBSET known
  /\ Written /\ UNCHANGED <<uid, pod, releasing>>

\* The lease ends at e, and the claim has an object of every kind that was
\* made for it.
Issue(e) ==
  /\ lease' = e
  /\ \A kind \in Kind : pod'[kind] \in DOMAIN made[kind] /\ made[kind][pod'[kind]] = uid
  /\ known' \in SUBSET (known \cup {[uid |-> uid, end |-> e]})
  /\ Written /\ UNCHANGED <<uid, releasing>>

Grant ==
  /\ lease = Asked
  /\ \E d \in LeaseDuration : \E e \in 0 .. clock + d : Issue(e)

Shorten ==
  /\ lease \notin {Nobody, Asked}
  /\ \E e \in 0 .. lease : Issue(e)

\* A lease of this claim has ended, if perhaps not its last one.
Lapsed == \E l \in known : l.uid = uid /\ clock > l.end

\* A lease of an earlier claim has: whoever removes does not say which claim
\* is meant.
Mistaken == \E l \in known : l.uid < uid /\ clock > l.end

\* The call that removes the claim may be the last thing its release does.
Remove ==
  /\ lease # Nobody
  /\ releasing \/ Lapsed \/ Mistaken
  /\ lease' = Nobody /\ uid' = 0 /\ pod' = None
  /\ known' \in SUBSET known
  /\ releasing' \in {releasing, FALSE}
  /\ Written

Next ==
  \/ Pass
  \/ Release
  \/ Forget
  \/ \E kind \in Kind : \E owner \in 0 .. count : Make(kind, owner)
  \/ Ask \/ Renew \/ Grant \/ Shorten \/ Remove

Spec == Init /\ [][Next]_vars
=============================================================================
