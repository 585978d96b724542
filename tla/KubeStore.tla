------------------------------ MODULE KubeStore ------------------------------
(***************************************************************************)
(* The Kubernetes API server, as far as the leasing of distcc servers uses *)
(* it: one Distcc object (the servers of one tag) and the DistccClaim      *)
(* objects of the users of that tag.  The server is not part of k8cc; it is *)
(* modelled from how the code calls it.                                    *)
(*                                                                         *)
(* Every object keeps the sequence of the values it has had: the           *)
(* resourceVersion of a value is its index, deletion appends Absent, so a  *)
(* re-created object never reuses a version.  An Update is conditional on  *)
(* the resourceVersion the caller read; a Delete with nil options is not.  *)
(***************************************************************************)
EXTENDS KubeTime, Sequences

CONSTANTS
  Claim,              \* names of the claims, makeClaimName(user, tag)
  Label,              \* metadata labels, each standing for a key=value pair
  LeaseDuration,      \* the values Distcc.Spec.LeaseDuration takes, in ticks
  MaxTime,            \* bound: the last instant of the clock
  MaxDistccVersions,  \* bound: how many versions the Distcc object goes through
  Absent,             \* the value of an object that does not exist
  Unset               \* a nil Status.ExpirationTime

DistccClaim == [exp : Time \cup {Unset}, labels : SUBSET Label]
Distcc      == [lease : LeaseDuration, labels : SUBSET Label]

ASSUME ClockAssumption == MaxTime \in Nat
ASSUME LeaseAssumption == LeaseDuration \subseteq Time
ASSUME UnsetAssumption == Unset \notin Time
ASSUME AbsentAssumption == Absent \notin DistccClaim /\ Absent \notin Distcc

VARIABLES
  now,      \* the wall clock every process reads
  history,  \* history[c]: the versions of claim c, the last one is stored
  dhist     \* the versions of the Distcc object

storeVars == <<now, history, dhist>>

(***************************************************************************)
(* Reading the store: what a Get of the clients of pkg/client answers.     *)
(***************************************************************************)
Version(c)   == Len(history[c])
Stored(c)    == history[c][Version(c)]
StoredDistcc == dhist[Len(dhist)]

Exists(v)  == v # Absent
Expired(v) == Exists(v) /\ v.exp # Unset /\ now > v.exp

(***************************************************************************)
(* The calls of the clients of pkg/client that write: when the server       *)
(* accepts a Create, an Update and a Delete, and what it then stores.       *)
(***************************************************************************)
CanCreate(c)      == ~ Exists(Stored(c))
CanUpdate(c, ver) == Exists(Stored(c)) /\ ver = Version(c)
CanDelete(c)      == Exists(Stored(c))

Put(c, v) ==
  /\ history' = [history EXCEPT ![c] = Append(@, v)]
  /\ UNCHANGED <<now, dhist>>

(***************************************************************************)
(* The environment: time passes, and the operator of the cluster creates,  *)
(* edits and removes the Distcc object with kubectl.                       *)
(***************************************************************************)
StoreInit ==
  /\ now = 0
  /\ history = [c \in Claim |-> <<Absent>>]
  /\ \E d \in Distcc \cup {Absent} : dhist = <<d>>

Tick ==
  /\ now < MaxTime
  /\ now' = now + 1
  /\ UNCHANGED <<history, dhist>>

EditDistcc ==
  /\ Len(dhist) < MaxDistccVersions
  /\ \E d \in (Distcc \cup {Absent}) \ {StoredDistcc} : dhist' = Append(dhist, d)
  /\ UNCHANGED <<now, history>>

StoreTypeOK ==
  /\ now \in Time
  /\ history \in [Claim -> Seq(DistccClaim \cup {Absent})]
  /\ \A c \in Claim : Version(c) > 0
  /\ dhist \in Seq(Distcc \cup {Absent})
  /\ Len(dhist) > 0
=============================================================================
