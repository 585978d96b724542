------------------------------ MODULE ClientStore ------------------------------
(***************************************************************************)
(* The API server as the leasing of clients uses it: one DistccClient (the *)
(* pods of one tag), the DistccClientClaim of one user, and the Deployments *)
(* and Services in the namespace that may belong to it.  The server is not *)
(* part of k8cc; it is modelled from how the code calls it.                *)
(*                                                                         *)
(* writes counts the writes to the claim, and gives it its resourceVersion *)
(* and, when it is created, its uid: neither is ever used twice.  Objects  *)
(* are named by the order of their creation, as GenerateName gives every   *)
(* object a new name.                                                      *)
(***************************************************************************)
EXTENDS KubeTime, Sequences, ReferenceResolver

CONSTANTS
  Label,          \* metadata labels, each standing for a key=value pair
  UserLabel,      \* the label k8cc.io/username=<the user>
  LeaseDuration,  \* the values DistccClient.Spec.LeaseDuration takes, in ticks
  MaxTime,        \* bound: the last instant of the clock
  MaxObjects,     \* bound: how many Deployments and Services are created in all
  MaxChanges,     \* bound: how often operators change the cluster
  Absent,         \* the value of a resource that does not exist
  Unset           \* a nil Status.ExpirationTime

Kind  == {"deploy", "service"}
Nobody == 0  \* the owner of what other users and controllers create

DistccClient == [lease : LeaseDuration, labels : SUBSET Label]
DistccClientClaim ==
  [uid : Nat \ {0}, ver : Nat, exp : Time \cup {Unset}, ref : [Kind -> Nat]]
Object == [owner : Nat, labels : SUBSET (Label \cup {UserLabel}), live : BOOLEAN]

ASSUME BoundAssumption == MaxTime \in Nat /\ MaxObjects \in Nat /\ MaxChanges \in Nat
ASSUME LeaseAssumption == LeaseDuration \subseteq Time
ASSUME UnsetAssumption == Unset \notin Time
ASSUME AbsentAssumption == Absent \notin DistccClientClaim /\ Absent \notin DistccClient

VARIABLES
  now,      \* the wall clock every process reads
  client,   \* the DistccClient
  claim,    \* the DistccClientClaim of the user
  writes,   \* how often the claim was written
  objects,  \* objects[kind]: the Deployments, and the Services, ever created
  changes   \* how often operators have changed the cluster

storeVars == <<now, client, claim, writes, objects, changes>>

Exists(v)  == v # Absent
Leased(c)  == Exists(c) /\ c.exp # Unset
Asks(c)    == Exists(c) /\ c.exp = Unset
Expired(c) == Leased(c) /\ now > c.exp

Live(kind)   == {n \in DOMAIN objects[kind] : objects[kind][n].live}
Labels(kind) == [n \in DOMAIN objects[kind] |-> objects[kind][n].labels]

\* IsControlledBy compares the uid of the owner.
\* Mutant: any claim of that name will do.
IsControlledByName(kind, n, c) == objects[kind][n].owner # Nobody
IsControlledBy(kind, n, c)     == objects[kind][n].owner = c.uid

GetLabelsForUser(labels) == labels \cup {UserLabel}

NewDistccClientClaim(uid) ==
  [uid |-> uid, ver |-> uid, exp |-> Unset, ref |-> [kind \in Kind |-> NoRef]]

(***************************************************************************)
(* The Create, Update and Delete of the clients of pkg/client.  An Update  *)
(* is conditional on the resourceVersion that was read; a Delete with nil  *)
(* options is not.                                                         *)
(***************************************************************************)
Write(c) ==
  /\ claim' = c
  /\ writes' = writes + 1
  /\ UNCHANGED <<now, client, objects, changes>>

Post ==
  /\ ~ Exists(claim)
  /\ Write(NewDistccClientClaim(writes + 1))

\* Mutant: the write carries no resourceVersion.
PutAnyVersion(c) ==
  /\ Exists(claim)
  /\ Write([c EXCEPT !.ver = writes + 1, !.uid = claim.uid])

Put(c) ==
  /\ Exists(claim) /\ c.ver = claim.ver
  /\ Write([c EXCEPT !.ver = writes + 1])

Remove ==
  /\ Exists(claim)
  /\ Write(Absent)

Room == Len(objects["deploy"]) + Len(objects["service"]) < MaxObjects

PostObject(kind, owner, labels) ==
  /\ Room
  /\ objects' = [objects EXCEPT ![kind] =
                   Append(@, [owner |-> owner, labels |-> labels, live |-> TRUE])]
  /\ UNCHANGED <<now, client, claim, writes>>

(***************************************************************************)
(* The environment.                                                        *)
(***************************************************************************)
NoClaim ==
  /\ client \in DistccClient \cup {Absent}
  /\ claim = Absent
  /\ writes = 0
  /\ objects = [kind \in Kind |-> <<>>]

\* The claim was created and then granted.
GrantedClaim ==
  /\ client \in DistccClient
  /\ claim = [uid |-> 1, ver |-> 2, exp |-> ToKubeTime(client.lease),
              ref |-> [kind \in Kind |-> 1]]
  /\ writes = 2
  /\ objects = [kind \in Kind |->
                  <<[owner |-> 1, live |-> TRUE,
                     labels |-> GetLabelsForUser(client.labels)]>>]

StoreInit ==
  /\ now = 0
  /\ NoClaim \/ GrantedClaim
  /\ changes = 0

Tick ==
  /\ now < MaxTime
  /\ now' = now + 1
  /\ UNCHANGED <<client, claim, writes, objects, changes>>

Changed == changes < MaxChanges /\ changes' = changes + 1

EditClient ==
  /\ Changed
  /\ \E c \in (DistccClient \cup {Absent}) \ {client} : client' = c
  /\ UNCHANGED <<now, claim, writes, objects>>

\* Somebody creates an object, with labels that may be those of a client.
CreateForeign ==
  /\ Changed
  /\ \E kind \in Kind, labels \in SUBSET (Label \cup {UserLabel}) :
       PostObject(kind, Nobody, labels)

Kill(kind, n) ==
  /\ n \in Live(kind)
  /\ objects' = [objects EXCEPT ![kind][n].live = FALSE]
  /\ UNCHANGED <<now, client, claim, writes>>

KillObject == Changed /\ \E kind \in Kind : \E n \in Live(kind) : Kill(kind, n)

\* The garbage collector of Kubernetes removes what has lost its owner.
CollectGarbage(kind, n) ==
  /\ objects[kind][n].owner # Nobody
  /\ Exists(claim) => ~ IsControlledBy(kind, n, claim)
  /\ Kill(kind, n)
  /\ UNCHANGED changes

StoreNext ==
  \/ Tick
  \/ EditClient
  \/ CreateForeign
  \/ KillObject
  \/ \E kind \in Kind : \E n \in Live(kind) : CollectGarbage(kind, n)

StoreTypeOK ==
  /\ now \in Time
  /\ client \in DistccClient \cup {Absent}
  /\ claim \in DistccClientClaim \cup {Absent}
  /\ writes \in Nat
  /\ objects \in [Kind -> Seq(Object)]
  /\ changes \in 0 .. MaxChanges
=============================================================================
