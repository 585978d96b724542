------------------------ MODULE ClientClaimController ------------------------
(***************************************************************************)
(* The controller of DistccClientClaims                                    *)
(* (pkg/controller/distccclientclaim/distccclientclaim_controller.go): it  *)
(* gives every claim a Deployment and a Service of its own, grants its     *)
(* lease, and removes it when the lease has lapsed.                        *)
(*                                                                         *)
(* A process k works on its informer caches: seen[k] is what it has seen   *)
(* of every kind of object.  There is one watch per kind, so what the      *)
(* caches hold of two kinds may be of different age.  A cache may stay     *)
(* behind for any time; when it moves, it moves to what the server has.    *)
(* A process that restarts forgets its Sync; the list it starts from may   *)
(* be as old as what its predecessor had.                                  *)
(***************************************************************************)
EXTENDS ClientStore

CONSTANT Controller  \* the controller processes

VARIABLES
  seen,  \* seen[k]: the informer caches of process k
  sync   \* sync[k]: its Sync of the claim

controllerVars == <<seen, sync>>

Cache == [client : DistccClient \cup {Absent}, claim : DistccClientClaim \cup {Absent},
          deploy : SUBSET Nat, service : SUBSET Nat]

\* The position of a Sync is the call that it has sent: it creates an object
\* of a kind, deletes the claim, or updates it.  claim is the deep copy of
\* the cached claim, client the cached DistccClient, and changed is
\* componentsChange.Any.
SyncState ==
  [pc : Kind \cup {"idle", "found", "delete", "update"},
   claim : DistccClientClaim \cup {Absent}, client : DistccClient \cup {Absent},
   changed : BOOLEAN]

Idle == [pc |-> "idle", claim |-> Absent, client |-> Absent, changed |-> FALSE]

ControllerInit ==
  /\ seen = [k \in Controller |->
               [client |-> client, claim |-> claim,
                deploy |-> Live("deploy"), service |-> Live("service")]]
  /\ sync = [k \in Controller |-> Idle]

(***************************************************************************)
(* The informers, one for each kind: they list the objects of the API      *)
(* server and watch them.                                                  *)
(***************************************************************************)
WatchClient(k)  == seen' = [seen EXCEPT ![k].client = client]
WatchClaim(k)   == seen' = [seen EXCEPT ![k].claim = claim]
WatchDeploy(k)  == seen' = [seen EXCEPT ![k].deploy = Live("deploy")]
WatchService(k) == seen' = [seen EXCEPT ![k].service = Live("service")]

Watch(k) ==
  /\ WatchClient(k) \/ WatchClaim(k) \/ WatchDeploy(k) \/ WatchService(k)
  /\ UNCHANGED <<storeVars, sync>>

(***************************************************************************)
(* The parts of Sync.  updateExpiration and isExpired read the clock a few *)
(* instructions apart; the two readings are taken as one.                  *)
(***************************************************************************)
UpdateExpiration(exp, lease) ==
  IF exp = Unset \/ exp > now + lease THEN ToKubeTime(now + lease) ELSE exp

\* What the listers of the two resources find.
CachedClaim(k)  == seen[k].claim
CachedClient(k) == seen[k].client

\* Without a claim or without its DistccClient, Sync only reports an event.
CanSync(k) == sync[k].pc = "idle" /\ Exists(CachedClaim(k)) /\ Exists(CachedClient(k))

Begin(k) ==
  LET cached == CachedClaim(k)
      exp    == UpdateExpiration(cached.exp, CachedClient(k).lease)
  IN  [pc |-> "found", claim |-> [cached EXCEPT !.exp = exp],
       client |-> CachedClient(k), changed |-> exp # cached.exp]

SetRef(q, kind, n) ==
  [q EXCEPT !.pc = "found", !.claim.ref[kind] = n,
            !.changed = @ \/ q.claim.ref[kind] # n]

\* The object of a kind: it has to be created when none is found, and
\* nothing is done when several are, or one that is not the claim's.
\* Mutant: nobody asks who controls the object.
SyncAnyObject(k, kind, q) ==
  LET found == GetObjectFromReferenceOrSelector(
                 seen[k][kind], q.claim.ref[kind],
                 GetLabelsForUser(q.client.labels), Labels(kind))
  IN  IF found = {} THEN [q EXCEPT !.pc = kind]
      ELSE IF IsAmbiguousReference(found) THEN Idle
      ELSE SetRef(q, kind, CHOOSE n \in found : TRUE)

SyncObject(k, kind, q) ==
  LET found == GetObjectFromReferenceOrSelector(
                 seen[k][kind], q.claim.ref[kind],
                 GetLabelsForUser(q.client.labels), Labels(kind))
  IN  IF found = {} THEN [q EXCEPT !.pc = kind]
      ELSE IF IsAmbiguousReference(found)
                \/ \E n \in found : ~ IsControlledBy(kind, n, q.claim) THEN Idle
      ELSE SetRef(q, kind, CHOOSE n \in found : TRUE)

WriteBack(q) == IF q.changed THEN [q EXCEPT !.pc = "update"] ELSE Idle

SyncService(k, q) ==
  LET r == SyncObject(k, "service", q)
  IN  IF r.pc = "found" THEN WriteBack(r) ELSE r

\* Mutant: the claim is written as soon as its Deployment is known.
SyncDeployWritesBack(k, q) ==
  LET r == SyncObject(k, "deploy", q)
  IN  IF r.pc # "found" THEN r ELSE IF r.changed THEN WriteBack(r) ELSE SyncService(k, r)

SyncDeploy(k, q) ==
  LET r == SyncObject(k, "deploy", q)
  IN  IF r.pc = "found" THEN SyncService(k, r) ELSE r

(***************************************************************************)
(* Sync runs until it sends a call.                                        *)
(***************************************************************************)
Continue(k, q) ==
  /\ sync' = [sync EXCEPT ![k] = q]
  /\ UNCHANGED seen

\* Mutant: the expiration is only checked of claims that have their objects.
SyncExpiredIfComplete(k) ==
  /\ CanSync(k)
  /\ Expired(Begin(k).claim)
  /\ SyncDeploy(k, Begin(k)).pc \in {"idle", "update"}
  /\ \A kind \in Kind : Begin(k).claim.ref[kind] \in seen[k][kind]
  /\ Continue(k, [Begin(k) EXCEPT !.pc = "delete"])
  /\ UNCHANGED storeVars

SyncExpired(k) ==
  /\ CanSync(k)
  /\ Expired(Begin(k).claim)
  /\ Continue(k, [Begin(k) EXCEPT !.pc = "delete"])
  /\ UNCHANGED storeVars

Sync(k) ==
  /\ CanSync(k)
  /\ ~ Expired(Begin(k).claim)
  /\ Continue(k, SyncDeploy(k, Begin(k)))
  /\ UNCHANGED storeVars

\* newDeploy and newService: the object gets the labels of the client, and
\* belongs to the claim.  Sync goes on with what the server answers, or
\* ends when the answer is lost.
Create(k, kind) ==
  LET q == sync[k]
      r == SetRef(q, kind, Len(objects[kind]) + 1)
      next == IF kind = "deploy" THEN SyncService(k, r) ELSE WriteBack(r)
  IN  /\ q.pc = kind
      /\ PostObject(kind, q.claim.uid, GetLabelsForUser(q.client.labels))
      /\ Continue(k, next) \/ Continue(k, Idle)
      /\ UNCHANGED changes

SyncDelete(k) ==
  /\ sync[k].pc = "delete"
  /\ Remove
  /\ Continue(k, Idle)

SyncUpdate(k) ==
  /\ sync[k].pc = "update"
  /\ Put(sync[k].claim)
  /\ Continue(k, Idle)

\* Not found, conflict, or the server could not be reached; or the process
\* dies, and the next one starts without any Sync.
SyncFails(k) ==
  /\ sync[k].pc # "idle"
  /\ Continue(k, Idle)
  /\ UNCHANGED storeVars

Call(k) ==
  \/ \E kind \in Kind : Create(k, kind)
  \/ SyncDelete(k)
  \/ SyncUpdate(k)

ControllerNext ==
  \E k \in Controller :
    \/ Watch(k)
    \/ SyncExpired(k)
    \/ Sync(k)
    \/ Call(k)
    \/ SyncFails(k)

ControllerTypeOK ==
  /\ seen \in [Controller -> Cache]
  /\ \A k \in Controller : /\ seen[k].deploy \subseteq DOMAIN objects["deploy"]
                           /\ seen[k].service \subseteq DOMAIN objects["service"]
  /\ sync \in [Controller -> SyncState]
  /\ \A k \in Controller : sync[k].pc # "found"
  /\ \A k \in Controller :
       sync[k].pc # "idle" => Exists(sync[k].claim) /\ Exists(sync[k].client)
=============================================================================
