---------------------------- MODULE ClientLeasing ----------------------------
(***************************************************************************)
(* The leasing of clients: the service that asks for a pod to log in to,   *)
(* the controller that provides it, and the API server between them.       *)
(***************************************************************************)
EXTENDS ClientClaimController, ClientLeaseService

vars == <<storeVars, controllerVars, req>>

Init == StoreInit /\ ControllerInit /\ ServiceInit

Next ==
  \/ StoreNext /\ UNCHANGED <<controllerVars, req>>
  \/ ControllerNext /\ UNCHANGED req
  \/ \E r \in Request : ServiceStep(r) /\ UNCHANGED controllerVars

Spec == Init /\ [][Next]_vars

(***************************************************************************)
(* Fairness.  The informers deliver, and resync the claim every 30 seconds *)
(* so that it is synced again; a call may fail any number of times but not *)
(* forever.  Nothing is assumed of the requests.                           *)
(***************************************************************************)
FairSpec ==
  /\ Spec
  /\ \A k \in Controller :
       /\ WF_vars(WatchClient(k) /\ UNCHANGED <<storeVars, sync, req>>)
       /\ WF_vars(WatchClaim(k) /\ UNCHANGED <<storeVars, sync, req>>)
       /\ WF_vars(WatchDeploy(k) /\ UNCHANGED <<storeVars, sync, req>>)
       /\ WF_vars(WatchService(k) /\ UNCHANGED <<storeVars, sync, req>>)
       /\ WF_vars((SyncExpired(k) \/ Sync(k)) /\ UNCHANGED req)
       /\ WF_vars((Call(k) \/ SyncFails(k)) /\ UNCHANGED req)
       /\ SF_vars(Call(k) /\ UNCHANGED req)

TypeOK == StoreTypeOK /\ ControllerTypeOK /\ ServiceTypeOK

\* A claim refers to nothing but objects that were made for it, whatever
\* was found by labels, in caches that are behind, before or after the
\* claim was removed and made again (IsControlledBy in syncDeploy and
\* syncService).
RefsControlled ==
  Exists(claim) =>
    \A kind \in Kind : claim.ref[kind] # NoRef =>
      /\ claim.ref[kind] \in DOMAIN objects[kind]
      /\ IsControlledBy(kind, claim.ref[kind], claim)

\* A claim is not granted before it has both its Deployment and its Service:
\* the three are written at once at the end of Sync, and the service, which
\* writes back what it has read, tears none of them off.
GrantedIsComplete ==
  Leased(claim) => \A kind \in Kind : claim.ref[kind] # NoRef

\* A lease answered with success comes with the port of a Service that was
\* made for a claim of this user that existed after the request arrived,
\* never with one of an earlier claim or of somebody else (LeaseClient,
\* getServiceForClaim).
AnsweredOwnService ==
  \A r \in Request :
    req[r].pc = "done" /\ req[r].op = "lease" /\ req[r].err = "nil" =>
      /\ req[r].answer \in DOMAIN objects["service"]
      /\ objects["service"][req[r].answer].owner >= req[r].since

\* After a release answered with success or not-found, the claim that the
\* user had when the request arrived is gone for good (DeleteClient).
ReleasedIsGone ==
  \A r \in Request :
    req[r].pc = "done" /\ req[r].op = "delete" /\ req[r].err \in {"nil", "ErrNotFound"} =>
      ~ Exists(claim) \/ claim.uid >= req[r].since

\* A lease is only granted to a claim that asks for one, and only made
\* shorter after that: no stale copy prolongs a lease or brings a removed
\* claim back (Sync of the controller, renewDistccClientLease).
GrantsAnswerRequests ==
  [][Leased(claim') /\ claim' # claim =>
       /\ Exists(claim) /\ claim.uid = claim'.uid
       /\ Asks(claim) \/ claim'.exp <= claim.exp]_vars

(***************************************************************************)
(* The contract that the leasing implements.  As for distcc servers, a     *)
(* lease below one second could truncate to an instant in the past.        *)
(***************************************************************************)
ASSUME WholeSecondLeases == \A d \in LeaseDuration : d >= SecondTicks

\* The three states of a claim in the contract are told apart.
ASSUME ContractAssumption == Absent \notin Time \cup {Unset}

\* The copies of the claim on which a delete may be decided, or was.
Copies ==
  {claim} \cup {seen[k].claim : k \in Controller}
    \cup {sync[k].claim : k \in {j \in Controller : sync[j].pc = "delete"}}

Contract == INSTANCE ClientLeaseContract WITH
  clock     <- now,
  lease     <- IF Exists(claim) THEN claim.exp ELSE Absent,
  uid       <- IF Exists(claim) THEN claim.uid ELSE 0,
  pod       <- IF Exists(claim) THEN claim.ref ELSE [kind \in Kind |-> NoRef],
  count     <- writes,
  made      <- [kind \in Kind |-> [n \in DOMAIN objects[kind] |-> objects[kind][n].owner]],
  known     <- {[uid |-> c.uid, end |-> c.exp] : c \in {d \in Copies : Leased(d)}},
  releasing <- \E r \in Request : Running(r) /\ req[r].op = "delete",
  Nobody    <- Absent,
  Asked     <- Unset

\* The leasing keeps the promises of ClientLeaseContract.
ImplementsContract == Contract!Spec

\* Every step of a request takes it further: to a later phase, or to the next
\* attempt of its phase, or to a later call of its attempt.  So a request
\* for a claim that the controller does not get done is given up after a
\* bounded number of calls (getWithRetry, getServiceForClaim).
Phase(q) ==
  CASE q.pc = "new"       -> 0
    [] q.pc = "getClient" -> 1
    [] q.pc = "done"      -> 3
    [] OTHER              -> 2
Stage(q) ==
  CASE q.pc \in {"getSecret", "update"}  -> 1
    [] q.pc \in {"create", "getService"} -> 2
    [] q.pc = "reply"                    -> 3
    [] OTHER                             -> 0

Further(p, q) ==
  \/ Phase(p) < Phase(q)
  \/ Phase(p) = Phase(q) /\ p.attempt < q.attempt
  \/ Phase(p) = Phase(q) /\ p.attempt = q.attempt /\ Stage(p) < Stage(q)

RequestsAdvance ==
  [][\A r \in Request : ServiceStep(r) => Further(req[r], req'[r])]_vars

(***************************************************************************)
(* Liveness.                                                               *)
(***************************************************************************)
\* What the controller can work with: the object referred to is there, or a
\* single one that is the claim's has its labels, or there is none at all.
Resolvable(kind) ==
  LET selector == GetLabelsForUser(client.labels)
      matches  == GetObjectFromLabels(Live(kind), selector, Labels(kind))
  IN  \/ claim.ref[kind] \in Live(kind)
      \/ matches = {} /\ Room
      \/ \E n \in matches : matches = {n} /\ IsControlledBy(kind, n, claim)

Provides == Exists(client) /\ (Exists(claim) => \A kind \in Kind : Resolvable(kind))

\* A claim that asks for a lease gets one or is removed, once its objects
\* can be told from those of others.
ClaimsServed == <>[]Provides => (Asks(claim) ~> ~ Asks(claim))

\* A lapsed claim is removed or renewed while its DistccClient exists, even
\* when its objects are ambiguous.
LapsedRemoved == <>[]Exists(client) => (Expired(claim) ~> ~ Expired(claim))
=============================================================================
