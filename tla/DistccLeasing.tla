---------------------------- MODULE DistccLeasing ----------------------------
(***************************************************************************)
(* The leasing of distcc servers: the service that asks for leases, the    *)
(* controller that grants and ends them, and the API server between them.  *)
(***************************************************************************)
EXTENDS DistccClaimController, LeaseService

vars == <<storeVars, controllerVars, req>>

Init == StoreInit /\ ControllerInit /\ ServiceInit

Environment == (Tick \/ EditDistcc) /\ UNCHANGED <<controllerVars, req>>

Next ==
  \/ Environment
  \/ ControllerNext /\ UNCHANGED req
  \/ \E r \in Request : ServiceStep(r) /\ UNCHANGED controllerVars

Spec == Init /\ [][Next]_vars

(***************************************************************************)
(* Fairness.  The informers deliver, and resync every claim every 30       *)
(* seconds, so a Sync that has something to do starts; a call may fail any *)
(* number of times but not forever; a request runs until it is answered.   *)
(***************************************************************************)
ControllerFairness ==
  \A k \in Controller :
    /\ WF_vars(WatchDistcc(k) /\ UNCHANGED req)
    /\ \A c \in Claim :
         /\ WF_vars(WatchClaim(k, c) /\ UNCHANGED req)
         /\ WF_vars((SyncExpired(k, c) \/ SyncRenew(k, c)) /\ UNCHANGED req)
         /\ WF_vars((SyncDelete(k, c) \/ SyncUpdate(k, c) \/ SyncFails(k, c))
                      /\ UNCHANGED req)
         /\ SF_vars((SyncDelete(k, c) \/ SyncUpdate(k, c)) /\ UNCHANGED req)

ServiceFairness ==
  \A r \in Request : WF_vars(RequestStep(r) /\ UNCHANGED controllerVars)

FairSpec == Spec /\ ControllerFairness /\ ServiceFairness

(***************************************************************************)
(* The type invariant of the whole.                                        *)
(***************************************************************************)
TypeOK == StoreTypeOK /\ ControllerTypeOK /\ ServiceTypeOK

Leased(v) == Exists(v) /\ v.exp # Unset
Asks(v)   == Exists(v) /\ v.exp = Unset

\* A lease is only ever granted to the version of the claim that asked for
\* it: whatever the lag of the caches, the failures and the processes that
\* work on the claim, every lease in the history of a claim replaces either
\* a version that asks for one or a longer lease.  Nothing but a renewal
\* makes a lease longer, and no grant brings a removed claim back
\* (Sync and updateExpiration of the claim controller, renewDistccLease).
GrantsAnswerRenewals ==
  \A c \in Claim : \A i \in 2 .. Version(c) :
    Leased(history[c][i]) =>
      \/ Asks(history[c][i - 1])
      \/ Leased(history[c][i - 1]) /\ history[c][i].exp < history[c][i - 1].exp

\* The controller only decides to delete a claim after a lease that was
\* stored under its name has ended: a claim that waits for its first lease
\* is safe, unless an earlier claim of its user had one, even when the
\* expiration is truncated to the second (isExpired, ToKubeTime).
RemovedOnlyWhenLapsed ==
  \A k \in Controller, c \in Claim : sync[k][c].pc = "delete" =>
    \E i \in 1 .. Version(c) : Expired(history[c][i])

\* A lease that the service answers with status 200 was asked for on the
\* stored claim after the request arrived, across all its retries, lost
\* responses and concurrent requests (LeaseDistcc, renewDistccLease,
\* codeFrom).
AcknowledgedRenewal ==
  \A r \in Request :
    req[r].pc = "done" /\ req[r].op = "lease" /\ CodeFrom(req[r].err) = 200 =>
      \E i \in req[r].start .. Version(ClaimOf(r)) : Asks(history[ClaimOf(r)][i])

\* After a release that the service answers with status 200 or 404, the
\* claim was gone at some point since the request arrived (DeleteDistcc,
\* codeFrom).
AnsweredRelease ==
  \A r \in Request :
    req[r].pc = "done" /\ req[r].op = "delete"
      /\ CodeFrom(req[r].err) \in {200, 404} =>
        \E i \in req[r].start .. Version(ClaimOf(r)) : ~ Exists(history[ClaimOf(r)][i])

(***************************************************************************)
(* The contract that the leasing implements.  A delete with a lease below  *)
(* one second could truncate to an instant in the past, and remove a claim *)
(* that no lease was ever issued for.                                      *)
(***************************************************************************)
ASSUME WholeSecondLeases == \A d \in LeaseDuration : d >= SecondTicks

\* The three states of a claim in the contract are told apart.
ASSUME ContractAssumption == Absent \notin Time \cup {Unset}

LeaseOf(v) == IF ~ Exists(v) THEN Absent ELSE v.exp

Contract == INSTANCE LeaseContract WITH
  clock     <- now,
  lease     <- [c \in Claim |-> LeaseOf(Stored(c))],
  issued    <- [c \in Claim |->
                  {LeaseOf(history[c][i]) : i \in 1 .. Version(c)} \ {Absent, Unset}],
  releasing <- {ClaimOf(r) : r \in {q \in Request : Running(q) /\ req[q].op = "delete"}},
  Nobody    <- Absent,
  Asked     <- Unset

\* The leasing keeps the promises of LeaseContract.
ImplementsContract == Contract!Spec

\* The Distcc controller counts the claims; DistccAutoscaler lets them change
\* as LeaseLife says, one at a time.  They do.
Life == INSTANCE LeaseLife WITH Nobody <- Absent, Asked <- Unset

Leases == [c \in Claim |-> LeaseOf(Stored(c))]

LeasesChangeAsCounted ==
  [][\E c \in Claim : \E e \in Life!NextLeases(Leases[c], now) :
       Leases' = [Leases EXCEPT ![c] = e]]_Leases

\* Every step of a request takes it further: to a later phase, or to the next
\* attempt of its phase, or to a later call of its attempt.  So conflicts with
\* other requests and with the controllers cannot keep it going: it makes
\* at most a call for each attempt and stage (getWithRetry).
Phase(q) ==
  CASE q.pc = "new"       -> 0
    [] q.pc = "getDistcc" -> 1
    [] q.pc = "done"      -> 3
    [] OTHER              -> 2
Stage(q) ==
  CASE q.pc \in {"create", "update"} -> 1
    [] q.pc = "reply"                -> 2
    [] OTHER                         -> 0

Further(p, q) ==
  \/ Phase(p) < Phase(q)
  \/ Phase(p) = Phase(q) /\ p.attempt < q.attempt
  \/ Phase(p) = Phase(q) /\ p.attempt = q.attempt /\ Stage(p) < Stage(q)

RequestsAdvance ==
  [][\A r \in Request : ServiceStep(r) => Further(req[r], req'[r])]_vars

(***************************************************************************)
(* Liveness.                                                               *)
(***************************************************************************)
\* Every request is answered.
RequestsAnswered == \A r \in Request : Running(r) ~> req[r].pc = "done"

Serves(c) == Exists(StoredDistcc) /\ (Exists(Stored(c)) => Accepts(StoredDistcc, Stored(c)))

\* As long as the Distcc goes on selecting the claim, a claim that asks for
\* a lease gets one, or is removed.
RenewalsServed ==
  \A c \in Claim : <>[] Serves(c) => (Asks(Stored(c)) ~> ~ Asks(Stored(c)))

\* Likewise, a claim whose lease has ended is removed or renewed.
LapsedRemoved ==
  \A c \in Claim : <>[] Serves(c) => (Expired(Stored(c)) ~> ~ Expired(Stored(c)))

(***************************************************************************)
(* What the repository says of the leasing, and the code does not do.      *)
(***************************************************************************)
\* "Check expiration time, and in case delete the resource": the controller
\* deletes a claim whose lease has ended (Sync of the claim controller).
ControllerDeletesExpired ==
  [][\A c \in Claim :
       Exists(Stored(c)) /\ ~ Exists(Stored(c)') /\ UNCHANGED req
         => Expired(Stored(c))]_vars
=============================================================================
