--------------------------- MODULE DistccAutoscaler ---------------------------
(***************************************************************************)
(* The controller of Distccs (pkg/controller/distcc/distcc_controller.go): *)
(* it keeps a Deployment of distcc servers, as large as the claims of its  *)
(* users ask for, the Service in front of it, and the status of the Distcc. *)
(*                                                                         *)
(* The variables of the cluster are what the API server stores; cached is  *)
(* what the informers of the controller have of it.  One Distcc is         *)
(* modelled, so there is one Sync at a time (NoConcurrentSync of           *)
(* ControllerKit); it names its Deployment and its Service.  A restart of  *)
(* the process ends its Sync as a call that fails does.                    *)
(***************************************************************************)
EXTENDS ReplicaPolicy, FiniteSets

CONSTANTS
  Absent,      \* the value of an object that does not exist
  MaxTime,     \* bound: the last instant of the clock
  MaxChanges   \* bound: how often users and operators change the cluster

ASSUME ClaimAssumption == IsFiniteSet(Claim)
ASSUME BoundsAssumption == MaxTime \in Nat /\ MaxChanges \in Nat
ASSUME AbsentAssumption == Absent \notin Time \cup {Unset, "distcc", "other"}

VARIABLES
  now,       \* the wall clock
  claims,    \* claims[c]: Absent, or its Status.ExpirationTime
  distcc,    \* the Distcc
  fresh,     \* the copies of the Distcc with the resourceVersion that is stored
  deploy,    \* the Deployment: its controller, and its replicas
  service,   \* the controller of the Service
  changes,   \* how often the cluster was changed from outside
  cached,    \* the informer caches
  sync,      \* the Sync that is running, at the API call it does next
  scaledAt   \* not in the code: when the controller last scaled this Deployment

apiVars == <<distcc, fresh, deploy, service>>
vars == <<now, claims, apiVars, changes, cached, sync, scaledAt>>

Owner == {"distcc", "other"}

Claims     == [Claim -> Time \cup {Absent, Unset}]
Distcc     == [spec : DistccSpecs, lastScale : Time \cup {Unset}]
Deployment == [owner : Owner, replicas : Nat]

\* The Distcc that Sync was called with, the replicas its copy of the
\* Deployment has and those it writes, and what it changed so far
\* (distccUpdateState).
SyncState ==
  [pc : {"idle", "create", "scale", "service", "status"}, distcc : Distcc \cup {Absent},
   replicas : Nat, target : Int, created : BOOLEAN, scaled : BOOLEAN]

Called(d) ==
  [pc |-> "idle", distcc |-> d, replicas |-> 0, target |-> 0,
   created |-> FALSE, scaled |-> FALSE]

Idle == Called(Absent)

Init ==
  /\ now = 0
  /\ claims = [c \in Claim |-> Absent]
  /\ \E s \in DistccSpecs : distcc = [spec |-> s, lastScale |-> Unset]
  /\ fresh = {"cache"}
  /\ deploy \in {Absent, [owner |-> "other", replicas |-> 1]}
  /\ service = Absent
  /\ changes = 0
  /\ cached = [claims |-> claims, distcc |-> distcc, deploy |-> Absent, service |-> Absent]
  /\ sync = Idle
  /\ scaledAt = Unset

(***************************************************************************)
(* The cluster changes: the claims of users as LeaseContract allows, all   *)
(* other objects by kubectl.                                               *)
(***************************************************************************)
Tick ==
  /\ now < MaxTime
  /\ now' = now + 1
  /\ UNCHANGED <<claims, apiVars, changes, cached, sync, scaledAt>>

Change ==
  /\ changes < MaxChanges
  /\ changes' = changes + 1
  /\ UNCHANGED <<now, cached, sync>>

\* The service and the controller of the claims work on them.  A lease may
\* be granted by a Sync that began under another Spec.
Lease == INSTANCE LeaseLife WITH
  LeaseDuration <- {s.lease : s \in DistccSpecs}, Nobody <- Absent, Asked <- Unset

ChangeClaim(c) ==
  /\ \E e \in Lease!NextLeases(claims[c], now) \ {claims[c]} :
       claims' = [claims EXCEPT ![c] = e]
  /\ Change
  /\ UNCHANGED <<apiVars, scaledAt>>

EditSpec ==
  /\ \E s \in DistccSpecs \ {distcc.spec} :
       distcc' = [distcc EXCEPT !.spec = s]
  /\ fresh' = {}
  /\ Change
  /\ UNCHANGED <<claims, deploy, service, scaledAt>>

ReplaceDeployment ==
  /\ deploy' \in {Absent, [owner |-> "other", replicas |-> 1]} \ {deploy}
  /\ scaledAt' = Unset
  /\ Change
  /\ UNCHANGED <<claims, distcc, fresh, service>>

ReplaceService ==
  /\ service' \in {Absent, "other"} \ {service}
  /\ Change
  /\ UNCHANGED <<claims, distcc, fresh, deploy, scaledAt>>

(***************************************************************************)
(* The informers.                                                          *)
(***************************************************************************)
Watch(f, v) ==
  /\ cached' = [cached EXCEPT ![f] = v]
  /\ UNCHANGED <<now, claims, distcc, deploy, service, changes, sync, scaledAt>>

WatchClaim(c) ==
  /\ cached.claims[c] # claims[c]
  /\ Watch("claims", [cached.claims EXCEPT ![c] = claims[c]])
  /\ UNCHANGED fresh

WatchDistcc ==
  /\ "cache" \notin fresh
  /\ Watch("distcc", distcc)
  /\ fresh' = fresh \cup {"cache"}

WatchDeployment == cached.deploy # deploy /\ Watch("deploy", deploy) /\ UNCHANGED fresh
WatchService == cached.service # service /\ Watch("service", service) /\ UNCHANGED fresh

(***************************************************************************)
(* Sync, from one API call to the next.                                    *)
(***************************************************************************)
\* Mutant: the call is made without the Distcc it is for.
AtAnew(s, pc) == [Idle EXCEPT !.pc = pc]

At(s, pc) ==
  [pc |-> pc, distcc |-> s.distcc, replicas |-> 0, target |-> 0,
   created |-> s.created, scaled |-> s.scaled]

\* updateDistccStatus: nothing is written when nothing was done.
\* Mutant: the status is written every time.
StatusAlways(s) == At(s, "status")

Status(s) ==
  IF s.created \/ s.scaled THEN At(s, "status") ELSE Idle

\* syncService, with the Service of the cache.
SyncService(s) ==
  CASE cached.service = Absent   -> At(s, "service")
    [] cached.service = "distcc" -> Status(s)
    [] cached.service = "other"  -> Idle

\* Mutant: a claim that asks for a lease is given replicas already.
ValidClaimsAsking(spec) ==
  {c \in spec.selects : /\ cached.claims[c] # Absent
                        /\ \/ cached.claims[c] = Unset
                           \/ cached.claims[c] < now + spec.lease}

\* The claims that desiredReplicas gives replicas.
ValidClaims(spec) ==
  {c \in spec.selects :
     cached.claims[c] \notin {Absent, Unset} /\ cached.claims[c] < now + spec.lease}

Desired(spec) == DesiredReplicas(Cardinality(ValidClaims(spec)), spec)

\* The second half of syncDeployment, for a Deployment with that many
\* replicas.
SyncReplicas(s, replicas) ==
  LET spec == s.distcc.spec
  IN  IF NeedScale(replicas, Desired(spec), spec.window, s.distcc.lastScale, now)
      THEN [s EXCEPT !.pc = "scale", !.replicas = replicas, !.target = Desired(spec)]
      ELSE SyncService(s)

\* The first half, with the Deployment of the cache.  One that belongs to
\* somebody else is left alone.
SyncDeployment(s) ==
  IF cached.deploy = Absent THEN [s EXCEPT !.pc = "create"]
  ELSE IF cached.deploy.owner # "distcc" THEN Idle
  ELSE SyncReplicas(s, cached.deploy.replicas)

\* A Sync that does nothing is not a step.
Sync ==
  /\ sync.pc = "idle"
  /\ sync' = SyncDeployment(Called(cached.distcc))
  /\ sync'.pc # "idle"
  /\ fresh' = IF "cache" \in fresh THEN fresh \cup {"sync"} ELSE fresh \ {"sync"}
  /\ UNCHANGED <<now, claims, distcc, deploy, service, changes, cached, scaledAt>>

\* A call is applied, and Sync goes on to s unless the response is lost.
Applied(s) ==
  /\ sync' \in {s, Idle}
  /\ UNCHANGED <<now, claims, changes, cached>>

\* Create without replicas: the API server makes them one, and the answer
\* says so.
CreateDeployment ==
  /\ sync.pc = "create"
  /\ deploy = Absent
  /\ deploy' = [owner |-> "distcc", replicas |-> 1]
  /\ Applied(SyncReplicas([sync EXCEPT !.created = TRUE], 1))
  /\ scaledAt' = Unset
  /\ UNCHANGED <<distcc, fresh, service>>

\* Update with an object made from scratch, which has no resourceVersion:
\* whatever is stored under the name is replaced.  The API server refuses
\* negative replicas.
ScaleDeployment ==
  /\ sync.pc = "scale"
  /\ deploy # Absent
  /\ sync.target >= 0
  /\ deploy' = [owner |-> "distcc", replicas |-> sync.target]
  /\ scaledAt' = now
  /\ Applied(SyncService([sync EXCEPT !.scaled = TRUE]))
  /\ UNCHANGED <<distcc, fresh, service>>

CreateService ==
  /\ sync.pc = "service"
  /\ service = Absent
  /\ service' = "distcc"
  /\ Applied(Status([sync EXCEPT !.created = TRUE]))
  /\ UNCHANGED <<distcc, fresh, deploy, scaledAt>>

CanUpdateDistcc == "sync" \in fresh

StatusWritten ==
  /\ fresh' = {}
  /\ Applied(Idle)
  /\ UNCHANGED <<deploy, service, scaledAt>>

\* Mutant: the copy has no resourceVersion.
UpdateStatusAnyVersion ==
  /\ sync.pc = "status"
  /\ distcc' = [sync.distcc EXCEPT !.lastScale = IF sync.scaled THEN ToKubeTime(now) ELSE @]
  /\ StatusWritten

\* Mutant: the status is not copied but made from scratch.
UpdateStatusAnew ==
  /\ sync.pc = "status"
  /\ CanUpdateDistcc
  /\ distcc' = [sync.distcc EXCEPT !.lastScale = IF sync.scaled THEN ToKubeTime(now) ELSE Unset]
  /\ StatusWritten

\* Update of a deep copy of the Distcc that Sync got, with the new status.
UpdateStatus ==
  /\ sync.pc = "status"
  /\ CanUpdateDistcc
  /\ distcc' = [sync.distcc EXCEPT !.lastScale = IF sync.scaled THEN ToKubeTime(now) ELSE @]
  /\ StatusWritten

\* Already exists, not found, conflict, refused, or no answer at all: Sync
\* returns the error, and the next event or resync starts over.
SyncFails ==
  /\ sync.pc # "idle"
  /\ sync' = Idle
  /\ UNCHANGED <<now, claims, apiVars, changes, cached, scaledAt>>

ApiCall == CreateDeployment \/ ScaleDeployment \/ CreateService \/ UpdateStatus

ControllerStep == Sync \/ ApiCall \/ SyncFails

Next ==
  \/ Tick
  \/ \E c \in Claim : ChangeClaim(c) \/ WatchClaim(c)
  \/ EditSpec
  \/ ReplaceDeployment
  \/ ReplaceService
  \/ WatchDistcc
  \/ WatchDeployment
  \/ WatchService
  \/ ControllerStep

Spec == Init /\ [][Next]_vars

(***************************************************************************)
(* Fairness.  The informers deliver; every Distcc is synced again every 30 *)
(* seconds, NeedPeriodicSync being true; a call that the API server can    *)
(* accept does not fail forever.                                           *)
(***************************************************************************)
FairSpec ==
  /\ Spec
  /\ \A c \in Claim : WF_vars(WatchClaim(c))
  /\ WF_vars(WatchDistcc) /\ WF_vars(WatchDeployment) /\ WF_vars(WatchService)
  /\ WF_vars(ControllerStep)
  /\ SF_vars(CreateDeployment) /\ SF_vars(ScaleDeployment)
  /\ SF_vars(CreateService) /\ SF_vars(UpdateStatus)

TypeOK ==
  /\ now \in Time
  /\ claims \in Claims
  /\ distcc \in Distcc
  /\ fresh \subseteq {"cache", "sync"}
  /\ deploy \in Deployment \cup {Absent}
  /\ service \in Owner \cup {Absent}
  /\ changes \in 0 .. MaxChanges
  /\ cached \in [claims : Claims, distcc : Distcc, deploy : Deployment \cup {Absent},
                 service : Owner \cup {Absent}]
  /\ sync \in SyncState
  /\ sync.pc # "idle" => sync.distcc \in Distcc
  /\ scaledAt \in Time \cup {Unset}

(***************************************************************************)
(* Safety.                                                                 *)
(***************************************************************************)
\* Sync writes its whole copy of the Distcc back, which may be old: no step
\* of it reverts an edit of the Spec (updateDistccStatus).
SpecEditsKept == [][sync' # sync => distcc'.spec = distcc.spec]_vars

\* LastScaleTime never goes back, in spite of the old copies that are
\* written, so no scale that was recorded is forgotten (updateDistccStatus).
ScaleTimesAdvance ==
  [][distcc.lastScale # Unset =>
       distcc'.lastScale # Unset /\ distcc'.lastScale >= distcc.lastScale]_vars

\* The controller scales within the limits of a Spec the Distcc has had,
\* even when the replicas of all users overflow (desiredReplicas).
Consistent(spec) == spec.min = Unset \/ spec.min <= spec.max

WithinLimits ==
  LET spec == sync.distcc.spec
  IN  sync.pc = "scale" /\ Consistent(spec) =>
        sync.target <= spec.max /\ (spec.min # Unset => sync.target >= spec.min)

\* The downscale window is kept after every scale that Sync knows of: when
\* the controller takes replicas away too early, either the Distcc it was
\* called with did not have the time of the last scale, or its copy of the
\* Deployment other replicas than the stored one (needScale,
\* updateDistccStatus).
TakesReplicas ==
  /\ sync.pc = "scale" /\ scaledAt' = now /\ sync' # sync
  /\ deploy # Absent /\ deploy.owner = "distcc"
  /\ deploy'.replicas = sync.target /\ sync.target < deploy.replicas

WindowOver ==
  LET window == sync.distcc.spec.window
  IN  scaledAt = Unset \/ window = Unset \/ now + SecondTicks > scaledAt + window

KnowsLastScale ==
  /\ sync.replicas = deploy.replicas
  /\ scaledAt # Unset
  /\ sync.distcc.lastScale # Unset
  /\ sync.distcc.lastScale >= ToKubeTime(scaledAt)

WindowKeptWhenKnown ==
  [][TakesReplicas /\ KnowsLastScale => WindowOver]_vars

(***************************************************************************)
(* Liveness.                                                               *)
(***************************************************************************)
\* Nothing changes but by the controller, the informers and the clock.
Quiet == [][FALSE]_<<changes, now>>

\* As many servers as the stored claims ask for, unless the downscale window
\* is still open or the Deployment belongs to somebody else.
Settled ==
  LET spec    == distcc.spec
      valid   == {c \in spec.selects :
                    claims[c] \notin {Absent, Unset} /\ claims[c] < now + spec.lease}
      desired == DesiredReplicas(Cardinality(valid), spec)
  IN  /\ deploy # Absent
      /\ deploy.owner = "distcc" =>
           ~ NeedScale(deploy.replicas, desired, spec.window, distcc.lastScale, now)

\* The controller knows the cluster, and the cluster is as it should be.
AtRest ==
  /\ "cache" \in fresh /\ sync.pc = "idle"
  /\ cached.claims = claims /\ cached.deploy = deploy /\ cached.service = service
  /\ Settled
  /\ deploy.owner = "distcc" => service # Absent

\* Then it does nothing until somebody changes the cluster or time passes: no
\* resync makes it write, and nothing it wrote to get there undoes the rest
\* (Sync, needScale, updateDistccStatus).
RestsUntilDisturbed == [][AtRest => <<changes, now>>' # <<changes, now>>]_vars

\* When the claims and the Spec stay as they are, the controller gets to the
\* number of servers they ask for and stays there, whatever its caches were
\* and whichever calls failed on the way (Sync).
Converges == <>Quiet => <>[]Settled

\* And it then stops to write, be it only another resourceVersion of the same
\* status: its own writes do not make it write again (needScale,
\* updateDistccStatus).
StopsWriting == <>Quiet => <>[][FALSE]_apiVars
=============================================================================
