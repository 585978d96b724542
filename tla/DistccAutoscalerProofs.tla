----------------------- MODULE DistccAutoscalerProofs -----------------------
(***************************************************************************)
(* Proofs about DistccAutoscaler, for any claims, any values of the Spec,  *)
(* any width of the integers and any bound.                                *)
(***************************************************************************)
EXTENDS DistccAutoscaler, FiniteSetTheorems, TLAPS

(***************************************************************************)
(* The arithmetic.                                                         *)
(***************************************************************************)
LEMMA ToKubeTimeTruncates ==
  ASSUME NEW t \in Time
  PROVE  ToKubeTime(t) \in Time /\ ToKubeTime(t) <= t /\ t < ToKubeTime(t) + SecondTicks
PROOF BY SecondAssumption DEF ToKubeTime, Time

LEMMA ToKubeTimeIsMonotone ==
  ASSUME NEW t \in Time, NEW u \in Time, t <= u
  PROVE  ToKubeTime(t) <= ToKubeTime(u)
PROOF
<1> DEFINE s == SecondTicks
           p == t \div s
           q == u \div s
<1>1. /\ p \in Nat /\ q \in Nat /\ s \in Nat \ {0}
      /\ ToKubeTime(t) = s * p /\ ToKubeTime(u) = s * q
      /\ s * p <= t /\ u < s * q + s
  BY SecondAssumption DEF ToKubeTime, Time
<1>2. CASE p <= q
  <2>1. s * p <= s * q
    BY <1>1, <1>2
  <2> QED
    BY <1>1, <2>1
<1>3. CASE q + 1 <= p
  <2>1. s * (q + 1) <= s * p
    BY <1>1, <1>3
  <2>2. s * (q + 1) = s * q + s
    BY <1>1
  <2> QED
    BY <1>1, <2>1, <2>2 DEF Time
<1> QED
  BY <1>1, <1>2, <1>3

LEMMA WrapIsInt32 ==
  ASSUME NEW n \in Nat
  PROVE  Wrap(n) \in Int32
PROOF
<1>1. (n + Half) % (2 * Half) \in 0 .. 2 * Half - 1
  BY HalfAssumption
<1> QED
  BY <1>1, HalfAssumption DEF Wrap, Int32

\* What desiredReplicas returns is an int32 between the limits, when these
\* leave room for a number at all.
LEMMA DesiredReplicasInLimits ==
  ASSUME NEW valid \in Nat, NEW spec \in DistccSpecs
  PROVE  /\ DesiredReplicas(valid, spec) \in Int32
         /\ Consistent(spec) =>
              /\ DesiredReplicas(valid, spec) <= spec.max
              /\ spec.min # Unset => DesiredReplicas(valid, spec) >= spec.min
PROOF
<1>1. /\ spec.user \in Nat
      /\ spec.max \in Nat /\ spec.max < Half
      /\ spec.min \in Nat \cup {Unset}
      /\ spec.min # Unset => spec.min < Half
  BY SpecAssumption DEF DistccSpec
<1>2. valid * spec.user \in Nat
  BY <1>1
<1>3. Wrap(valid * spec.user) \in Int32
  BY <1>2, WrapIsInt32
<1> QED
  BY <1>1, <1>3, HalfAssumption, UnsetAssumption DEF DesiredReplicas, Consistent, Int32

LEMMA DesiredInLimits ==
  ASSUME NEW spec \in DistccSpecs
  PROVE  /\ Desired(spec) \in Int
         /\ Consistent(spec) =>
              /\ Desired(spec) <= spec.max
              /\ spec.min # Unset => Desired(spec) >= spec.min
PROOF
<1>1. ValidClaims(spec) \subseteq Claim
  BY SpecAssumption DEF ValidClaims, DistccSpec
<1>2. Cardinality(ValidClaims(spec)) \in Nat
  BY <1>1, ClaimAssumption, FS_Subset, FS_CardinalityType
<1> QED
  BY <1>2, HalfAssumption, DesiredReplicasInLimits DEF Desired, Int32

(***************************************************************************)
(* A good Sync has the Distcc it needs, and when it scales it has a reason *)
(* to: the target is within the limits, and the downscale window was over  *)
(* for the replicas and the status it knew.                                *)
(***************************************************************************)
ScaleOK(s) ==
  LET spec == s.distcc.spec
  IN  /\ Consistent(spec) =>
           s.target <= spec.max /\ (spec.min # Unset => s.target >= spec.min)
      /\ s.replicas > s.target =>
           spec.window = Unset \/ s.distcc.lastScale = Unset
             \/ now > s.distcc.lastScale + spec.window

GoodSync(s) ==
  /\ s \in SyncState
  /\ s.pc # "idle" => s.distcc \in Distcc
  /\ s.pc = "scale" => ScaleOK(s)

LEMMA IdleIsGood == GoodSync(Idle)
PROOF BY DEF GoodSync, Idle, Called, SyncState

LEMMA AtIsGood ==
  ASSUME NEW s \in SyncState, s.distcc \in Distcc, NEW pc \in {"create", "service", "status"}
  PROVE  GoodSync(At(s, pc)) /\ At(s, pc).distcc = s.distcc
PROOF
<1>1. s.created \in BOOLEAN /\ s.scaled \in BOOLEAN
  BY DEF SyncState
<1>2. At(s, pc) \in SyncState
  BY <1>1 DEF At, SyncState
<1>3. At(s, pc).pc = pc /\ At(s, pc).distcc = s.distcc
  BY DEF At
<1> QED
  BY <1>2, <1>3 DEF GoodSync

LEMMA SyncServiceIsGood ==
  ASSUME TypeOK, NEW s \in SyncState, s.distcc \in Distcc
  PROVE  /\ GoodSync(SyncService(s)) /\ GoodSync(Status(s))
         /\ SyncService(s) = Idle \/ SyncService(s).distcc = s.distcc
         /\ Status(s) = Idle \/ Status(s).distcc = s.distcc
PROOF
<1>1. GoodSync(Status(s)) /\ (Status(s) = Idle \/ Status(s).distcc = s.distcc)
  BY AtIsGood, IdleIsGood DEF Status
<1>2. cached.service \in {Absent, "distcc", "other"}
  BY DEF TypeOK, Owner
<1>3. Absent \notin {"distcc", "other"}
  BY AbsentAssumption
<1>4. SyncService(s) \in {At(s, "service"), Status(s), Idle}
  BY <1>2, <1>3 DEF SyncService
<1> QED
  BY <1>1, <1>4, AtIsGood, IdleIsGood

LEMMA SyncReplicasIsGood ==
  ASSUME TypeOK, NEW s \in SyncState, s.distcc \in Distcc, NEW replicas \in Nat
  PROVE  /\ GoodSync(SyncReplicas(s, replicas))
         /\ SyncReplicas(s, replicas) = Idle \/ SyncReplicas(s, replicas).distcc = s.distcc
PROOF
<1> DEFINE spec == s.distcc.spec
           target == Desired(spec)
           scale == [s EXCEPT !.pc = "scale", !.replicas = replicas, !.target = target]
<1>1. spec \in DistccSpecs
  BY DEF Distcc
<1>2. /\ target \in Int
      /\ Consistent(spec) => target <= spec.max /\ (spec.min # Unset => target >= spec.min)
  BY <1>1, DesiredInLimits
<1>3. CASE NeedScale(replicas, target, spec.window, s.distcc.lastScale, now)
  <2>1. scale \in SyncState /\ scale.distcc = s.distcc /\ scale.target = target
          /\ scale.replicas = replicas
    BY <1>2 DEF SyncState
  <2>2. ScaleOK(scale)
    <3> HIDE DEF scale
    <3> QED
      BY <1>2, <1>3, <2>1 DEF ScaleOK, NeedScale
  <2>3. SyncReplicas(s, replicas) = scale
    BY <1>3 DEF SyncReplicas
  <2> QED
    BY <2>1, <2>2, <2>3 DEF GoodSync
<1>4. CASE ~ NeedScale(replicas, target, spec.window, s.distcc.lastScale, now)
  BY <1>4, SyncServiceIsGood DEF SyncReplicas
<1> QED
  BY <1>3, <1>4

LEMMA SyncDeploymentIsGood ==
  ASSUME TypeOK
  PROVE  LET s == SyncDeployment(Called(cached.distcc))
         IN  GoodSync(s) /\ (s = Idle \/ s.distcc = cached.distcc)
PROOF
<1> DEFINE s == Called(cached.distcc)
           create == [s EXCEPT !.pc = "create"]
<1>1. s \in SyncState /\ s.distcc = cached.distcc /\ cached.distcc \in Distcc
  <2>1. cached.distcc \in Distcc
    BY DEF TypeOK
  <2> QED
    BY <2>1 DEF Called, SyncState
<1>2. CASE cached.deploy = Absent
  <2>1. create \in SyncState /\ create.pc = "create" /\ create.distcc = cached.distcc
    BY <1>1 DEF SyncState
  <2>2. GoodSync(create)
    <3> HIDE DEF create
    <3> QED
      BY <1>1, <2>1 DEF GoodSync
  <2>3. SyncDeployment(s) = create
    BY <1>2 DEF SyncDeployment
  <2> QED
    BY <2>1, <2>2, <2>3
<1>3. CASE cached.deploy # Absent
  <2>1. cached.deploy.replicas \in Nat
    BY <1>3 DEF TypeOK, Deployment
  <2>2. SyncDeployment(s) \in {Idle, SyncReplicas(s, cached.deploy.replicas)}
    BY <1>3 DEF SyncDeployment
  <2> HIDE DEF s
  <2> QED
    BY <1>1, <2>1, <2>2, SyncReplicasIsGood, IdleIsGood DEF s
<1> QED
  BY <1>2, <1>3

(***************************************************************************)
(* The invariant: the copies that are fresh are the stored Distcc, and no  *)
(* scale is recorded to have happened after now.                           *)
(***************************************************************************)
ScalerInv ==
  /\ TypeOK
  /\ GoodSync(sync)
  /\ "cache" \in fresh => cached.distcc = distcc
  /\ "sync" \in fresh /\ sync.pc # "idle" => sync.distcc = distcc
  /\ distcc.lastScale # Unset => distcc.lastScale <= ToKubeTime(now)

LEMMA ScalerInit == Init => ScalerInv
PROOF
<1> SUFFICES ASSUME Init PROVE ScalerInv
  OBVIOUS
<1>1. distcc \in Distcc /\ distcc.lastScale = Unset
  BY DEF Init, Distcc
<1>2. TypeOK
  BY <1>1, BoundsAssumption
  DEF Init, TypeOK, Claims, Deployment, Owner, Time, Idle, Called, SyncState
<1>3. sync = Idle /\ sync.pc = "idle"
  BY DEF Init, Idle, Called
<1> QED
  BY <1>1, <1>2, <1>3, IdleIsGood DEF Init, ScalerInv

\* A Sync stays good as time passes: a window that is over stays over.
LEMMA GoodSyncStays ==
  ASSUME TypeOK, GoodSync(sync), now' \in {now, now + 1}, UNCHANGED sync
  PROVE  GoodSync(sync)'
PROOF
<1>1. now \in Nat
  BY DEF TypeOK, Time
<1>2. sync.pc = "scale" =>
        /\ sync.distcc.lastScale \in Nat \cup {Unset}
        /\ sync.distcc.spec.window \in Nat \cup {Unset}
  BY SpecAssumption DEF GoodSync, Distcc, DistccSpec, Time
<1>3. sync.pc = "scale" => ScaleOK(sync)'
  BY <1>1, <1>2 DEF GoodSync, ScaleOK
<1> QED
  BY <1>3 DEF GoodSync

LEMMA NextLeasesAreTyped ==
  ASSUME TypeOK, NEW lease \in Nat \cup {Absent, Unset}
  PROVE  Lease!NextLeases(lease, now) \subseteq Nat \cup {Absent, Unset}
BY DEF Lease!NextLeases

LEMMA EnvironmentKeeps ==
  ASSUME ScalerInv,
         \/ Tick
         \/ \E c \in Claim : ChangeClaim(c) \/ WatchClaim(c)
         \/ EditSpec \/ ReplaceDeployment \/ ReplaceService
         \/ WatchDistcc \/ WatchDeployment \/ WatchService
  PROVE  ScalerInv'
PROOF
<1> USE DEF ScalerInv
<1>0. now \in Nat /\ now' \in {now, now + 1} /\ UNCHANGED sync
  BY DEF TypeOK, Time, Tick, ChangeClaim, WatchClaim, EditSpec, ReplaceDeployment,
         ReplaceService, WatchDistcc, WatchDeployment, WatchService, Watch, Change
<1>1. GoodSync(sync)'
  BY <1>0, GoodSyncStays
<1>2. sync \in SyncState /\ sync' \in SyncState /\ (sync'.pc # "idle" => sync'.distcc \in Distcc)
  BY <1>0, <1>1 DEF GoodSync
<1>3. CASE Tick
  <2>1. ToKubeTime(now) <= ToKubeTime(now') /\ ToKubeTime(now) \in Nat /\ ToKubeTime(now') \in Nat
    BY <1>0, ToKubeTimeIsMonotone, ToKubeTimeTruncates DEF Time
  <2>2. distcc.lastScale \in Nat \cup {Unset}
    BY DEF TypeOK, Distcc, Time
  <2>3. TypeOK'
    BY <1>0, <1>2, <1>3 DEF Tick, TypeOK, apiVars, Time
  <2> QED
    BY <1>1, <1>3, <2>1, <2>2, <2>3 DEF Tick, apiVars
<1>4. ASSUME NEW c \in Claim, ChangeClaim(c) PROVE ScalerInv'
  <2>1. claims[c] \in Nat \cup {Absent, Unset}
    BY DEF TypeOK, Claims, Time
  <2>2. PICK e \in Lease!NextLeases(claims[c], now) : claims' = [claims EXCEPT ![c] = e]
    BY <1>4 DEF ChangeClaim
  <2>3. claims' \in Claims
    BY <2>1, <2>2, NextLeasesAreTyped DEF TypeOK, Claims, Time
  <2>4. TypeOK'
    BY <1>2, <1>4, <2>3, BoundsAssumption DEF ChangeClaim, Change, TypeOK, apiVars
  <2> QED
    BY <1>1, <1>4, <2>4 DEF ChangeClaim, Change, apiVars
<1>5. ASSUME NEW c \in Claim, WatchClaim(c) PROVE ScalerInv'
  <2>1. cached'.claims \in Claims /\ cached'.distcc = cached.distcc
    BY <1>5 DEF WatchClaim, Watch, TypeOK, Claims
  <2>2. TypeOK'
    BY <1>2, <1>5, <2>1 DEF WatchClaim, Watch, TypeOK
  <2> QED
    BY <1>1, <1>5, <2>1, <2>2 DEF WatchClaim, Watch
<1>6. CASE EditSpec
  <2>1. distcc' \in Distcc /\ distcc'.lastScale = distcc.lastScale
    BY <1>6 DEF EditSpec, TypeOK, Distcc
  <2>2. TypeOK'
    BY <1>2, <1>6, <2>1, BoundsAssumption DEF EditSpec, Change, TypeOK
  <2> QED
    BY <1>1, <1>6, <2>1, <2>2 DEF EditSpec, Change
<1>7. CASE ReplaceDeployment
  <2>1. TypeOK'
    BY <1>2, <1>7, BoundsAssumption
    DEF ReplaceDeployment, Change, TypeOK, Deployment, Owner
  <2> QED
    BY <1>1, <1>7, <2>1 DEF ReplaceDeployment, Change
<1>8. CASE ReplaceService
  <2>1. TypeOK'
    BY <1>2, <1>8, BoundsAssumption DEF ReplaceService, Change, TypeOK, Owner
  <2> QED
    BY <1>1, <1>8, <2>1 DEF ReplaceService, Change
<1>9. CASE WatchDistcc
  <2>1. cached'.distcc = distcc
    BY <1>9 DEF WatchDistcc, Watch, TypeOK
  <2>2. TypeOK'
    BY <1>2, <1>9 DEF WatchDistcc, Watch, TypeOK
  <2> QED
    BY <1>1, <1>9, <2>1, <2>2 DEF WatchDistcc, Watch
<1>10. CASE WatchDeployment \/ WatchService
  <2>1. cached'.distcc = cached.distcc
    BY <1>10 DEF WatchDeployment, WatchService, Watch, TypeOK
  <2>2. TypeOK'
    BY <1>2, <1>10 DEF WatchDeployment, WatchService, Watch, TypeOK
  <2> QED
    BY <1>1, <1>10, <2>1, <2>2 DEF WatchDeployment, WatchService, Watch
<1> QED
  BY <1>3, <1>4, <1>5, <1>6, <1>7, <1>8, <1>9, <1>10

\* A call that is applied leaves a good Sync of the same Distcc, or none.
LEMMA AppliedIsGood ==
  ASSUME NEW s, GoodSync(s), s = Idle \/ s.distcc = sync.distcc, Applied(s)
  PROVE  /\ GoodSync(sync)'
         /\ sync' = Idle \/ sync'.distcc = sync.distcc
         /\ UNCHANGED <<now, claims, changes, cached>>
PROOF
<1>1. sync' \in {s, Idle} /\ UNCHANGED now
  BY DEF Applied
<1>2. GoodSync(sync')
  BY <1>1, IdleIsGood
<1>3. GoodSync(sync)'
  BY <1>1, <1>2 DEF GoodSync, ScaleOK
<1> QED
  BY <1>1, <1>3 DEF Applied

LEMMA ControllerKeeps ==
  ASSUME ScalerInv, ControllerStep
  PROVE  ScalerInv'
PROOF
<1> USE DEF ScalerInv
<1>0. sync \in SyncState /\ Idle.pc = "idle"
  BY DEF GoodSync, Idle, Called
<1>1. CASE Sync
  <2>1. GoodSync(sync') /\ sync'.distcc = cached.distcc
    BY <1>0, <1>1, SyncDeploymentIsGood DEF Sync
  <2>2. UNCHANGED <<now, claims, distcc, deploy, service, changes, cached, scaledAt>>
    BY <1>1 DEF Sync
  <2>3. GoodSync(sync)'
    BY <2>1, <2>2 DEF GoodSync, ScaleOK
  <2>4. TypeOK'
    BY <1>1, <2>1, <2>2 DEF Sync, TypeOK, GoodSync
  <2>5. fresh' = IF "cache" \in fresh THEN fresh \cup {"sync"} ELSE fresh \ {"sync"}
    BY <1>1 DEF Sync
  <2> QED
    BY <2>1, <2>2, <2>3, <2>4, <2>5
<1>2. CASE CreateDeployment
  <2> DEFINE created == [sync EXCEPT !.created = TRUE]
             s == SyncReplicas(created, 1)
  <2>1. created \in SyncState /\ created.distcc = sync.distcc /\ sync.distcc \in Distcc
    BY <1>0, <1>2 DEF CreateDeployment, SyncState, GoodSync
  <2>2. GoodSync(s) /\ (s = Idle \/ s.distcc = sync.distcc)
    <3> HIDE DEF created
    <3> QED
      BY <2>1, SyncReplicasIsGood
  <2>3. Applied(s)
    BY <1>2 DEF CreateDeployment
  <2>4. /\ GoodSync(sync)'
        /\ sync' = Idle \/ sync'.distcc = sync.distcc
        /\ UNCHANGED <<now, claims, changes, cached>>
    <3> HIDE DEF s
    <3> QED
      BY <2>2, <2>3, AppliedIsGood
  <2>5. TypeOK'
    BY <1>2, <2>4 DEF CreateDeployment, TypeOK, Deployment, Owner, GoodSync
  <2> QED
    BY <1>0, <1>2, <2>4, <2>5 DEF CreateDeployment
<1>3. CASE ScaleDeployment
  <2> DEFINE scaled == [sync EXCEPT !.scaled = TRUE]
             s == SyncService(scaled)
  <2>1. scaled \in SyncState /\ scaled.distcc = sync.distcc /\ sync.distcc \in Distcc
    BY <1>0, <1>3 DEF ScaleDeployment, SyncState, GoodSync
  <2>2. GoodSync(s) /\ (s = Idle \/ s.distcc = sync.distcc)
    <3> HIDE DEF scaled
    <3> QED
      BY <2>1, SyncServiceIsGood
  <2>3. Applied(s)
    BY <1>3 DEF ScaleDeployment
  <2>4. /\ GoodSync(sync)'
        /\ sync' = Idle \/ sync'.distcc = sync.distcc
        /\ UNCHANGED <<now, claims, changes, cached>>
    <3> HIDE DEF s
    <3> QED
      BY <2>2, <2>3, AppliedIsGood
  <2>5. sync.target \in Nat
    BY <1>0, <1>3 DEF ScaleDeployment, SyncState
  <2>6. TypeOK'
    BY <1>3, <2>4, <2>5 DEF ScaleDeployment, TypeOK, Deployment, Owner, GoodSync
  <2> QED
    BY <1>0, <1>3, <2>4, <2>6 DEF ScaleDeployment
<1>4. CASE CreateService
  <2> DEFINE created == [sync EXCEPT !.created = TRUE]
             s == Status(created)
  <2>1. created \in SyncState /\ created.distcc = sync.distcc /\ sync.distcc \in Distcc
    BY <1>0, <1>4 DEF CreateService, SyncState, GoodSync
  <2>2. GoodSync(s) /\ (s = Idle \/ s.distcc = sync.distcc)
    <3> HIDE DEF created
    <3> QED
      BY <2>1, SyncServiceIsGood
  <2>3. Applied(s)
    BY <1>4 DEF CreateService
  <2>4. /\ GoodSync(sync)'
        /\ sync' = Idle \/ sync'.distcc = sync.distcc
        /\ UNCHANGED <<now, claims, changes, cached>>
    <3> HIDE DEF s
    <3> QED
      BY <2>2, <2>3, AppliedIsGood
  <2>5. TypeOK'
    BY <1>4, <2>4 DEF CreateService, TypeOK, Owner, GoodSync
  <2> QED
    BY <1>0, <1>4, <2>4, <2>5 DEF CreateService
<1>5. CASE UpdateStatus
  <2>1. Applied(Idle) /\ sync.distcc = distcc /\ fresh' = {}
    BY <1>5 DEF UpdateStatus, StatusWritten, CanUpdateDistcc
  <2>2. GoodSync(sync)' /\ UNCHANGED <<now, claims, changes, cached>>
    BY <2>1, AppliedIsGood, IdleIsGood
  <2>3. ToKubeTime(now) \in Time
    BY ToKubeTimeTruncates DEF TypeOK
  <2>4. distcc' \in Distcc /\ distcc'.lastScale \in {ToKubeTime(now), distcc.lastScale}
    BY <1>5, <2>1, <2>3 DEF UpdateStatus, StatusWritten, TypeOK, Distcc
  <2>5. TypeOK'
    BY <1>5, <2>1, <2>2, <2>4 DEF UpdateStatus, StatusWritten, TypeOK, GoodSync
  <2> QED
    BY <2>1, <2>2, <2>3, <2>4, <2>5 DEF Time
<1>6. CASE SyncFails
  <2>1. sync' = Idle /\ UNCHANGED <<now, claims, apiVars, changes, cached, scaledAt>>
    BY <1>6 DEF SyncFails
  <2>2. GoodSync(sync')
    BY <2>1, IdleIsGood
  <2>3. GoodSync(sync)'
    BY <2>1, <2>2 DEF GoodSync, ScaleOK
  <2>4. TypeOK'
    BY <2>1, <2>2 DEF TypeOK, apiVars, GoodSync
  <2> QED
    BY <1>0, <2>1, <2>3, <2>4 DEF apiVars
<1> QED
  BY <1>1, <1>2, <1>3, <1>4, <1>5, <1>6 DEF ControllerStep, ApiCall

LEMMA ScalerStep == ScalerInv /\ [Next]_vars => ScalerInv'
PROOF
<1> SUFFICES ASSUME ScalerInv, [Next]_vars PROVE ScalerInv'
  OBVIOUS
<1>1. CASE UNCHANGED vars
  <2>1. GoodSync(sync)'
    BY <1>1 DEF ScalerInv, GoodSync, ScaleOK, vars
  <2> QED
    BY <1>1, <2>1 DEF ScalerInv, TypeOK, vars, apiVars
<1> QED
  BY <1>1, EnvironmentKeeps, ControllerKeeps DEF Next

LEMMA ScalerInvariant == Spec => []ScalerInv
PROOF
<1> QED
  BY ScalerInit, ScalerStep, PTL DEF Spec

\* The cluster, the caches and the running Sync have their types.
THEOREM ScalerTypeCorrect == Spec => []TypeOK
PROOF
<1>1. ScalerInv => TypeOK
  BY DEF ScalerInv
<1> QED
  BY <1>1, ScalerInvariant, PTL

\* Every scale is within the limits of the Spec it was computed from, for
\* any number of claims and any width of the replicas.
THEOREM ScalesWithinLimits == Spec => []WithinLimits
PROOF
<1>1. ScalerInv => WithinLimits
  BY DEF ScalerInv, GoodSync, ScaleOK, WithinLimits
<1> QED
  BY <1>1, ScalerInvariant, PTL

\* No write of the status reverts an edit of the Spec.
THEOREM SpecEditsAreKept == Spec => SpecEditsKept
PROOF
<1>1. ScalerInv /\ [Next]_vars => [sync' # sync => distcc'.spec = distcc.spec]_vars
  <2> SUFFICES ASSUME ScalerInv, Next, sync' # sync PROVE distcc'.spec = distcc.spec
    OBVIOUS
  <2>1. ControllerStep
    BY DEF Next, Tick, ChangeClaim, WatchClaim, EditSpec, ReplaceDeployment, ReplaceService,
           WatchDistcc, WatchDeployment, WatchService, Watch, Change
  <2>2. CASE UpdateStatus
    <3>1. sync.distcc = distcc /\ distcc \in Distcc
      BY <2>2 DEF UpdateStatus, StatusWritten, CanUpdateDistcc, ScalerInv, TypeOK
    <3> QED
      BY <2>2, <3>1 DEF UpdateStatus, StatusWritten, Distcc
  <2>3. CASE ~ UpdateStatus
    BY <2>1, <2>3 DEF ControllerStep, ApiCall, Sync, CreateDeployment, ScaleDeployment,
                      CreateService, SyncFails, apiVars
  <2> QED
    BY <2>2, <2>3
<1> QED
  BY <1>1, ScalerInvariant, PTL DEF Spec, SpecEditsKept

\* No write of the status takes the time of a recorded scale back.
THEOREM ScaleTimesOnlyAdvance == Spec => ScaleTimesAdvance
PROOF
<1> DEFINE Advances ==
      distcc.lastScale # Unset =>
        distcc'.lastScale # Unset /\ distcc'.lastScale >= distcc.lastScale
<1>1. ScalerInv /\ [Next]_vars => [Advances]_vars
  <2> SUFFICES ASSUME ScalerInv, Next PROVE Advances
    OBVIOUS
  <2>1. distcc.lastScale \in Nat \cup {Unset} /\ distcc \in Distcc /\ Unset \notin Nat
    BY UnsetAssumption DEF ScalerInv, TypeOK, Distcc, Time
  <2>2. CASE UpdateStatus
    <3>1. ToKubeTime(now) \in Nat
      BY ToKubeTimeTruncates DEF ScalerInv, TypeOK, Time
    <3>2. distcc'.lastScale \in {ToKubeTime(now), distcc.lastScale}
      BY <2>1, <2>2 DEF UpdateStatus, StatusWritten, CanUpdateDistcc, ScalerInv, Distcc
    <3> QED
      BY <2>1, <3>1, <3>2 DEF ScalerInv
  <2>3. CASE EditSpec
    BY <2>1, <2>3 DEF EditSpec, Distcc
  <2>4. CASE UNCHANGED distcc
    BY <2>1, <2>4
  <2> QED
    BY <2>2, <2>3, <2>4
    DEF Next, ControllerStep, ApiCall, Sync, CreateDeployment, ScaleDeployment, CreateService,
        SyncFails, Tick, ChangeClaim, WatchClaim, ReplaceDeployment, ReplaceService,
        WatchDistcc, WatchDeployment, WatchService, Watch, Change, apiVars
<1> QED
  BY <1>1, ScalerInvariant, PTL DEF Spec, ScaleTimesAdvance

\* A downscale that comes too early was decided without the last scale, or
\* for other replicas than the stored ones.
THEOREM WindowsAreKeptWhenKnown == Spec => WindowKeptWhenKnown
PROOF
<1>1. ScalerInv => (TakesReplicas /\ KnowsLastScale => WindowOver)
  <2> SUFFICES ASSUME ScalerInv, TakesReplicas, KnowsLastScale PROVE WindowOver
    OBVIOUS
  <2> DEFINE window == sync.distcc.spec.window
             last == sync.distcc.lastScale
  <2>1. sync.pc = "scale" /\ sync.replicas > sync.target
    BY DEF TakesReplicas, KnowsLastScale, ScalerInv, TypeOK, SyncState
  <2>2. ScaleOK(sync) /\ sync.distcc \in Distcc
    BY <2>1 DEF ScalerInv, GoodSync
  <2>3. window = Unset \/ now > last + window
    BY <2>1, <2>2 DEF ScaleOK, KnowsLastScale
  <2>4. window \in Nat \cup {Unset} /\ last \in Nat /\ now \in Nat /\ scaledAt \in Nat
    BY <2>2, SpecAssumption DEF Distcc, DistccSpec, KnowsLastScale, ScalerInv, TypeOK, Time
  <2>5. last >= ToKubeTime(scaledAt) /\ ToKubeTime(scaledAt) \in Nat
          /\ scaledAt < ToKubeTime(scaledAt) + SecondTicks /\ SecondTicks \in Nat
    BY <2>4, ToKubeTimeTruncates, SecondAssumption DEF KnowsLastScale, Time
  <2> QED
    BY <2>3, <2>4, <2>5 DEF WindowOver
<1> QED
  BY <1>1, ScalerInvariant, PTL DEF Spec, WindowKeptWhenKnown

\* A controller that knows the cluster and finds it as it should be only
\* moves when somebody changes the cluster or time passes: the numbers it
\* computes from its caches are those that the stored claims ask for.
THEOREM RestLastsUntilDisturbed == Spec => RestsUntilDisturbed
PROOF
<1>1. ScalerInv /\ [Next]_vars => [AtRest => <<changes, now>>' # <<changes, now>>]_vars
  <2> SUFFICES ASSUME ScalerInv, Next, AtRest PROVE changes' # changes \/ now' # now
    OBVIOUS
  <2>1. cached.distcc = distcc /\ distcc \in Distcc /\ deploy \in Deployment
    BY DEF ScalerInv, AtRest, Settled, TypeOK
  <2>2. Desired(distcc.spec) =
          DesiredReplicas(Cardinality({c \in distcc.spec.selects :
            claims[c] \notin {Absent, Unset} /\ claims[c] < now + distcc.spec.lease}),
            distcc.spec)
    BY DEF AtRest, Desired, ValidClaims
  <2>3. SyncDeployment(Called(cached.distcc)).pc = "idle"
    <3> DEFINE s == Called(distcc)
    <3>1. s.distcc = distcc /\ s.created = FALSE /\ s.scaled = FALSE
      BY DEF Called
    <3>2. Idle.pc = "idle"
      BY DEF Idle, Called
    <3> HIDE DEF s
    <3>3. CASE deploy.owner = "distcc"
      <4>1. ~ NeedScale(deploy.replicas, Desired(distcc.spec), distcc.spec.window,
                        distcc.lastScale, now)
        BY <2>2, <3>3 DEF AtRest, Settled
      <4>2. SyncReplicas(s, deploy.replicas) = SyncService(s)
        BY <3>1, <4>1 DEF SyncReplicas
      <4>3. service \in Owner
        BY <3>3 DEF AtRest, ScalerInv, TypeOK
      <4>4. SyncService(s) = Idle
        BY <3>1, <4>3 DEF AtRest, SyncService, Status, Owner
      <4>5. SyncDeployment(s) = SyncReplicas(s, deploy.replicas)
        BY <2>1, <3>3, AbsentAssumption DEF AtRest, Settled, SyncDeployment
      <4> QED
        BY <2>1, <3>2, <4>2, <4>4, <4>5 DEF s
    <3>4. CASE deploy.owner # "distcc"
      BY <2>1, <3>2, <3>4 DEF AtRest, Settled, SyncDeployment, s
    <3> QED
      BY <3>3, <3>4
  <2>4. ~ ControllerStep
    BY <2>3 DEF AtRest, ControllerStep, Sync, ApiCall, CreateDeployment, ScaleDeployment,
                CreateService, UpdateStatus, SyncFails
  <2>5. ~ WatchDistcc /\ ~ WatchDeployment /\ ~ WatchService
          /\ \A c \in Claim : ~ WatchClaim(c)
    BY DEF AtRest, WatchDistcc, WatchDeployment, WatchService, WatchClaim
  <2>6. changes \in Nat /\ now \in Nat
    BY BoundsAssumption DEF ScalerInv, TypeOK, Time
  <2> QED
    BY <2>4, <2>5, <2>6
    DEF Next, Tick, ChangeClaim, EditSpec, ReplaceDeployment, ReplaceService, Change
<1> QED
  BY <1>1, ScalerInvariant, PTL DEF Spec, RestsUntilDisturbed
=============================================================================
