# k8cc in TLA+

k8cc leases distcc servers and build clients that run in Kubernetes to
developers. It is two programs: `k8cc-api`, an HTTP service that developers call,
and `k8cc-controller`, three controllers that turn custom resources into
Deployments and Services. They never talk to each other: they share the objects
that the Kubernetes API server stores.

```
 developers --HTTP--> LeaseService --get/create/update/delete--+
                                                               v
 kubectl (operators) -------------- edits ------------->  API server
                                                          ^         |
       DistccClaim, Distcc, DistccClientClaim controllers-+         | watch
             ^                                                      v
             +---- Sync(key) <- workers <- work queue <- handlers <- informer caches
```

This directory specifies that program, checks it with TLC on small instances and
proves the theorems below with TLAPS. File and line references are to the source
at the commit this directory belongs to.

## Inventory

| component | state it keeps | operations | hard behaviour | what makes it correct |
|---|---|---|---|---|
| DistccClaim controller (`distccclaim_controller.go`) | informer caches of claims and Distccs | `Sync`: grant a lease, shorten it, remove a lapsed claim | caches lag; one API call between decision and effect; two pods during a rollout; truncated timestamps | grants answer renewals only; nothing is removed that never lapsed; renewals are served |
| Leasing service (`service.go`, `endpoints.go`, `transport.go`, `middlewares.go`) | none between requests; attempt counters and read objects within one | `LeaseDistcc`, `DeleteDistcc`, `LeaseClient`, `DeleteClient` | retries of calls that were applied, lost responses, contexts that end while a goroutine works, concurrent requests for one claim | an answer is true of the stored claim; one attempt at a time; nobody is sent to somebody else's pod |
| Controller kit (`controller_kit.go`) | work queue, `stopCh`, workers | event handlers, `Run`, `processNextWorkItem`, `syncHandler` | handlers, waiting loop and workers interleave; failures; stop | no lost change, no two Syncs of a key at a time, workers stop |
| Work queue of client-go (vendored) | queue, dirty and processing sets, heap, channel, failure counts | `Add`, `Get`, `Done`, `AddRateLimited`, `Forget`, `ShutDown` | condition variable, bounded channel | no lost wakeup |
| Distcc controller (`distcc_controller.go`) | informer caches; `Status.LastScaleTime` | `Sync`: create and scale the Deployment, create the Service, write the status | four calls that fail one by one, unconditional `Update`s, stale caches, `int32` arithmetic | limits, downscale window, no lost edits, convergence |
| DistccClientClaim controller, `refresolver.go` | informer caches; references in the status | `Sync`: find or create a Deployment and a Service per claim, set the expiration, remove lapsed claims | objects found by reference or by labels, created before they are referenced | a claim refers to its own objects only; it is granted with both or not at all; it is granted and removed in spite of ambiguous objects |
| Shared client and informer factories (`shared_client.go`, `pkg/client/informers`) | informers, which were started, their caches | `InformerFor`, `Start`, watch, resync every 30 s | informers are shared by controllers and started once; missed deletions arrive as tombstones | each controller reads an informer that runs; every change is notified or resynced |
| Programs (`cmd/`) | `stopCh`, a channel of errors | start, signal, exit | several senders, one receiver, a channel that is closed | the controllers get to work; the process ends, and for a reason |

`pkg/data` and `pkg/apis` declare types. `PROJECT.json` says of each part what is modelled.

## The modules

| module | models | extends |
|---|---|---|
| `KubeTime` | `conv.ToKubeTime`: stored instants are truncated to the second | |
| `KubeStore` | the API server for one Distcc and its claims; `isExpired` | `KubeTime` |
| `DistccClaimController` | the claim controller, any number of processes | `KubeStore` |
| `LeaseService` | `LeaseDistcc`, `DeleteDistcc`, `getWithRetry`, the answers | `KubeStore` |
| `DistccLeasing` | controller + service + store + operator; the properties | both above |
| `LeaseContract` | abstract: what a lease promises | |
| `ReferenceResolver` | `refresolver.go`, as operators on the objects of a cache | |
| `ClientStore` | the API server for one DistccClient, a claim of one user, Deployments and Services | `KubeTime`, `ReferenceResolver` |
| `ClientClaimController` | the DistccClientClaim controller, any number of processes | `ClientStore` |
| `ClientLeaseService` | `LeaseClient`, `DeleteClient` | `ClientStore` |
| `ClientLeasing` | controller + service + store + operator; the properties | both above |
| `ClientLeaseContract` | abstract: what a lease of a client promises, with its pod and its port | |
| `GetWithRetry` | `getWithRetry` with its goroutines and its channel | |
| `RetryContract` | abstract: what the services rely on when they call it | |
| `Programs` | the two `main`s, the informer factories, from start to end | |
| `WorkQueue` | client-go's rate limiting queue | |
| `ControllerKit` | the kit: handlers, `Run`, workers; the properties | `WorkQueue` |
| `KeyedSync` | abstract: what the kit promises the handlers of a key | |
| `ReplicaPolicy` | `desiredReplicas` and `needScale`, with `int32` overflow | `KubeTime` |
| `LeaseLife` | what the expiration of a claim goes through, for those who only count claims | |
| `DistccAutoscaler` | the Distcc controller on a changing cluster; the properties | `ReplicaPolicy` |
| `*Proofs` | theorems about `DistccLeasing`, `ClientLeasing`, `GetWithRetry`, `ControllerKit`, `DistccAutoscaler`, `Programs` | these |
| `MC*` | constants and symmetry for TLC | these |

### How state and actions correspond to the code

*Store.* `history[c]` is the sequence of values of claim `c`, with `Absent` for a
deletion, and the index of a value is its resourceVersion. An `Update` compares
versions because the controllers and the service send back a deep copy of what
they read; `Delete(name, nil)` compares nothing. Keeping the history lets
informer caches be indexes into it (`seen`, `dseen`), and the properties speak of
earlier versions.

*A Sync and its call.* Code between two API calls reads the cache and the clock and
is one step (`SyncExpired` or `SyncRenew`); the call itself is another
(`SyncDelete`, `SyncUpdate`), which succeeds, or is refused, or gets lost
(`SyncFails`), and ends the Sync. The two branches of `Sync` at lines 118-131
are told apart by their guards; a Sync that finds nothing to do is no step. A
restart drops the calls and starts from any earlier snapshot.

*A request.* `req[r].pc` is the API call the request does next. A transient error
starts the attempt again until `Steps` of them failed; when the context ends,
`getWithRetry` waits for the attempt and answers `ErrCanceled` whatever it did
(`EndAttempt`); a write whose response gets lost has been applied (`Write`). `start`
and `wrote` are history variables.

*A claim of a client.* A Sync of the client controller reads four caches (`seen`), of
which each may be behind by itself, and runs until it sends a call: `SyncExpired`
decides on the delete, `Sync` finds the Deployment and the Service (`SyncDeploy`,
`SyncService`, both `SyncObject`) and stops at the first that has to be created, or
at the final `Update` if anything changed. `Create` goes on with the answer of the
server, `SyncDelete` and `SyncUpdate` end the Sync, `SyncFails` is a call that was
refused or lost. A cache that moves takes over what the server has: that it may
also pass through the versions in between, late, is left out, for a cache that has
not moved is just as old. A process that dies loses its Sync, as when a call fails
(`SyncFails`), and the next one lists what the server has or had, as a cache that moves
or stays. Objects are named by the order of their creation, since
`GenerateName` never gives a name twice; `owner` is the uid in the owner reference.
`writes` numbers the writes to the claim and is its resourceVersion and, at its
creation, its uid. In `ClientLeaseService`, `got` is the copy of the claim that
the attempt has read and sends back. `since`, a history variable, is the uid of the
oldest claim whose pod may be answered.

*getWithRetry.* `getter[phase, step]` is the goroutine of one attempt, `caller` the
goroutine of the request: `select`, `drain` (the receive after `ctx.Done()`), and
the return that closes the channel. `RetryContract` is the loop as `LeaseService`
and `ClientLeaseService` have it: an attempt, its judgement, the next one; the
refinement mapping shows an attempt as made when its goroutine offers the outcome.

*Programs.* `routine[g]` is the position of the goroutines that send on `errs`, and
`informer`, `holds` and `started` are the maps of the two factories and what the
controllers took from them. Both programs are in one module, since they share the
shape; `program` says which one it is.

*Queue and kit.* Every method of the queue holds its lock and is one step. A worker
in `Get` is in `waiters` until `Signal` or `ShutDown` wakes it. `cache` says which
custom resources the informers have; notifications wait in `events`. Of what
`Sync(k)` reads besides, only changes count, and there are two sorts. `told` are those
that the handlers can follow to `k`: of the resource itself (`enqueueCustomResource`), or of
an object whose controller reference or `OnControlledObjectUpdate` names `k` while `k` is in the
cache (`handleObject`). `quiet` are those they skip: the Distcc or the DistccClient of a
claim, which has no owner (`distccclaim_controller.go:134`, `distccclientclaim_controller.go:186`),
an object with the right labels and another owner, a change while the resource is not there,
a tombstone. An event whose owner has left the cache when it is handled is dropped, too.
A Sync that looks reads all of them. How long a key is delayed is left open, so is the
token bucket.

*Distcc controller.* `sync` is the API call that the running Sync does next;
`At`, `Status`, `SyncService`, `SyncReplicas` and `SyncDeployment` are the
functions of the same names, each from where it is entered to the next call.
`fresh` says which copies of the Distcc have the stored resourceVersion.
`scaledAt` is a history variable. Claims change as `LeaseLife` says - as the leasing
changes them, which `LeasesAreAsCounted` proves - and `kubectl` changes the Spec, the Deployment and the Service.

Definitions marked *Mutant* in a comment are wrong on purpose: each is a
plausible bug in the definition that follows, and no specification uses it. Put
in its place, it makes TLC find one of the properties violated; the pairs are
listed in `PROJECT.json`.

## What TLC checks

`tlc -config <run>.cfg <module>`, where the module is the `MC` module of the system
or the module itself; each run takes between seconds and three minutes with two
workers.

| run | specification and bounds | properties |
|---|---|---|
| `LeasingControllers` | 1 claim, 2 requests, 2 controllers, seconds of 2 ticks, leases of 2 and 3 ticks, clock to 4 | `TypeOK`, `GrantsAnswerRenewals`, `AcknowledgedRenewal`, `AnsweredRelease`, `ImplementsContract` |
| `LeasingLiveness` | 1 request of 2 attempts, 1 controller, 1 restart, a Distcc that is edited | `RequestsAnswered`, `RenewalsServed`, `LapsedRemoved` |
| `KitSafety` | 2 keys, 2 workers, room for 2 events and 1 delayed key | `NoConcurrentSync`, `NoLostEvent`, `NoLostWakeup`, `ImplementsContract` |
| `KitLiveness` | 1 key, 2 workers, room for 1 event | `TypeOK`, `ChangesRead`, `FailuresRetried`, `WorkersExit` |
| `AutoscalerSafety` | 2 claims, 2 Specs, 4 changes of the cluster, clock to 2 | `TypeOK`, `WithinLimits`, `SpecEditsKept`, `ScaleTimesAdvance`, `WindowKeptWhenKnown` |
| `AutoscalerLiveness` | 1 claim, a window of 1, 3 changes, clock to 2 | `Converges`, `StopsWriting` |
| `ClientSafety` | 1 user, 2 requests of 2 attempts, 1 controller, 2 objects, clock to 2 | `TypeOK`, `GrantedIsComplete`, `AnsweredOwnService`, `ReleasedIsGone`, `ImplementsContract` |
| `ClientLiveness` | 1 request, 1 controller, 3 objects, 1 change by an operator or somebody else, clock to 2 | `RefsControlled`, `ClaimsServed`, `LapsedRemoved` |
| `GetWithRetry` | 2 phases of 12 attempts, as in the code | `TypeOK`, `GettersAlone`, `NoGetterLeft`, `ImplementsContract`, `Returns` |
| `Programs` | both programs, as they are | `CachesShared`, `EndsForAReason`, `ControllersRun`, `Ends` |

Two more runs end with a counterexample, on purpose: see *Where the code and its
words differ*.

**Why these bounds.** A claim is never related to another claim by the service or
the claim controller, so one is enough there; two requests and two controllers
are the fewest that race. A lease can be granted, lapse, be renewed and be
granted again before the clock stops. With seconds of two ticks and leases of two or
three, half of the grants are truncated. In `ClientSafety` a claim is released and
made again while the objects of the first are in the caches; that takes 2 objects of
the 2 kinds, and a third in `ClientLiveness` makes a reference ambiguous. What a
request may meet in more attempts, or with more controllers, is covered by the
theorems, which hold for any number. In
`KitSafety` a full channel, a full event buffer, a key that changes while it is
processed, and a worker that finds the queue empty after it was woken all occur. Changes
are not bounded there. Its `VIEW` leaves out the counts of failures, the outcomes and `quiet`,
of which no action's guard or effect on the rest and no property of that run depends.
In `AutoscalerSafety` the product of claims and replicas exceeds the maximum with
one Spec (`Large`) and wraps around in four bits with the other (`Wrapping`), which
also changes minimum and window when it is edited. Symmetry is used in safety runs
only. Deadlock is not checked: requests are finite, the clock stops at its bound, and
a stopped process does nothing more.

**Fairness.** Informers deliver what they watch and resync every 30 s
(`shared_client.go:39`), so watching and starting a Sync are weakly fair; a Sync
that runs does return. A call that the API server can accept may fail any number
of times but not forever: strong fairness, without which nothing could be expected
of retries. Requests run until they are answered, since `getWithRetry` is bounded.
In the client model a call of the controller may fail likewise; that it is
granted needs objects that can be told apart (`Provides`), which nothing in the code
brings about. `getWithRetry` returns because the calls of the client to the API
server have a timeout. In `Programs` goroutines that can go on do.
In the kit the goroutines are weakly fair; `Resync` is strongly fair, because the
buffer for events may be full when the timer fires. Nothing forces users, operators,
the clock, crashes or `Stop`.

**What the runs show.** *Leasing*: a lease is only ever granted to a version of
the claim that asked for it, because the `Update` carries the resourceVersion of
what `Sync` read. The controller decides on a removal only after a lease of the
claim has ended. Answers with status 200 (and 404 of a release) are true of a stored
version not older than the request. The whole implements
`LeaseContract`, where a claim is asked for, granted and shortened, and removed
by its user or after *some* issued lease ended; "its current lease" would be
false. *Kit*: no change is forgotten, no
resource is synced twice at a time, and a wakeup lost by one worker is never
needed by another. It implements `KeyedSync`, in which a changed key stays due until a
worker begins a Sync that has still to look, and only a stop, or a deletion of the
resource that nobody is told of, drops what is due. All of this is about the changes in
`told`: those that `handleObject` skips are read at the next resync and not before, which
`ChangesRead` shows of both sorts. Failed Syncs are not requeued but repeated by the
resync as well. *Autoscaler*: stale
copies revert neither Specs nor times; limits hold even when the
product wraps; whenever Sync knows of the last scale it keeps the window; once the
cluster is quiet the controller reaches the number asked for and stops writing.
*Clients*: service and controller implement `ClientLeaseContract`, in which a claim is
granted once for each time it is asked for, with an object of either kind that was made
for that very claim, is only shortened after that, and is removed by its user or after
a lease that somebody still knows of has ended. That may be a lease of its own (`Lapsed`)
or, as the delete names no uid (`distccclientclaim_controller.go:150`), of an earlier claim of its
user (`Mistaken`): a claim that was made again and never granted may be removed that way, and
without `Mistaken` TLC refutes `ImplementsContract`. A claim that was leased again after a release never gets the pod of the
claim before, though labels and caches still offer it, because `IsControlledBy`
compares uids; it is then not granted until the garbage collector has been there. A
claim whose objects cannot be told from others of the same labels is not granted
but still removed when it lapses. A second Deployment that a Sync on an old cache
creates may stay beside the one that the claim refers to; both are the claim's own.
*Retries*: no goroutine of a request outlives it
and no two attempts run at once, also when the context ends; hence
the models of the service may take an attempt as a sequence of calls. *Programs*: the
controllers share one informer per kind and wait for one that runs; a signal, or
the failure of the HTTP server, ends the process whichever goroutine is the first to
send. It may end with a panic: see below.

## Where the code and its words differ

Two runs state what a comment says and TLC refutes it:

* `StaleDelete`: "Check expiration time, and in case delete the resource". The
  delete is decided on the cache and has no precondition; a claim that was renewed,
  or removed and leased again, is deleted (`distccclaim_controller.go:121`). The controller
  of the clients has the same comment and the same call (`distccclientclaim_controller.go:148`);
  `Mistaken` and `Lapsed` of `ClientLeaseContract` are what is left of the rule.
* `KitForget`: "Doesn't matter whether its for perm failing or for success". A
  permanent error does not call `Forget`, so every event and resync of a failing
  resource makes the next delay longer (`controller_kit.go:261`).

Others were met while modelling. The models contain the behaviour, but no run is
spent on it:

* "Expiration is the time at which the lease will end" (`service.go:56`). The service
  answers its own time plus the duration, rounded; the controller computes another
  one, truncated, possibly earlier (`service.go:109`). Of the two times only the controller's is
  in the models.
* "check if the downscale window is respected" (`distcc_controller.go:368`). The time
  of a scale is written afterwards, by a call that may fail (`distcc_controller.go:295`),
  and then the next Sync does not know of it. `WindowKeptWhenKnown` says what holds.
* A Deployment that "is not managed by Distcc" (`distcc_controller.go:39`) is to be
  left alone. It is, unless it took the place of ours after the cache was read: the
  `Update` has no resourceVersion (`distcc_controller.go:193`).
* "Always one POD per client" (`distccclientclaim_controller.go:335`) is true of one
  Deployment. A Sync on a cache that lags creates a second one.
* `main` closes `errs` when it returns, and the goroutines that stop later send on it
  (`cmd/k8cc-controller/main.go:38`): if they are faster than the exit, the program
  panics. `EndsForAReason` says that this only happens when it was to end.

* `controller_kit.go:230` says a key is "put back on the workqueue" after a
  transient error; it is not. `FailuresRetried` shows that the resync repeats it.
* `controller_kit.go:175` says `Run` will "wait for workers to finish"; `RunReturns`
  does not wait. `WorkersExit` shows that they do return if the process lives.
* `controller_kit.go:352` passes the tombstone, not the object in it, to
  `OnControlledObjectUpdate`, where the type assertion fails, so that a claim whose deletion
  the watch missed does not make its Distcc scale before the resync (`OtherChanges`).
* A release whose response is lost is repeated and answered not-found though it
  removed the claim (`DeleteFindsNothing` after a `Write` that was retried).
* `codeFrom` compares the error itself: a tag that does not exist, or a deadline in
  the first phase of `LeaseDistcc`, is answered 500 (`service.go:99`,
  `transport.go:96`).
* Expired claims are given replicas until they are deleted (`distcc_controller.go:223`
  against the comment at 208), and servers are taken away while their users renew
  (against `design.md:19`).
* Without a minimum, a product that wraps to a negative number is written as the number of
  replicas (`distcc_controller.go:227`), which the API server refuses. `WithinLimits` is about
  the minimum and maximum of the Spec, when they are consistent.
* A Distcc that is relabelled, or removed, leaves its claims behind: they are neither
  granted nor removed (`distccclaim_controller.go:103`). `RenewalsServed` and `LapsedRemoved` are
  about a Distcc that selects the claim (`Serves`), in the end.
* A claim for which the controller has made two Deployments before it referred to one is
  ambiguous by its own doing, and waits for somebody to remove one (`refresolver.go:79`).
  `ClaimsServed` leaves it out (`Provides`); `LapsedRemoved` does not.

## What is proved

All theorems are about the specifications above for every value of the constants
that meets the named assumptions; `tlapm <module>Proofs.tla` checks them.

`DistccLeasingProofs` - any claims, requests, controllers, durations, attempts:

* `TypeCorrect`. `TypeOK` alone is not inductive: a claim that is created copies the
  labels of the Distcc the request has read, so `TypeInv` adds `HoldsDistcc`: which
  phases belong to which operation, and that the Distcc is there in those that
  use it. `StoreGoesOn` says once what a step may do to the store: keep its type
  and append.
* `GrantsAlwaysAnswerRenewals`. `GrantInv` adds that the expiration of a pending
  `Update` fits the version it was computed from. The version check of
  `CanUpdate` then makes it fit the version it replaces.
* `RemovalsFollowLapses`, from `WholeSecondLeases`: with leases below a second, the
  truncated expiration may lie in the past, and an unleased claim would be removed.
  When `Sync` decides to delete, the expiration it compares is the cached one, since
  one just computed cannot have lapsed; the cached version is in the history.
* `RenewalsAcknowledged`, `ReleasesAnswered`. `ReplyInv` adds that a request at
  `reply` has been served: a version no older than its arrival shows what it is
  about to claim. Versions are never rewritten, so the witness stays.
* `LeasingImplementsContract`: a step that writes no claim is `Release` or `Pass` of the
  contract, `SyncUpdate` is `Grant` or `Shorten` by `GrantInv`, `SyncDelete` is `Remove` by
  `RemovedOnlyWhenLapsed`, and the writes of a request are `Ask` and `Remove`.
  `PendingsInTime` adds that a pending expiration was computed from a lease duration and
  a time that has been. `ContractAssumption` tells absent claims from unleased ones.
* `LeasesAreAsCounted`, from the contract: the leasing changes one claim at a time, and
  as `LeaseLife` says. So the claims of `DistccAutoscaler`, which change that way, cover
  whatever the leasing makes of them.
* `RequestsOnlyAdvance`: each step of a request takes it to a later phase, to the next of
  the at most `Steps` attempts of its phase, or on within the attempt (`Further`). This order
  has no infinite ascent, so no contention keeps a request going; that it does take its
  steps is what `RequestsAnswered` needs fairness for. The same is proved of
  `ClientLeasing`, where a claim that is never provided for is given up.

`ControllerKitProofs` - any keys, workers, channel capacity:

* `KitTypeCorrect` and `KeysAreSyncedOneAtATime`, from `KitInv`: the queue holds each
  key once and only keys that are dirty and not being processed; each worker that
  holds a key is the only one, and its key is in `processing`.
* `ChangesAreNotLost`, about the changes in `told`: `NoLostEvent` is itself inductive with
  `KitInv`, as each component hands a change to the next one in one step. An event of an
  object may be dropped when its owner is gone, and the resource be there again before a
  Sync has read the change; but then its return is an event of its own.
* `WakeupsAreNotLost`: `WakeInv` adds that only workers in `Get` sleep. Then a `Push` wakes
  one when there is any, and a worker that takes a key was one of those awake;
  `WorkerAssumption`, that there are finitely many, is what makes counting them mean
  something.
* `KitImplementsContract`: a key is due (`Due`) while it is in an event, in the channel of
  delays, in the heap, or dirty. Each step of handlers, waiting loop and queue hands it on
  or keeps it; taking an item is `Begin`, for which `KitInv` says that no other worker has
  the key; `ReadCache` is `Read`; `DeletionMissed` is `Vanish`.

`DistccAutoscalerProofs` - any claims, Specs, clocks, and width of the integers:

* `ScalerTypeCorrect` and `ScalesWithinLimits`, from `ScalerInv`: the target of a
  running Sync is `DesiredReplicas` of some number of claims under the Spec that Sync
  was called with. `DesiredReplicasInLimits` is the arithmetic of it, with `WrapIsInt32`.
* `SpecEditsAreKept`, `ScaleTimesOnlyAdvance`: while a copy is fresh it equals the
  stored Distcc, and a stored time of scaling is never later than now.
* `WindowsAreKeptWhenKnown`: a scale downwards was allowed by `NeedScale` at a time
  not later than now, for the time of scaling that the copy carries.
* `RestLastsUntilDisturbed`: in `AtRest`, which is the state that `Converges` leads to and
  the caches know of, `Sync` computes what `Settled` says of the stored objects, so no step
  is possible but a change of the cluster or of the time. It is the last step of
  `StopsWriting`; that the rest is reached is model-checked.

`GetWithRetryProofs` - any number of phases and attempts:

* `TypeCorrect`, `GettersRunAlone` and `GettersEnd` follow from `IInv`: a goroutine
  only runs while the caller waits for it, in `select` or after the context was done,
  and it is the one of the current attempt.
* `AttemptsOnlyAdvance`: each step but the end of the context goes on to a later phase,
  attempt or stage of the attempt (`Stage` orders those of the two goroutines), so that
  `Returns` needs no more of fairness than that some step is taken.
* `GoroutinesImplementContract`: with `IInv`, `GetterReturns` is a call of
  `RetryContract`, `Receive` its judgement, and all other steps stutter.

`ClientLeasingProofs` - any requests, attempts, controllers, labels, durations, bounds:

* `IInv` says of every copy of the claim, in caches, Syncs and requests, that it is
  older than the next write, refers to nothing but objects with its uid, and equals
  the stored claim if it has its version (`CopyOK`); of the one that a Sync is going
  to write, that it has an expiration, which does not prolong the stored one
  (`DraftOK`). The version check of `Put` then makes the write as good as the copy.
  `StoreMoves` says once what a step may do to the store: objects keep their owners,
  and a write gives the claim a version that nobody has a copy of.
* `ReferencesAreOwn`, `GrantsAreComplete`, `GrantsAreAsked` follow from that; an object
  found by its labels is only taken over after `IsControlledBy`, and an object
  just created has the uid of the Sync's copy.
* `AnswersAreOwn` and `ReleasesAreFinal` add what a request has seen: claims never get
  an older uid (`Later`), and the Service answered belongs to the claim of the copy.
* `LeasingImplementsContract`: `PlansOK` adds that what a Sync has worked out stays true
  until it writes. The lease it is about to grant is no longer than a duration from now
  (`InTime`, which the clock only makes weaker), and the one for which it is about to
  remove the claim has ended. With `WholeSecondLeases` that is never one just computed
  (`BeginPlans`), so it is one that the cached claim had; and what is cached is the stored
  claim or an earlier one (`UidsOK`). Then `SyncUpdate` is `Grant` or `Shorten`
  by `DraftOK`, `SyncDelete` is `Remove`, `Lapsed` or `Mistaken`, the writes of requests are
  `Ask`, `Renew` and `Remove`, objects that are created are `Make`, and the other steps
  forget copies (`KnownFrom`), pass time, or start and end releases. `ContractAssumption`
  tells absent claims from those that ask.

`ProgramsProofs` - both programs:

* `ProcessesEndForAReason`: the invariant relates the goroutines to `stopCh` and to the
  errors in the channel: nobody sends before the signal but the goroutine of the HTTP
  server, when that has failed; main receives only what was sent.
* `CachesAreShared`: an informer that is registered stays the one of its kind, controllers
  take what is registered, and the factories start what is registered.

The constants' assumptions (`SecondAssumption`, `LeaseAssumption`, ...) say that
counters and bounds are natural numbers, that a second has a tick, that a channel
has room, and that absent and unset values differ from present ones;
`SpecAssumption` says that the limits of a Spec are int32. TLC evaluates all of them.

Model-checked only: liveness. It rests on fairness and ENABLED, which the prover does
not treat. Every safety property and every refinement that a passing run checks is proved.
The other way round, `RemovedOnlyWhenLapsed`, `GrantsAnswerRequests`, `LeasesChangeAsCounted`,
`RequestsAdvance`, `AttemptsAdvance` and `RestsUntilDisturbed` are proved and in no run; as
properties added to a run of their module TLC finds no violation of them either.

## What is not modelled

* Deep copies (`zz_generated.deepcopy.go`) and the registration of the types: generated
  code without decisions; values of the models are copies anyway. Of the generated
  clients only the calls that the code makes are modelled; `Patch`, `DeleteCollection`,
  `UpdateStatus` and the fakes are never used.
* What a Deployment or a Service of a client contains besides owner and labels: pod
  template, secret volumes, ports. A Service that has no node port yet is a reason
  for an attempt to fail.
* The Expiration that an answer shows its user (`roundTimestamp`): nothing depends on it.
* Events, logs, routing, JSON, flags, names and labels as strings. Two
  users whose user and tag join to one name (`makeClaimName`) share a claim.
* `LastUpdateTime`, which nothing reads; several Distccs in one namespace, which do
  not share any object that the controller writes.
* Delays and rates of the queue; time inside one step: `Sync` reads the clock twice a
  few instructions apart and the model once.

## Plan

Done, in this order: `KubeStore`, `DistccClaimController`, `LeaseService`,
`DistccLeasing`, `LeaseContract`, their proofs; `WorkQueue`, `ControllerKit`, proofs;
`ReplicaPolicy`, `DistccAutoscaler`, proofs; `ReferenceResolver`, `ClientStore`,
`ClientClaimController`, `ClientLeaseService`, `ClientLeasing`, proofs; `GetWithRetry`,
`RetryContract`, proofs; `Programs`, proofs; `KeyedSync` and `ClientLeaseContract`, with the
proofs that kit and leasing implement them. To come, the most important first:

1. The other steps of the liveness properties, as theorems: that the writes of the
   controllers in a cluster that is quiet lower a measure.
2. An abstract autoscaler, and `DistccAutoscaler` as its refinement.
