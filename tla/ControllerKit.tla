---------------------------- MODULE ControllerKit ----------------------------
(***************************************************************************)
(* The framework that the three controllers of k8cc share                  *)
(* (pkg/controller/kit/controller_kit.go): informer events put the keys of *)
(* custom resources in a work queue, and worker goroutines take them out   *)
(* and Sync them, until the process is told to stop.                       *)
(*                                                                         *)
(* What Sync reads from the informer caches for one key is abstracted to   *)
(* whether the resource exists and whether something has changed since the *)
(* last Sync of the key has read it: something that the event handlers are *)
(* to pass on, or something they skip.  What the handler does is           *)
(* abstracted to its outcome.                                              *)
(***************************************************************************)
EXTENDS WorkQueue, FiniteSets

CONSTANTS
  NoKey,             \* no key at all
  NeedPeriodicSync,  \* of the handler: Sync again at every resync
  MaxEvents          \* bound: how many events wait for the event handler

ASSUME KitAssumption ==
  /\ NoKey \notin Key
  /\ NeedPeriodicSync \in BOOLEAN
  /\ MaxEvents \in Nat

ASSUME WorkerAssumption == IsFiniteSet(Worker)

VARIABLES
  cache,    \* the keys whose custom resources are in the informer's cache
  told,     \* the keys with a change to be told of that no Sync has read yet
  quiet,    \* the keys with a change of which the event handlers tell nothing
  events,   \* the notifications that the event handlers have not had yet
  run,      \* Run: "waiting" for the caches, "running", "returned"
  stopped,  \* stopCh is closed
  worker,   \* worker[w]: where it is, and the key it works on
  outcome   \* outcome[k]: the error of the last Sync of k, "nil" for none

contents == <<cache, told, quiet>>
kitVars == <<contents, events, run, stopped, worker, outcome>>
vars == <<queueVars, delayVars, kitVars>>

Outcome == {"nil", "transient", "permanent"}

\* The position of a worker: no goroutine yet, spawned, about to call Get,
\* holding a key that it has not read from the cache, in Sync, or returned.
WorkerState == [pc : {"off", "spawned", "get", "start", "sync", "exited"}, key : Key \cup {NoKey}]

\* The notifications of what Sync reads for a key: of the custom resource, of
\* an object that leads to it, of something from which the event handlers do
\* not get the key, or of nothing new.
Kind  == {"resource", "object", "keyless", "resync"}
Event == [key : Key, kind : Kind]

Init ==
  /\ QueueInit
  /\ cache = {} /\ told = {} /\ quiet = {}
  /\ events = <<>>
  /\ run = "waiting"
  /\ stopped = FALSE
  /\ worker = [w \in Worker |-> [pc |-> "off", key |-> NoKey]]
  /\ outcome = [k \in Key |-> "nil"]

(***************************************************************************)
(* The informers update the cache and then notify the event handlers.      *)
(***************************************************************************)
Notify(k, kind) ==
  /\ Len(events) < MaxEvents
  /\ events' = Append(events, [key |-> k, kind |-> kind])
  /\ UNCHANGED <<queueVars, delayVars, run, stopped, worker, outcome>>

\* The custom resource is added, updated or deleted.
ResourceChanges(k) ==
  /\ cache' \in {cache \cup {k}, cache \ {k}}
  /\ k \in cache \cup cache'
  /\ told' = told \cup {k}
  /\ Notify(k, "resource")
  /\ UNCHANGED quiet

\* It is deleted while the watch is down, and notified as a tombstone.
DeletionMissed(k) ==
  /\ k \in cache
  /\ cache' = cache \ {k}
  /\ quiet' = quiet \cup {k}
  /\ Notify(k, "keyless")
  /\ UNCHANGED told

\* An object changes whose controller reference, or OnControlledObjectUpdate,
\* names the resource.  Nothing is to be told of a resource that is not there.
ObjectChanges(k) ==
  /\ IF k \in cache THEN told' = told \cup {k} /\ UNCHANGED quiet
     ELSE quiet' = quiet \cup {k} /\ UNCHANGED told
  /\ Notify(k, "object")
  /\ UNCHANGED cache

\* Sync(k) reads it, but handleObject finds no way from it to the resource:
\* the Distcc of a claim, an object with the right labels and another owner,
\* the tombstone of a claim that a Distcc counts.
OtherChanges(k) ==
  /\ quiet' = quiet \cup {k}
  /\ Notify(k, "keyless")
  /\ UNCHANGED <<cache, told>>

Resync(k) ==
  /\ k \in cache
  /\ Notify(k, "resync")
  /\ UNCHANGED contents

\* enqueueCustomResource and handleObject have a key for it: the owner is
\* looked up when the event is handled, a tombstone of a resource has none.
Enqueues(e) == e.kind = "resource" \/ (e.kind = "object" /\ e.key \in cache)

\* Mutant: periodic resyncs are ignored, whatever the handler needs.
HandledChanges(e) == Enqueues(e)

\* Mutant: handleObject does not follow the reference to the owner.
HandledResources(e) == e.kind = "resource" \/ (e.kind = "resync" /\ NeedPeriodicSync)

\* UpdateFunc and handleObjectUpdate: what is an update, and what a resync.
Handled(e) == Enqueues(e) \/ (e.kind = "resync" /\ NeedPeriodicSync)

HandleEvent ==
  /\ events # <<>>
  /\ events' = Tail(events)
  /\ IF Handled(Head(events)) THEN AddRateLimited(Head(events).key)
     ELSE UNCHANGED delayVars
  /\ UNCHANGED <<queueVars, contents, run, stopped, worker, outcome>>

(***************************************************************************)
(* Run.                                                                    *)
(***************************************************************************)
CachesSynced ==
  /\ run = "waiting"
  /\ run' = "running"
  /\ worker' = [w \in Worker |-> [worker[w] EXCEPT !.pc = "spawned"]]
  /\ UNCHANGED <<queueVars, delayVars, contents, events, stopped, outcome>>

Stop ==
  /\ ~ stopped
  /\ stopped' = TRUE
  /\ UNCHANGED <<queueVars, delayVars, contents, events, run, worker, outcome>>

\* Run returns, with the caches synced or not; the queue is shut down by
\* the deferred call.
RunReturns ==
  /\ stopped
  /\ run # "returned"
  /\ run' = "returned"
  /\ ShutDown
  /\ UNCHANGED <<delayVars, contents, events, stopped, worker, outcome>>

(***************************************************************************)
(* processNextWorkItem and syncHandler.                                    *)
(***************************************************************************)
Holds(w) == worker[w].pc \in {"start", "sync"}

\* wait.Until looks at stopCh first.
WorkerStarts(w) ==
  /\ worker[w].pc = "spawned"
  /\ worker' = [worker EXCEPT ![w].pc = IF stopped THEN "exited" ELSE "get"]
  /\ UNCHANGED <<queueVars, delayVars, contents, events, run, stopped, outcome>>

AtGet(w) == worker[w].pc = "get" /\ w \notin waiters

TakeItem(w) ==
  /\ AtGet(w)
  /\ \E k \in Key :
       /\ GetItem(k)
       /\ worker' = [worker EXCEPT ![w] = [pc |-> "start", key |-> k]]
  /\ UNCHANGED <<delayVars, contents, events, run, stopped, outcome>>

WaitForItem(w) ==
  /\ AtGet(w)
  /\ GetWaits(w)
  /\ UNCHANGED <<delayVars, kitVars>>

\* runWorker returns, and so does wait.Until, as stopCh is closed.
WorkerExits(w) ==
  /\ AtGet(w)
  /\ GetStops
  /\ worker' = [worker EXCEPT ![w].pc = "exited"]
  /\ UNCHANGED <<delayVars, contents, events, run, stopped, outcome>>

\* syncHandler gets the resource, and Sync the rest, from the caches.
Read(w) ==
  /\ told' = told \ {worker[w].key}
  /\ quiet' = quiet \ {worker[w].key}

ReadCache(w) ==
  /\ worker[w].pc = "start"
  /\ worker[w].key \in cache
  /\ worker' = [worker EXCEPT ![w].pc = "sync"]
  /\ Read(w)
  /\ UNCHANGED <<queueVars, delayVars, cache, events, run, stopped, outcome>>

\* syncHandler returns.  Only success makes the limiter forget the key, and
\* no error puts it back in the queue.
Finish(w, result) ==
  /\ worker' = [worker EXCEPT ![w] = [pc |-> "get", key |-> NoKey]]
  /\ outcome' = [outcome EXCEPT ![worker[w].key] = result]
  /\ Done(worker[w].key)
  /\ UNCHANGED <<waitCh, delayed, cache, events, run, stopped>>

SyncSucceeds(w) ==
  /\ worker[w].pc = "sync"
  /\ Finish(w, "nil")
  /\ Forget(worker[w].key)
  /\ UNCHANGED <<told, quiet>>

SyncFails(w) ==
  /\ worker[w].pc = "sync"
  /\ \E result \in {"transient", "permanent"} : Finish(w, result)
  /\ UNCHANGED <<failures, told, quiet>>

\* The resource no longer exists, an error that is not transient.
ReadNothing(w) ==
  /\ worker[w].pc = "start"
  /\ worker[w].key \notin cache
  /\ Read(w)
  /\ Finish(w, "permanent")
  /\ UNCHANGED failures

WorkerStep(w) ==
  \/ WorkerStarts(w)
  \/ TakeItem(w)
  \/ WaitForItem(w)
  \/ WorkerExits(w)
  \/ ReadCache(w)
  \/ ReadNothing(w)
  \/ SyncSucceeds(w)
  \/ SyncFails(w)

WaitingLoop ==
  /\ ReceiveWaiting \/ \E k \in Key : DelayEnds(k)
  /\ UNCHANGED kitVars

Next ==
  \/ \E k \in Key : ResourceChanges(k) \/ DeletionMissed(k)
  \/ \E k \in Key : ObjectChanges(k) \/ OtherChanges(k) \/ Resync(k)
  \/ HandleEvent
  \/ WaitingLoop
  \/ CachesSynced
  \/ Stop
  \/ RunReturns
  \/ \E w \in Worker : WorkerStep(w)

Spec == Init /\ [][Next]_vars

(***************************************************************************)
(* Fairness: the goroutines of the process go on, Sync returns, and the    *)
(* informers resync every 30 seconds.  Nothing makes objects change or the *)
(* process stop.                                                           *)
(***************************************************************************)
FairSpec ==
  /\ Spec
  /\ WF_vars(CachesSynced) /\ WF_vars(RunReturns)
  /\ WF_vars(HandleEvent) /\ WF_vars(WaitingLoop)
  /\ \A w \in Worker : WF_vars(WorkerStep(w))
  /\ \A k \in Key : SF_vars(Resync(k)) /\ WF_vars(DelayEnds(k) /\ UNCHANGED kitVars)

TypeOK ==
  /\ QueueTypeOK
  /\ cache \subseteq Key /\ told \subseteq Key /\ quiet \subseteq Key
  /\ events \in Seq(Event)
  /\ run \in {"waiting", "running", "returned"}
  /\ stopped \in BOOLEAN
  /\ worker \in [Worker -> WorkerState]
  /\ outcome \in [Key -> Outcome]

\* Two workers never process one resource at a time: the queue "makes it
\* easy to ensure we are never processing the same item simultaneously in
\* two different workers" (controllerKit.workqueue).
NoConcurrentSync ==
  \A v, w \in Worker :
    v # w /\ Holds(v) /\ Holds(w) => worker[v].key # worker[w].key

\* A Sync of the key is due: for an event that is going to enqueue it, in the
\* delaying queue, or in the queue of the workers.
Due(k) ==
  \/ \E i \in 1 .. Len(events) : events[i].key = k /\ Enqueues(events[i])
  \/ \E i \in 1 .. Len(waitCh) : waitCh[i] = k
  \/ k \in delayed \cup dirty

\* ... or in the hands of a worker that has not looked yet.
Coming(k) == Due(k) \/ \E w \in Worker : worker[w] = [pc |-> "start", key |-> k]

\* A change of a resource that exists, or of an object that leads to it, is
\* on its way to a Sync until one has read it: the events, the two queues and
\* the workers hand it on.  A resource that was deleted unnoticed while an
\* event of its objects waited, and exists again, is on its way as well.
NoLostEvent ==
  \A k \in told \cap cache : ~ shuttingDown => Coming(k)

\* The kit keeps the promises of KeyedSync, for the changes that handleObject
\* does not skip, and also after the process was stopped.
Contract == INSTANCE KeyedSync WITH
  news  <- told,
  alive <- cache,
  due   <- {k \in Key : Due(k)},
  task  <- [w \in Worker |-> IF Holds(w) THEN worker[w].key ELSE NoKey],
  fresh <- {w \in Worker : worker[w].pc = "start"},
  open  <- ~ shuttingDown

ImplementsContract == Contract!Spec

\* A worker only sleeps while others are awake for every key that is due:
\* no interleaving of Add, Get and Done loses a wakeup.
NoLostWakeup ==
  waiters # {} =>
    Len(queue) <= Cardinality({w \in Worker : AtGet(w) \/ Holds(w)})

\* The workers see every change of what a resource depends on in the end,
\* while it exists, however many come: those that nothing tells them of at
\* the next resync.
Unread == told \cup quiet

ChangesRead ==
  \A k \in Key :
    run = "running" /\ k \in Unread ~> k \notin Unread \/ k \notin cache \/ stopped

\* A Sync that failed with a transient error is repeated while its resource
\* exists.  Nothing in processNextWorkItem puts it back on the workqueue, as
\* its comment has it: the resync does.
FailuresRetried ==
  \A k \in Key :
    outcome[k] = "transient" ~>
      \/ \E w \in Worker : worker[w] = [pc |-> "start", key |-> k]
      \/ k \notin cache
      \/ stopped

\* Once stopCh is closed every worker returns.
WorkersExit == stopped ~> \A w \in Worker : worker[w].pc \in {"off", "exited"}

(***************************************************************************)
(* What the comments say, and the code does not do.                        *)
(***************************************************************************)
\* "Doesn't matter whether its for perm failing or for success, we'll stop
\* the rate limiter from tracking it": a key that nothing is left to be done
\* for has no count of failures (Forget, processNextWorkItem).
FinishedForgotten ==
  \A k \in Key :
    outcome[k] = "permanent" /\ k \notin processing /\ ~ shuttingDown
      => Coming(k) \/ failures[k] = 0
=============================================================================
