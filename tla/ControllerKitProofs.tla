------------------------- MODULE ControllerKitProofs -------------------------
(***************************************************************************)
(* Proofs about ControllerKit, for any number of keys and workers, any     *)
(* capacity of the channel and any bound.                                  *)
(***************************************************************************)
EXTENDS ControllerKit, SequenceTheorems, FiniteSetTheorems, TLAPS

USE DEF contents

(***************************************************************************)
(* The queue: a key is in it at most once, and only while it is dirty and  *)
(* not being processed.                                                    *)
(***************************************************************************)
Distinct == \A i, j \in 1 .. Len(queue) : i # j => queue[i] # queue[j]
Waiting  == \A i \in 1 .. Len(queue) : queue[i] \in dirty \ processing

QueueInv == DueTypeOK /\ Distinct /\ Waiting

LEMMA SignalType ==
  ASSUME waiters \subseteq Worker, Signal
  PROVE  waiters' \subseteq Worker
PROOF BY DEF Signal

LEMMA PushAppends ==
  ASSUME QueueInv, NEW k \in Key, Push(k)
  PROVE  /\ queue' \in Seq(Key)
         /\ Len(queue') = Len(queue) + 1
         /\ queue'[Len(queue) + 1] = k
         /\ \A i \in 1 .. Len(queue) : queue'[i] = queue[i]
         /\ Len(queue) \in Nat
         /\ waiters' \subseteq Worker
PROOF
<1>1. queue \in Seq(Key) /\ queue' = Append(queue, k)
  BY DEF QueueInv, DueTypeOK, Push
<1> QED
  BY <1>1, AppendProperties, LenProperties, SignalType DEF QueueInv, DueTypeOK, Push

\* A key that was not in the queue goes into it.
LEMMA PushKeepsOrder ==
  ASSUME QueueInv, NEW k \in Key, Push(k),
         k \in dirty' \ processing',
         \A i \in 1 .. Len(queue) : queue[i] # k,
         dirty \subseteq dirty', processing' \subseteq processing
  PROVE  Distinct' /\ Waiting'
PROOF
<1>1. /\ Len(queue') = Len(queue) + 1
      /\ queue'[Len(queue) + 1] = k
      /\ \A i \in 1 .. Len(queue) : queue'[i] = queue[i]
      /\ Len(queue) \in Nat
  BY PushAppends
<1>2. \A i \in 1 .. Len(queue') : i \in 1 .. Len(queue) \/ i = Len(queue) + 1
  BY <1>1
<1>3. Distinct'
  BY <1>1, <1>2 DEF Distinct, QueueInv
<1>4. Waiting'
  BY <1>1, <1>2 DEF Waiting, QueueInv
<1> QED
  BY <1>3, <1>4

LEMMA AddKeepsQueue ==
  ASSUME QueueInv, NEW k \in Key, Add(k)
  PROVE  /\ QueueInv'
         /\ UNCHANGED <<processing, shuttingDown>>
         /\ dirty \subseteq dirty'
         /\ ~ shuttingDown => k \in dirty'
PROOF
<1>1. UNCHANGED <<processing, shuttingDown>>
  BY DEF Add
<1>2. CASE UNCHANGED <<queue, dirty, waiters>>
  BY <1>1, <1>2 DEF Add, QueueInv, DueTypeOK, Distinct, Waiting
<1>3. CASE k \notin dirty /\ dirty' = dirty \cup {k} /\ k \in processing /\ UNCHANGED <<queue, waiters>>
  BY <1>1, <1>3 DEF QueueInv, DueTypeOK, Distinct, Waiting
<1>4. CASE k \notin dirty /\ dirty' = dirty \cup {k} /\ k \notin processing /\ Push(k)
  <2>1. \A i \in 1 .. Len(queue) : queue[i] # k
    BY <1>4 DEF QueueInv, Waiting
  <2>2. Distinct' /\ Waiting'
    BY <1>1, <1>4, <2>1, PushKeepsOrder
  <2> QED
    BY <1>1, <1>4, <2>2, PushAppends DEF QueueInv, DueTypeOK
<1> QED
  BY <1>1, <1>2, <1>3, <1>4 DEF Add

LEMMA GetKeepsQueue ==
  ASSUME QueueInv, NEW k \in Key, GetItem(k)
  PROVE  QueueInv' /\ k \in dirty \ processing
PROOF
<1>1. queue \in Seq(Key) /\ queue # <<>>
  BY DEF QueueInv, DueTypeOK, GetItem
<1>2. /\ queue' \in Seq(Key)
      /\ Len(queue') = Len(queue) - 1
      /\ \A i \in 1 .. Len(queue') : queue'[i] = queue[i + 1]
      /\ Len(queue) \in Nat \ {0}
      /\ k = queue[1]
  BY <1>1, HeadTailProperties, EmptySeq, LenProperties DEF GetItem
<1>3. k \in dirty \ processing
  BY <1>2 DEF QueueInv, Waiting
<1>4. Distinct'
  BY <1>2 DEF QueueInv, Distinct
<1>5. \A i \in 1 .. Len(queue') : queue'[i] # k
  BY <1>2 DEF QueueInv, Distinct
<1>6. Waiting'
  BY <1>2, <1>5 DEF QueueInv, Waiting, GetItem
<1>7. DueTypeOK'
  BY <1>2 DEF QueueInv, DueTypeOK, GetItem
<1> QED
  BY <1>3, <1>4, <1>6, <1>7 DEF QueueInv

LEMMA DoneKeepsQueue ==
  ASSUME QueueInv, NEW k \in processing, Done(k)
  PROVE  QueueInv' /\ UNCHANGED <<dirty, shuttingDown>>
PROOF
<1>1. k \in Key /\ UNCHANGED <<dirty, shuttingDown>> /\ processing' = processing \ {k}
  BY DEF QueueInv, DueTypeOK, Done
<1>2. CASE k \in dirty /\ Push(k)
  <2>1. \A i \in 1 .. Len(queue) : queue[i] # k
    BY DEF QueueInv, Waiting
  <2>2. Distinct' /\ Waiting'
    BY <1>1, <1>2, <2>1, PushKeepsOrder
  <2> QED
    BY <1>1, <1>2, <2>2, PushAppends DEF QueueInv, DueTypeOK
<1>3. CASE k \notin dirty /\ UNCHANGED <<queue, waiters>>
  BY <1>1, <1>3 DEF QueueInv, DueTypeOK, Distinct, Waiting
<1> QED
  BY <1>1, <1>2, <1>3 DEF Done

\* The operations that leave the keys alone.
LEMMA WaitersKeepQueue ==
  ASSUME QueueInv, UNCHANGED <<queue, dirty, processing>>,
         waiters' \subseteq Worker, shuttingDown' \in BOOLEAN
  PROVE  QueueInv'
PROOF BY DEF QueueInv, DueTypeOK, Distinct, Waiting

(***************************************************************************)
(* The delaying queue.                                                     *)
(***************************************************************************)
LEMMA AddRateLimitedType ==
  ASSUME DelayTypeOK, NEW k \in Key, AddRateLimited(k)
  PROVE  DelayTypeOK'
PROOF
<1>1. failures' \in [Key -> 0 .. MaxFailures] /\ delayed' \subseteq Key
  BY QueueAssumption DEF DelayTypeOK, AddRateLimited
<1>2. waitCh' \in Seq(Key) /\ Len(waitCh') <= ChannelCap
  <2>1. CASE UNCHANGED waitCh
    BY <2>1 DEF DelayTypeOK
  <2>2. CASE Len(waitCh) < ChannelCap /\ waitCh' = Append(waitCh, k)
    <3>1. waitCh \in Seq(Key) /\ Len(waitCh) \in Nat
      BY LenProperties DEF DelayTypeOK
    <3>2. waitCh' \in Seq(Key) /\ Len(waitCh') = Len(waitCh) + 1
      BY <2>2, <3>1, AppendProperties
    <3> QED
      BY <2>2, <3>1, <3>2, QueueAssumption
  <2> QED
    BY <2>1, <2>2 DEF AddRateLimited
<1> QED
  BY <1>1, <1>2 DEF DelayTypeOK

LEMMA ForgetType ==
  ASSUME DelayTypeOK, NEW k \in Key, Forget(k), UNCHANGED <<waitCh, delayed>>
  PROVE  DelayTypeOK'
PROOF BY QueueAssumption DEF DelayTypeOK, Forget

LEMMA WaitChProperties ==
  ASSUME DelayTypeOK, waitCh # <<>>
  PROVE  /\ Head(waitCh) \in Key
         /\ Tail(waitCh) \in Seq(Key)
         /\ Len(Tail(waitCh)) = Len(waitCh) - 1
         /\ \A i \in 1 .. Len(Tail(waitCh)) : Tail(waitCh)[i] = waitCh[i + 1]
         /\ Head(waitCh) = waitCh[1]
         /\ Len(waitCh) \in Nat \ {0}
PROOF BY HeadTailProperties, EmptySeq, LenProperties, ElementOfSeq DEF DelayTypeOK

LEMMA WaitingLoopKeepsQueue ==
  ASSUME QueueInv, DelayTypeOK, WaitingLoop
  PROVE  QueueInv' /\ DelayTypeOK' /\ UNCHANGED <<processing, shuttingDown>>
PROOF
<1>1. CASE ReceiveWaiting
  <2>1. DelayTypeOK'
    BY <1>1, WaitChProperties, QueueAssumption DEF DelayTypeOK, ReceiveWaiting
  <2>2. CASE UNCHANGED queueVars
    BY <2>1, <2>2, WaitersKeepQueue DEF queueVars, QueueInv, DueTypeOK
  <2>3. CASE Add(Head(waitCh))
    BY <1>1, <2>1, <2>3, WaitChProperties, AddKeepsQueue DEF ReceiveWaiting
  <2> QED
    BY <1>1, <2>2, <2>3 DEF ReceiveWaiting
<1>2. ASSUME NEW k \in Key, DelayEnds(k)
      PROVE  QueueInv' /\ DelayTypeOK' /\ UNCHANGED <<processing, shuttingDown>>
  BY <1>2, AddKeepsQueue DEF DelayEnds, DelayTypeOK
<1> QED
  BY <1>1, <1>2 DEF WaitingLoop

(***************************************************************************)
(* Type correctness, and no two workers with one key.  Neither is          *)
(* inductive without the other: that a key in the queue is not being       *)
(* processed rests on the workers holding distinct keys, and the reverse.  *)
(***************************************************************************)
KitTypeOK ==
  /\ cache \subseteq Key /\ told \subseteq Key /\ quiet \subseteq Key
  /\ events \in Seq(Event)
  /\ run \in {"waiting", "running", "returned"}
  /\ stopped \in BOOLEAN
  /\ outcome \in [Key -> Outcome]

Hands == \A w \in Worker : Holds(w) => worker[w].key \in processing

NotStarted == run = "waiting" => \A w \in Worker : worker[w].pc = "off"

KitInv ==
  /\ QueueInv
  /\ DelayTypeOK
  /\ KitTypeOK
  /\ worker \in [Worker -> WorkerState]
  /\ Hands
  /\ NotStarted
  /\ NoConcurrentSync

\* What the steps of the workers may change.
WorkerInv ==
  /\ worker \in [Worker -> WorkerState]
  /\ Hands
  /\ NotStarted
  /\ NoConcurrentSync

LEMMA KitInit == Init => KitInv
PROOF
<1> SUFFICES ASSUME Init PROVE KitInv
  OBVIOUS
<1>1. Len(<<>>) = 0 /\ \A S : <<>> \in Seq(S)
  BY EmptySeq
<1>2. QueueInv
  <2>1. queue = <<>> /\ Len(queue) = 0 /\ queue \in Seq(Key)
    BY <1>1 DEF Init, QueueInit
  <2>2. Distinct /\ Waiting
    BY <2>1 DEF Distinct, Waiting
  <2> QED
    BY <2>1, <2>2 DEF Init, QueueInit, QueueInv, DueTypeOK
<1>3. DelayTypeOK
  BY <1>1, QueueAssumption DEF Init, QueueInit, DelayTypeOK
<1>4. KitTypeOK
  <2>1. events \in Seq(Event)
    BY <1>1 DEF Init
  <2> QED
    BY <2>1 DEF Init, KitTypeOK, Outcome
<1>5. worker \in [Worker -> WorkerState] /\ Hands /\ NotStarted /\ NoConcurrentSync
  BY DEF Init, WorkerState, Hands, NotStarted, NoConcurrentSync, Holds
<1> QED
  BY <1>2, <1>3, <1>4, <1>5 DEF KitInv

\* The steps that leave the workers and their keys alone.
LEMMA WorkersUnchanged ==
  ASSUME KitInv, UNCHANGED <<worker, processing>>, run' # "waiting" \/ UNCHANGED run
  PROVE  WorkerInv'
PROOF BY DEF KitInv, WorkerInv, Hands, NotStarted, NoConcurrentSync, Holds

LEMMA NotifyType ==
  ASSUME KitInv, NEW k \in Key, NEW kind \in Kind,
         Notify(k, kind)
  PROVE  events' \in Seq(Event)
PROOF
<1>1. events \in Seq(Event) /\ [key |-> k, kind |-> kind] \in Event
  BY DEF KitInv, KitTypeOK, Event
<1> QED
  BY <1>1, AppendProperties DEF Notify

LEMMA EventProperties ==
  ASSUME KitInv, events # <<>>
  PROVE  /\ Head(events) \in Event
         /\ Head(events) = events[1]
         /\ Tail(events) \in Seq(Event)
         /\ Len(Tail(events)) = Len(events) - 1
         /\ \A i \in 1 .. Len(Tail(events)) : Tail(events)[i] = events[i + 1]
         /\ Len(events) \in Nat \ {0}
PROOF BY HeadTailProperties, EmptySeq, LenProperties DEF KitInv, KitTypeOK

\* The queue and the limiter are not touched by the informers and by Run's
\* start.
LEMMA QueueUnchanged ==
  ASSUME KitInv, UNCHANGED <<queueVars, delayVars>>
  PROVE  QueueInv' /\ DelayTypeOK'
PROOF
<1>1. QueueInv'
  BY WaitersKeepQueue DEF KitInv, QueueInv, DueTypeOK, queueVars
<1>2. DelayTypeOK'
  BY DEF KitInv, DelayTypeOK, delayVars
<1> QED
  BY <1>1, <1>2

\* The informers change the cache and what has not been read, and notify.
LEMMA InformersKeep ==
  ASSUME KitInv, NEW k \in Key, NEW kind \in Kind, Notify(k, kind),
         cache' \subseteq Key, told' \subseteq Key, quiet' \subseteq Key
  PROVE  KitInv'
PROOF
<1>1. KitTypeOK'
  BY NotifyType DEF KitInv, KitTypeOK, Notify
<1>2. QueueInv' /\ DelayTypeOK' /\ WorkerInv'
  BY QueueUnchanged, WorkersUnchanged DEF Notify, queueVars
<1> QED
  BY <1>1, <1>2 DEF KitInv, WorkerInv

\* The steps of the informers for one key.
InformerStep(k) ==
  \/ ResourceChanges(k) \/ DeletionMissed(k) \/ ObjectChanges(k)
  \/ OtherChanges(k) \/ Resync(k)

LEMMA InformerStepNotifies ==
  ASSUME KitInv, NEW k \in Key, InformerStep(k)
  PROVE  /\ \E kind \in Kind : Notify(k, kind)
         /\ cache' \in {cache, cache \cup {k}, cache \ {k}}
         /\ cache' \subseteq Key /\ told' \subseteq Key /\ quiet' \subseteq Key
PROOF
<1> USE DEF Kind, KitInv, KitTypeOK
<1>1. CASE ResourceChanges(k)
  BY <1>1 DEF ResourceChanges
<1>2. CASE DeletionMissed(k)
  BY <1>2 DEF DeletionMissed
<1>3. CASE ObjectChanges(k)
  BY <1>3 DEF ObjectChanges
<1>4. CASE OtherChanges(k)
  BY <1>4 DEF OtherChanges
<1>5. CASE Resync(k)
  BY <1>5 DEF Resync
<1> QED
  BY <1>1, <1>2, <1>3, <1>4, <1>5 DEF InformerStep

LEMMA EnvironmentKeeps ==
  ASSUME KitInv,
         \/ \E k \in Key : InformerStep(k)
         \/ HandleEvent
         \/ WaitingLoop
         \/ Stop
         \/ RunReturns
  PROVE  KitInv'
PROOF
<1>1. ASSUME NEW k \in Key, InformerStep(k) PROVE KitInv'
  BY <1>1, InformerStepNotifies, InformersKeep
<1>3. CASE HandleEvent
  <2>1. events' \in Seq(Event) /\ Head(events).key \in Key
    BY <1>3, EventProperties DEF HandleEvent, Event
  <2>2. DelayTypeOK'
    BY <1>3, <2>1, AddRateLimitedType DEF HandleEvent, KitInv, DelayTypeOK, delayVars
  <2>3. QueueInv' /\ WorkerInv'
    BY <1>3, WaitersKeepQueue, WorkersUnchanged
    DEF HandleEvent, queueVars, KitInv, QueueInv, DueTypeOK
  <2>4. KitTypeOK'
    BY <1>3, <2>1 DEF HandleEvent, KitInv, KitTypeOK
  <2> QED
    BY <2>2, <2>3, <2>4 DEF KitInv, WorkerInv
<1>4. CASE WaitingLoop
  <2>1. QueueInv' /\ DelayTypeOK' /\ UNCHANGED processing
    BY <1>4, WaitingLoopKeepsQueue DEF KitInv
  <2>2. KitTypeOK' /\ WorkerInv'
    BY <1>4, <2>1, WorkersUnchanged DEF WaitingLoop, kitVars, KitInv, KitTypeOK
  <2> QED
    BY <2>1, <2>2 DEF KitInv, WorkerInv
<1>5. CASE Stop
  <2>1. KitTypeOK'
    BY <1>5 DEF Stop, KitInv, KitTypeOK
  <2>2. QueueInv' /\ DelayTypeOK' /\ WorkerInv'
    BY <1>5, QueueUnchanged, WorkersUnchanged DEF Stop, queueVars
  <2> QED
    BY <2>1, <2>2 DEF KitInv, WorkerInv
<1>6. CASE RunReturns
  <2>1. QueueInv' /\ DelayTypeOK'
    BY <1>6, WaitersKeepQueue DEF RunReturns, ShutDown, delayVars, DelayTypeOK, KitInv
  <2>2. KitTypeOK' /\ WorkerInv'
    BY <1>6, WorkersUnchanged DEF RunReturns, ShutDown, KitInv, KitTypeOK
  <2> QED
    BY <2>1, <2>2 DEF KitInv, WorkerInv
<1> QED
  BY <1>1, <1>3, <1>4, <1>5, <1>6

LEMMA CachesSyncedKeeps ==
  ASSUME KitInv, CachesSynced
  PROVE  KitInv'
PROOF
<1>1. \A w \in Worker : worker'[w].pc = "spawned"
  BY DEF CachesSynced, KitInv, WorkerState
<1>2. worker' \in [Worker -> WorkerState]
  BY DEF CachesSynced, KitInv, WorkerState
<1>3. WorkerInv'
  BY <1>1, <1>2 DEF CachesSynced, WorkerInv, Hands, NotStarted, NoConcurrentSync, Holds
<1>4. KitTypeOK'
  BY DEF CachesSynced, KitInv, KitTypeOK
<1> QED
  BY <1>3, <1>4, QueueUnchanged DEF CachesSynced, KitInv, WorkerInv

(***************************************************************************)
(* The workers.                                                            *)
(***************************************************************************)
LEMMA WorkerKeeps ==
  ASSUME KitInv, NEW w \in Worker, WorkerStep(w)
  PROVE  KitInv'
PROOF
<1> USE DEF WorkerState
<1>1. CASE WorkerStarts(w)
  <2>1. WorkerInv'
    BY <1>1 DEF WorkerStarts, queueVars, KitInv, WorkerInv, Hands, NotStarted,
                NoConcurrentSync, Holds
  <2>2. KitTypeOK'
    BY <1>1 DEF WorkerStarts, KitInv, KitTypeOK
  <2> QED
    BY <1>1, <2>1, <2>2, QueueUnchanged DEF WorkerStarts, KitInv, WorkerInv
<1>2. CASE TakeItem(w)
  <2>1. PICK k \in Key : GetItem(k) /\ worker' = [worker EXCEPT ![w] = [pc |-> "start", key |-> k]]
    BY <1>2 DEF TakeItem
  <2>2. QueueInv' /\ k \notin processing /\ processing' = processing \cup {k}
    BY <2>1, GetKeepsQueue DEF GetItem, KitInv
  <2>3. WorkerInv'
    BY <1>2, <2>1, <2>2 DEF TakeItem, AtGet, KitInv, WorkerInv, Hands, NotStarted,
                            NoConcurrentSync, Holds
  <2>4. KitTypeOK' /\ DelayTypeOK'
    BY <1>2 DEF TakeItem, KitInv, KitTypeOK, DelayTypeOK, delayVars
  <2> QED
    BY <2>2, <2>3, <2>4 DEF KitInv, WorkerInv
<1>3. CASE WaitForItem(w)
  <2>1. QueueInv'
    BY <1>3, WaitersKeepQueue DEF WaitForItem, GetWaits, KitInv, QueueInv, DueTypeOK
  <2>2. WorkerInv'
    BY <1>3, WorkersUnchanged DEF WaitForItem, GetWaits, kitVars
  <2>3. KitTypeOK' /\ DelayTypeOK'
    BY <1>3 DEF WaitForItem, kitVars, KitInv, KitTypeOK, DelayTypeOK, delayVars
  <2> QED
    BY <2>1, <2>2, <2>3 DEF KitInv, WorkerInv
<1>4. CASE WorkerExits(w)
  <2>1. WorkerInv'
    BY <1>4 DEF WorkerExits, AtGet, GetStops, queueVars, KitInv, WorkerInv, Hands,
                NotStarted, NoConcurrentSync, Holds
  <2>2. KitTypeOK'
    BY <1>4 DEF WorkerExits, KitInv, KitTypeOK
  <2> QED
    BY <1>4, <2>1, <2>2, QueueUnchanged DEF WorkerExits, GetStops, KitInv, WorkerInv
<1>5. CASE ReadCache(w)
  <2>1. WorkerInv'
    BY <1>5 DEF ReadCache, queueVars, KitInv, WorkerInv, Hands, NotStarted,
                NoConcurrentSync, Holds
  <2>2. worker[w].key \in Key
    BY <1>5 DEF ReadCache, KitInv, Hands, Holds, QueueInv, DueTypeOK
  <2>3. KitTypeOK'
    BY <1>5, <2>2 DEF ReadCache, Read, KitInv, KitTypeOK
  <2> QED
    BY <1>5, <2>1, <2>3, QueueUnchanged DEF ReadCache, KitInv, WorkerInv
<1>6. ASSUME NEW result \in Outcome, Finish(w, result), Holds(w),
             DelayTypeOK', told' \subseteq Key, quiet' \subseteq Key
      PROVE  KitInv'
  <2>1. worker[w].key \in processing /\ worker[w].key \in Key
    BY <1>6 DEF KitInv, Hands, QueueInv, DueTypeOK
  <2>2. QueueInv' /\ processing' = processing \ {worker[w].key}
    BY <1>6, <2>1, DoneKeepsQueue DEF Finish, Done, KitInv
  <2>3. WorkerInv'
    <3>1. worker' \in [Worker -> WorkerState] /\ ~ Holds(w)'
      BY <1>6 DEF Finish, KitInv, Holds
    <3>2. \A v \in Worker \ {w} : worker'[v] = worker[v]
      BY <1>6 DEF Finish, KitInv
    <3>3. Hands' /\ NoConcurrentSync'
      BY <1>6, <2>2, <3>1, <3>2 DEF KitInv, Hands, NoConcurrentSync, Holds
    <3>4. NotStarted'
      BY <1>6 DEF Finish, KitInv, NotStarted, Holds
    <3> QED
      BY <3>1, <3>3, <3>4 DEF WorkerInv
  <2>4. KitTypeOK'
    BY <1>6, <2>1 DEF Finish, KitInv, KitTypeOK
  <2> QED
    BY <1>6, <2>2, <2>3, <2>4 DEF KitInv, WorkerInv
<1>7. CASE ReadNothing(w)
  <2>1. Holds(w) /\ worker[w].key \in Key
    BY <1>7 DEF ReadNothing, KitInv, Hands, Holds, QueueInv, DueTypeOK
  <2>2. DelayTypeOK' /\ told' \subseteq Key /\ quiet' \subseteq Key
    BY <1>7, <2>1 DEF ReadNothing, Read, Finish, KitInv, KitTypeOK, DelayTypeOK
  <2> QED
    BY <1>6, <1>7, <2>1, <2>2 DEF ReadNothing, Outcome
<1>8. CASE SyncSucceeds(w)
  <2>1. Holds(w) /\ worker[w].key \in Key
    BY <1>8 DEF SyncSucceeds, KitInv, Hands, Holds, QueueInv, DueTypeOK
  <2>2. DelayTypeOK' /\ told' \subseteq Key /\ quiet' \subseteq Key
    BY <1>8, <2>1, ForgetType DEF SyncSucceeds, Finish, KitInv, KitTypeOK
  <2> QED
    BY <1>6, <1>8, <2>1, <2>2 DEF SyncSucceeds, Outcome
<1>9. CASE SyncFails(w)
  <2>1. Holds(w)
    BY <1>9 DEF SyncFails, Holds
  <2>2. DelayTypeOK' /\ told' \subseteq Key /\ quiet' \subseteq Key
    BY <1>9 DEF SyncFails, Finish, KitInv, KitTypeOK, DelayTypeOK
  <2> QED
    BY <1>6, <1>9, <2>1, <2>2 DEF SyncFails, Outcome
<1> QED
  BY <1>1, <1>2, <1>3, <1>4, <1>5, <1>7, <1>8, <1>9 DEF WorkerStep

LEMMA KitStep == KitInv /\ [Next]_vars => KitInv'
PROOF
<1> SUFFICES ASSUME KitInv, [Next]_vars PROVE KitInv'
  OBVIOUS
<1>1. CASE UNCHANGED vars
  <2>1. QueueInv' /\ DelayTypeOK' /\ WorkerInv'
    BY <1>1, QueueUnchanged, WorkersUnchanged DEF vars, kitVars, queueVars
  <2>2. KitTypeOK'
    BY <1>1 DEF vars, kitVars, KitInv, KitTypeOK
  <2> QED
    BY <2>1, <2>2 DEF KitInv, WorkerInv
<1>2. CASE \E w \in Worker : WorkerStep(w)
  BY <1>2, WorkerKeeps
<1> QED
  BY <1>1, <1>2, EnvironmentKeeps, CachesSyncedKeeps DEF Next, InformerStep

LEMMA KitInvariant == Spec => []KitInv
PROOF
<1> QED
  BY KitInit, KitStep, PTL DEF Spec

\* The variables of the queue and of the kit have their types.
THEOREM KitTypeCorrect == Spec => []TypeOK
PROOF
<1>1. KitInv => TypeOK
  BY DEF KitInv, QueueInv, KitTypeOK, TypeOK, QueueTypeOK
<1> QED
  BY <1>1, KitInvariant, PTL

\* No two workers process one key at a time, however the events, the delays
\* and the workers interleave.
THEOREM KeysAreSyncedOneAtATime == Spec => []NoConcurrentSync
PROOF
<1>1. KitInv => NoConcurrentSync
  BY DEF KitInv
<1> QED
  BY <1>1, KitInvariant, PTL

(***************************************************************************)
(* No wakeup is lost.  NoLostWakeup is inductive once it is known that the *)
(* workers that sleep are in Get: whatever puts a key into the queue wakes *)
(* one of them, and a worker that is awake for a key stays so until it     *)
(* finds the queue empty.                                                  *)
(***************************************************************************)
Awake    == {w \in Worker : AtGet(w) \/ Holds(w)}
Sleepers == \A w \in waiters : worker[w].pc = "get"
WakeInv  == Sleepers /\ NoLostWakeup

Busy == {"get", "start", "sync"}

\* What a step does to the queue, unless it shuts it down.
QueueFed ==
  \/ Len(queue') <= Len(queue) /\ waiters' = waiters
  \/ /\ Len(queue') = Len(queue) + 1
     /\ \/ waiters' = {}
        \/ \E w \in waiters : waiters' = waiters \ {w}

LEMMA AwakeType ==
  /\ IsFiniteSet(Awake) /\ Cardinality(Awake) \in Nat
  /\ NoLostWakeup <=> (waiters # {} => Len(queue) <= Cardinality(Awake))
<1>1. Awake \subseteq Worker
  BY DEF Awake
<1> QED
  BY <1>1, WorkerAssumption, FS_Subset, FS_CardinalityType DEF NoLostWakeup, Awake

LEMMA AwakeTypeLater ==
  /\ IsFiniteSet(Awake') /\ Cardinality(Awake') \in Nat
  /\ NoLostWakeup' <=> (waiters' # {} => Len(queue') <= Cardinality(Awake'))
<1>1. Awake' \subseteq Worker
  BY DEF Awake
<1> QED
  BY <1>1, WorkerAssumption, FS_Subset, FS_CardinalityType DEF NoLostWakeup, Awake

LEMMA PushFeeds ==
  ASSUME KitInv, NEW k \in Key, Push(k)
  PROVE  QueueFed
BY PushAppends DEF KitInv, QueueFed, Push, Signal

LEMMA UnchangedFeeds ==
  ASSUME KitInv, UNCHANGED <<queue, waiters>>
  PROVE  QueueFed
BY LenProperties DEF KitInv, QueueInv, DueTypeOK, QueueFed

LEMMA AddFeeds ==
  ASSUME KitInv, NEW k \in Key, Add(k)
  PROVE  QueueFed
BY PushFeeds, UnchangedFeeds DEF Add

\* Workers that were awake stay so, and one more is if a key is added.
LEMMA FedKeepsWake ==
  ASSUME KitInv, WakeInv, QueueFed, Len(queue') \in Nat,
         \A w \in Worker : worker[w].pc \in Busy => worker'[w].pc \in Busy,
         \A w \in waiters : worker'[w].pc = "get"
  PROVE  WakeInv'
<1>1. waiters \subseteq Worker /\ waiters' \subseteq waiters /\ Len(queue) \in Nat
  BY LenProperties DEF KitInv, QueueInv, DueTypeOK, QueueFed
<1>2. Sleepers'
  BY <1>1 DEF Sleepers
<1>3. \A w \in Worker : w \in Awake' <=> worker'[w].pc \in Busy /\ w \notin waiters'
  BY <1>2 DEF Awake, AtGet, Holds, Busy, Sleepers
<1>4. \A w \in Worker : w \in Awake <=> worker[w].pc \in Busy /\ w \notin waiters
  BY DEF Awake, AtGet, Holds, Busy, Sleepers, WakeInv
<1>5. Awake \subseteq Awake'
  BY <1>1, <1>3, <1>4 DEF Awake
<1>6. Cardinality(Awake) <= Cardinality(Awake')
  BY <1>5, AwakeTypeLater, FS_Subset
<1>7. CASE Len(queue') <= Len(queue) /\ waiters' = waiters
  BY <1>1, <1>2, <1>6, <1>7, AwakeType, AwakeTypeLater DEF WakeInv
<1>8. CASE waiters' = {}
  BY <1>2, <1>8 DEF WakeInv, NoLostWakeup
<1>9. ASSUME NEW w \in waiters, waiters' = waiters \ {w}, Len(queue') = Len(queue) + 1
      PROVE  WakeInv'
  <2>1. w \in Awake' /\ w \notin Awake
    BY <1>1, <1>3, <1>4, <1>9 DEF Busy, WakeInv
  <2>2. Awake \cup {w} \subseteq Awake'
    BY <1>5, <2>1
  <2>3. Cardinality(Awake) + 1 <= Cardinality(Awake')
    <3>1. /\ IsFiniteSet(Awake \cup {w})
          /\ Cardinality(Awake \cup {w}) = Cardinality(Awake) + 1
      BY <2>1, AwakeType, FS_AddElement
    <3> QED
      BY <2>2, <3>1, AwakeTypeLater, FS_Subset
  <2>4. Len(queue) <= Cardinality(Awake)
    BY <1>9, AwakeType DEF WakeInv
  <2> QED
    BY <1>1, <1>2, <1>9, <2>3, <2>4, AwakeType, AwakeTypeLater DEF WakeInv
<1> QED
  BY <1>7, <1>8, <1>9 DEF QueueFed

LEMMA EmptyKeepsWake ==
  ASSUME queue' = <<>>, Sleepers'
  PROVE  WakeInv'
BY AwakeTypeLater, EmptySeq DEF WakeInv

LEMMA WorkersKeepWake ==
  ASSUME KitInv, WakeInv, QueueFed, Len(queue') \in Nat, UNCHANGED worker
  PROVE  WakeInv'
BY FedKeepsWake DEF WakeInv, Sleepers

LEMMA WorkerKeepsWake ==
  ASSUME KitInv, WakeInv, Len(queue') \in Nat, NEW w \in Worker, WorkerStep(w)
  PROVE  WakeInv'
<1>1. worker \in [Worker -> WorkerState] /\ Sleepers /\ waiters \subseteq Worker
  BY DEF KitInv, WakeInv, QueueInv, DueTypeOK
<1>2. CASE WorkerStarts(w)
  <2>1. QueueFed
    BY <1>2, UnchangedFeeds DEF WorkerStarts, queueVars
  <2>2. \A v \in Worker : v # w => worker'[v] = worker[v]
    BY <1>1, <1>2 DEF WorkerStarts
  <2>3. worker[w].pc = "spawned"
    BY <1>2 DEF WorkerStarts
  <2> QED
    BY <1>1, <2>1, <2>2, <2>3, FedKeepsWake DEF Sleepers, Busy
<1>3. CASE TakeItem(w)
  <2>1. PICK k \in Key :
          GetItem(k) /\ worker' = [worker EXCEPT ![w] = [pc |-> "start", key |-> k]]
    BY <1>3 DEF TakeItem
  <2>2. Len(queue') = Len(queue) - 1 /\ Len(queue) \in Nat
    BY <2>1, HeadTailProperties, EmptySeq, LenProperties
       DEF GetItem, KitInv, QueueInv, DueTypeOK
  <2>3. QueueFed
    <3>1. waiters' = waiters
      BY <2>1 DEF GetItem
    <3>2. Len(queue') <= Len(queue)
      BY <2>2
    <3> QED
      BY <3>1, <3>2 DEF QueueFed
  <2>4. \A v \in Worker : v # w => worker'[v] = worker[v]
    BY <1>1, <2>1
  <2>5. worker'[w].pc = "start" /\ w \notin waiters
    BY <1>1, <1>3, <2>1 DEF TakeItem, AtGet
  <2> QED
    BY <1>1, <2>3, <2>4, <2>5, FedKeepsWake DEF Sleepers, Busy
<1>4. CASE WaitForItem(w)
  <2>1. queue' = <<>> /\ worker' = worker /\ waiters' = waiters \cup {w} /\ worker[w].pc = "get"
    BY <1>4 DEF WaitForItem, GetWaits, AtGet, kitVars
  <2> QED
    BY <1>1, <2>1, EmptyKeepsWake DEF Sleepers
<1>5. CASE WorkerExits(w)
  <2>1. queue' = <<>> /\ waiters' = waiters /\ w \notin waiters
    BY <1>5 DEF WorkerExits, GetStops, AtGet, queueVars
  <2>2. \A v \in Worker : v # w => worker'[v] = worker[v]
    BY <1>1, <1>5 DEF WorkerExits
  <2> QED
    BY <1>1, <2>1, <2>2, EmptyKeepsWake DEF Sleepers
<1>6. CASE ReadCache(w)
  <2>1. QueueFed
    BY <1>6, UnchangedFeeds DEF ReadCache, queueVars
  <2>2. \A v \in Worker : v # w => worker'[v] = worker[v]
    BY <1>1, <1>6 DEF ReadCache
  <2>3. worker'[w].pc = "sync" /\ worker[w].pc = "start"
    BY <1>1, <1>6 DEF ReadCache, WorkerState
  <2> QED
    BY <1>1, <2>1, <2>2, <2>3, FedKeepsWake DEF Sleepers, Busy
<1>7. CASE SyncSucceeds(w) \/ SyncFails(w) \/ ReadNothing(w)
  <2>1. PICK result : Finish(w, result)
    BY <1>7 DEF SyncSucceeds, SyncFails, ReadNothing
  <2>2. Holds(w) /\ worker[w].key \in Key
    BY <1>7 DEF SyncSucceeds, SyncFails, ReadNothing, Holds, KitInv, Hands, QueueInv, DueTypeOK
  <2>3. QueueFed
    BY <2>1, <2>2, PushFeeds, UnchangedFeeds DEF Finish, Done
  <2>4. \A v \in Worker : v # w => worker'[v] = worker[v]
    BY <1>1, <2>1 DEF Finish
  <2>5. worker'[w].pc = "get"
    BY <1>1, <2>1 DEF Finish
  <2> QED
    BY <1>1, <2>2, <2>3, <2>4, <2>5, FedKeepsWake DEF Sleepers, Busy, Holds
<1> QED
  BY <1>2, <1>3, <1>4, <1>5, <1>6, <1>7 DEF WorkerStep

LEMMA WakeStep ==
  ASSUME KitInv, WakeInv, [Next]_vars
  PROVE  WakeInv'
<1>1. Len(queue') \in Nat
  BY KitStep, LenProperties DEF KitInv, QueueInv, DueTypeOK
<1>2. CASE UNCHANGED <<queueVars, worker>>
  BY <1>1, <1>2, UnchangedFeeds, WorkersKeepWake DEF queueVars
<1>3. CASE WaitingLoop
  <2>1. UNCHANGED worker
    BY <1>3 DEF WaitingLoop, kitVars
  <2>2. CASE \E k \in Key : DelayEnds(k)
    BY <1>1, <2>1, <2>2, AddFeeds, WorkersKeepWake DEF DelayEnds
  <2>3. CASE ReceiveWaiting
    <3>1. Head(waitCh) \in Key
      BY <2>3, WaitChProperties DEF ReceiveWaiting, KitInv
    <3>2. QueueFed
      BY <2>3, <3>1, AddFeeds, UnchangedFeeds DEF ReceiveWaiting, queueVars
    <3> QED
      BY <1>1, <2>1, <3>2, WorkersKeepWake
  <2> QED
    BY <1>3, <2>2, <2>3 DEF WaitingLoop
<1>4. CASE CachesSynced
  <2>1. \A w \in waiters : worker[w].pc = "off" /\ worker[w].pc = "get"
    BY <1>4 DEF CachesSynced, KitInv, NotStarted, QueueInv, DueTypeOK, WakeInv, Sleepers
  <2>2. waiters' = {}
    BY <1>4, <2>1 DEF CachesSynced, queueVars
  <2> QED
    BY <2>2 DEF WakeInv, Sleepers, NoLostWakeup
<1>5. CASE RunReturns
  BY <1>5 DEF RunReturns, ShutDown, WakeInv, Sleepers, NoLostWakeup
<1>6. CASE \E w \in Worker : WorkerStep(w)
  BY <1>1, <1>6, WorkerKeepsWake
<1> QED
  BY <1>2, <1>3, <1>4, <1>5, <1>6
  DEF Next, ResourceChanges, DeletionMissed, ObjectChanges, OtherChanges, Resync, Notify,
      HandleEvent, Stop, vars, kitVars

\* While a worker sleeps, others are awake for every key that is due,
\* however many workers there are and however Add, Get and Done interleave.
THEOREM WakeupsAreNotLost == Spec => []NoLostWakeup
<1>1. Init => WakeInv
  BY DEF Init, QueueInit, WakeInv, Sleepers, NoLostWakeup
<1>2. WakeInv => NoLostWakeup
  BY DEF WakeInv
<1> QED
  BY <1>1, <1>2, WakeStep, KitInvariant, PTL DEF Spec

(***************************************************************************)
(* No change is lost.  Each place in which a key may be on its way to a    *)
(* Sync hands it to the next one; only a worker that reads the cache takes *)
(* it out, and then the change has been read.                              *)
(***************************************************************************)
InEvents(k) == \E i \in 1 .. Len(events) : events[i].key = k /\ Enqueues(events[i])
InChannel(k) == \E i \in 1 .. Len(waitCh) : waitCh[i] = k
AtWorker(k) == \E w \in Worker : worker[w] = [pc |-> "start", key |-> k]

LEMMA ComingParts ==
  ASSUME NEW k \in Key
  PROVE  Coming(k) <=> InEvents(k) \/ InChannel(k) \/ k \in delayed \cup dirty \/ AtWorker(k)
PROOF BY DEF Coming, Due, InEvents, InChannel, AtWorker

LEMMA ComingPartsLater ==
  ASSUME NEW k \in Key
  PROVE  Coming(k)' <=> InEvents(k)' \/ InChannel(k)' \/ k \in delayed' \cup dirty' \/ AtWorker(k)'
PROOF BY DEF Coming, Due, InEvents, InChannel, AtWorker

\* A key of which an event tells stays told of, unless its resource goes.
LEMMA NotifyTells ==
  ASSUME KitInv, NEW k \in Key, NEW kind \in Kind, Notify(k, kind),
         cache' \in {cache, cache \cup {k}, cache \ {k}}
  PROVE  /\ \A j \in Key \ {k} : InEvents(j)' <=> InEvents(j)
         /\ kind = "resource" => InEvents(k)'
         /\ kind = "object" /\ k \in cache' => InEvents(k)'
         /\ k \in cache' /\ InEvents(k) => InEvents(k)'
         /\ kind # "resource" /\ cache' \subseteq cache /\ (kind = "object" => k \notin cache')
              => (InEvents(k)' => InEvents(k))
         /\ UNCHANGED cache /\ InEvents(k) => InEvents(k)'
PROOF
<1>1. events \in Seq(Event) /\ [key |-> k, kind |-> kind] \in Event
  BY DEF KitInv, KitTypeOK, Event
<1>2. /\ Len(events) \in Nat
      /\ Len(events') = Len(events) + 1
      /\ \A i \in 1 .. Len(events) : events'[i] = events[i]
      /\ events'[Len(events) + 1] = [key |-> k, kind |-> kind]
  BY <1>1, AppendProperties, LenProperties DEF Notify
<1>3. \A i \in 1 .. Len(events') : i \in 1 .. Len(events) \/ i = Len(events) + 1
  BY <1>2
<1>4. Len(events) + 1 \in 1 .. Len(events')
  BY <1>2
<1>5. ASSUME NEW j \in Key \ {k} PROVE InEvents(j)' <=> InEvents(j)
  <2>1. InEvents(j) => InEvents(j)'
    BY <1>2, <1>5 DEF InEvents, Enqueues
  <2>2. InEvents(j)' => InEvents(j)
    BY <1>2, <1>3, <1>5 DEF InEvents, Enqueues
  <2> QED
    BY <2>1, <2>2
<1>6. kind = "resource" \/ (kind = "object" /\ k \in cache') => InEvents(k)'
  BY <1>2, <1>4 DEF InEvents, Enqueues
<1>7. (k \in cache' \/ UNCHANGED cache) /\ InEvents(k) => InEvents(k)'
  BY <1>2 DEF InEvents, Enqueues
<1>8. ASSUME kind # "resource", cache' \subseteq cache, kind = "object" => k \notin cache',
             InEvents(k)'
      PROVE  InEvents(k)
  BY <1>2, <1>3, <1>8 DEF InEvents, Enqueues
<1> QED
  BY <1>5, <1>6, <1>7, <1>8

\* The queues and the workers are left alone.
LEMMA NotifyKeepsPlaces ==
  ASSUME NEW k \in Key, NEW kind \in Kind, Notify(k, kind)
  PROVE  /\ \A j \in Key : UNCHANGED <<InChannel(j), AtWorker(j)>>
         /\ UNCHANGED <<delayed, dirty, worker, shuttingDown>>
PROOF
<1>1. UNCHANGED <<waitCh, delayed, dirty, worker, shuttingDown>>
  BY DEF Notify, queueVars, delayVars
<1> QED
  BY <1>1 DEF InChannel, AtWorker

\* What the informers tell of a key that exists afterwards is on its way, and
\* so is what was.
LEMMA InformersTell ==
  ASSUME KitInv, NEW j \in Key, InformerStep(j), NEW k \in told' \cap cache',
         k \in told \cap cache => Coming(k)
  PROVE  Coming(k)' /\ UNCHANGED shuttingDown
PROOF
<1>1. PICK kind \in Kind : Notify(j, kind)
  BY InformerStepNotifies
<1>2. UNCHANGED <<delayed, dirty, shuttingDown, InChannel(k), AtWorker(k)>> /\ k \in Key
  BY <1>1, NotifyKeepsPlaces, InformerStepNotifies
<1>3. ASSUME InEvents(k) => InEvents(k)', Coming(k) PROVE Coming(k)'
  BY <1>2, <1>3, ComingParts, ComingPartsLater
<1>4. ASSUME InEvents(k)' PROVE Coming(k)'
  BY <1>2, <1>4, ComingPartsLater
<1>5. CASE k # j
  <2>1. InEvents(k)' <=> InEvents(k)
    BY <1>1, <1>2, <1>5, NotifyTells, InformerStepNotifies
  <2>2. k \in told \cap cache
    BY <1>5 DEF InformerStep, ResourceChanges, DeletionMissed, ObjectChanges, OtherChanges, Resync
  <2> QED
    BY <1>2, <1>3, <2>1, <2>2
<1>6. CASE k = j
  <2>1. CASE ResourceChanges(k)
    <3>1. InEvents(k)'
      BY <1>6, <2>1, NotifyTells, InformerStepNotifies DEF ResourceChanges, Kind
    <3> QED
      BY <1>2, <1>4, <3>1
  <2>2. CASE ObjectChanges(k)
    <3>1. InEvents(k)'
      BY <1>6, <2>2, NotifyTells, InformerStepNotifies DEF ObjectChanges, Kind
    <3> QED
      BY <1>2, <1>4, <3>1
  <2>3. CASE OtherChanges(k) \/ Resync(k)
    <3>1. k \in told \cap cache
      BY <2>3 DEF OtherChanges, Resync
    <3>2. InEvents(k) => InEvents(k)'
      BY <1>1, <1>6, NotifyTells, InformerStepNotifies
    <3> QED
      BY <1>2, <1>3, <3>1, <3>2
  <2>4. CASE DeletionMissed(k)
    BY <2>4 DEF DeletionMissed
  <2> QED
    BY <1>6, <2>1, <2>2, <2>3, <2>4 DEF InformerStep
<1> QED
  BY <1>5, <1>6

LEMMA AddRateLimitedGrows ==
  ASSUME DelayTypeOK, NEW k \in Key, AddRateLimited(k), ~ shuttingDown
  PROVE  InChannel(k)' /\ \A j \in Key : InChannel(j) => InChannel(j)'
PROOF
<1>1. waitCh \in Seq(Key) /\ waitCh' = Append(waitCh, k)
  BY DEF DelayTypeOK, AddRateLimited
<1>2. /\ Len(waitCh) \in Nat
      /\ Len(waitCh') = Len(waitCh) + 1
      /\ \A i \in 1 .. Len(waitCh) : waitCh'[i] = waitCh[i]
      /\ waitCh'[Len(waitCh) + 1] = k
  BY <1>1, AppendProperties, LenProperties
<1> QED
  BY <1>2 DEF InChannel

LEMMA HandleEventHandsOn ==
  ASSUME KitInv, HandleEvent, ~ shuttingDown, NEW k \in Key, Coming(k)
  PROVE  Coming(k)'
PROOF
<1>1. Head(events) = events[1] /\ Head(events) \in Event
  BY EventProperties DEF HandleEvent
<1>2. /\ Len(events') = Len(events) - 1
      /\ \A i \in 1 .. Len(events') : events'[i] = events[i + 1]
      /\ Len(events) \in Nat \ {0}
  BY EventProperties DEF HandleEvent
<1>3. InChannel(k) => InChannel(k)'
  <2>1. CASE Handled(Head(events))
    BY <1>1, <2>1, AddRateLimitedGrows DEF HandleEvent, KitInv, Event
  <2>2. CASE ~ Handled(Head(events))
    BY <2>2 DEF HandleEvent, InChannel, delayVars
  <2> QED
    BY <2>1, <2>2
<1>4. UNCHANGED <<delayed, dirty, worker>>
  BY DEF HandleEvent, AddRateLimited, queueVars, delayVars
<1>5. AtWorker(k) => AtWorker(k)'
  BY <1>4 DEF AtWorker
<1>6. InEvents(k) => InEvents(k)' \/ InChannel(k)'
  <2> SUFFICES ASSUME NEW i \in 1 .. Len(events), events[i].key = k, Enqueues(events[i])
               PROVE  InEvents(k)' \/ InChannel(k)'
    BY DEF InEvents
  <2>1. CASE i = 1
    <3>1. Handled(Head(events)) /\ Head(events).key = k
      BY <1>1, <2>1 DEF Handled
    <3> QED
      BY <3>1, AddRateLimitedGrows DEF HandleEvent, KitInv
  <2>2. CASE i # 1
    <3>1. i - 1 \in 1 .. Len(events') /\ events'[i - 1] = events[i] /\ UNCHANGED cache
      BY <1>2, <2>2 DEF HandleEvent
    <3> QED
      BY <3>1 DEF InEvents, Enqueues
  <2> QED
    BY <2>1, <2>2
<1> QED
  BY <1>3, <1>4, <1>5, <1>6, ComingParts, ComingPartsLater

LEMMA WaitingLoopHandsOn ==
  ASSUME KitInv, WaitingLoop, ~ shuttingDown, NEW k \in Key, Coming(k)
  PROVE  Coming(k)'
PROOF
<1>1. (InEvents(k) => InEvents(k)') /\ (AtWorker(k) => AtWorker(k)')
  BY DEF WaitingLoop, kitVars, InEvents, Enqueues, AtWorker
<1>2. CASE ReceiveWaiting
  <2>1. /\ Head(waitCh) = waitCh[1] /\ Head(waitCh) \in Key
        /\ Len(waitCh') = Len(waitCh) - 1
        /\ \A i \in 1 .. Len(waitCh') : waitCh'[i] = waitCh[i + 1]
        /\ Len(waitCh) \in Nat \ {0}
    BY <1>2, WaitChProperties DEF ReceiveWaiting, KitInv
  <2>2. /\ delayed \subseteq delayed'
        /\ dirty \subseteq dirty'
        /\ Head(waitCh) \in delayed' \cup dirty'
    <3>1. CASE delayed' = delayed \cup {Head(waitCh)} /\ UNCHANGED queueVars
      BY <3>1 DEF queueVars
    <3>2. CASE Add(Head(waitCh)) /\ UNCHANGED delayed
      BY <2>1, <3>2, AddKeepsQueue DEF KitInv
    <3> QED
      BY <1>2, <3>1, <3>2 DEF ReceiveWaiting
  <2>3. InChannel(k) => InChannel(k)' \/ k \in delayed' \cup dirty'
    <3> SUFFICES ASSUME NEW i \in 1 .. Len(waitCh), waitCh[i] = k
                 PROVE  InChannel(k)' \/ k \in delayed' \cup dirty'
      BY DEF InChannel
    <3>1. CASE i = 1
      BY <2>1, <2>2, <3>1
    <3>2. CASE i # 1
      <4>1. i - 1 \in 1 .. Len(waitCh') /\ waitCh'[i - 1] = waitCh[i]
        BY <2>1, <3>2
      <4> QED
        BY <4>1 DEF InChannel
    <3> QED
      BY <3>1, <3>2
  <2>4. Coming(k)' <=> InEvents(k)' \/ InChannel(k)' \/ k \in delayed' \cup dirty' \/ AtWorker(k)'
    BY DEF Coming, Due, InEvents, InChannel, AtWorker
  <2> QED
    BY <1>1, <2>2, <2>3, <2>4, ComingParts
<1>3. ASSUME NEW j \in Key, DelayEnds(j) PROVE Coming(k)'
  <2>1. dirty \subseteq dirty' /\ j \in dirty' /\ delayed' = delayed \ {j} /\ UNCHANGED waitCh
    BY <1>3, AddKeepsQueue DEF DelayEnds, KitInv
  <2>2. InChannel(k) => InChannel(k)'
    BY <2>1 DEF InChannel
  <2>3. Coming(k)' <=> InEvents(k)' \/ InChannel(k)' \/ k \in delayed' \cup dirty' \/ AtWorker(k)'
    BY DEF Coming, Due, InEvents, InChannel, AtWorker
  <2> QED
    BY <1>1, <2>1, <2>2, <2>3, ComingParts
<1> QED
  BY <1>2, <1>3 DEF WaitingLoop

LEMMA WorkerHandsOn ==
  ASSUME KitInv, NEW w \in Worker, WorkerStep(w), NEW k \in Key, Coming(k)
  PROVE  Coming(k)' \/ k \notin told'
PROOF
<1>1. UNCHANGED <<cache, events, waitCh, delayed>>
  BY DEF WorkerStep, WorkerStarts, TakeItem, WaitForItem, WorkerExits, ReadCache, ReadNothing,
         SyncSucceeds, SyncFails, Finish, Forget, delayVars, kitVars
<1>2. (InEvents(k) => InEvents(k)') /\ (InChannel(k) => InChannel(k)')
  BY <1>1 DEF InEvents, Enqueues, InChannel
<1>3. Coming(k)' <=> InEvents(k)' \/ InChannel(k)' \/ k \in delayed' \cup dirty' \/ AtWorker(k)'
  BY DEF Coming, Due, InEvents, InChannel, AtWorker
<1>4. \A v \in Worker \ {w} : worker'[v] = worker[v]
  BY DEF WorkerStep, WorkerStarts, TakeItem, WaitForItem, WorkerExits, ReadCache, ReadNothing,
         SyncSucceeds, SyncFails, Finish, KitInv, kitVars
<1>5. k \in dirty => k \in dirty' \/ AtWorker(k)'
  <2>1. CASE TakeItem(w)
    <3>1. PICK j \in Key : GetItem(j) /\ worker' = [worker EXCEPT ![w] = [pc |-> "start", key |-> j]]
      BY <2>1 DEF TakeItem
    <3>2. worker'[w] = [pc |-> "start", key |-> j] /\ dirty' = dirty \ {j}
      BY <3>1 DEF GetItem, KitInv
    <3> QED
      BY <3>2 DEF AtWorker
  <2>2. CASE ~ TakeItem(w)
    BY <2>2 DEF WorkerStep, WorkerStarts, WaitForItem, WorkerExits, ReadCache, ReadNothing,
                SyncSucceeds, SyncFails, Finish, GetWaits, GetStops, Done, queueVars
  <2> QED
    BY <2>1, <2>2
<1>6. AtWorker(k) => AtWorker(k)' \/ k \notin told'
  <2> SUFFICES ASSUME NEW v \in Worker, worker[v] = [pc |-> "start", key |-> k]
               PROVE  AtWorker(k)' \/ k \notin told'
    BY DEF AtWorker
  <2>1. CASE v # w
    BY <1>4, <2>1 DEF AtWorker
  <2>2. CASE v = w
    <3>1. ReadCache(w) \/ ReadNothing(w) \/ UNCHANGED worker
      BY <2>2 DEF WorkerStep, WorkerStarts, TakeItem, WaitForItem, WorkerExits, AtGet,
                  SyncSucceeds, SyncFails
    <3>2. CASE UNCHANGED worker
      BY <2>2, <3>2 DEF AtWorker
    <3>3. CASE ReadCache(w) \/ ReadNothing(w)
      BY <2>2, <3>3 DEF ReadCache, ReadNothing, Read
    <3> QED
      BY <3>1, <3>2, <3>3
  <2> QED
    BY <2>1, <2>2
<1> QED
  BY <1>1, <1>2, <1>3, <1>5, <1>6, ComingParts

\* Where the other steps leave a change that has not been read.
LEMMA UnreadStep ==
  ASSUME KitInv, NoLostEvent, Next
  PROVE  NoLostEvent'
PROOF
<1> SUFFICES ASSUME NEW k \in told' \cap cache', ~ shuttingDown'
             PROVE  Coming(k)'
  BY DEF NoLostEvent
<1> DEFINE Untold == k \in told \cap cache /\ ~ shuttingDown
<1>0. Untold => Coming(k) /\ k \in Key
  BY DEF NoLostEvent, KitInv, KitTypeOK
<1>1. ASSUME NEW j \in Key, InformerStep(j) PROVE Coming(k)'
  <2>1. UNCHANGED shuttingDown
    BY <1>1, InformerStepNotifies, NotifyKeepsPlaces
  <2> QED
    BY <1>0, <1>1, <2>1, InformersTell
<1>3. CASE HandleEvent
  BY <1>0, <1>3, HandleEventHandsOn DEF HandleEvent, queueVars
<1>4. CASE WaitingLoop
  BY <1>0, <1>4, WaitingLoopHandsOn, WaitingLoopKeepsQueue
  DEF WaitingLoop, kitVars, KitInv
<1>5. CASE CachesSynced
  <2>1. ~ AtWorker(k)
    BY <1>5 DEF AtWorker, CachesSynced, KitInv, NotStarted
  <2>2. UNCHANGED <<cache, told, shuttingDown, events, waitCh, delayed, dirty>>
    BY <1>5 DEF CachesSynced, queueVars, delayVars
  <2>3. (InEvents(k) => InEvents(k)') /\ (InChannel(k) => InChannel(k)')
    BY <2>2 DEF InEvents, Enqueues, InChannel
  <2> QED
    BY <1>0, <2>1, <2>2, <2>3, ComingParts, ComingPartsLater
<1>6. CASE Stop
  BY <1>0, <1>6 DEF Stop, queueVars, delayVars, Coming, Due, Enqueues
<1>7. CASE RunReturns
  BY <1>7 DEF RunReturns, ShutDown
<1>8. ASSUME NEW w \in Worker, WorkerStep(w) PROVE Coming(k)'
  <2>1. UNCHANGED <<cache, shuttingDown>>
    BY <1>8 DEF WorkerStep, WorkerStarts, TakeItem, WaitForItem, WorkerExits, ReadCache,
                ReadNothing, SyncSucceeds, SyncFails, Finish, GetItem, GetWaits, GetStops,
                Done, queueVars, kitVars
  <2>2. told' \subseteq told
    BY <1>8 DEF WorkerStep, WorkerStarts, TakeItem, WaitForItem, WorkerExits, ReadCache,
                ReadNothing, SyncSucceeds, SyncFails, Read, kitVars
  <2> QED
    BY <1>0, <1>8, <2>1, <2>2, WorkerHandsOn
<1> QED
  BY <1>1, <1>3, <1>4, <1>5, <1>6, <1>7, <1>8 DEF Next, InformerStep

\* A change of a resource that exists, or of an object that leads to it, is
\* on its way to a Sync until one has read it, whatever the informers, the
\* queues and the workers do in between (handleObject to processNextWorkItem).
THEOREM ChangesAreNotLost == Spec => []NoLostEvent
PROOF
<1>1. Init => NoLostEvent
  BY DEF Init, NoLostEvent
<1>2. KitInv /\ NoLostEvent /\ [Next]_vars => NoLostEvent'
  <2> SUFFICES ASSUME KitInv, NoLostEvent, UNCHANGED vars PROVE NoLostEvent'
    BY UnreadStep
  <2> QED
    BY DEF NoLostEvent, Coming, Due, Enqueues, vars, queueVars, delayVars, kitVars
<1> QED
  BY <1>1, <1>2, KitInvariant, PTL DEF Spec

(***************************************************************************)
(* The kit implements KeyedSync.  What the contract calls due is spread    *)
(* over the events, the channel of the waiting loop, its heap and the      *)
(* queue; the lemmas say that each hand-over moves a key from one of them  *)
(* to the next, and neither loses one nor makes one up.                    *)
(***************************************************************************)
DueKeys  == {k \in Key : Due(k)}
Tasks    == [w \in Worker |-> IF Holds(w) THEN worker[w].key ELSE NoKey]
Fresh    == {w \in Worker : worker[w].pc = "start"}

LEMMA DuePlaces ==
  ASSUME NEW k \in Key
  PROVE  /\ Due(k) <=> InEvents(k) \/ InChannel(k) \/ k \in delayed \/ k \in dirty
         /\ Due(k)' <=> InEvents(k)' \/ InChannel(k)' \/ k \in delayed' \/ k \in dirty'
PROOF BY DEF Due, InEvents, InChannel

LEMMA DueUnchanged ==
  ASSUME UNCHANGED <<cache, events, waitCh, delayed, dirty>>
  PROVE  DueKeys' = DueKeys
PROOF
<1>1. \A k \in Key : Due(k)' <=> Due(k)
  BY DuePlaces DEF InEvents, Enqueues, InChannel
<1> QED
  BY <1>1 DEF DueKeys

LEMMA NotifyDue ==
  ASSUME KitInv, NEW k \in Key, NEW kind \in Kind, Notify(k, kind),
         cache' \in {cache, cache \cup {k}, cache \ {k}}
  PROVE  /\ InEvents(k)' => DueKeys' = DueKeys \cup {k}
         /\ (InEvents(k)' <=> InEvents(k)) => DueKeys' = DueKeys
         /\ (InEvents(k)' => InEvents(k)) => DueKeys' \in {DueKeys, DueKeys \ {k}}
PROOF
<1>1. \A j \in Key : UNCHANGED InChannel(j)
  BY NotifyKeepsPlaces
<1>2. UNCHANGED <<delayed, dirty>>
  BY NotifyKeepsPlaces
<1>3. \A j \in Key \ {k} : Due(j)' <=> Due(j)
  BY <1>1, <1>2, DuePlaces, NotifyTells
<1>4. InEvents(k)' => Due(k)'
  BY DuePlaces
<1>5. (InEvents(k)' <=> InEvents(k)) => (Due(k)' <=> Due(k))
  BY <1>1, <1>2, DuePlaces
<1>6. (InEvents(k)' => InEvents(k)) => (Due(k)' => Due(k))
  BY <1>1, <1>2, DuePlaces
<1> QED
  BY <1>3, <1>4, <1>5, <1>6 DEF DueKeys

LEMMA ChannelTakesKey ==
  ASSUME DelayTypeOK, NEW k \in Key, AddRateLimited(k), ~ shuttingDown, NEW j \in Key
  PROVE  InChannel(j)' <=> InChannel(j) \/ j = k
PROOF
<1>1. waitCh \in Seq(Key) /\ waitCh' = Append(waitCh, k)
  BY DEF DelayTypeOK, AddRateLimited
<1>2. /\ Len(waitCh) \in Nat
      /\ Len(waitCh') = Len(waitCh) + 1
      /\ \A i \in 1 .. Len(waitCh) : waitCh'[i] = waitCh[i]
      /\ waitCh'[Len(waitCh) + 1] = k
  BY <1>1, AppendProperties, LenProperties
<1>3. \A i \in 1 .. Len(waitCh') : i \in 1 .. Len(waitCh) \/ i = Len(waitCh) + 1
  BY <1>2
<1> QED
  BY <1>2, <1>3 DEF InChannel

\* The event handlers take one event.
LEMMA EventTaken ==
  ASSUME KitInv, HandleEvent, NEW k \in Key
  PROVE  InEvents(k) <=> InEvents(k)' \/ (Head(events).key = k /\ Enqueues(Head(events)))
PROOF
<1>1. /\ Head(events) = events[1]
      /\ Len(events') = Len(events) - 1
      /\ \A i \in 1 .. Len(events') : events'[i] = events[i + 1]
      /\ Len(events) \in Nat \ {0}
  BY EventProperties DEF HandleEvent
<1>2. UNCHANGED cache
  BY DEF HandleEvent
<1>3. InEvents(k)' => InEvents(k)
  <2> SUFFICES ASSUME NEW i \in 1 .. Len(events'), (events[i].key = k /\ Enqueues(events[i]))'
               PROVE  InEvents(k)
    BY DEF InEvents
  <2>1. i + 1 \in 1 .. Len(events) /\ events[i + 1] = events'[i]
    BY <1>1
  <2> QED
    BY <1>2, <2>1 DEF InEvents, Enqueues
<1>4. Head(events).key = k /\ Enqueues(Head(events)) => InEvents(k)
  BY <1>1 DEF InEvents
<1>5. ASSUME NEW i \in 1 .. Len(events), events[i].key = k, Enqueues(events[i]), i # 1
      PROVE  InEvents(k)'
  <2>1. i - 1 \in 1 .. Len(events') /\ events'[i - 1] = events[i]
    BY <1>1, <1>5
  <2> QED
    BY <1>2, <1>5, <2>1 DEF InEvents, Enqueues
<1> QED
  BY <1>1, <1>3, <1>4, <1>5 DEF InEvents

LEMMA HandleEventDue ==
  ASSUME KitInv, HandleEvent
  PROVE  /\ ~ shuttingDown =>
              DueKeys' = DueKeys \/ \E k \in Key : DueKeys' = DueKeys \cup {k}
         /\ shuttingDown => DueKeys' \in SUBSET DueKeys
PROOF
<1>1. Head(events) \in Event /\ Head(events).key \in Key
  BY EventProperties DEF HandleEvent, Event
<1>2. UNCHANGED <<delayed, dirty, shuttingDown>>
  BY DEF HandleEvent, AddRateLimited, queueVars, delayVars
<1>3. CASE ~ Handled(Head(events))
  <2>1. UNCHANGED waitCh
    BY <1>3 DEF HandleEvent, delayVars
  <2>2. \A k \in Key : InEvents(k) <=> InEvents(k)'
    <3> TAKE k \in Key
    <3>1. ~ Enqueues(Head(events))
      BY <1>3 DEF Handled
    <3> QED
      BY <3>1, EventTaken
  <2>3. \A k \in Key : Due(k) <=> Due(k)'
    BY <1>2, <2>1, <2>2, DuePlaces DEF InChannel
  <2> QED
    BY <2>3 DEF DueKeys
<1>4. CASE Handled(Head(events)) /\ ~ shuttingDown
  <2>1. \A j \in Key : InChannel(j)' <=> InChannel(j) \/ j = Head(events).key
    BY <1>1, <1>4, ChannelTakesKey DEF HandleEvent, KitInv
  <2>2. \A j \in Key : InEvents(j) => InEvents(j)' \/ j = Head(events).key
    BY EventTaken
  <2>3. \A j \in Key : InEvents(j)' => InEvents(j)
    BY EventTaken
  <2>4. \A j \in Key : Due(j)' <=> Due(j) \/ j = Head(events).key
    BY <1>2, <2>1, <2>2, <2>3, DuePlaces
  <2>5. DueKeys' = DueKeys \cup {Head(events).key}
    BY <1>1, <2>4 DEF DueKeys
  <2> QED
    BY <1>1, <1>4, <2>5
<1>5. CASE Handled(Head(events)) /\ shuttingDown
  <2>1. UNCHANGED waitCh
    BY <1>5 DEF HandleEvent, AddRateLimited
  <2>2. \A j \in Key : InEvents(j)' => InEvents(j)
    BY EventTaken
  <2>3. \A j \in Key : Due(j)' => Due(j)
    BY <1>2, <2>1, <2>2, DuePlaces DEF InChannel
  <2> QED
    BY <1>5, <2>3 DEF DueKeys
<1> QED
  BY <1>3, <1>4, <1>5

\* The waiting loop takes a key from the channel, or from its heap.
LEMMA WaitingLoopDue ==
  ASSUME KitInv, WaitingLoop
  PROVE  DueKeys' = DueKeys
PROOF
<1>1. \A k \in Key : InEvents(k)' <=> InEvents(k)
  BY DEF WaitingLoop, kitVars, InEvents, Enqueues
<1>2. CASE ReceiveWaiting
  <2>1. /\ Head(waitCh) = waitCh[1] /\ Head(waitCh) \in Key
        /\ Len(waitCh') = Len(waitCh) - 1
        /\ \A i \in 1 .. Len(waitCh') : waitCh'[i] = waitCh[i + 1]
        /\ Len(waitCh) \in Nat \ {0}
    BY <1>2, WaitChProperties DEF ReceiveWaiting, KitInv
  <2>2. ASSUME NEW k \in Key PROVE InChannel(k) <=> InChannel(k)' \/ k = Head(waitCh)
    <3>1. InChannel(k)' => InChannel(k)
      <4> SUFFICES ASSUME NEW i \in 1 .. Len(waitCh'), waitCh'[i] = k PROVE InChannel(k)
        BY DEF InChannel
      <4>1. i + 1 \in 1 .. Len(waitCh) /\ waitCh[i + 1] = k
        BY <2>1
      <4> QED
        BY <4>1 DEF InChannel
    <3>2. k = Head(waitCh) => InChannel(k)
      BY <2>1 DEF InChannel
    <3>3. ASSUME NEW i \in 1 .. Len(waitCh), waitCh[i] = k, i # 1 PROVE InChannel(k)'
      <4>1. i - 1 \in 1 .. Len(waitCh') /\ waitCh'[i - 1] = k
        BY <2>1, <3>3
      <4> QED
        BY <4>1 DEF InChannel
    <3> QED
      BY <2>1, <3>1, <3>2, <3>3 DEF InChannel
  <2>3. delayed' \cup dirty' = (delayed \cup dirty) \cup {Head(waitCh)}
    <3>1. CASE delayed' = delayed \cup {Head(waitCh)} /\ UNCHANGED queueVars
      BY <3>1 DEF queueVars
    <3>2. CASE Add(Head(waitCh)) /\ UNCHANGED delayed
      BY <1>2, <3>2 DEF ReceiveWaiting, Add
    <3> QED
      BY <1>2, <3>1, <3>2 DEF ReceiveWaiting
  <2>4. \A k \in Key : k \in delayed' \/ k \in dirty' <=>
                         k \in delayed \/ k \in dirty \/ k = Head(waitCh)
    BY <2>3
  <2>5. \A k \in Key : Due(k)' <=> Due(k)
    BY <1>1, <2>2, <2>4, DuePlaces
  <2> QED
    BY <2>5 DEF DueKeys
<1>3. ASSUME NEW j \in Key, DelayEnds(j) PROVE DueKeys' = DueKeys
  <2>1. delayed' = delayed \ {j} /\ dirty' = dirty \cup {j} /\ j \in delayed /\ UNCHANGED waitCh
    BY <1>3 DEF DelayEnds, Add
  <2>2. \A k \in Key : Due(k)' <=> Due(k)
    BY <1>1, <2>1, DuePlaces DEF InChannel
  <2> QED
    BY <2>2 DEF DueKeys
<1> QED
  BY <1>2, <1>3 DEF WaitingLoop

(***************************************************************************)
(* The steps of the contract, in the terms of the kit.                     *)
(***************************************************************************)
Stutters == UNCHANGED <<told, cache, DueKeys, Tasks, Fresh, shuttingDown>>

LEMMA ContractStutters ==
  ASSUME Stutters
  PROVE  UNCHANGED Contract!vars
PROOF BY DEF Stutters, Contract!vars, DueKeys, Tasks, Fresh

LEMMA WorkersAsBefore ==
  ASSUME UNCHANGED worker
  PROVE  UNCHANGED <<Tasks, Fresh>>
PROOF BY DEF Tasks, Fresh, Holds

LEMMA InformerRefines ==
  ASSUME KitInv, NEW k \in Key, InformerStep(k)
  PROVE  Contract!Change(k) \/ Contract!Vanish(k) \/ Stutters
PROOF
<1> USE DEF Kind
<1>1. PICK kind \in Kind : Notify(k, kind)
  BY InformerStepNotifies
<1>2. UNCHANGED <<Tasks, Fresh, shuttingDown>> /\ cache' \in {cache, cache \cup {k}, cache \ {k}}
  BY <1>1, NotifyKeepsPlaces, WorkersAsBefore, InformerStepNotifies
<1>3. CASE ResourceChanges(k)
  <2>1. Notify(k, "resource") /\ told' = told \cup {k} /\ cache' \in {cache \cup {k}, cache \ {k}}
    BY <1>3 DEF ResourceChanges
  <2>2. DueKeys' = DueKeys \cup {k}
    BY <1>2, <2>1, NotifyTells, NotifyDue
  <2> QED
    BY <1>2, <2>1, <2>2 DEF Contract!Change, DueKeys, Tasks, Fresh
<1>4. CASE DeletionMissed(k)
  <2>1. Notify(k, "keyless") /\ UNCHANGED told /\ cache' = cache \ {k}
    BY <1>4 DEF DeletionMissed
  <2>2. DueKeys' \in {DueKeys, DueKeys \ {k}}
    BY <1>2, <2>1, NotifyTells, NotifyDue
  <2> QED
    BY <1>2, <2>1, <2>2 DEF Contract!Vanish, DueKeys, Tasks, Fresh
<1>5. CASE ObjectChanges(k) /\ k \in cache
  <2>1. Notify(k, "object") /\ told' = told \cup {k} /\ UNCHANGED cache /\ k \in cache
    BY <1>5 DEF ObjectChanges
  <2>2. DueKeys' = DueKeys \cup {k}
    BY <1>2, <2>1, NotifyTells, NotifyDue
  <2>3. cache' = cache \cup {k}
    BY <2>1
  <2> QED
    BY <1>2, <2>1, <2>2, <2>3 DEF Contract!Change, DueKeys, Tasks, Fresh
<1>6. CASE (ObjectChanges(k) /\ k \notin cache) \/ OtherChanges(k) \/ Resync(k)
  <2>1. UNCHANGED <<told, cache>>
    BY <1>6 DEF ObjectChanges, OtherChanges, Resync
  <2>2. PICK sort \in Kind : Notify(k, sort) /\ sort # "resource" /\ (sort = "object" => k \notin cache)
    BY <1>6 DEF ObjectChanges, OtherChanges, Resync
  <2>3. InEvents(k)' <=> InEvents(k)
    BY <2>1, <2>2, NotifyTells
  <2>4. DueKeys' = DueKeys
    BY <2>1, <2>2, <2>3, NotifyDue
  <2> QED
    BY <1>2, <2>1, <2>4 DEF Stutters
<1> QED
  BY <1>3, <1>4, <1>5, <1>6 DEF InformerStep

LEMMA DemandRefines ==
  ASSUME NEW k \in Key, DueKeys' = DueKeys \cup {k},
         UNCHANGED <<told, cache, Tasks, Fresh, shuttingDown>>
  PROVE  Contract!Demand(k)
PROOF BY DEF Contract!Demand, DueKeys, Tasks, Fresh

LEMMA DropRefines ==
  ASSUME shuttingDown = TRUE, DueKeys' \in SUBSET DueKeys,
         UNCHANGED <<told, cache, Tasks, Fresh, shuttingDown>>
  PROVE  Contract!Drop
PROOF BY DEF Contract!Drop, DueKeys, Tasks, Fresh

LEMMA TakeItemRefines ==
  ASSUME KitInv, NEW w \in Worker, TakeItem(w)
  PROVE  \E k \in Key : Contract!Begin(w, k)
PROOF
<1>1. PICK k \in Key : GetItem(k) /\ worker' = [worker EXCEPT ![w] = [pc |-> "start", key |-> k]]
  BY DEF TakeItem
<1>2. k \in dirty \ processing /\ dirty' = dirty \ {k} /\ UNCHANGED shuttingDown
  BY <1>1, GetKeepsQueue DEF GetItem, KitInv
<1>3. UNCHANGED <<events, waitCh, delayed, cache, told>>
  BY DEF TakeItem, delayVars
<1>4. k \in DueKeys
  BY <1>2, DuePlaces DEF DueKeys
<1>5. DueKeys' \in {DueKeys, DueKeys \ {k}}
  <2>1. \A j \in Key : j # k => (Due(j)' <=> Due(j))
    BY <1>2, <1>3, DuePlaces DEF InEvents, Enqueues, InChannel
  <2> QED
    BY <1>4, <2>1 DEF DueKeys
<1>6. ~ Holds(w) /\ worker'[w].pc = "start" /\ worker'[w].key = k
  BY <1>1 DEF TakeItem, AtGet, Holds, KitInv
<1>7. \A v \in Worker \ {w} : worker'[v] = worker[v]
  BY <1>1 DEF KitInv
<1>8. Tasks[w] = NoKey /\ Tasks' = [Tasks EXCEPT ![w] = k]
  BY <1>6, <1>7 DEF Tasks, Holds
<1>9. \A v \in Worker : Tasks[v] # k
  BY <1>2, KitAssumption DEF Tasks, KitInv, Hands
<1>10. Fresh' = Fresh \cup {w}
  BY <1>6, <1>7 DEF Fresh
<1>11. Contract!Begin(w, k)
  BY <1>2, <1>3, <1>4, <1>5, <1>8, <1>9, <1>10
     DEF Contract!Begin, DueKeys, Tasks, Fresh
<1> QED
  BY <1>11

\* A worker that has looked, with or without ending its Sync.
LEMMA ReadRefines ==
  ASSUME KitInv, NEW w \in Worker, worker[w].pc = "start", Read(w),
         \A v \in Worker \ {w} : worker'[v] = worker[v],
         worker'[w] = [worker[w] EXCEPT !.pc = "sync"] \/ worker'[w].pc = "get",
         UNCHANGED <<cache, events, waitCh, delayed, dirty, shuttingDown>>
  PROVE  Contract!Read(w)
PROOF
<1>1. w \in Fresh /\ Tasks[w] = worker[w].key /\ worker[w].key \in Key
  BY DEF Fresh, Tasks, Holds, KitInv, Hands, QueueInv, DueTypeOK
<1>2. Fresh' = Fresh \ {w}
  <2>1. worker'[w].pc # "start"
    BY DEF KitInv, WorkerState
  <2> QED
    BY <2>1 DEF Fresh
<1>3. Tasks' = Tasks \/ Tasks' = [Tasks EXCEPT ![w] = NoKey]
  <2>1. CASE worker'[w] = [worker[w] EXCEPT !.pc = "sync"]
    BY <1>1, <2>1 DEF Tasks, Holds, KitInv, WorkerState
  <2>2. CASE worker'[w].pc = "get"
    BY <1>1, <2>2 DEF Tasks, Holds
  <2> QED
    BY <2>1, <2>2
<1>4. told' = told \ {Tasks[w]}
  BY <1>1 DEF Read
<1>5. UNCHANGED <<cache, DueKeys>>
  BY DueUnchanged
<1> QED
  BY <1>1, <1>2, <1>3, <1>4, <1>5
     DEF Contract!Read, Contract!Look, DueKeys, Tasks, Fresh

LEMMA EndRefines ==
  ASSUME KitInv, NEW w \in Worker, worker[w].pc = "sync", worker'[w].pc = "get",
         \A v \in Worker \ {w} : worker'[v] = worker[v],
         UNCHANGED <<cache, told, events, waitCh, delayed, dirty, shuttingDown>>
  PROVE  Contract!End(w)
PROOF
<1>1. w \notin Fresh /\ Tasks[w] # NoKey
  BY KitAssumption DEF Fresh, Tasks, Holds, KitInv, Hands, QueueInv, DueTypeOK
<1>2. Tasks' = [Tasks EXCEPT ![w] = NoKey] /\ Fresh' = Fresh
  BY DEF Tasks, Fresh, Holds
<1>3. UNCHANGED DueKeys
  BY DueUnchanged
<1> QED
  BY <1>1, <1>2, <1>3 DEF Contract!End, DueKeys, Tasks, Fresh

LEMMA WorkerRefines ==
  ASSUME KitInv, NEW w \in Worker, WorkerStep(w)
  PROVE  \/ Contract!Read(w) \/ Contract!End(w) \/ \E k \in Key : Contract!Begin(w, k)
         \/ Stutters
PROOF
<1>1. CASE WorkerStarts(w) \/ WaitForItem(w) \/ WorkerExits(w)
  <2>1. /\ UNCHANGED <<cache, told, events, waitCh, delayed, dirty, shuttingDown>>
        /\ \A v \in Worker \ {w} : worker'[v] = worker[v]
    BY <1>1 DEF WorkerStarts, WaitForItem, WorkerExits, GetWaits, GetStops, queueVars,
                delayVars, kitVars, KitInv
  <2>2. worker[w].pc \notin {"start", "sync"} /\ worker'[w].pc \notin {"start", "sync"}
    BY <1>1 DEF WorkerStarts, WaitForItem, WorkerExits, AtGet, kitVars, KitInv, WorkerState
  <2>3. UNCHANGED <<Tasks, Fresh>>
    BY <2>1, <2>2 DEF Tasks, Fresh, Holds
  <2>4. UNCHANGED DueKeys
    BY <2>1, DueUnchanged
  <2> QED
    BY <2>1, <2>3, <2>4 DEF Stutters
<1>2. CASE TakeItem(w)
  BY <1>2, TakeItemRefines
<1>3. CASE ReadCache(w)
  <2>1. /\ worker'[w] = [worker[w] EXCEPT !.pc = "sync"]
        /\ \A v \in Worker \ {w} : worker'[v] = worker[v]
    BY <1>3 DEF ReadCache, KitInv
  <2>2. UNCHANGED <<cache, events, waitCh, delayed, dirty, shuttingDown>>
    BY <1>3 DEF ReadCache, queueVars, delayVars
  <2> QED
    BY <1>3, <2>1, <2>2, ReadRefines DEF ReadCache
<1>4. ASSUME NEW result, Finish(w, result), Holds(w)
      PROVE  /\ worker'[w].pc = "get"
             /\ \A v \in Worker \ {w} : worker'[v] = worker[v]
             /\ UNCHANGED <<cache, events, waitCh, delayed, dirty, shuttingDown>>
  BY <1>4 DEF Finish, Done, KitInv
<1>5. CASE ReadNothing(w)
  <2>1. Holds(w)
    BY <1>5 DEF ReadNothing, Holds
  <2> QED
    BY <1>4, <1>5, <2>1, ReadRefines DEF ReadNothing
<1>6. CASE SyncSucceeds(w) \/ SyncFails(w)
  <2>1. PICK result : Finish(w, result)
    BY <1>6 DEF SyncSucceeds, SyncFails
  <2>2. Holds(w) /\ worker[w].pc = "sync" /\ UNCHANGED told
    BY <1>6 DEF SyncSucceeds, SyncFails, Holds
  <2> QED
    BY <1>4, <2>1, <2>2, EndRefines
<1> QED
  BY <1>1, <1>2, <1>3, <1>5, <1>6 DEF WorkerStep

LEMMA CachesSyncedStutters ==
  ASSUME KitInv, CachesSynced
  PROVE  Stutters
PROOF
<1>1. \A w \in Worker : worker[w].pc = "off" /\ worker'[w].pc = "spawned"
  BY DEF CachesSynced, KitInv, NotStarted, WorkerState
<1>2. UNCHANGED <<Tasks, Fresh>>
  BY <1>1 DEF Tasks, Fresh, Holds
<1>3. UNCHANGED <<told, cache, DueKeys, shuttingDown>>
  BY DueUnchanged DEF CachesSynced, queueVars, delayVars
<1> QED
  BY <1>2, <1>3 DEF Stutters

LEMMA KitStepRefines ==
  ASSUME KitInv, [Next]_vars
  PROVE  [Contract!Next]_(Contract!vars)
PROOF
<1>1. ASSUME NEW k \in Key, InformerStep(k) PROVE Contract!Next \/ Stutters
  BY <1>1, InformerRefines DEF Contract!Next
<1>3. CASE HandleEvent
  <2>1. UNCHANGED <<told, cache, Tasks, Fresh, shuttingDown>>
    BY <1>3, WorkersAsBefore DEF HandleEvent, queueVars
  <2>2. CASE DueKeys' = DueKeys
    BY <2>1, <2>2, ContractStutters DEF Stutters
  <2>3. ASSUME NEW k \in Key, DueKeys' = DueKeys \cup {k} PROVE Contract!Next
    BY <2>1, <2>3, DemandRefines DEF Contract!Next
  <2>4. CASE shuttingDown
    <3>1. shuttingDown = TRUE /\ DueKeys' \in SUBSET DueKeys
      BY <1>3, <2>4, HandleEventDue DEF KitInv, QueueInv, DueTypeOK
    <3> QED
      BY <2>1, <3>1, DropRefines DEF Contract!Next
  <2> QED
    BY <1>3, <2>2, <2>3, <2>4, HandleEventDue
<1>4. CASE WaitingLoop
  <2>1. UNCHANGED <<told, cache, Tasks, Fresh>>
    BY <1>4, WorkersAsBefore DEF WaitingLoop, kitVars
  <2>2. UNCHANGED shuttingDown
    BY <1>4, WaitingLoopKeepsQueue DEF KitInv
  <2> QED
    BY <1>4, <2>1, <2>2, WaitingLoopDue, ContractStutters DEF Stutters
<1>5. CASE CachesSynced
  BY <1>5, CachesSyncedStutters, ContractStutters
<1>6. CASE Stop
  BY <1>6, DueUnchanged, WorkersAsBefore, ContractStutters
     DEF Stop, Stutters, queueVars, delayVars
<1>7. CASE RunReturns
  <2>1. UNCHANGED <<told, cache, DueKeys, Tasks, Fresh>>
    BY <1>7, DueUnchanged, WorkersAsBefore DEF RunReturns, ShutDown, delayVars
  <2>2. (~ shuttingDown)' = FALSE
    BY <1>7 DEF RunReturns, ShutDown
  <2>3. Contract!Close
    BY <2>1, <2>2 DEF Contract!Close, DueKeys, Tasks, Fresh
  <2> QED
    BY <2>3 DEF Contract!Next
<1>8. ASSUME NEW w \in Worker, WorkerStep(w) PROVE Contract!Next \/ Stutters
  BY <1>8, WorkerRefines DEF Contract!Next
<1>9. CASE UNCHANGED vars
  BY <1>9, DueUnchanged, WorkersAsBefore, ContractStutters
     DEF vars, kitVars, queueVars, delayVars, Stutters
<1> QED
  BY <1>1, <1>3, <1>4, <1>5, <1>6, <1>7, <1>8, <1>9, ContractStutters DEF Next, InformerStep

LEMMA KitInitRefines == Init => Contract!Init
PROOF
<1> SUFFICES ASSUME Init PROVE Contract!Init
  OBVIOUS
<1>1. Len(events) = 0 /\ Len(waitCh) = 0 /\ delayed = {} /\ dirty = {}
  BY EmptySeq DEF Init, QueueInit
<1>2. DueKeys = {}
  <2>1. \A k \in Key : ~ InEvents(k) /\ ~ InChannel(k)
    BY <1>1 DEF InEvents, InChannel
  <2>2. \A k \in Key : ~ Due(k)
    BY <1>1, <2>1, DuePlaces
  <2> QED
    BY <2>2 DEF DueKeys
<1>3. Tasks = [w \in Worker |-> NoKey] /\ Fresh = {}
  BY DEF Init, Tasks, Fresh, Holds
<1>4. told = {} /\ cache = {}
  BY DEF Init
<1>5. (~ shuttingDown) = TRUE
  BY DEF Init, QueueInit
<1> QED
  BY <1>2, <1>3, <1>4, <1>5 DEF Contract!Init, DueKeys, Tasks, Fresh

\* The kit implements KeyedSync, for any number of keys and workers: every
\* change that leads to a resource that exists makes a Sync due, due Syncs
\* are begun one at a time for each key and read what is there then, and only
\* the end of the resource or of the kit drops any of them (handleObject,
\* processNextWorkItem and the queue between them).
THEOREM KitImplementsContract == Spec => ImplementsContract
PROOF
<1> QED
  BY KitInitRefines, KitStepRefines, KitInvariant, PTL
     DEF Spec, ImplementsContract, Contract!Spec
=============================================================================
