------------------------------ MODULE WorkQueue ------------------------------
(***************************************************************************)
(* The rate limiting work queue of client-go                               *)
(* (vendor/k8s.io/client-go/util/workqueue), which every controller of     *)
(* k8cc is built on: a queue of keys that are due, a delaying queue in     *)
(* front of it, and the failure counters of the rate limiter.              *)
(*                                                                         *)
(* Every operation of the queue holds its lock and is one step.  A worker  *)
(* that finds the queue empty waits on the condition variable; Signal      *)
(* wakes one waiting worker and ShutDown all of them.  A worker that was   *)
(* woken looks at the queue again, and another one may have been faster.   *)
(* How long a key is delayed is left open.                                 *)
(***************************************************************************)
EXTENDS Naturals, Sequences

CONSTANTS
  Key,         \* namespace/name of the custom resources of one controller
  Worker,      \* the worker goroutines
  ChannelCap,  \* capacity of waitingForAddCh (1000 in the code)
  MaxFailures  \* bound: where the count of failures stops to make a difference

ASSUME QueueAssumption == ChannelCap \in Nat \ {0} /\ MaxFailures \in Nat \ {0}

VARIABLES
  queue,         \* the keys that are due, in order
  dirty,         \* the keys that need processing
  processing,    \* the keys that a worker got and is not done with
  shuttingDown,
  waiters,       \* the workers that wait in Get
  waitCh,        \* waitingForAddCh: the keys on their way to the waiting loop
  delayed,       \* the keys in the heap of the waiting loop
  failures       \* failures[k]: the count of the exponential failure limiter

queueVars == <<queue, dirty, processing, shuttingDown, waiters>>
delayVars == <<waitCh, delayed, failures>>

QueueInit ==
  /\ queue = <<>>
  /\ dirty = {}
  /\ processing = {}
  /\ shuttingDown = FALSE
  /\ waiters = {}
  /\ waitCh = <<>>
  /\ delayed = {}
  /\ failures = [k \in Key |-> 0]

Signal ==
  IF waiters = {} THEN UNCHANGED waiters
  ELSE \E w \in waiters : waiters' = waiters \ {w}

\* Mutant: no worker is woken for the key.
PushSilently(k) == queue' = Append(queue, k) /\ UNCHANGED waiters

Push(k) == queue' = Append(queue, k) /\ Signal

\* Mutant: a key that is being processed is put in the queue at once.
AddInProcess(k) ==
  /\ UNCHANGED <<processing, shuttingDown>>
  /\ \/ /\ shuttingDown \/ k \in dirty
        /\ UNCHANGED <<queue, dirty, waiters>>
     \/ /\ ~ shuttingDown
        /\ k \notin dirty
        /\ dirty' = dirty \cup {k}
        /\ Push(k)

\* A key that waits already is not added twice, and a key that is being
\* processed is only marked: Done puts it back.
Add(k) ==
  /\ UNCHANGED <<processing, shuttingDown>>
  /\ \/ /\ shuttingDown \/ k \in dirty
        /\ UNCHANGED <<queue, dirty, waiters>>
     \/ /\ ~ shuttingDown
        /\ k \notin dirty
        /\ dirty' = dirty \cup {k}
        /\ IF k \in processing THEN UNCHANGED <<queue, waiters>> ELSE Push(k)

\* The three ways Get goes on for a worker that is not waiting.
GetItem(k) ==
  /\ queue # <<>>
  /\ k = Head(queue)
  /\ queue' = Tail(queue)
  /\ processing' = processing \cup {k}
  /\ dirty' = dirty \ {k}
  /\ UNCHANGED <<shuttingDown, waiters>>

GetWaits(w) ==
  /\ queue = <<>> /\ ~ shuttingDown
  /\ waiters' = waiters \cup {w}
  /\ UNCHANGED <<queue, dirty, processing, shuttingDown>>

GetStops == queue = <<>> /\ shuttingDown /\ UNCHANGED queueVars

\* Mutant: the mark of a key that changed while it was processed is cleared.
DoneClearsDirty(k) ==
  /\ processing' = processing \ {k}
  /\ dirty' = dirty \ {k}
  /\ UNCHANGED <<queue, waiters, shuttingDown>>

Done(k) ==
  /\ processing' = processing \ {k}
  /\ IF k \in dirty THEN Push(k) ELSE UNCHANGED <<queue, waiters>>
  /\ UNCHANGED <<dirty, shuttingDown>>

\* Mutant: ShutDown wakes one worker only.
ShutDownSignals ==
  /\ shuttingDown' = TRUE
  /\ Signal
  /\ UNCHANGED <<queue, dirty, processing>>

ShutDown ==
  /\ shuttingDown' = TRUE
  /\ waiters' = {}
  /\ UNCHANGED <<queue, dirty, processing>>

(***************************************************************************)
(* The rate limiter and the waiting loop.                                  *)
(***************************************************************************)
AddRateLimited(k) ==
  /\ failures' = [failures EXCEPT ![k] = IF @ < MaxFailures THEN @ + 1 ELSE @]
  /\ IF shuttingDown THEN UNCHANGED waitCh
     ELSE Len(waitCh) < ChannelCap /\ waitCh' = Append(waitCh, k)
  /\ UNCHANGED delayed

\* Mutant: forgetting a key takes one failure back.
ForgetOne(k) == failures' = [failures EXCEPT ![k] = @ - 1]

Forget(k) == failures' = [failures EXCEPT ![k] = 0]

\* The waiting loop takes a key from its channel, and keeps it for its
\* delay unless that is over.
ReceiveWaiting ==
  /\ ~ shuttingDown
  /\ waitCh # <<>>
  /\ waitCh' = Tail(waitCh)
  /\ \/ delayed' = delayed \cup {Head(waitCh)} /\ UNCHANGED queueVars
     \/ Add(Head(waitCh)) /\ UNCHANGED delayed
  /\ UNCHANGED failures

DelayEnds(k) ==
  /\ ~ shuttingDown
  /\ k \in delayed
  /\ delayed' = delayed \ {k}
  /\ Add(k)
  /\ UNCHANGED <<waitCh, failures>>

DueTypeOK ==
  /\ queue \in Seq(Key)
  /\ dirty \subseteq Key
  /\ processing \subseteq Key
  /\ shuttingDown \in BOOLEAN
  /\ waiters \subseteq Worker

DelayTypeOK ==
  /\ waitCh \in Seq(Key)
  /\ Len(waitCh) <= ChannelCap
  /\ delayed \subseteq Key
  /\ failures \in [Key -> 0 .. MaxFailures]

QueueTypeOK == DueTypeOK /\ DelayTypeOK
=============================================================================
