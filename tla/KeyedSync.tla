------------------------------- MODULE KeyedSync -------------------------------
(***************************************************************************)
(* What the controller kit promises its handlers, whatever queues, delays  *)
(* and goroutines it is made of: a change that it is told of makes a Sync  *)
(* of its key due, a key that exists stays due until a worker begins its   *)
(* Sync, the Sync of a key looks at its objects once, after it has begun,  *)
(* and no two workers Sync one key at a time.  A Sync answers for every    *)
(* change that came before it, so that many changes may take one Sync.     *)
(***************************************************************************)
CONSTANTS
  Key,
  Worker,
  NoKey     \* no key at all

VARIABLES
  news,   \* the keys with a change that no Sync has looked at
  alive,  \* the keys whose resources exist
  due,    \* the keys for which a Sync is due
  task,   \* task[w]: the key that the worker w Syncs
  fresh,  \* the workers that have begun a Sync and not looked yet
  open    \* whether the kit has not been shut down

vars == <<news, alive, due, task, fresh, open>>

Init ==
  /\ news = {} /\ alive = {}
  /\ due = {}
  /\ task = [w \in Worker |-> NoKey]
  /\ fresh = {}
  /\ open = TRUE

Change(k) ==
  /\ news' = news \cup {k}
  /\ alive' \in {alive \cup {k}, alive \ {k}}
  /\ due' = due \cup {k}
  /\ UNCHANGED <<task, fresh, open>>

\* A resource that disappears without a word may take along what was due.
Vanish(k) ==
  /\ alive' = alive \ {k}
  /\ due' \in {due, due \ {k}}
  /\ UNCHANGED <<news, task, fresh, open>>

\* A Sync without a change, as at a resync.
Demand(k) ==
  /\ due' = due \cup {k}
  /\ UNCHANGED <<news, alive, task, fresh, open>>

\* What made the key due may still be on its way, and be served again.
Begin(w, k) ==
  /\ task[w] = NoKey
  /\ k \in due
  /\ \A v \in Worker : task[v] # k
  /\ task' = [task EXCEPT ![w] = k]
  /\ fresh' = fresh \cup {w}
  /\ due' \in {due, due \ {k}}
  /\ UNCHANGED <<news, alive, open>>

Look(w) ==
  /\ w \in fresh
  /\ news' = news \ {task[w]}
  /\ fresh' = fresh \ {w}

\* A Sync that finds nothing to do ends when it has looked.
Read(w) ==
  /\ Look(w)
  /\ task' \in {task, [task EXCEPT ![w] = NoKey]}
  /\ UNCHANGED <<alive, due, open>>

End(w) ==
  /\ task[w] # NoKey /\ w \notin fresh
  /\ task' = [task EXCEPT ![w] = NoKey]
  /\ UNCHANGED <<news, alive, due, fresh, open>>

Close ==
  /\ open' = FALSE
  /\ UNCHANGED <<news, alive, due, task, fresh>>

\* A kit that has been shut down may drop what it had to do.
Drop ==
  /\ ~ open
  /\ due' \in SUBSET due
  /\ UNCHANGED <<news, alive, task, fresh, open>>

Next ==
  \/ \E k \in Key : Change(k) \/ Vanish(k) \/ Demand(k)
  \/ \E w \in Worker : Read(w) \/ End(w) \/ \E k \in Key : Begin(w, k)
  \/ Close \/ Drop

Spec == Init /\ [][Next]_vars
=============================================================================
