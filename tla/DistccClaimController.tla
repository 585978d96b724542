------------------------ MODULE DistccClaimController ------------------------
(***************************************************************************)
(* The controller of DistccClaims                                          *)
(* (pkg/controller/distccclaim/distccclaim_controller.go): it grants the   *)
(* lease a claim asks for, and removes claims whose lease has lapsed.      *)
(*                                                                         *)
(* A controller process works on its informer cache: seen[k][c] is the     *)
(* version of claim c that process k has in its cache, dseen[k] that of    *)
(* the Distcc.  The watch delivers versions in order, possibly skipping    *)
(* some after a relist; a new process starts from any old snapshot.  One   *)
(* process never syncs one claim twice at a time: that is what the work    *)
(* queue of the controller kit is for.  More than one process models the   *)
(* old and the new pod of a rolling update.                                *)
(***************************************************************************)
EXTENDS KubeStore

CONSTANTS
  Controller,   \* the controller processes
  MaxRestarts   \* bound: how many times a controller process restarts

ASSUME RestartsAssumption == MaxRestarts \in Nat

VARIABLES
  seen,      \* seen[k][c]: the cached version of claim c
  dseen,     \* dseen[k]: the cached version of the Distcc
  sync,      \* sync[k][c]: the Sync of claim c running in process k
  restarts

controllerVars == <<seen, dseen, sync, restarts>>

\* An API call of a Sync that has not reached the server yet: the object it
\* was computed from, and the expiration it writes.
SyncState ==
  [pc : {"idle", "delete", "update"}, ver : Nat, exp : Time \cup {Unset}]
Idle == [pc |-> "idle", ver |-> 0, exp |-> Unset]

\* What the listers of the two resources find in the caches.
Cached(k, c)    == history[c][seen[k][c]]
CachedDistcc(k) == dhist[dseen[k]]

ControllerInit ==
  /\ seen = [k \in Controller |-> [c \in Claim |-> 1]]
  /\ dseen = [k \in Controller |-> 1]
  /\ sync = [k \in Controller |-> [c \in Claim |-> Idle]]
  /\ restarts = 0

(***************************************************************************)
(* The informers, one for each of the two resources: they list the objects *)
(* of the API server and watch them.                                       *)
(***************************************************************************)
WatchClaim(k, c) ==
  /\ \E v \in (seen[k][c] + 1) .. Version(c) : seen' = [seen EXCEPT ![k][c] = v]
  /\ UNCHANGED <<storeVars, dseen, sync, restarts>>

WatchDistcc(k) ==
  /\ \E v \in (dseen[k] + 1) .. Len(dhist) : dseen' = [dseen EXCEPT ![k] = v]
  /\ UNCHANGED <<storeVars, seen, sync, restarts>>

(***************************************************************************)
(* Sync.  Without the Distcc, or with a Distcc whose labels do not select  *)
(* the claim, Sync only reports an event.                                  *)
(***************************************************************************)
Accepts(distcc, claim) ==
  Exists(distcc) /\ Exists(claim) /\ distcc.labels \subseteq claim.labels

\* updateExpiration: a lease that is asked for, or too long, becomes the
\* longest lease possible from now on.
UpdateExpiration(exp, lease) ==
  IF exp = Unset \/ exp > now + lease THEN ToKubeTime(now + lease) ELSE exp

CanSync(k, c) ==
  sync[k][c].pc = "idle" /\ Accepts(CachedDistcc(k), Cached(k, c))

NewExpiration(k, c) == UpdateExpiration(Cached(k, c).exp, CachedDistcc(k).lease)

StartCall(k, c, call) ==
  /\ sync' = [sync EXCEPT ![k][c] =
                [pc |-> call, ver |-> seen[k][c], exp |-> NewExpiration(k, c)]]
  /\ UNCHANGED <<storeVars, seen, dseen, restarts>>

\* The two readings of the clock in Sync, in updateExpiration and in
\* isExpired, are a few instructions apart and are taken as one.
\* Mutant: a lease lapses one instant too late.
SyncExpiredLate(k, c) ==
  /\ CanSync(k, c)
  /\ now > NewExpiration(k, c) + 1
  /\ StartCall(k, c, "delete")

SyncExpired(k, c) ==
  /\ CanSync(k, c)
  /\ now > NewExpiration(k, c)
  /\ StartCall(k, c, "delete")

\* Mutant: only leases that are too long are written back.
SyncRenewShortens(k, c) ==
  /\ CanSync(k, c)
  /\ Cached(k, c).exp # Unset
  /\ now <= NewExpiration(k, c)
  /\ NewExpiration(k, c) # Cached(k, c).exp
  /\ StartCall(k, c, "update")

SyncRenew(k, c) ==
  /\ CanSync(k, c)
  /\ now <= NewExpiration(k, c)
  /\ NewExpiration(k, c) # Cached(k, c).exp
  /\ StartCall(k, c, "update")

(***************************************************************************)
(* The API call of a Sync reaches the server some time later.  Whether it  *)
(* is applied, refused or lost, Sync returns: an error is only reported,   *)
(* and the claim is synced again by its next event or periodic resync.     *)
(***************************************************************************)
EndSync(k, c) ==
  /\ sync' = [sync EXCEPT ![k][c] = Idle]
  /\ UNCHANGED <<seen, dseen, restarts>>

\* Delete(claim.Name, nil): no precondition on what is deleted.
SyncDelete(k, c) ==
  /\ sync[k][c].pc = "delete"
  /\ CanDelete(c)
  /\ Put(c, Absent)
  /\ EndSync(k, c)

\* Mutant: the object is made from scratch, without a resourceVersion.
SyncUpdateAnew(k, c) ==
  /\ sync[k][c].pc = "update"
  /\ Exists(Stored(c))
  /\ Put(c, [Stored(c) EXCEPT !.exp = sync[k][c].exp])
  /\ EndSync(k, c)

\* Update of a deep copy of the cached claim, with its resourceVersion.
SyncUpdate(k, c) ==
  /\ sync[k][c].pc = "update"
  /\ CanUpdate(c, sync[k][c].ver)
  /\ Put(c, [Stored(c) EXCEPT !.exp = sync[k][c].exp])
  /\ EndSync(k, c)

\* Not found, conflict, or the server could not be reached.
SyncFails(k, c) ==
  /\ sync[k][c].pc # "idle"
  /\ EndSync(k, c)
  /\ UNCHANGED storeVars

(***************************************************************************)
(* A process dies with its calls and its cache.  The next one lists from   *)
(* the watch cache of the API server, which may be behind.                 *)
(***************************************************************************)
Snapshots ==
  {s \in [Claim -> UNION {1 .. Version(c) : c \in Claim}] :
     \A c \in Claim : s[c] <= Version(c)}

ControllerRestart(k) ==
  /\ restarts < MaxRestarts
  /\ restarts' = restarts + 1
  /\ \E snapshot \in Snapshots : seen' = [seen EXCEPT ![k] = snapshot]
  /\ \E d \in 1 .. Len(dhist) : dseen' = [dseen EXCEPT ![k] = d]
  /\ sync' = [sync EXCEPT ![k] = [c \in Claim |-> Idle]]
  /\ UNCHANGED storeVars

ControllerStep(k, c) ==
  \/ WatchClaim(k, c)
  \/ SyncExpired(k, c)
  \/ SyncRenew(k, c)
  \/ SyncDelete(k, c)
  \/ SyncUpdate(k, c)
  \/ SyncFails(k, c)

ControllerNext ==
  \E k \in Controller :
    \/ WatchDistcc(k)
    \/ ControllerRestart(k)
    \/ \E c \in Claim : ControllerStep(k, c)

ControllerTypeOK ==
  /\ seen \in [Controller -> [Claim -> Nat]]
  /\ \A k \in Controller, c \in Claim : seen[k][c] \in 1 .. Version(c)
  /\ dseen \in [Controller -> 1 .. Len(dhist)]
  /\ sync \in [Controller -> [Claim -> SyncState]]
  /\ restarts \in 0 .. MaxRestarts
=============================================================================
