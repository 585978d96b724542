----------------------------- MODULE LeaseService -----------------------------
(***************************************************************************)
(* The HTTP service that developers call to lease and to release distcc    *)
(* servers (pkg/apiserver/service): LeaseDistcc and DeleteDistcc, both     *)
(* built on getWithRetry.                                                  *)
(*                                                                         *)
(* Every request runs alone in its goroutine, and talks to the API server  *)
(* without a cache.  An attempt of getWithRetry that fails with a transient *)
(* error is repeated, up to Steps times; a request whose context is done   *)
(* waits for the attempt that is running, and is answered ErrCanceled      *)
(* whatever the attempt did.                                               *)
(***************************************************************************)
EXTENDS KubeStore

CONSTANTS
  Request,  \* the HTTP requests
  Steps     \* backoff.Steps: how many attempts getWithRetry makes

ASSUME StepsAssumption == Steps \in Nat \ {0}

VARIABLE req

(***************************************************************************)
(* err is the error the service method returns, wrapped or as it is        *)
(* (NotFound is that of the API server, ErrNotFound that of the service).  *)
(* start and wrote are not in the code: the version of the claim when the  *)
(* request arrived, and the last version that a call of the request wrote. *)
(* The Expiration that a DistccLease tells its user is left out: nothing   *)
(* depends on it, and nothing in the code relates it to the lease.         *)
(***************************************************************************)
PC == {"new", "getDistcc", "getClaim", "create", "update", "delete", "reply", "done"}
Error ==
  [cause : {"nil", "ErrCanceled", "ErrNotFound", "NotFound", "ErrWaitTimeout", "crashed"},
   wrapped : BOOLEAN]

RequestState ==
  [pc : PC, op : {"lease", "delete"}, claim : Claim, attempt : 1 .. Steps,
   distcc : Distcc \cup {Absent}, ver : Nat,
   err : Error, start : Nat, wrote : Nat]

Plain(cause) == [cause |-> cause, wrapped |-> FALSE]
Nil          == Plain("nil")

ServiceInit ==
  \E c \in Claim :
    req = [r \in Request |->
             [pc |-> "new", op |-> "lease", claim |-> c, attempt |-> 1,
              distcc |-> Absent, ver |-> 0,
              err |-> Nil, start |-> 0, wrote |-> 0]]

Running(r) == req[r].pc \notin {"new", "done"}
ClaimOf(r) == req[r].claim

\* makeClaimName gives the user and the tag of the request their claim.
Arrive(r, op, first) ==
  /\ req[r].pc = "new"
  /\ \E c \in Claim :
       req' = [req EXCEPT ![r] = [@ EXCEPT !.pc = first, !.op = op, !.claim = c,
                                           !.start = Version(c)]]
  /\ UNCHANGED storeVars

LeaseDistcc(r)  == Arrive(r, "lease", "getDistcc")
DeleteDistcc(r) == Arrive(r, "delete", "delete")

(***************************************************************************)
(* The end of an attempt.  The context is done once the client goes away or *)
(* its deadline passes, which may happen at any time: select then takes    *)
(* that branch, at the end of the running attempt.  The first call of      *)
(* getWithRetry in LeaseDistcc wraps its error.  Returning forgets the     *)
(* local state.                                                            *)
(***************************************************************************)
Done(q, e) == [q EXCEPT !.pc = "done", !.err = e, !.attempt = 1,
                        !.distcc = Absent, !.ver = 0]

Fail(q, cause) == Done(q, [cause |-> cause, wrapped |-> q.pc = "getDistcc"])

EndAttempt(r, q) ==
  \/ req' = [req EXCEPT ![r] = q]
  \/ req' = [req EXCEPT ![r] = [Fail(@, "ErrCanceled") EXCEPT !.wrote = q.wrote]]

\* Where the attempts of a request start, when they have to start again.
FirstCall(q) ==
  CASE q.pc = "getDistcc" -> "getDistcc"
    [] q.op = "delete"    -> "delete"
    [] OTHER              -> "getClaim"

\* Mutant: one attempt too many.
RetryOnceMore(q) ==
  IF q.attempt <= Steps
  THEN [q EXCEPT !.attempt = @ + 1, !.pc = FirstCall(q)]
  ELSE Fail(q, "ErrWaitTimeout")

\* Mutant: the attempts are not counted.
RetryForever(q) == [q EXCEPT !.pc = FirstCall(q)]

Retry(q) ==
  IF q.attempt < Steps
  THEN [q EXCEPT !.attempt = @ + 1, !.pc = FirstCall(q)]
  ELSE Fail(q, "ErrWaitTimeout")

\* A transient error: the call did not get through, or was refused.
AttemptFails(r) ==
  /\ req[r].pc \in {"getDistcc", "getClaim", "create", "update", "delete"}
  /\ EndAttempt(r, Retry(req[r]))
  /\ UNCHANGED storeVars

(***************************************************************************)
(* LeaseDistcc, first phase: the Distcc, which has to exist.               *)
(***************************************************************************)
GetDistcc(r) ==
  /\ req[r].pc = "getDistcc"
  /\ EndAttempt(r, IF Exists(StoredDistcc)
                   THEN [req[r] EXCEPT !.pc = "getClaim", !.attempt = 1,
                                       !.distcc = StoredDistcc]
                   ELSE Fail(req[r], "NotFound"))
  /\ UNCHANGED storeVars

(***************************************************************************)
(* LeaseDistcc, second phase: renewDistccLease.  A claim that is there has *)
(* its expiration cleared, a claim that is not is created without one.     *)
(***************************************************************************)
\* Mutant: a lease that has not ended is not renewed.
GetClaimLapsed(r) ==
  LET claim == Stored(ClaimOf(r))
      next  == IF ~ Exists(claim) THEN "create"
               ELSE IF ~ Expired(claim) THEN "reply" ELSE "update"
  IN  /\ req[r].pc = "getClaim"
      /\ req' = [req EXCEPT ![r] = [@ EXCEPT !.pc = next, !.ver = Version(ClaimOf(r))]]
      /\ UNCHANGED storeVars

GetClaim(r) ==
  LET claim == Stored(ClaimOf(r))
      next  == IF ~ Exists(claim) THEN "create"
               ELSE IF claim.exp = Unset THEN "reply" ELSE "update"
  IN  /\ req[r].pc = "getClaim"
      /\ req' = [req EXCEPT ![r] = [@ EXCEPT !.pc = next, !.ver = Version(ClaimOf(r))]]
      /\ UNCHANGED storeVars

\* The server applies a write; its response may get lost on the way back.
Write(r, v) ==
  LET wrote == [req[r] EXCEPT !.wrote = Version(ClaimOf(r)) + 1]
  IN  /\ Put(ClaimOf(r), v)
      /\ \/ req' = [req EXCEPT ![r] = [wrote EXCEPT !.pc = "reply"]]
         \/ EndAttempt(r, Retry(wrote))

\* newDistccClaim: the labels of the Distcc are those of its claims.
NewDistccClaim(distcc) == [exp |-> Unset, labels |-> distcc.labels]

CreateClaim(r) ==
  /\ req[r].pc = "create"
  /\ CanCreate(ClaimOf(r))
  /\ Write(r, NewDistccClaim(req[r].distcc))

UpdateClaim(r) ==
  /\ req[r].pc = "update"
  /\ CanUpdate(ClaimOf(r), req[r].ver)
  /\ Write(r, [Stored(ClaimOf(r)) EXCEPT !.exp = Unset])

(***************************************************************************)
(* DeleteDistcc.                                                           *)
(***************************************************************************)
DeleteClaim(r) ==
  /\ req[r].pc = "delete"
  /\ CanDelete(ClaimOf(r))
  /\ Write(r, Absent)

\* Mutant: any error of the call is taken for not-found.
DeleteFailsAsNotFound(r) ==
  /\ req[r].pc = "delete"
  /\ EndAttempt(r, Fail(req[r], "ErrNotFound"))
  /\ UNCHANGED storeVars

DeleteFindsNothing(r) ==
  /\ req[r].pc = "delete"
  /\ ~ CanDelete(ClaimOf(r))
  /\ EndAttempt(r, Fail(req[r], "ErrNotFound"))
  /\ UNCHANGED storeVars

(***************************************************************************)
(* The last attempt succeeded and its response arrives: the method returns. *)
(***************************************************************************)
Reply(r) ==
  /\ req[r].pc = "reply"
  /\ EndAttempt(r, Done(req[r], Nil))
  /\ UNCHANGED storeVars

\* The process that serves the request dies.  A call it had sent may still
\* land: that is the behaviour in which the process dies just after.
ServiceCrash(r) ==
  /\ Running(r)
  /\ req' = [req EXCEPT ![r] = Done(@, Plain("crashed"))]
  /\ UNCHANGED storeVars

RequestStep(r) ==
  \/ GetDistcc(r)
  \/ GetClaim(r)
  \/ CreateClaim(r)
  \/ UpdateClaim(r)
  \/ DeleteClaim(r)
  \/ DeleteFindsNothing(r)
  \/ AttemptFails(r)
  \/ Reply(r)

ServiceStep(r) ==
  \/ LeaseDistcc(r)
  \/ DeleteDistcc(r)
  \/ ServiceCrash(r)
  \/ RequestStep(r)

\* codeFrom: the HTTP status of an answer.  It compares the error itself,
\* not its cause.
CodeFrom(e) ==
  CASE e = Nil                  -> 200
    [] e = Plain("ErrCanceled") -> 408
    [] e = Plain("ErrNotFound") -> 404
    [] OTHER                    -> 500

ServiceTypeOK == req \in [Request -> RequestState]
=============================================================================
