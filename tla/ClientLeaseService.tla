-------------------------- MODULE ClientLeaseService --------------------------
(***************************************************************************)
(* The HTTP service for clients (pkg/apiserver/service): LeaseClient asks  *)
(* for a lease of the user's client pod, waits until the controller has    *)
(* made its Deployment and its Service, and answers with the port of the   *)
(* Service; DeleteClient releases it.  Both are built on getWithRetry, as  *)
(* LeaseDistcc is: while the controller is not done an attempt fails with  *)
(* a transient error.                                                      *)
(***************************************************************************)
EXTENDS ClientStore

CONSTANTS
  Request,  \* the HTTP requests of one user
  Steps     \* backoff.Steps: how many attempts getWithRetry makes

ASSUME StepsAssumption == Steps \in Nat \ {0}

VARIABLE req

PC == {"new", "getClient", "getClaim", "getSecret", "create", "update", "getService",
       "delete", "reply", "done"}

\* got is the claim the attempt has read, and answer the Service whose port
\* is returned.  All errors but ErrNotFound are taken as one.  since is not
\* in the code: the uid of the claim when the request arrived, or of the
\* first claim made after that; for a release always the latter.
RequestState ==
  [pc : PC, op : {"lease", "delete"}, attempt : 1 .. Steps,
   got : DistccClientClaim \cup {Absent}, answer : Nat,
   err : {"nil", "ErrNotFound", "failed"}, since : Nat]

NewRequest == [pc |-> "new", op |-> "lease", attempt |-> 1, got |-> Absent,
               answer |-> NoRef, err |-> "nil", since |-> 0]

ServiceInit == req = [r \in Request |-> NewRequest]

Running(r) == req[r].pc \notin {"new", "done"}

Arrive(r, op, first) ==
  /\ req[r].pc = "new"
  /\ req' = [req EXCEPT ![r] =
               [@ EXCEPT !.op = op, !.pc = first,
                         !.since = IF op = "lease" /\ Exists(claim) THEN claim.uid
                                   ELSE writes + 1]]
  /\ UNCHANGED storeVars

LeaseClient(r)  == Arrive(r, "lease", "getClient")
DeleteClient(r) == Arrive(r, "delete", "delete")

(***************************************************************************)
(* The end of an attempt, see LeaseService: a context that is done makes   *)
(* the attempt that runs the last one.                                     *)
(***************************************************************************)
Done(q, e) == [q EXCEPT !.pc = "done", !.err = e, !.attempt = 1, !.got = Absent]
Failed     == Done(NewRequest, "failed")

Go(r, q) == req' = [req EXCEPT ![r] = q]

EndAttempt(r, q) == Go(r, q) \/ Go(r, Failed)

FirstCall(q) ==
  CASE q.pc = "getClient" -> "getClient"
    [] q.op = "delete"    -> "delete"
    [] OTHER              -> "getClaim"

\* Mutant: one attempt too many.
RetryOnceMore(q) ==
  IF q.attempt <= Steps
  THEN [q EXCEPT !.attempt = @ + 1, !.pc = FirstCall(q), !.got = Absent]
  ELSE Failed

\* Mutant: the attempts are not counted.
RetryForever(q) == [q EXCEPT !.pc = FirstCall(q), !.got = Absent]

Retry(q) ==
  IF q.attempt < Steps
  THEN [q EXCEPT !.attempt = @ + 1, !.pc = FirstCall(q), !.got = Absent]
  ELSE Failed

\* A call is lost or refused, or its answer is; or the Service is gone, or
\* has no node port yet.  (The logging middleware turns a success that it
\* cannot log into an error; that is one of the ways to fail, too.)
AttemptFails(r) ==
  /\ Running(r) /\ req[r].pc # "reply"
  /\ EndAttempt(r, Retry(req[r]))
  /\ UNCHANGED storeVars

(***************************************************************************)
(* LeaseClient and renewDistccClientLease.                                 *)
(***************************************************************************)
GetClient(r) ==
  /\ req[r].pc = "getClient"
  /\ EndAttempt(r, IF Exists(client) THEN [req[r] EXCEPT !.pc = "getClaim", !.attempt = 1]
                   ELSE Failed)
  /\ UNCHANGED storeVars

\* getServiceForClaim, on the copy of the claim that was read.
WaitForStatus(r, q) ==
  IF \A kind \in Kind : q.got.ref[kind] # NoRef THEN Go(r, [q EXCEPT !.pc = "getService"])
  ELSE EndAttempt(r, Retry(q))

GetClaim(r) ==
  LET q == [req[r] EXCEPT !.got = claim]
  IN  /\ q.pc = "getClaim"
      /\ IF ~ Exists(claim) THEN Go(r, [q EXCEPT !.pc = "getSecret"])
         ELSE IF claim.exp # Unset THEN Go(r, [q EXCEPT !.pc = "update"])
         ELSE WaitForStatus(r, q)
      /\ UNCHANGED storeVars

\* The claim is made with the secret of the user or, without one, without.
GetSecret(r) ==
  /\ req[r].pc = "getSecret"
  /\ Go(r, [req[r] EXCEPT !.pc = "create"])
  /\ UNCHANGED storeVars

\* A new claim has no status: its user has to wait, whether the answer
\* comes back or not.
CreateClaim(r) ==
  /\ req[r].pc = "create"
  /\ Post
  /\ EndAttempt(r, Retry(req[r]))

UpdateClaim(r) ==
  /\ req[r].pc = "update"
  /\ Put([req[r].got EXCEPT !.exp = Unset])
  /\ WaitForStatus(r, req[r]) \/ EndAttempt(r, Retry(req[r]))

GetService(r) ==
  LET q == req[r]
      n == q.got.ref["service"]
  IN  /\ q.pc = "getService"
      /\ n \in Live("service")
      /\ Go(r, [q EXCEPT !.pc = "reply", !.answer = n])
      /\ UNCHANGED storeVars

(***************************************************************************)
(* DeleteClient.                                                           *)
(***************************************************************************)
DeleteClaim(r) ==
  /\ req[r].pc = "delete"
  /\ Remove
  /\ Go(r, [req[r] EXCEPT !.pc = "reply"]) \/ EndAttempt(r, Retry(req[r]))

\* Mutant: whatever fails, the claim is taken for gone.
DeleteFindsNoAnswer(r) ==
  /\ req[r].pc = "delete"
  /\ EndAttempt(r, Done(req[r], "ErrNotFound"))
  /\ UNCHANGED storeVars

DeleteFindsNothing(r) ==
  /\ req[r].pc = "delete"
  /\ ~ Exists(claim)
  /\ EndAttempt(r, Done(req[r], "ErrNotFound"))
  /\ UNCHANGED storeVars

Reply(r) ==
  /\ req[r].pc = "reply"
  /\ EndAttempt(r, Done(req[r], "nil"))
  /\ UNCHANGED storeVars

ServiceCrash(r) ==
  /\ Running(r)
  /\ Go(r, Failed)
  /\ UNCHANGED storeVars

RequestStep(r) ==
  \/ GetClient(r)
  \/ GetClaim(r)
  \/ GetSecret(r)
  \/ CreateClaim(r)
  \/ UpdateClaim(r)
  \/ GetService(r)
  \/ DeleteClaim(r)
  \/ DeleteFindsNothing(r)
  \/ AttemptFails(r)
  \/ Reply(r)

ServiceStep(r) == LeaseClient(r) \/ DeleteClient(r) \/ ServiceCrash(r) \/ RequestStep(r)

ServiceTypeOK == req \in [Request -> RequestState]
=============================================================================
