---------------------------- MODULE GetWithRetry ----------------------------
(***************************************************************************)
(* getWithRetry of the service (pkg/apiserver/service/service.go), with    *)
(* its goroutines.  Every attempt runs the getter in a goroutine of its    *)
(* own, which sends what the getter returned on rchan; rchan has no        *)
(* buffer, is shared by all attempts and all phases of a request, and is   *)
(* closed when the service method returns.  The getter and what it writes  *)
(* is the subject of LeaseService and ClientLeaseService, which take an    *)
(* attempt as RetryContract describes it.                                  *)
(***************************************************************************)
EXTENDS Naturals

CONSTANTS
  Phases,  \* the calls of getWithRetry a method makes: 2 to lease, 1 to delete
  Steps    \* backoff.Steps

ASSUME PhasesAssumption == Phases \in Nat \ {0}
ASSUME StepsAssumption  == Steps \in Nat \ {0}

VARIABLES
  done,    \* whether ctx.Done() is closed
  closed,  \* whether rchan is closed
  caller,  \* the goroutine of the request
  getter   \* getter[phase, step]: the goroutine of that attempt

vars == <<done, closed, caller, getter>>

\* What the getter returns, see IsTransient.
Outcome == {"nil", "transient", "permanent"}
Error   == {"none", "nil", "permanent", "ErrWaitTimeout", "ErrCanceled"}
Attempt == (1 .. Phases) \X (1 .. Steps)

Caller ==
  [pc : {"attempt", "select", "drain", "return", "returned"},
   phase : 1 .. Phases, step : 1 .. Steps, err : Error]
Getter == [pc : {"none", "calling", "sending", "gone"}, err : Outcome]

Init ==
  /\ done = FALSE
  /\ closed = FALSE
  /\ caller = [pc |-> "attempt", phase |-> 1, step |-> 1, err |-> "none"]
  /\ getter = [a \in Attempt |-> [pc |-> "none", err |-> "nil"]]

Current == <<caller.phase, caller.step>>

Set(a, pc) == getter' = [getter EXCEPT ![a].pc = pc]

(***************************************************************************)
(* The getter.                                                             *)
(***************************************************************************)
\* The calls of the getter return, which may take them any time.
GetterReturns(a) ==
  /\ getter[a].pc = "calling"
  /\ \E err \in Outcome : getter' = [getter EXCEPT ![a] = [pc |-> "sending", err |-> err]]
  /\ UNCHANGED <<done, closed, caller>>

(***************************************************************************)
(* ExponentialBackoff and the method that called getWithRetry.             *)
(***************************************************************************)
Return(err) == [caller EXCEPT !.pc = "return", !.err = err]

NextPhase ==
  IF caller.phase < Phases
  THEN [caller EXCEPT !.pc = "attempt", !.phase = @ + 1, !.step = 1]
  ELSE Return("nil")

\* Mutants: one attempt too many; the attempts are not counted.
SleepOnceMore ==
  IF caller.step <= Steps
  THEN [caller EXCEPT !.pc = "attempt", !.step = @ + 1]
  ELSE Return("ErrWaitTimeout")
SleepUncounted == [caller EXCEPT !.pc = "attempt"]

Sleep ==
  IF caller.step < Steps
  THEN [caller EXCEPT !.pc = "attempt", !.step = @ + 1]
  ELSE Return("ErrWaitTimeout")

\* Mutant: every error is taken for a permanent one.
JudgeSeverely(err) == IF err = "nil" THEN NextPhase ELSE Return("permanent")

Judge(err) ==
  CASE err = "nil"       -> NextPhase
    [] err = "permanent" -> Return("permanent")
    [] OTHER             -> Sleep

Spawn ==
  /\ caller.pc = "attempt"
  /\ caller' = [caller EXCEPT !.pc = "select"]
  /\ Set(Current, "calling")
  /\ UNCHANGED <<done, closed>>

\* rchan hands what a getter sends to the caller, who waits in select or
\* after the context was done.  Once rchan is closed, a send panics.
Receive(a) ==
  /\ getter[a].pc = "sending" /\ ~ closed
  /\ \/ caller.pc = "select" /\ caller' = Judge(getter[a].err)
     \/ caller.pc = "drain" /\ caller' = Return("ErrCanceled")
  /\ Set(a, "gone")
  /\ UNCHANGED <<done, closed>>

\* Mutants: the last getter is not waited for, or the next one is started.
CancelAtOnce ==
  /\ caller.pc = "select" /\ done
  /\ caller' = Return("ErrCanceled")
  /\ UNCHANGED <<done, closed, getter>>
CancelRetries ==
  /\ caller.pc = "select" /\ done
  /\ caller' = Sleep
  /\ UNCHANGED <<done, closed, getter>>

Cancel ==
  /\ caller.pc = "select" /\ done
  /\ caller' = [caller EXCEPT !.pc = "drain"]
  /\ UNCHANGED <<done, closed, getter>>

\* The deferred close(rchan).
CloseChannel ==
  /\ caller.pc = "return"
  /\ closed' = TRUE
  /\ caller' = [caller EXCEPT !.pc = "returned"]
  /\ UNCHANGED <<done, getter>>

\* The client goes away, or its deadline passes.
ContextDone ==
  /\ ~ done
  /\ done' = TRUE
  /\ UNCHANGED <<closed, caller, getter>>

CallerNext == Spawn \/ Cancel \/ CloseChannel

Next ==
  \/ CallerNext
  \/ ContextDone
  \/ \E a \in Attempt : GetterReturns(a) \/ Receive(a)

Spec == Init /\ [][Next]_vars

\* Every goroutine goes on, and the calls of a getter end: the client of
\* the API server has a timeout.
FairSpec ==
  /\ Spec
  /\ WF_vars(CallerNext)
  /\ \A a \in Attempt : WF_vars(GetterReturns(a)) /\ WF_vars(Receive(a))

TypeOK ==
  /\ done \in BOOLEAN
  /\ closed \in BOOLEAN
  /\ caller \in Caller
  /\ getter \in [Attempt -> Getter]

\* There is never a second getter on its way: the two would write the same
\* object, and the older could answer for the younger (getWithRetry).
Active(a)      == getter[a].pc \in {"calling", "sending"}
GettersAlone   == \A a, b \in Attempt : Active(a) /\ Active(b) => a = b

\* Once the request is answered, no getter is left to write to the object,
\* to block on the channel for ever or to panic when it is closed.
NoGetterLeft ==
  caller.pc \in {"return", "returned"} => \A a \in Attempt : ~ Active(a)

\* Every step but the end of the context takes the request further: to its
\* next phase or attempt, or on within the attempt.  So the goroutines make
\* a bounded number of steps, whatever order they run in.
Stage ==
  CASE caller.pc = "attempt"  -> 0
    [] caller.pc = "return"   -> 4
    [] caller.pc = "returned" -> 5
    [] OTHER -> 1 + (IF caller.pc = "drain" THEN 1 ELSE 0)
                  + (IF getter[Current].pc = "sending" THEN 1 ELSE 0)

Further ==
  \/ caller.phase < caller'.phase
  \/ caller.phase = caller'.phase /\ caller.step < caller'.step
  \/ caller.phase = caller'.phase /\ caller.step = caller'.step /\ Stage < Stage'

AttemptsAdvance == [][ContextDone \/ Further]_vars

\* The goroutines make attempts as the models of the service take them.
Returned ==
  IF getter[Current].pc = "sending" THEN getter[Current].err ELSE "none"

Contract ==
  INSTANCE RetryContract WITH
    attempt  <- [phase |-> caller.phase, step |-> caller.step],
    returned <- Returned,
    answer   <- caller.err

ImplementsContract == Contract!Spec

\* The request is answered, also when its context is done while a getter
\* runs and when every attempt fails.
Returns == <>(caller.pc = "returned")
=============================================================================
