-------------------------- MODULE GetWithRetryProofs --------------------------
(***************************************************************************)
(* Proofs about getWithRetry, for every number of phases and of attempts.  *)
(*                                                                         *)
(* The inductive invariant says whose turn it is: a getter only runs while *)
(* the caller waits for it, in select or for the last time, and then it is *)
(* the getter of the current attempt.  That no second getter is on its way *)
(* and none is left at the end follows at once; that the goroutines make   *)
(* attempts as RetryContract describes them, step by step.                 *)
(***************************************************************************)
EXTENDS GetWithRetry, TLAPS

Waiting == {"select", "drain"}

OnlyTheCurrent == \A a \in Attempt : Active(a) => a = Current /\ caller.pc \in Waiting
WaitedFor      == caller.pc \in Waiting => Active(Current)
Unanswered     == caller.pc \in Waiting \cup {"attempt"} => caller.err = "none"

IInv == TypeOK /\ OnlyTheCurrent /\ WaitedFor /\ Unanswered

USE PhasesAssumption, StepsAssumption

\* The current attempt is one of the attempts.
LEMMA CurrentIsAttempt == TypeOK => Current \in Attempt
BY DEF TypeOK, Caller, Current, Attempt

\* Whatever the caller makes of an error keeps its type.
LEMMA JudgeType ==
  ASSUME TypeOK, NEW err \in Outcome
  PROVE  Judge(err) \in Caller
<1>1. caller \in Caller
  BY DEF TypeOK
<1>2. \A e \in Error : Return(e) \in Caller
  BY <1>1 DEF Return, Caller
<1>3. NextPhase \in Caller
  <2>1. CASE caller.phase < Phases
    <3>1. caller.phase + 1 \in 1 .. Phases /\ 1 \in 1 .. Steps
      BY <1>1, <2>1 DEF Caller
    <3> QED
      BY <1>1, <2>1, <3>1 DEF NextPhase, Caller
  <2> QED
    BY <1>2, <2>1 DEF NextPhase, Error
<1>4. Sleep \in Caller
  <2>1. CASE caller.step < Steps
    <3>1. caller.step + 1 \in 1 .. Steps
      BY <1>1, <2>1 DEF Caller
    <3> QED
      BY <1>1, <2>1, <3>1 DEF Sleep, Caller
  <2> QED
    BY <1>2, <2>1 DEF Sleep, Error
<1>5. Return("permanent") \in Caller
  BY <1>2 DEF Error
<1> QED
  BY <1>3, <1>4, <1>5 DEF Judge, Outcome

\* After an error the caller either makes its next attempt, a new one, or
\* returns; it is not left waiting.
LEMMA JudgeMoves ==
  ASSUME TypeOK, caller.err = "none", NEW err \in Outcome
  PROVE  \/ /\ Judge(err).pc = "attempt" /\ Judge(err).err = "none"
            /\ <<Judge(err).phase, Judge(err).step>> # Current
         \/ Judge(err).pc = "return"
<1>1. caller \in Caller
  BY DEF TypeOK
<1>2. \A e \in Error : Return(e).pc = "return"
  BY <1>1 DEF Return, Caller
<1>3. CASE err = "nil"
  <2>1. CASE caller.phase < Phases
    <3>1. Judge(err) = [caller EXCEPT !.pc = "attempt", !.phase = @ + 1, !.step = 1]
      BY <1>3, <2>1 DEF Judge, NextPhase
    <3>2. /\ Judge(err).pc = "attempt" /\ Judge(err).err = "none"
          /\ Judge(err).phase = caller.phase + 1
      BY <1>1, <3>1 DEF Caller
    <3>3. caller.phase + 1 # caller.phase
      BY <1>1 DEF Caller
    <3> QED
      BY <3>2, <3>3 DEF Current
  <2>2. CASE ~ (caller.phase < Phases)
    BY <1>2, <1>3, <2>2 DEF Judge, NextPhase, Error
  <2> QED
    BY <2>1, <2>2
<1>4. CASE err = "permanent"
  BY <1>2, <1>4 DEF Judge, Error
<1>5. CASE err = "transient"
  <2>1. CASE caller.step < Steps
    <3>1. Judge(err) = [caller EXCEPT !.pc = "attempt", !.step = @ + 1]
      BY <1>5, <2>1 DEF Judge, Sleep
    <3>2. /\ Judge(err).pc = "attempt" /\ Judge(err).err = "none"
          /\ Judge(err).step = caller.step + 1
      BY <1>1, <3>1 DEF Caller
    <3>3. caller.step + 1 # caller.step
      BY <1>1 DEF Caller
    <3> QED
      BY <3>2, <3>3 DEF Current
  <2>2. CASE ~ (caller.step < Steps)
    BY <1>2, <1>5, <2>2 DEF Judge, Sleep, Error
  <2> QED
    BY <2>1, <2>2
<1> QED
  BY <1>3, <1>4, <1>5 DEF Outcome

LEMMA InitInv == Init => IInv
<1> SUFFICES ASSUME Init PROVE IInv
  OBVIOUS
<1>1. caller \in Caller /\ caller.pc = "attempt" /\ caller.err = "none"
  BY DEF Init, Caller, Error
<1>2. getter \in [Attempt -> Getter] /\ \A a \in Attempt : ~ Active(a)
  BY DEF Init, Getter, Outcome, Active
<1> QED
  BY <1>1, <1>2 DEF Init, IInv, TypeOK, OnlyTheCurrent, WaitedFor, Unanswered, Waiting

LEMMA StepInv == IInv /\ [Next]_vars => IInv'
<1> SUFFICES ASSUME IInv, [Next]_vars PROVE IInv'
  OBVIOUS
<1> USE DEF IInv
<1>t. Current \in Attempt /\ caller \in Caller /\ getter \in [Attempt -> Getter]
  BY CurrentIsAttempt DEF TypeOK
<1>1. ASSUME Spawn PROVE IInv'
  <2>1. Current' = Current /\ caller'.pc = "select" /\ caller'.err = caller.err
    BY <1>1, <1>t DEF Spawn, Current, Caller
  <2>2. getter' = [getter EXCEPT ![Current].pc = "calling"]
    BY <1>1 DEF Spawn, Set
  <2>3. TypeOK'
    BY <1>1, <1>t, <2>2 DEF Spawn, TypeOK, Caller, Getter
  <2>4. \A a \in Attempt : Active(a)' => a = Current
    BY <1>1, <1>t, <2>2 DEF Spawn, OnlyTheCurrent, Active, Waiting, Getter
  <2>5. Active(Current)'
    BY <1>t, <2>1, <2>2 DEF Active, Getter
  <2> QED
    BY <1>1, <2>1, <2>3, <2>4, <2>5 DEF Spawn, OnlyTheCurrent, WaitedFor, Unanswered, Waiting
<1>2. ASSUME Cancel PROVE IInv'
  <2>1. Current' = Current /\ caller'.pc = "drain" /\ caller'.err = caller.err
    BY <1>2, <1>t DEF Cancel, Current, Caller
  <2>2. getter' = getter /\ caller.pc \in Waiting /\ TypeOK'
    BY <1>2, <1>t DEF Cancel, TypeOK, Caller, Waiting
  <2> QED
    BY <2>1, <2>2 DEF OnlyTheCurrent, WaitedFor, Unanswered, Waiting, Active
<1>3. ASSUME CloseChannel PROVE IInv'
  <2>1. getter' = getter /\ caller'.pc = "returned" /\ TypeOK'
    BY <1>3, <1>t DEF CloseChannel, TypeOK, Caller
  <2>2. \A a \in Attempt : ~ Active(a)
    BY <1>3 DEF CloseChannel, OnlyTheCurrent, Waiting
  <2> QED
    BY <2>1, <2>2 DEF OnlyTheCurrent, WaitedFor, Unanswered, Waiting, Active
<1>4. ASSUME ContextDone PROVE IInv'
  BY <1>4 DEF ContextDone, TypeOK, OnlyTheCurrent, WaitedFor, Unanswered, Active, Current
<1>5. ASSUME NEW a \in Attempt, GetterReturns(a) PROVE IInv'
  <2>1. PICK err \in Outcome : getter' = [getter EXCEPT ![a] = [pc |-> "sending", err |-> err]]
    BY <1>5 DEF GetterReturns
  <2>2. TypeOK'
    BY <1>5, <1>t, <2>1 DEF GetterReturns, TypeOK, Getter
  <2>3. \A b \in Attempt : Active(b)' <=> Active(b)
    BY <1>5, <1>t, <2>1 DEF GetterReturns, Active
  <2> QED
    BY <1>5, <1>t, <2>2, <2>3
       DEF GetterReturns, OnlyTheCurrent, WaitedFor, Unanswered, Current
<1>6. ASSUME NEW a \in Attempt, Receive(a) PROVE IInv'
  <2>1. a = Current /\ caller.err = "none" /\ getter[a].err \in Outcome
    BY <1>6, <1>t DEF Receive, OnlyTheCurrent, Unanswered, Active, Waiting, Getter
  <2>2. getter' = [getter EXCEPT ![a].pc = "gone"]
    BY <1>6 DEF Receive, Set
  <2>3. \A b \in Attempt : ~ Active(b)'
    BY <1>t, <2>1, <2>2 DEF OnlyTheCurrent, Active, Getter
  <2>4. caller' \in Caller
    BY <1>6, <1>t, <2>1, JudgeType DEF Receive, Return, Caller, Error
  <2>5. TypeOK'
    BY <1>6, <1>t, <2>2, <2>4 DEF Receive, TypeOK, Getter
  <2>6. \/ caller'.pc = "attempt" /\ caller'.err = "none"
        \/ caller'.pc = "return"
    BY <1>6, <1>t, <2>1, JudgeMoves DEF Receive, Return, Caller
  <2> QED
    BY <2>3, <2>5, <2>6 DEF OnlyTheCurrent, WaitedFor, Unanswered, Waiting
<1>7. CASE UNCHANGED vars
  BY <1>7 DEF vars, TypeOK, OnlyTheCurrent, WaitedFor, Unanswered, Active, Current
<1> QED
  BY <1>1, <1>2, <1>3, <1>4, <1>5, <1>6, <1>7 DEF Next, CallerNext

LEMMA Inv == Spec => []IInv
BY InitInv, StepInv, PTL DEF Spec

\* The variables of the caller and of the getters keep their types: no more
\* attempts are made than backoff.Steps.
THEOREM TypeCorrect == Spec => []TypeOK
<1>1. IInv => TypeOK
  BY DEF IInv
<1> QED
  BY <1>1, Inv, PTL

\* Two getters never run at a time.
THEOREM GettersRunAlone == Spec => []GettersAlone
<1>1. IInv => GettersAlone
  BY DEF IInv, OnlyTheCurrent, GettersAlone
<1> QED
  BY <1>1, Inv, PTL

\* No getter is left when the request is answered.
THEOREM GettersEnd == Spec => []NoGetterLeft
<1>1. IInv => NoGetterLeft
  BY DEF IInv, OnlyTheCurrent, NoGetterLeft, Waiting
<1> QED
  BY <1>1, Inv, PTL

(***************************************************************************)
(* The goroutines do not go on for ever.                                   *)
(***************************************************************************)
LEMMA JudgeIsFurther ==
  ASSUME TypeOK, NEW err \in Outcome
  PROVE  \/ caller.phase < Judge(err).phase
         \/ caller.phase = Judge(err).phase /\ caller.step < Judge(err).step
         \/ /\ caller.phase = Judge(err).phase /\ caller.step = Judge(err).step
            /\ Judge(err).pc = "return"
<1>1. caller \in Caller
  BY DEF TypeOK
<1>2. ASSUME NEW e
      PROVE  /\ Return(e).pc = "return"
             /\ Return(e).phase = caller.phase /\ Return(e).step = caller.step
  BY <1>1 DEF Return, Caller
<1>3. NextPhase = Return("nil") \/ NextPhase.phase = caller.phase + 1
  BY <1>1 DEF NextPhase, Caller
<1>4. \/ Sleep = Return("ErrWaitTimeout")
      \/ Sleep.phase = caller.phase /\ Sleep.step = caller.step + 1
  BY <1>1 DEF Sleep, Caller
<1>5. caller.phase < caller.phase + 1 /\ caller.step < caller.step + 1
  BY <1>1 DEF Caller
<1>6. Judge(err) \in {NextPhase, Sleep, Return("permanent")}
  BY DEF Judge, Outcome
<1> QED
  BY <1>2, <1>3, <1>4, <1>5, <1>6

\* Each step takes the request further, so that an answer is a bounded
\* number of steps away from the first attempt.
THEOREM AttemptsOnlyAdvance == Spec => AttemptsAdvance
<1>1. ASSUME IInv, [Next]_vars PROVE [ContextDone \/ Further]_vars
  <2>t. Current \in Attempt /\ caller \in Caller /\ getter \in [Attempt -> Getter]
    BY <1>1, CurrentIsAttempt DEF IInv, TypeOK
  <2>1. ASSUME Spawn PROVE Further
    <3>1. /\ Current' = Current /\ caller'.pc = "select" /\ caller.pc = "attempt"
          /\ caller'.phase = caller.phase /\ caller'.step = caller.step
      BY <2>1, <2>t DEF Spawn, Current, Caller
    <3>2. getter'[Current].pc = "calling"
      BY <2>1, <2>t DEF Spawn, Set, Getter
    <3>3. Stage = 0 /\ Stage' = 1
      BY <3>1, <3>2 DEF Stage
    <3> QED
      BY <3>1, <3>3 DEF Further
  <2>2. ASSUME Cancel PROVE Further
    <3>1. /\ Current' = Current /\ caller.pc = "select" /\ caller'.pc = "drain"
          /\ caller'.phase = caller.phase /\ caller'.step = caller.step
          /\ getter' = getter
      BY <2>2, <2>t DEF Cancel, Current, Caller
    <3>2. Stage' = Stage + 1 /\ Stage \in {1, 2}
      BY <3>1 DEF Stage
    <3> QED
      BY <3>1, <3>2 DEF Further
  <2>3. ASSUME CloseChannel PROVE Further
    <3>1. /\ caller.pc = "return" /\ caller'.pc = "returned"
          /\ caller'.phase = caller.phase /\ caller'.step = caller.step
      BY <2>3, <2>t DEF CloseChannel, Caller
    <3>2. Stage = 4 /\ Stage' = 5
      BY <3>1 DEF Stage
    <3> QED
      BY <3>1, <3>2 DEF Further
  <2>4. ASSUME NEW a \in Attempt, GetterReturns(a) PROVE Further
    <3>1. a = Current /\ caller' = caller /\ caller.pc \in Waiting
      BY <1>1, <2>4 DEF GetterReturns, IInv, OnlyTheCurrent, Active
    <3>2. /\ Current' = Current
          /\ getter[Current].pc = "calling" /\ getter'[Current].pc = "sending"
      BY <2>4, <2>t, <3>1 DEF GetterReturns, Current
    <3>3. Stage' = Stage + 1 /\ Stage \in {1, 2}
      BY <3>1, <3>2 DEF Stage, Waiting
    <3> QED
      BY <3>1, <3>3 DEF Further
  <2>5. ASSUME NEW a \in Attempt, Receive(a) PROVE Further
    <3>1. /\ a = Current /\ getter[a].err \in Outcome /\ caller.pc \in Waiting
          /\ getter[Current].pc = "sending"
      BY <1>1, <2>5, <2>t DEF Receive, IInv, OnlyTheCurrent, Active, Getter
    <3>2. Stage \in {2, 3}
      BY <3>1 DEF Stage, Waiting
    <3>3. CASE caller'.pc = "return" /\ caller'.phase = caller.phase
                 /\ caller'.step = caller.step
      <4>1. Stage' = 4
        BY <3>3 DEF Stage
      <4> QED
        BY <3>2, <3>3, <4>1 DEF Further
    <3>4. CASE caller.pc = "select" /\ caller' = Judge(getter[a].err)
      BY <1>1, <3>1, <3>3, <3>4, JudgeIsFurther DEF IInv, Further
    <3>5. CASE caller' = Return("ErrCanceled")
      BY <2>t, <3>3, <3>5 DEF Return, Caller
    <3> QED
      BY <2>5, <3>4, <3>5 DEF Receive
  <2> QED
    BY <1>1, <2>1, <2>2, <2>3, <2>4, <2>5 DEF Next, CallerNext
<1> QED
  BY <1>1, Inv, PTL DEF Spec, AttemptsAdvance

(***************************************************************************)
(* The refinement.                                                         *)
(***************************************************************************)
LEMMA InitRefines == Init => Contract!Init
BY DEF Init, Contract!Init, Returned, Current, Attempt

\* Nothing has been returned that the caller has not judged, unless it waits.
LEMMA NothingReturned ==
  IInv /\ caller.pc \notin Waiting => Returned = "none"
BY CurrentIsAttempt DEF IInv, OnlyTheCurrent, Active, Returned

\* The caller judges the error of its attempt as the contract allows.
LEMMA JudgeRefines ==
  ASSUME IInv, IInv', Receive(Current), caller.pc = "select"
  PROVE  Contract!Next
<1>t. Current \in Attempt /\ caller \in Caller /\ getter \in [Attempt -> Getter]
  BY CurrentIsAttempt DEF IInv, TypeOK
<1>1. /\ caller' = Judge(Returned) /\ caller.err = "none"
      /\ Returned \in Outcome /\ Returned # "none"
  BY <1>t DEF Receive, Returned, IInv, Unanswered, Waiting, Getter, Outcome
<1>2. caller'.pc \notin Waiting
  BY <1>1, JudgeMoves DEF IInv, Waiting
<1>3. Returned' = "none"
  <2>1. Current' \in Attempt /\ getter' \in [Attempt -> Getter]
    BY CurrentIsAttempt DEF IInv, TypeOK, Current, Attempt, Caller
  <2> QED
    BY <1>2, <2>1 DEF IInv, OnlyTheCurrent, Active, Returned
<1>4. Contract!Judged
  BY <1>1, <1>3 DEF Contract!Judged
<1> QED
  BY <1>1, <1>t, <1>4
     DEF Judge, NextPhase, Sleep, Return, Caller, Outcome, Contract!Next,
         Contract!NextPhase, Contract!Retry, Contract!Answer, Contract!Deserved

LEMMA StepRefines == IInv /\ IInv' /\ [Next]_vars => [Contract!Next]_Contract!vars
<1> SUFFICES ASSUME IInv, IInv', [Next]_vars PROVE [Contract!Next]_Contract!vars
  OBVIOUS
<1>t. Current \in Attempt /\ caller \in Caller /\ getter \in [Attempt -> Getter]
  BY CurrentIsAttempt DEF IInv, TypeOK
<1>1. ASSUME Spawn PROVE UNCHANGED Contract!vars
  <2>1. Returned = "none"
    BY <1>1, NothingReturned DEF Spawn, Waiting
  <2>2. Returned' = "none"
    BY <1>1, <1>t DEF Spawn, Set, Returned, Current, Caller, Getter
  <2> QED
    BY <1>1, <1>t, <2>1, <2>2 DEF Spawn, Contract!vars, Caller
<1>2. ASSUME Cancel \/ CloseChannel \/ ContextDone \/ UNCHANGED vars
      PROVE  UNCHANGED Contract!vars
  <2>1. /\ getter' = getter
        /\ caller'.phase = caller.phase /\ caller'.step = caller.step
        /\ caller'.err = caller.err
    BY <1>2, <1>t DEF Cancel, CloseChannel, ContextDone, vars, Caller
  <2> QED
    BY <2>1 DEF Contract!vars, Returned, Current
<1>3. ASSUME NEW a \in Attempt, GetterReturns(a) PROVE Contract!Next
  <2>1. a = Current /\ caller.err = "none" /\ caller' = caller
    BY <1>3 DEF GetterReturns, IInv, OnlyTheCurrent, Unanswered, Active, Waiting
  <2>2. Returned = "none"
    BY <1>3, <2>1 DEF GetterReturns, Returned
  <2>3. Returned' \in Outcome
    BY <1>3, <1>t, <2>1 DEF GetterReturns, Returned, Current
  <2> QED
    BY <2>1, <2>2, <2>3 DEF Contract!Next, Contract!Call, Contract!Outcome, Outcome
<1>4. ASSUME NEW a \in Attempt, Receive(a) PROVE Contract!Next
  <2>1. a = Current /\ caller.err = "none"
    BY <1>4 DEF Receive, IInv, OnlyTheCurrent, Unanswered, Active, Waiting
  <2>2. CASE caller.pc = "select"
    BY <1>4, <2>1, <2>2, JudgeRefines
  <2>3. CASE caller.pc = "drain"
    <3>1. caller' = Return("ErrCanceled")
      BY <1>4, <2>3 DEF Receive
    <3>2. Returned \in Outcome
      BY <1>4, <1>t, <2>1 DEF Receive, Returned, Getter
    <3>3. Returned' = "none"
      BY <1>4, <1>t, <2>1, <3>1 DEF Receive, Set, Return, Returned, Current, Caller, Getter
    <3> QED
      BY <1>t, <3>1, <3>2, <3>3
         DEF Return, Caller, Outcome, Contract!Next, Contract!Answer, Contract!Judged,
             Contract!Deserved
  <2> QED
    BY <1>4, <2>2, <2>3 DEF Receive
<1> QED
  BY <1>1, <1>2, <1>3, <1>4 DEF Next, CallerNext

\* The goroutines of getWithRetry implement the abstract sequence of
\* attempts that the models of the service methods rely on.
THEOREM GoroutinesImplementContract == Spec => ImplementsContract
BY InitRefines, StepRefines, Inv, PTL DEF Spec, ImplementsContract, Contract!Spec
=============================================================================
