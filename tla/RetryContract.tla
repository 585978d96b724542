---------------------------- MODULE RetryContract ----------------------------
(***************************************************************************)
(* What the requests of the service rely on when they call getWithRetry:   *)
(* calls are made one after the other, each is judged before the next, and *)
(* the request is only answered when no call is under way.  Whatever a     *)
(* call returned, the answer may be that the context is done.              *)
(***************************************************************************)
EXTENDS Naturals

CONSTANTS
  Phases,  \* how many things a request gets, one after the other
  Steps    \* how often it tries to get each

VARIABLES
  attempt,   \* the phase and the number of the attempt
  returned,  \* what the call that was made returned, until it is judged
  answer     \* the error of the request, or "none" while it runs

vars == <<attempt, returned, answer>>

Outcome == {"nil", "transient", "permanent"}

Init ==
  /\ attempt = [phase |-> 1, step |-> 1]
  /\ returned = "none"
  /\ answer = "none"

Call ==
  /\ answer = "none" /\ returned = "none"
  /\ returned' \in Outcome
  /\ UNCHANGED <<attempt, answer>>

Judged == returned # "none" /\ returned' = "none"

NextPhase ==
  /\ Judged /\ returned = "nil" /\ attempt.phase < Phases
  /\ attempt' = [phase |-> attempt.phase + 1, step |-> 1]
  /\ UNCHANGED answer

Retry ==
  /\ Judged /\ returned = "transient" /\ attempt.step < Steps
  /\ attempt' = [attempt EXCEPT !.step = @ + 1]
  /\ UNCHANGED answer

\* The request is answered for a reason.
Deserved(e) ==
  CASE e = "nil"            -> returned = "nil" /\ attempt.phase = Phases
    [] e = "permanent"      -> returned = "permanent"
    [] e = "ErrWaitTimeout" -> returned = "transient" /\ attempt.step = Steps
    [] e = "ErrCanceled"    -> TRUE
    [] OTHER                -> FALSE

Answer ==
  /\ Judged
  /\ Deserved(answer')
  /\ UNCHANGED attempt

Next == Call \/ NextPhase \/ Retry \/ Answer

Spec == Init /\ [][Next]_vars
=============================================================================
