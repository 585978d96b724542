---------------------------- MODULE ProgramsProofs ----------------------------
(***************************************************************************)
(* Proofs about Programs: which informers the controllers share, and what  *)
(* has to happen before a process ends.                                    *)
(***************************************************************************)
EXTENDS Programs, TLAPS

(***************************************************************************)
(* Why a process ends.  An error in the channel, a goroutine that is about *)
(* to send one, and a main that has received one all go back to a signal   *)
(* or to the HTTP server.  While main is still creating controllers there  *)
(* is no goroutine, so that starting them forgets nothing.                 *)
(***************************************************************************)
Reason == stopped \/ routine["http"] \in {"send", "gone"}

EndTypeOK ==
  /\ program \in Program
  /\ main \in {"create", "client", "wait", "receive", "return", "closed",
               "exited", "panicked"}
  /\ routine \in [Routine -> {"none", "start", "wait", "work", "send", "gone"}]
  /\ stopped \in BOOLEAN
  /\ errs \in 0 .. ErrsCap
  /\ closed \in BOOLEAN

NoneYet == main = "create" => \A g \in Routine : routine[g] = "none"

ErrorsHaveReason  == errs > 0 => Reason
SendersHaveReason == \A g \in Routine : routine[g] \in {"send", "gone"} => Reason
LeaversHaveReason == main \in {"return", "closed", "exited", "panicked"} => Reason

EndInv ==
  /\ EndTypeOK
  /\ NoneYet
  /\ ErrorsHaveReason /\ SendersHaveReason /\ LeaversHaveReason

(***************************************************************************)
(* Which informers there are.  A controller that has been created has the  *)
(* informer of its factory for every kind that it uses, and asking again   *)
(* does not replace it.                                                    *)
(***************************************************************************)
SharedTypeOK ==
  /\ created \in 0 .. Len(Controller)
  /\ informer \in [Kind -> Nat]
  /\ holds \in [Runners -> [Kind -> Nat]]

Obtained ==
  \A i \in 1 .. created : \A k \in Uses[Controller[i]] :
    /\ informer[k] # 0
    /\ holds[Controller[i]][k] = informer[k]

\* What runs is the informer that the factory hands out, so that asking for
\* it again does not replace it.
SharedRun == \A i \in running : i[1] \in Kind /\ i[2] # 0 /\ i[2] = informer[i[1]]

SharedInv == SharedTypeOK /\ Obtained /\ SharedRun

(***************************************************************************)
(* The names.                                                              *)
(***************************************************************************)
LEMMA Names ==
  /\ Len(Controller) = 3
  /\ Runners = {"distcc", "distccclaim", "distccclientclaim"}
  /\ Routine = {"signal", "client", "http"} \cup Runners
  /\ \A i, j \in 1 .. 3 : Controller[i] = Controller[j] => i = j
  /\ \A i \in 1 .. 3 : Controller[i] \in Runners
PROOF
<1>1. Len(Controller) = 3 /\ \A i \in 1 .. 3 : i \in {1, 2, 3}
  BY DEF Controller
<1>2. /\ Controller[1] = "distcc" /\ Controller[2] = "distccclaim"
      /\ Controller[3] = "distccclientclaim"
  BY DEF Controller
<1>3. Runners = {"distcc", "distccclaim", "distccclientclaim"}
  BY <1>1, <1>2 DEF Runners
<1>4. \A i, j \in 1 .. 3 : Controller[i] = Controller[j] => i = j
  BY <1>1, <1>2
<1> QED
  BY <1>1, <1>2, <1>3, <1>4 DEF Routine

LEMMA KindsUsed ==
  /\ \A c \in Runners : Uses[c] \subseteq Kind
  /\ \A f \in Factory : Kinds[f] \subseteq Kind
PROOF
<1>1. Kinds["kube"] = Kinds.kube /\ Kinds["k8cc"] = Kinds.k8cc
  OBVIOUS
<1>2. \A f \in Factory : Kinds[f] \subseteq Kind
  BY <1>1 DEF Factory, Kind
<1>3. Uses["distcc"] \subseteq Kind
  BY DEF Uses, Kind, Kinds
<1>4. Uses["distccclaim"] \subseteq Kind
  BY DEF Uses, Kind, Kinds
<1>5. Uses["distccclientclaim"] \subseteq Kind
  BY DEF Uses, Kind, Kinds
<1> QED
  BY <1>2, <1>3, <1>4, <1>5, Names

(***************************************************************************)
(* EndInv holds initially and is preserved.                                *)
(***************************************************************************)
LEMMA EndInvInit == Init => EndInv
PROOF
<1> SUFFICES ASSUME Init PROVE EndInv
  OBVIOUS
<1>1. routine \in [Routine -> {"none", "start", "wait", "work", "send", "gone"}]
  BY DEF Init
<1>2. EndTypeOK
  <2>1. program \in Program /\ stopped \in BOOLEAN /\ closed \in BOOLEAN
    BY DEF Init
  <2>2. main = "create" /\ errs = 0
    BY DEF Init
  <2> QED
    BY <1>1, <2>1, <2>2 DEF EndTypeOK, ErrsCap
<1>3. NoneYet /\ ErrorsHaveReason /\ SendersHaveReason /\ LeaversHaveReason
  BY DEF Init, NoneYet, ErrorsHaveReason, SendersHaveReason, LeaversHaveReason
<1> QED
  BY <1>2, <1>3 DEF EndInv

LEMMA EndInvMain == EndInv /\ MainNext => EndInv'
PROOF
<1> SUFFICES ASSUME EndInv, MainNext PROVE EndInv'
  OBVIOUS
<1> USE DEF EndInv, EndTypeOK, NoneYet, ErrorsHaveReason, SendersHaveReason,
            LeaversHaveReason, Reason
<1>1. CASE NewController
  BY <1>1 DEF NewController
<1>2. CASE Spawn
  <2>1. \A g \in Routine : routine[g] = "none"
    BY <1>2 DEF Spawn
  <2>2. errs > 0 => stopped
    BY <2>1, Names
  <2>3. \A g \in Routine : routine'[g] \in {"start", "none"}
    BY <1>2 DEF Spawn
  <2>4. routine' \in [Routine -> {"none", "start", "wait", "work", "send", "gone"}]
    BY <1>2 DEF Spawn
  <2>5. main' \in {"client", "receive"} /\ UNCHANGED <<program, stopped, errs, closed>>
    BY <1>2 DEF Spawn
  <2> QED
    BY <2>2, <2>3, <2>4, <2>5
<1>3. CASE MainRunsClient
  BY <1>3 DEF MainRunsClient
<1>4. CASE MainStops
  BY <1>4 DEF MainStops
<1>5. CASE Receive
  <2>1. Reason /\ UNCHANGED <<program, routine, stopped, closed>>
    BY <1>5 DEF Receive, ErrsCap
  <2>2. errs' \in 0 .. ErrsCap /\ main' = "return"
    BY <1>5 DEF Receive, ErrsCap
  <2> QED
    BY <2>1, <2>2
<1>6. CASE Close
  BY <1>6 DEF Close
<1>7. CASE Exit
  BY <1>7 DEF Exit
<1> QED
  BY <1>1, <1>2, <1>3, <1>4, <1>5, <1>6, <1>7 DEF MainNext

\* A goroutine that goes on without sending, or that sends for a reason.
LEMMA EndInvMove ==
  ASSUME EndInv, NEW g \in Routine, NEW pc \in {"wait", "work", "send"},
         routine[g] # "none", routine[g] \notin {"send", "gone"},
         Move(g, pc),
         UNCHANGED <<program, main, errs, closed>>,
         stopped' = stopped \/ stopped' = TRUE,
         pc = "send" => stopped' \/ g = "http"
  PROVE  EndInv'
PROOF
<1>1. routine' \in [Routine -> {"none", "start", "wait", "work", "send", "gone"}]
  BY DEF EndInv, EndTypeOK, Move
<1>2. Reason => Reason'
  BY Names DEF EndInv, EndTypeOK, Move, Reason
<1>3. main # "create"
  BY DEF EndInv, NoneYet
<1>4. \A h \in Routine : routine'[h] = IF h = g THEN pc ELSE routine[h]
  BY DEF EndInv, EndTypeOK, Move
<1>5. pc = "send" => Reason'
  BY <1>4, Names DEF Reason
<1>6. SendersHaveReason'
  BY <1>2, <1>4, <1>5 DEF EndInv, SendersHaveReason
<1> QED
  BY <1>1, <1>2, <1>3, <1>6
     DEF EndInv, EndTypeOK, NoneYet, ErrorsHaveReason, LeaversHaveReason

LEMMA EndInvSend ==
  ASSUME EndInv, NEW g \in Routine, Send(g)
  PROVE  EndInv'
PROOF
<1>1. Reason /\ main # "create" /\ UNCHANGED <<program, stopped, closed>>
  BY DEF EndInv, SendersHaveReason, NoneYet, Send
<1>2. CASE closed /\ main' = "panicked" /\ UNCHANGED <<routine, errs>>
  BY <1>1, <1>2 DEF EndInv, EndTypeOK, NoneYet, ErrorsHaveReason, SendersHaveReason,
                    LeaversHaveReason, Reason
<1>3. CASE errs < ErrsCap /\ errs' = errs + 1 /\ Move(g, "gone") /\ UNCHANGED main
  <2>1. Reason'
    BY <1>1, <1>3, Names DEF EndInv, EndTypeOK, Move, Reason
  <2>2. errs' \in 0 .. ErrsCap
    BY <1>3 DEF EndInv, EndTypeOK, ErrsCap
  <2>3. routine' \in [Routine -> {"none", "start", "wait", "work", "send", "gone"}]
    BY <1>3 DEF EndInv, EndTypeOK, Move
  <2> QED
    BY <1>1, <1>3, <2>1, <2>2, <2>3
       DEF EndInv, EndTypeOK, NoneYet, ErrorsHaveReason, SendersHaveReason, LeaversHaveReason
<1> QED
  BY <1>2, <1>3 DEF Send

\* The steps that touch neither main nor the goroutines that it has started.
LEMMA EndInvElsewhere ==
  EndInv /\ UNCHANGED <<program, main, routine, stopped, errs, closed>> => EndInv'
PROOF
  BY DEF EndInv, EndTypeOK, NoneYet, ErrorsHaveReason, SendersHaveReason,
         LeaversHaveReason, Reason

LEMMA EndInvNext == EndInv /\ [Next]_vars => EndInv'
PROOF
<1> SUFFICES ASSUME EndInv, [Next]_vars PROVE EndInv'
  OBVIOUS
<1>1. CASE MainNext
  BY <1>1, EndInvMain
<1>2. ASSUME NEW f \in Factory, StartFactory(f) PROVE EndInv'
  BY <1>2, EndInvElsewhere DEF StartFactory
<1>3. ASSUME NEW i \in running, FillCache(i) PROVE EndInv'
  BY <1>3, EndInvElsewhere DEF FillCache
<1>4. CASE Signal
  BY <1>4, Names, EndInvMove DEF Signal
<1>5. ASSUME NEW c \in Runners, RunController(c) PROVE EndInv'
  <2>1. c \in Routine /\ UNCHANGED <<program, main, stopped, errs, closed>>
    BY <1>5 DEF RunController, Routine
  <2>2. CASE routine[c] = "start" /\ Move(c, "work")
    BY <2>1, <2>2, EndInvMove
  <2>3. CASE routine[c] \in {"start", "work"} /\ stopped /\ Move(c, "send")
    BY <2>1, <2>3, EndInvMove
  <2> QED
    BY <1>5, <2>2, <2>3 DEF RunController
<1>6. CASE RunClient
  <2>1. "client" \in Routine /\ UNCHANGED <<program, main, stopped, errs, closed>>
    BY <1>6 DEF RunClient, Routine
  <2>2. CASE routine["client"] = "start" /\ Move("client", "wait")
    BY <2>1, <2>2, EndInvMove
  <2>3. CASE routine["client"] = "wait" /\ stopped /\ Move("client", "send")
    BY <2>1, <2>3, EndInvMove
  <2> QED
    BY <1>6, <2>2, <2>3 DEF RunClient
<1>7. CASE ServerFails
  BY <1>7, Names, EndInvMove DEF ServerFails
<1>8. ASSUME NEW g \in Routine, Send(g) PROVE EndInv'
  BY <1>8, EndInvSend
<1>9. CASE UNCHANGED vars
  BY <1>9, EndInvElsewhere DEF vars
<1> QED
  BY <1>1, <1>2, <1>3, <1>4, <1>5, <1>6, <1>7, <1>8, <1>9 DEF Next

\* A process only ends, or panics, after a signal or a failure of the HTTP
\* server, in every interleaving of main and of the goroutines that send on
\* the channel it receives from (main, close(stopCh)).
THEOREM ProcessesEndForAReason == Spec => []EndsForAReason
PROOF
<1>1. EndInv => EndsForAReason
  BY DEF EndInv, EndTypeOK, LeaversHaveReason, Reason, EndsForAReason, Alive
<1> QED
  BY <1>1, EndInvInit, EndInvNext, PTL DEF Spec

(***************************************************************************)
(* SharedInv holds initially and is preserved.                             *)
(***************************************************************************)
LEMMA SharedInvInit == Init => SharedInv
PROOF
<1> SUFFICES ASSUME Init PROVE SharedInv
  OBVIOUS
<1>1. SharedTypeOK
  BY Names DEF Init, SharedTypeOK
<1>2. Obtained /\ SharedRun
  BY DEF Init, Obtained, SharedRun
<1> QED
  BY <1>1, <1>2 DEF SharedInv

LEMMA SharedInvCreate == SharedInv /\ NewController => SharedInv'
PROOF
<1> SUFFICES ASSUME SharedInv, NewController PROVE SharedInv'
  OBVIOUS
<1> DEFINE c == Controller[created']
           own == [k \in Kind |-> IF k \in Uses[c] THEN InformerFor(k) ELSE 0]
<1>1. /\ created \in 0 .. 3 /\ created < 3 /\ created' = created + 1
      /\ created' \in 1 .. 3
  BY Names DEF SharedInv, SharedTypeOK, NewController
<1>2. c \in Runners /\ Uses[c] \subseteq Kind
  BY <1>1, Names, KindsUsed
<1>3. own \in [Kind -> Nat] /\ \A k \in Uses[c] : own[k] = InformerFor(k)
  BY <1>2 DEF InformerFor, SharedInv, SharedTypeOK
<1>4. /\ holds' = [holds EXCEPT ![c] = own]
      /\ informer' = [k \in Kind |-> IF k \in Uses[c] THEN own[k] ELSE informer[k]]
      /\ UNCHANGED running
  BY DEF NewController
<1> HIDE DEF c, own
<1>5. informer' \in [Kind -> Nat] /\ holds' \in [Runners -> [Kind -> Nat]]
  BY <1>2, <1>3, <1>4 DEF SharedInv, SharedTypeOK
<1>6. \A k \in Kind : informer[k] # 0 => informer'[k] = informer[k]
  BY <1>3, <1>4 DEF InformerFor
<1>7. \A k \in Uses[c] : informer'[k] # 0 /\ holds'[c][k] = informer'[k]
  BY <1>2, <1>3, <1>4 DEF InformerFor, SharedInv, SharedTypeOK
<1>8. ASSUME NEW i \in 1 .. created', NEW k \in Uses[Controller[i]]
      PROVE  informer'[k] # 0 /\ holds'[Controller[i]][k] = informer'[k]
  <2>1. CASE i = created'
    BY <1>7, <2>1 DEF c
  <2>2. CASE i \in 1 .. created
    <3>1. i \in 1 .. 3 /\ i # created' /\ Controller[i] \in Runners
      BY <1>1, <2>2, Names
    <3>2. Controller[i] # c
      BY <1>1, <3>1, Names DEF c
    <3>3. holds'[Controller[i]] = holds[Controller[i]]
      BY <1>4, <3>1, <3>2 DEF SharedInv, SharedTypeOK
    <3>4. informer[k] # 0 /\ holds[Controller[i]][k] = informer[k] /\ k \in Kind
      BY <2>2, <3>1, KindsUsed DEF SharedInv, Obtained
    <3> QED
      BY <1>6, <3>3, <3>4
  <2> QED
    BY <1>1, <2>1, <2>2
<1>9. SharedRun'
  BY <1>4, <1>6 DEF SharedInv, SharedRun
<1> QED
  BY <1>1, <1>5, <1>8, <1>9, Names DEF SharedInv, SharedTypeOK, Obtained

LEMMA SharedInvStart ==
  ASSUME SharedInv, NEW f \in Factory, Start(f), UNCHANGED <<created, informer, holds>>
  PROVE  SharedInv'
PROOF
<1> DEFINE kinds == {k \in Kinds[f] : informer[k] # 0 /\ k \notin started}
<1>1. running' = running \cup {<<k, informer[k]>> : k \in kinds}
  BY DEF Start
<1>2. \A k \in kinds : k \in Kind /\ informer[k] # 0
  BY KindsUsed
<1>3. SharedRun'
  BY <1>1, <1>2 DEF SharedInv, SharedRun
<1> QED
  BY <1>3 DEF SharedInv, SharedTypeOK, Obtained

LEMMA SharedInvElsewhere ==
  SharedInv /\ UNCHANGED <<created, informer, holds, running>> => SharedInv'
PROOF BY DEF SharedInv, SharedTypeOK, Obtained, SharedRun

LEMMA SharedInvNext == SharedInv /\ [Next]_vars => SharedInv'
PROOF
<1> SUFFICES ASSUME SharedInv, [Next]_vars PROVE SharedInv'
  OBVIOUS
<1>1. CASE NewController
  BY <1>1, SharedInvCreate
<1>2. CASE Spawn \/ MainRunsClient \/ MainStops \/ Receive \/ Close \/ Exit
  BY <1>2, SharedInvElsewhere
     DEF Spawn, MainRunsClient, MainStops, Receive, Close, Exit, informerVars
<1>3. ASSUME NEW f \in Factory, StartFactory(f) PROVE SharedInv'
  BY <1>3, SharedInvStart DEF StartFactory
<1>4. ASSUME NEW i \in running, FillCache(i) PROVE SharedInv'
  BY <1>4, SharedInvElsewhere DEF FillCache
<1>5. CASE Signal \/ RunClient \/ ServerFails
  BY <1>5, SharedInvElsewhere DEF Signal, RunClient, ServerFails, informerVars
<1>6. ASSUME NEW c \in Runners, RunController(c) PROVE SharedInv'
  BY <1>6, SharedInvElsewhere DEF RunController, informerVars
<1>7. ASSUME NEW g \in Routine, Send(g) PROVE SharedInv'
  BY <1>7, SharedInvElsewhere DEF Send, informerVars
<1>8. CASE UNCHANGED vars
  BY <1>8, SharedInvElsewhere DEF vars, informerVars
<1> QED
  BY <1>1, <1>2, <1>3, <1>4, <1>5, <1>6, <1>7, <1>8 DEF Next, MainNext

\* Every controller reads the informers that the factories start, and no
\* other informer of a kind runs beside them, whichever of the goroutines of
\* the program comes first (InformerFor, Start).
THEOREM CachesAreShared == Spec => []CachesShared
PROOF
<1>1. SharedInv => CachesShared
  BY DEF SharedInv, Obtained, SharedRun, CachesShared
<1> QED
  BY <1>1, SharedInvInit, SharedInvNext, PTL DEF Spec
=============================================================================
