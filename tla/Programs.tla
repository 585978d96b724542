------------------------------- MODULE Programs -------------------------------
(***************************************************************************)
(* The goroutines of the two programs, from their start to their end       *)
(* (cmd/k8cc-controller/main.go, cmd/k8cc-api/main.go): the informers are  *)
(* made by the controllers and started by the shared client, the           *)
(* controllers wait for them, and whatever ends sends an error on a        *)
(* channel of which main receives one.  A Go program ends with its main    *)
(* goroutine, or with the first panic.                                     *)
(***************************************************************************)
EXTENDS Naturals, Sequences

Program    == {"k8cc-controller", "k8cc-api"}
Controller == <<"distcc", "distccclaim", "distccclientclaim">>
Factory    == {"kube", "k8cc"}

Kinds == [kube |-> {"Deployment", "Service"},
          k8cc |-> {"Distcc", "DistccClaim", "DistccClient", "DistccClientClaim"}]
Kind  == Kinds.kube \cup Kinds.k8cc

\* The kinds each NewController takes a lister of, and waits for.
Uses ==
  [distcc            |-> {"Deployment", "Service", "Distcc", "DistccClaim"},
   distccclaim       |-> {"Distcc", "DistccClaim"},
   distccclientclaim |-> {"Deployment", "Service", "DistccClient", "DistccClientClaim"}]

\* The goroutines of main that send on errs.
Runners == {Controller[i] : i \in 1 .. Len(Controller)}
Senders ==
  [p \in Program |-> {"signal"} \cup IF p = "k8cc-api" THEN {"client", "http"} ELSE Runners]
Routine == {"signal", "client", "http"} \cup Runners

VARIABLES
  program,   \* which of the two this is
  main,      \* the position of main
  created,   \* how many controllers main has created
  routine,   \* routine[g]: the position of the goroutines of main
  factory,   \* factory[f]: the goroutine that starts the informers of f
  informer,  \* informer[k]: which informer of kind k the factory has, 0 for none
  holds,     \* holds[c][k]: which one the controller c reads and waits for
  started,   \* the kinds whose informer has been started
  running,   \* the informers that run
  synced,    \* the informers whose cache has been filled
  stopped,   \* whether stopCh is closed
  errs,      \* how many errors are buffered in errs
  closed     \* whether errs is closed

informerVars == <<informer, holds, started, running, synced>>
vars == <<program, main, created, routine, factory, informerVars, stopped, errs, closed>>

ErrsCap == 1

Init ==
  /\ program \in Program
  /\ main = "create" /\ created = 0
  /\ routine = [g \in Routine |-> "none"]
  /\ factory = [f \in Factory |-> "none"]
  /\ informer = [k \in Kind |-> 0]
  /\ holds = [c \in Runners |-> [k \in Kind |-> 0]]
  /\ started = {} /\ running = {} /\ synced = {}
  /\ stopped = FALSE
  /\ errs = 0 /\ closed = FALSE

Alive == main \notin {"exited", "panicked"}
Move(g, pc) == routine' = [routine EXCEPT ![g] = pc]

(***************************************************************************)
(* The informers.                                                          *)
(***************************************************************************)
\* Mutant: nobody asks whether there is one already.
InformerForAnew(k) == informer[k] + 1
InformerFor(k)     == IF informer[k] = 0 THEN 1 ELSE informer[k]

\* Mutant: the condition is the wrong way round.
StartAgain(f) ==
  LET kinds == {k \in Kinds[f] : informer[k] # 0 /\ k \in started}
  IN  /\ started' = started \cup kinds
      /\ running' = running \cup {<<k, informer[k]>> : k \in kinds}
Start(f) ==
  LET kinds == {k \in Kinds[f] : informer[k] # 0 /\ k \notin started}
  IN  /\ started' = started \cup kinds
      /\ running' = running \cup {<<k, informer[k]>> : k \in kinds}

StartFactory(f) ==
  /\ Alive /\ factory[f] = "start"
  /\ Start(f)
  /\ factory' = [factory EXCEPT ![f] = "gone"]
  /\ UNCHANGED <<program, main, created, routine, informer, holds, synced,
                 stopped, errs, closed>>

FillCache(i) ==
  /\ Alive /\ i \in running \ synced
  /\ synced' = synced \cup {i}
  /\ UNCHANGED <<program, main, created, routine, factory, informer, holds, started,
                 running, stopped, errs, closed>>

(***************************************************************************)
(* main.  The shared client is run by main in one program, and by a        *)
(* goroutine in the other.                                                 *)
(***************************************************************************)
NewController ==
  /\ main = "create" /\ program = "k8cc-controller" /\ created < Len(Controller)
  /\ created' = created + 1
  /\ LET c == Controller[created']
         own == [k \in Kind |-> IF k \in Uses[c] THEN InformerFor(k) ELSE 0]
     IN  /\ holds' = [holds EXCEPT ![c] = own]
         /\ informer' = [k \in Kind |-> IF k \in Uses[c] THEN own[k] ELSE informer[k]]
  /\ UNCHANGED <<program, main, routine, factory, started, running, synced,
                 stopped, errs, closed>>

Spawn ==
  /\ main = "create"
  /\ program = "k8cc-controller" => created = Len(Controller)
  /\ main' = IF program = "k8cc-controller" THEN "client" ELSE "receive"
  /\ routine' = [g \in Routine |-> IF g \in Senders[program] THEN "start" ELSE "none"]
  /\ UNCHANGED <<program, created, factory, informerVars, stopped, errs, closed>>

StartFactories == factory' = [f \in Factory |-> "start"]

MainRunsClient ==
  /\ main = "client"
  /\ StartFactories
  /\ main' = "wait"
  /\ UNCHANGED <<program, created, routine, informerVars, stopped, errs, closed>>

\* Mutant: the shared client returns an error when it is stopped.
MainSendsError ==
  /\ main = "wait" /\ stopped /\ errs < ErrsCap
  /\ errs' = errs + 1
  /\ main' = "receive"
  /\ UNCHANGED <<program, created, routine, factory, informerVars, stopped, closed>>

\* sharedClient.Run returns nil, and there is nothing to send.
MainStops ==
  /\ main = "wait" /\ stopped
  /\ main' = "receive"
  /\ UNCHANGED <<program, created, routine, factory, informerVars, stopped, errs, closed>>

\* Mutant: main does not wait for an error.
ReceiveNothing ==
  /\ main = "receive"
  /\ main' = "return"
  /\ UNCHANGED <<program, created, routine, factory, informerVars, stopped, errs, closed>>

Receive ==
  /\ main = "receive" /\ errs > 0
  /\ errs' = errs - 1
  /\ main' = "return"
  /\ UNCHANGED <<program, created, routine, factory, informerVars, stopped, closed>>

\* The deferred close(errs).
Close ==
  /\ main = "return"
  /\ closed' = TRUE
  /\ main' = "closed"
  /\ UNCHANGED <<program, created, routine, factory, informerVars, stopped, errs>>

Exit ==
  /\ main = "closed"
  /\ main' = "exited"
  /\ UNCHANGED <<program, created, routine, factory, informerVars, stopped, errs, closed>>

MainNext ==
  NewController \/ Spawn \/ MainRunsClient \/ MainStops \/ Receive \/ Close \/ Exit

(***************************************************************************)
(* The goroutines that send on errs.                                       *)
(***************************************************************************)
Signal ==
  /\ Alive /\ routine["signal"] = "start"
  /\ stopped' = TRUE
  /\ Move("signal", "send")
  /\ UNCHANGED <<program, main, created, factory, informerVars, errs, closed>>

\* Run of the controller kit: WaitForCacheSync, and then the workers.
Synced(c) == \A k \in Uses[c] : <<k, holds[c][k]>> \in synced

RunController(c) ==
  /\ Alive
  /\ \/ routine[c] = "start" /\ Synced(c) /\ Move(c, "work")
     \/ routine[c] \in {"start", "work"} /\ stopped /\ Move(c, "send")
  /\ UNCHANGED <<program, main, created, factory, informerVars, stopped, errs, closed>>

RunClient ==
  /\ Alive
  /\ \/ routine["client"] = "start" /\ StartFactories /\ Move("client", "wait")
     \/ routine["client"] = "wait" /\ stopped /\ Move("client", "send") /\ UNCHANGED factory
  /\ UNCHANGED <<program, main, created, informerVars, stopped, errs, closed>>

\* The address is in use, or the listener fails; stopCh is not looked at.
ServerFails ==
  /\ Alive /\ routine["http"] = "start"
  /\ Move("http", "send")
  /\ UNCHANGED <<program, main, created, factory, informerVars, stopped, errs, closed>>

Send(g) ==
  /\ Alive /\ routine[g] = "send"
  /\ \/ /\ closed  \* this panics
        /\ main' = "panicked"
        /\ UNCHANGED <<routine, errs>>
     \/ /\ ~ closed /\ errs < ErrsCap
        /\ errs' = errs + 1
        /\ Move(g, "gone")
        /\ UNCHANGED main
  /\ UNCHANGED <<program, created, factory, informerVars, stopped, closed>>

Next ==
  \/ MainNext
  \/ \E f \in Factory : StartFactory(f)
  \/ \E i \in running : FillCache(i)
  \/ Signal
  \/ \E c \in Runners : RunController(c)
  \/ RunClient
  \/ ServerFails
  \/ \E g \in Routine : Send(g)

Spec == Init /\ [][Next]_vars

\* Goroutines that can go on do, and informers get their list, which takes
\* an API server that can be reached and has the resource definitions.
\* Nothing makes a signal arrive or the server fail.
FairSpec ==
  /\ Spec
  /\ WF_vars(MainNext)
  /\ WF_vars(RunClient)
  /\ \A f \in Factory : WF_vars(StartFactory(f))
  /\ \A k \in Kind : WF_vars(\E i \in running : i[1] = k /\ FillCache(i))
  /\ \A c \in Runners : WF_vars(RunController(c))
  /\ \A g \in Routine : WF_vars(Send(g))

(***************************************************************************)
(* Properties.                                                             *)
(***************************************************************************)
\* A controller reads and waits for the informers that its factories know
\* of and start, also when another controller has asked for them before or
\* asks for them later, and no other informer of a kind runs beside the one
\* that they share (InformerFor, Start).
CachesShared ==
  /\ \A i \in 1 .. created :
       \A k \in Uses[Controller[i]] : holds[Controller[i]][k] = informer[k]
  /\ \A i \in running : i[2] = informer[i[1]]

\* The process only ends after a signal or a failure of the HTTP server,
\* and so does everything that could panic: nothing is sent on the closed
\* channel while the program has work to do (main).
EndsForAReason ==
  ~ Alive => stopped \/ routine["http"] \in {"send", "gone"}

\* All three controllers get to work unless they are stopped before, though
\* their informers are started concurrently, by two factories, once.
ControllersRun ==
  program = "k8cc-controller" =>
    <>(stopped \/ \A c \in Runners : routine[c] = "work")

\* After a signal or a failure of the HTTP server the process ends, though
\* several goroutines send on a channel of which main receives one error.
Ends == (stopped \/ routine["http"] = "send") ~> ~ Alive
=============================================================================
