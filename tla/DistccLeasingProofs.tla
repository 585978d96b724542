------------------------- MODULE DistccLeasingProofs -------------------------
(***************************************************************************)
(* Proofs about DistccLeasing, for any number of claims, requests and      *)
(* controller processes, any lease durations and any bound.                *)
(***************************************************************************)
EXTENDS DistccLeasing, SequenceTheorems, TLAPS

Value == DistccClaim \cup {Absent}

(***************************************************************************)
(* Stored timestamps lose less than a second.                              *)
(***************************************************************************)
LEMMA ToKubeTimeTruncates ==
  ASSUME NEW t \in Time
  PROVE  /\ ToKubeTime(t) \in Time
         /\ ToKubeTime(t) <= t
         /\ t < ToKubeTime(t) + SecondTicks
PROOF BY SecondAssumption DEF ToKubeTime, Time

(***************************************************************************)
(* A write appends one version and keeps those before.                     *)
(***************************************************************************)
LEMMA PutAppends ==
  ASSUME StoreTypeOK, NEW c \in Claim, NEW v \in Value, Put(c, v)
  PROVE  /\ StoreTypeOK'
         /\ Version(c)' = Version(c) + 1
         /\ Stored(c)' = v
         /\ \A d \in Claim : Version(d)' >= Version(d)
         /\ \A d \in Claim : d # c => history'[d] = history[d]
         /\ \A d \in Claim : \A i \in 1 .. Version(d) : history'[d][i] = history[d][i]
PROOF
<1>1. history \in [Claim -> Seq(Value)]
  BY DEF StoreTypeOK, Value
<1>2. history'[c] = Append(history[c], v) /\ \A d \in Claim : d # c => history'[d] = history[d]
  BY <1>1 DEF Put
<1>3. history' \in [Claim -> Seq(Value)]
  BY <1>1, AppendProperties DEF Put
<1>4. /\ Len(history'[c]) = Len(history[c]) + 1
      /\ history'[c][Len(history'[c])] = v
      /\ \A i \in 1 .. Len(history[c]) : history'[c][i] = history[c][i]
      /\ Len(history[c]) \in Nat
  BY <1>1, <1>2, AppendProperties
<1>5. \A d \in Claim : Version(d)' > 0 /\ Version(d)' >= Version(d)
  BY <1>1, <1>2, <1>4 DEF Version, StoreTypeOK
<1>6. now' \in Time /\ dhist' \in Seq(Distcc \cup {Absent}) /\ Len(dhist') > 0
  BY DEF Put, StoreTypeOK
<1> QED
  BY <1>2, <1>3, <1>4, <1>5, <1>6 DEF StoreTypeOK, Value, Version, Stored

\* What a step does to the store: versions are only ever added.
HistoryGrows ==
  \A c \in Claim :
    /\ Version(c)' >= Version(c)
    /\ \A i \in 1 .. Version(c) : history'[c][i] = history[c][i]

LEMMA UnchangedKeepsStore ==
  ASSUME StoreTypeOK, UNCHANGED history
  PROVE  HistoryGrows
PROOF BY DEF HistoryGrows, Version, StoreTypeOK

LEMMA StoredIsValue ==
  ASSUME StoreTypeOK, NEW c \in Claim
  PROVE  /\ Version(c) \in Nat \ {0}
         /\ \A i \in 1 .. Version(c) : history[c][i] \in Value
         /\ Stored(c) \in Value
         /\ Exists(Stored(c)) => Stored(c) \in DistccClaim
PROOF
<1>1. history[c] \in Seq(Value) /\ Len(history[c]) > 0
  BY DEF StoreTypeOK, Value, Version
<1>2. Len(history[c]) \in Nat /\ \A i \in 1 .. Len(history[c]) : history[c][i] \in Value
  BY <1>1, LenProperties, ElementOfSeq
<1> QED
  BY <1>1, <1>2 DEF Version, Stored, Value, Exists

LEMMA DistccIsValue ==
  ASSUME StoreTypeOK
  PROVE  /\ Len(dhist) \in Nat \ {0}
         /\ \A i \in 1 .. Len(dhist) : dhist[i] \in Distcc \cup {Absent}
PROOF BY LenProperties, ElementOfSeq DEF StoreTypeOK

(***************************************************************************)
(* TypeOK is not inductive: a request that creates a claim copies the      *)
(* labels of the Distcc it read, so the proof has to know that there was   *)
(* one, and which requests are in which phase.                             *)
(***************************************************************************)
HoldsDistcc(q) ==
  /\ q.pc = "delete" => q.op = "delete"
  /\ q.pc \in {"getDistcc", "getClaim", "create", "update"} => q.op = "lease"
  /\ q.pc \in {"getClaim", "create", "update", "reply"} /\ q.op = "lease"
       => q.distcc \in Distcc

TypeInv == TypeOK /\ \A r \in Request : HoldsDistcc(req[r])

LEMMA TypeInit == Init => TypeInv
PROOF
<1> SUFFICES ASSUME Init PROVE TypeInv
  OBVIOUS
<1> USE DEF Init
<1>1. StoreTypeOK
  <2>1. <<Absent>> \in Seq(Value) /\ Len(<<Absent>>) = 1
    BY DEF Value
  <2>2. \A c \in Claim : history[c] = <<Absent>>
    BY DEF StoreInit
  <2>3. \A c \in Claim : history[c] \in Seq(Value) /\ Version(c) > 0
    <3> SUFFICES ASSUME NEW c \in Claim PROVE history[c] \in Seq(Value) /\ Version(c) > 0
      OBVIOUS
    <3>1. history[c] = <<Absent>>
      BY <2>2
    <3>2. Len(history[c]) = 1
      BY <3>1
    <3> QED
      BY <2>1, <3>1, <3>2 DEF Version
  <2>4. dhist \in Seq(Distcc \cup {Absent}) /\ Len(dhist) > 0
    BY DEF StoreInit
  <2> QED
    BY <2>3, <2>4 DEF StoreInit, StoreTypeOK, Value, Time
<1>2. ControllerTypeOK
  <2>1. ASSUME NEW c \in Claim PROVE 1 \in 1 .. Version(c)
    <3>1. Version(c) \in Nat \ {0}
      BY <1>1, StoredIsValue
    <3> QED
      BY <3>1
  <2>2. 1 \in 1 .. Len(dhist)
    BY <1>1, DistccIsValue
  <2> QED
    BY <2>1, <2>2, RestartsAssumption
    DEF ControllerInit, ControllerTypeOK, Idle, SyncState
<1>3. ServiceTypeOK /\ \A r \in Request : HoldsDistcc(req[r])
  BY StepsAssumption
  DEF ServiceInit, ServiceTypeOK, RequestState, PC, Error, Nil, Plain, HoldsDistcc
<1> QED
  BY <1>1, <1>2, <1>3 DEF TypeInv, TypeOK

(***************************************************************************)
(* The store through one step: five actions write a claim, the clock and   *)
(* the Distcc change by themselves, nothing else changes it.               *)
(***************************************************************************)
StoreGoesOn == StoreTypeOK' /\ HistoryGrows /\ Len(dhist)' >= Len(dhist)

LEMMA PutGoesOn ==
  ASSUME StoreTypeOK, NEW c \in Claim, NEW v \in Value, Put(c, v)
  PROVE  StoreGoesOn
PROOF
<1>1. dhist' = dhist /\ Len(dhist) \in Nat
  BY DistccIsValue DEF Put
<1> QED
  BY <1>1, PutAppends DEF StoreGoesOn, HistoryGrows

LEMMA SameStoreGoesOn ==
  ASSUME StoreTypeOK, UNCHANGED storeVars
  PROVE  StoreGoesOn
PROOF
<1>1. Len(dhist) \in Nat
  BY DistccIsValue
<1> QED
  BY <1>1, UnchangedKeepsStore
  DEF StoreGoesOn, StoreTypeOK, storeVars, Version

LEMMA EnvironmentStep ==
  ASSUME TypeInv, Environment
  PROVE  StoreGoesOn
PROOF
<1>1. StoreTypeOK /\ HistoryGrows
  BY UnchangedKeepsStore DEF TypeInv, TypeOK, Environment, Tick, EditDistcc
<1>2. Len(dhist) \in Nat /\ dhist \in Seq(Distcc \cup {Absent}) /\ now \in Nat
  BY <1>1, DistccIsValue DEF StoreTypeOK, Time
<1>3. CASE Tick
  BY <1>1, <1>2, <1>3 DEF Tick, StoreGoesOn, StoreTypeOK, Version, Time
<1>4. CASE EditDistcc
  <2>1. PICK d \in Distcc \cup {Absent} : dhist' = Append(dhist, d)
    BY <1>4 DEF EditDistcc
  <2>2. dhist' \in Seq(Distcc \cup {Absent}) /\ Len(dhist') = Len(dhist) + 1
    BY <1>2, <2>1, AppendProperties
  <2> QED
    BY <1>1, <1>2, <1>4, <2>2 DEF EditDistcc, StoreGoesOn, StoreTypeOK, Version
<1> QED
  BY <1>3, <1>4 DEF Environment

LEMMA ControllerStoreStep ==
  ASSUME TypeInv, ControllerNext
  PROVE  StoreGoesOn
PROOF
<1>1. StoreTypeOK /\ ControllerTypeOK
  BY DEF TypeInv, TypeOK
<1>2. CASE UNCHANGED storeVars
  BY <1>1, <1>2, SameStoreGoesOn
<1>3. ASSUME NEW k \in Controller, NEW c \in Claim, SyncDelete(k, c)
      PROVE  StoreGoesOn
  BY <1>1, <1>3, PutGoesOn DEF SyncDelete, Value
<1>4. ASSUME NEW k \in Controller, NEW c \in Claim, SyncUpdate(k, c)
      PROVE  StoreGoesOn
  <2>1. Stored(c) \in DistccClaim /\ sync[k][c].exp \in Time \cup {Unset}
    BY <1>1, <1>4, StoredIsValue DEF SyncUpdate, CanUpdate, ControllerTypeOK, SyncState
  <2>2. [Stored(c) EXCEPT !.exp = sync[k][c].exp] \in Value
    BY <2>1 DEF DistccClaim, Value
  <2> QED
    BY <1>1, <1>4, <2>2, PutGoesOn DEF SyncUpdate
<1> QED
  BY <1>2, <1>3, <1>4
  DEF ControllerNext, ControllerStep, WatchClaim, WatchDistcc, ControllerRestart,
      SyncExpired, SyncRenew, StartCall, SyncFails, storeVars

LEMMA ServiceStoreStep ==
  ASSUME TypeInv, NEW r \in Request, ServiceStep(r)
  PROVE  StoreGoesOn
PROOF
<1>1. StoreTypeOK /\ HoldsDistcc(req[r]) /\ req[r] \in RequestState
  BY DEF TypeInv, TypeOK, ServiceTypeOK
<1>2. ClaimOf(r) \in Claim
  BY <1>1 DEF ClaimOf, RequestState
<1>3. CASE UNCHANGED storeVars
  BY <1>1, <1>3, SameStoreGoesOn
<1>4. CASE CreateClaim(r)
  <2>1. [exp |-> Unset, labels |-> req[r].distcc.labels] \in Value
    BY <1>1, <1>4 DEF CreateClaim, HoldsDistcc, Distcc, DistccClaim, Value
  <2> QED
    BY <1>1, <1>2, <1>4, <2>1, PutGoesOn DEF CreateClaim, NewDistccClaim, Write
<1>5. CASE UpdateClaim(r)
  <2>1. Stored(ClaimOf(r)) \in DistccClaim
    BY <1>1, <1>2, <1>5, StoredIsValue DEF UpdateClaim, CanUpdate
  <2>2. [Stored(ClaimOf(r)) EXCEPT !.exp = Unset] \in Value
    BY <2>1 DEF DistccClaim, Value
  <2> QED
    BY <1>1, <1>2, <1>5, <2>2, PutGoesOn DEF UpdateClaim, Write
<1>6. CASE DeleteClaim(r)
  BY <1>1, <1>2, <1>6, PutGoesOn DEF DeleteClaim, Write, Value
<1> QED
  BY <1>3, <1>4, <1>5, <1>6
  DEF ServiceStep, RequestStep, LeaseDistcc, DeleteDistcc, Arrive, ServiceCrash,
      GetDistcc, GetClaim, DeleteFindsNothing, AttemptFails, Reply

LEMMA StoreStep ==
  ASSUME TypeInv, [Next]_vars
  PROVE  StoreGoesOn
PROOF
<1>1. CASE UNCHANGED vars
  BY <1>1, SameStoreGoesOn DEF vars, TypeInv, TypeOK
<1> QED
  BY <1>1, EnvironmentStep, ControllerStoreStep, ServiceStoreStep DEF Next

(***************************************************************************)
(* The controller's variables.                                             *)
(***************************************************************************)
LEMMA CachedIsValue ==
  ASSUME TypeInv, NEW k \in Controller, NEW c \in Claim
  PROVE  /\ Cached(k, c) \in Value
         /\ CachedDistcc(k) \in Distcc \cup {Absent}
PROOF
<1>1. seen[k][c] \in 1 .. Version(c) /\ dseen[k] \in 1 .. Len(dhist)
  BY DEF TypeInv, TypeOK, ControllerTypeOK
<1> QED
  BY <1>1, StoredIsValue, DistccIsValue
  DEF Cached, CachedDistcc, TypeInv, TypeOK

LEMMA NewExpirationIsTime ==
  ASSUME TypeInv, NEW k \in Controller, NEW c \in Claim, CanSync(k, c)
  PROVE  /\ Cached(k, c) \in DistccClaim
         /\ CachedDistcc(k).lease \in LeaseDuration
         /\ now + CachedDistcc(k).lease \in Time
         /\ NewExpiration(k, c) \in Time
PROOF
<1>1. Cached(k, c) \in DistccClaim /\ CachedDistcc(k) \in Distcc
  BY CachedIsValue DEF CanSync, Accepts, Exists, Value
<1>2. Cached(k, c).exp \in Time \cup {Unset} /\ CachedDistcc(k).lease \in LeaseDuration
  BY <1>1 DEF DistccClaim, Distcc
<1>3. now + CachedDistcc(k).lease \in Time
  <2>1. now \in Nat /\ CachedDistcc(k).lease \in Nat
    BY <1>2, LeaseAssumption DEF TypeInv, TypeOK, StoreTypeOK, Time
  <2> QED
    BY <2>1 DEF Time
<1> QED
  BY <1>1, <1>2, <1>3, ToKubeTimeTruncates DEF NewExpiration, UpdateExpiration

LEMMA ControllerTypeStep ==
  ASSUME TypeInv, [Next]_vars
  PROVE  ControllerTypeOK'
PROOF
<1>1. /\ ControllerTypeOK /\ StoreTypeOK
      /\ Len(dhist) \in Nat /\ Len(dhist)' \in Nat /\ Len(dhist)' >= Len(dhist)
      /\ \A c \in Claim : /\ Version(c) \in Nat /\ Version(c)' \in Nat
                          /\ Version(c)' >= Version(c)
  <2>1. StoreTypeOK /\ ControllerTypeOK /\ StoreGoesOn
    BY StoreStep DEF TypeInv, TypeOK
  <2>2. StoreTypeOK'
    BY <2>1 DEF StoreGoesOn
  <2>3. \A c \in Claim : Version(c) \in Nat
    BY <2>1, StoredIsValue
  <2>4. history' \in [Claim -> Seq(Value)] /\ dhist' \in Seq(Distcc \cup {Absent})
    BY <2>2 DEF StoreTypeOK, Value
  <2>5. \A c \in Claim : Len(history'[c]) \in Nat
    BY <2>4, LenProperties
  <2>6. Len(dhist') \in Nat
    BY <2>4, LenProperties
  <2> QED
    BY <2>1, <2>3, <2>5, <2>6, DistccIsValue DEF StoreGoesOn, HistoryGrows, Version
<1>2. CASE UNCHANGED controllerVars
  BY <1>1, <1>2 DEF controllerVars, ControllerTypeOK
<1>3. ASSUME NEW k \in Controller, WatchDistcc(k) PROVE ControllerTypeOK'
  BY <1>1, <1>3 DEF WatchDistcc, storeVars, ControllerTypeOK, Version
<1>4. ASSUME NEW k \in Controller, ControllerRestart(k) PROVE ControllerTypeOK'
  <2>1. PICK snapshot \in Snapshots : seen' = [seen EXCEPT ![k] = snapshot]
    BY <1>4 DEF ControllerRestart
  <2>2. /\ snapshot \in [Claim -> Nat]
        /\ \A c \in Claim : snapshot[c] \in 1 .. Version(c)
    BY <1>1, <2>1 DEF Snapshots
  <2>3. /\ seen' \in [Controller -> [Claim -> Nat]]
        /\ \A j \in Controller, c \in Claim : seen'[j][c] \in 1 .. Version(c)
    BY <1>1, <2>1, <2>2 DEF ControllerTypeOK
  <2>4. dseen' \in [Controller -> 1 .. Len(dhist)]
    BY <1>1, <1>4 DEF ControllerRestart, ControllerTypeOK
  <2>5. sync' \in [Controller -> [Claim -> SyncState]]
    BY <1>1, <1>4 DEF ControllerRestart, ControllerTypeOK, Idle, SyncState
  <2>6. restarts' \in 0 .. MaxRestarts
    BY <1>1, <1>4, RestartsAssumption DEF ControllerRestart, ControllerTypeOK
  <2> QED
    BY <1>4, <2>3, <2>4, <2>5, <2>6
    DEF ControllerRestart, ControllerTypeOK, storeVars, Version
<1>5. ASSUME NEW k \in Controller, NEW c \in Claim, WatchClaim(k, c)
      PROVE  ControllerTypeOK'
  BY <1>1, <1>5 DEF WatchClaim, storeVars, ControllerTypeOK, Version
<1>6. ASSUME NEW k \in Controller, NEW c \in Claim,
             SyncExpired(k, c) \/ SyncRenew(k, c)
      PROVE  ControllerTypeOK'
  <2>1. CanSync(k, c) /\ \E call \in {"delete", "update"} : StartCall(k, c, call)
    BY <1>6 DEF SyncExpired, SyncRenew
  <2>2. NewExpiration(k, c) \in Time /\ seen[k][c] \in Nat
    BY <1>1, <2>1, NewExpirationIsTime DEF ControllerTypeOK
  <2>3. sync' \in [Controller -> [Claim -> SyncState]]
    BY <1>1, <2>1, <2>2 DEF StartCall, ControllerTypeOK, SyncState
  <2> QED
    BY <1>1, <2>1, <2>3 DEF StartCall, ControllerTypeOK, storeVars, Version
<1>7. ASSUME NEW k \in Controller, NEW c \in Claim, EndSync(k, c)
      PROVE  ControllerTypeOK'
  <2>1. sync' \in [Controller -> [Claim -> SyncState]]
    BY <1>1, <1>7 DEF EndSync, ControllerTypeOK, SyncState, Idle
  <2> QED
    BY <1>1, <1>7, <2>1 DEF EndSync, ControllerTypeOK
<1> QED
  BY <1>2, <1>3, <1>4, <1>5, <1>6, <1>7
  DEF Next, Environment, ControllerNext, ControllerStep, SyncDelete, SyncUpdate,
      SyncFails, vars, controllerVars

(***************************************************************************)
(* The requests.                                                           *)
(***************************************************************************)
GoodRequest(q) == q \in RequestState /\ HoldsDistcc(q)

LEMMA DoneIsGood ==
  ASSUME NEW q \in RequestState, NEW e \in Error
  PROVE  GoodRequest(Done(q, e)) /\ Done(q, e).op = q.op
PROOF
<1>1. 1 \in 1 .. Steps /\ 0 \in Nat
  BY StepsAssumption
<1>2. Done(q, e) \in RequestState
  BY <1>1 DEF Done, RequestState, PC
<1>3. Done(q, e).pc = "done" /\ Done(q, e).op = q.op
  BY DEF Done, RequestState
<1> QED
  BY <1>2, <1>3 DEF GoodRequest, HoldsDistcc

LEMMA FailIsGood ==
  ASSUME NEW q \in RequestState,
         NEW cause \in {"ErrCanceled", "ErrNotFound", "NotFound", "ErrWaitTimeout"}
  PROVE  GoodRequest(Fail(q, cause))
PROOF
<1>1. [cause |-> cause, wrapped |-> q.pc = "getDistcc"] \in Error
  BY DEF Error
<1> QED
  BY <1>1, DoneIsGood DEF Fail

LEMMA RetryIsGood ==
  ASSUME NEW q, GoodRequest(q), q.pc \in PC \ {"new", "reply", "done"}
  PROVE  GoodRequest(Retry(q))
PROOF
<1>1. CASE q.attempt < Steps
  <2>1. q.attempt + 1 \in 1 .. Steps
    BY <1>1, StepsAssumption DEF GoodRequest, RequestState
  <2>2. FirstCall(q) \in PC
    BY DEF FirstCall, PC
  <2>3. [q EXCEPT !.attempt = @ + 1, !.pc = FirstCall(q)] \in RequestState
    BY <2>1, <2>2 DEF GoodRequest, RequestState
  <2>4. HoldsDistcc([q EXCEPT !.attempt = @ + 1, !.pc = FirstCall(q)])
    BY DEF GoodRequest, RequestState, FirstCall, PC, HoldsDistcc
  <2> QED
    BY <1>1, <2>3, <2>4 DEF Retry, GoodRequest
<1>2. CASE ~ (q.attempt < Steps)
  BY <1>2, FailIsGood DEF Retry, GoodRequest
<1> QED
  BY <1>1, <1>2

ServiceInv == ServiceTypeOK /\ \A r \in Request : HoldsDistcc(req[r])

LEMMA SetIsGood ==
  ASSUME ServiceInv, NEW r \in Request, NEW q, GoodRequest(q),
         req' = [req EXCEPT ![r] = q]
  PROVE  ServiceInv'
PROOF BY DEF ServiceInv, ServiceTypeOK, GoodRequest

LEMMA EndAttemptIsGood ==
  ASSUME ServiceInv, NEW r \in Request, NEW q, GoodRequest(q), EndAttempt(r, q)
  PROVE  ServiceInv'
PROOF
<1>1. CASE req' = [req EXCEPT ![r] = q]
  BY <1>1, SetIsGood
<1>2. CASE req' = [req EXCEPT ![r] = [Fail(@, "ErrCanceled") EXCEPT !.wrote = q.wrote]]
  <2> DEFINE f == Fail(req[r], "ErrCanceled")
  <2>1. GoodRequest(f)
    BY FailIsGood DEF ServiceInv, ServiceTypeOK
  <2>2. q.wrote \in Nat
    BY DEF GoodRequest, RequestState
  <2>3. GoodRequest([f EXCEPT !.wrote = q.wrote])
    <3> HIDE DEF f
    <3>1. [f EXCEPT !.wrote = q.wrote] \in RequestState
      BY <2>1, <2>2 DEF GoodRequest, RequestState
    <3> QED
      BY <2>1, <3>1 DEF GoodRequest, HoldsDistcc, RequestState
  <2>4. req' = [req EXCEPT ![r] = [f EXCEPT !.wrote = q.wrote]]
    BY <1>2
  <2> QED
    BY <2>3, <2>4, SetIsGood
<1> QED
  BY <1>1, <1>2 DEF EndAttempt

LEMMA WriteIsGood ==
  ASSUME TypeInv, NEW r \in Request, NEW v, Write(r, v),
         req[r].pc \in {"create", "update", "delete"}
  PROVE  ServiceInv'
PROOF
<1> DEFINE w == [req[r] EXCEPT !.wrote = Version(ClaimOf(r)) + 1]
           rep == [w EXCEPT !.pc = "reply"]
<1>1. ServiceInv /\ GoodRequest(req[r]) /\ Version(ClaimOf(r)) \in Nat
  BY StoredIsValue
  DEF TypeInv, TypeOK, ServiceInv, ServiceTypeOK, GoodRequest, ClaimOf, RequestState
<1>2. w \in RequestState /\ w.pc = req[r].pc
  BY <1>1 DEF GoodRequest, RequestState
<1>3. HoldsDistcc(w)
  BY <1>1 DEF GoodRequest, RequestState, HoldsDistcc
<1>4. rep \in RequestState /\ HoldsDistcc(rep)
  <2>1. rep \in RequestState
    BY <1>2 DEF RequestState, PC
  <2>2. rep.pc = "reply" /\ rep.op = w.op /\ rep.distcc = w.distcc
    BY <1>2 DEF RequestState
  <2> QED
    BY <1>2, <1>3, <2>1, <2>2 DEF HoldsDistcc, GoodRequest, RequestState
<1>5. GoodRequest(w) /\ GoodRequest(rep)
  BY <1>2, <1>3, <1>4 DEF GoodRequest
<1> HIDE DEF w
<1>6. GoodRequest(Retry(w))
  BY <1>2, <1>5, RetryIsGood DEF PC
<1>7. req' = [req EXCEPT ![r] = rep] \/ EndAttempt(r, Retry(w))
  BY DEF Write, w
<1> QED
  BY <1>1, <1>5, <1>6, <1>7, SetIsGood, EndAttemptIsGood

LEMMA ServiceTypeStep ==
  ASSUME TypeInv, NEW r \in Request, ServiceStep(r)
  PROVE  ServiceInv'
PROOF
<1>1. ServiceInv /\ GoodRequest(req[r]) /\ req[r] \in RequestState /\ StoreTypeOK
  BY DEF TypeInv, TypeOK, ServiceInv, ServiceTypeOK, GoodRequest
<1>2. ASSUME NEW op, NEW first, Arrive(r, op, first),
             <<op, first>> \in {<<"lease", "getDistcc">>, <<"delete", "delete">>}
      PROVE  ServiceInv'
  <2>1. PICK c \in Claim :
          req' = [req EXCEPT ![r] = [@ EXCEPT !.pc = first, !.op = op, !.claim = c,
                                              !.start = Version(c)]]
    BY <1>2 DEF Arrive
  <2> DEFINE q == [req[r] EXCEPT !.pc = first, !.op = op, !.claim = c,
                                 !.start = Version(c)]
  <2>2. Version(c) \in Nat
    BY <1>1, StoredIsValue
  <2>3. q \in RequestState
    BY <1>1, <1>2, <2>2 DEF RequestState, PC
  <2>4. q.pc = first /\ q.op = op
    BY <1>1 DEF RequestState
  <2>5. HoldsDistcc(q)
    BY <1>2, <2>4 DEF HoldsDistcc
  <2> QED
    BY <1>1, <2>1, <2>3, <2>5, SetIsGood DEF GoodRequest
<1>3. CASE ServiceCrash(r)
  <2>1. GoodRequest(Done(req[r], Plain("crashed")))
    BY <1>1, DoneIsGood DEF Plain, Error
  <2> QED
    BY <1>1, <1>3, <2>1, SetIsGood DEF ServiceCrash
<1>4. CASE GetDistcc(r)
  <2> DEFINE q == [req[r] EXCEPT !.pc = "getClaim", !.attempt = 1,
                                 !.distcc = StoredDistcc]
  <2>1. CASE Exists(StoredDistcc)
    <3>1. StoredDistcc \in Distcc
      BY <1>1, <2>1, DistccIsValue DEF StoredDistcc, Exists
    <3>2. 1 \in 1 .. Steps
      BY StepsAssumption
    <3>3. q \in RequestState
      BY <1>1, <3>1, <3>2 DEF RequestState, PC
    <3>4. HoldsDistcc(q)
      BY <1>1, <1>4, <3>1 DEF HoldsDistcc, GetDistcc, GoodRequest, RequestState
    <3> QED
      BY <1>1, <1>4, <2>1, <3>3, <3>4, EndAttemptIsGood DEF GetDistcc, GoodRequest
  <2>2. CASE ~ Exists(StoredDistcc)
    BY <1>1, <1>4, <2>2, FailIsGood, EndAttemptIsGood DEF GetDistcc
  <2> QED
    BY <2>1, <2>2
<1>5. CASE GetClaim(r)
  <2>1. PICK next \in {"create", "reply", "update"} :
          req' = [req EXCEPT ![r] = [@ EXCEPT !.pc = next, !.ver = Version(ClaimOf(r))]]
    BY <1>5 DEF GetClaim
  <2> DEFINE q == [req[r] EXCEPT !.pc = next, !.ver = Version(ClaimOf(r))]
  <2>2. Version(ClaimOf(r)) \in Nat
    BY <1>1, StoredIsValue DEF ClaimOf, RequestState
  <2>3. q \in RequestState
    BY <1>1, <2>2 DEF RequestState, PC
  <2>4. HoldsDistcc(q)
    BY <1>1, <1>5 DEF GetClaim, HoldsDistcc, GoodRequest, RequestState
  <2> QED
    BY <1>1, <2>1, <2>3, <2>4, SetIsGood DEF GoodRequest
<1>6. CASE CreateClaim(r)
  BY <1>6, WriteIsGood DEF CreateClaim
<1>7. CASE UpdateClaim(r)
  BY <1>7, WriteIsGood DEF UpdateClaim
<1>8. CASE DeleteClaim(r)
  BY <1>8, WriteIsGood DEF DeleteClaim
<1>9. CASE DeleteFindsNothing(r)
  BY <1>1, <1>9, FailIsGood, EndAttemptIsGood DEF DeleteFindsNothing
<1>10. CASE AttemptFails(r)
  <2>1. GoodRequest(Retry(req[r]))
    BY <1>1, <1>10, RetryIsGood DEF AttemptFails, PC
  <2> QED
    BY <1>1, <1>10, <2>1, EndAttemptIsGood DEF AttemptFails
<1>11. CASE Reply(r)
  <2>1. Nil \in Error
    BY DEF Nil, Plain, Error
  <2>2. GoodRequest(Done(req[r], Nil))
    BY <1>1, <2>1, DoneIsGood
  <2> QED
    BY <1>1, <1>11, <2>2, EndAttemptIsGood DEF Reply
<1> QED
  BY <1>2, <1>3, <1>4, <1>5, <1>6, <1>7, <1>8, <1>9, <1>10, <1>11
  DEF ServiceStep, RequestStep, LeaseDistcc, DeleteDistcc

LEMMA TypeStep == TypeInv /\ [Next]_vars => TypeInv'
PROOF
<1> SUFFICES ASSUME TypeInv, [Next]_vars PROVE TypeInv'
  OBVIOUS
<1>1. StoreTypeOK' /\ ControllerTypeOK'
  BY StoreStep, ControllerTypeStep DEF StoreGoesOn
<1>2. ServiceInv'
  <2>1. CASE UNCHANGED req
    BY <2>1 DEF TypeInv, TypeOK, ServiceInv, ServiceTypeOK
  <2>2. CASE \E r \in Request : ServiceStep(r)
    BY <2>2, ServiceTypeStep
  <2> QED
    BY <2>1, <2>2 DEF Next, Environment, vars
<1> QED
  BY <1>1, <1>2 DEF TypeInv, TypeOK, ServiceInv

LEMMA TypeInvariant == Spec => []TypeInv
PROOF BY TypeInit, TypeStep, PTL DEF Spec

\* Every variable keeps its type, whatever the numbers of claims, requests,
\* controller processes, attempts and instants.
THEOREM TypeCorrect == Spec => []TypeOK
PROOF
<1>1. TypeInv => TypeOK
  BY DEF TypeInv
<1> QED
  BY <1>1, TypeInvariant, PTL

(***************************************************************************)
(* Grants answer renewals.  A pending update has to carry over why it may  *)
(* be written: the version it was computed from asks for a lease, or has a *)
(* longer one.  That version never changes, and the server only takes the  *)
(* update while it is the stored one.                                      *)
(***************************************************************************)
Answers(v, e) == Asks(v) \/ (Leased(v) /\ e < v.exp)

PendingUpdate(k, c) ==
  sync[k][c].pc = "update" =>
    /\ sync[k][c].ver \in 1 .. Version(c)
    /\ Answers(history[c][sync[k][c].ver], sync[k][c].exp)

GrantInv ==
  /\ GrantsAnswerRenewals
  /\ \A k \in Controller, c \in Claim : PendingUpdate(k, c)

LEMMA PutKeepsGrants ==
  ASSUME StoreTypeOK, GrantsAnswerRenewals, NEW c \in Claim, NEW v \in Value, Put(c, v),
         Leased(v) => Answers(Stored(c), v.exp)
  PROVE  GrantsAnswerRenewals'
PROOF
<1>1. SUFFICES ASSUME NEW d \in Claim, NEW i \in 2 .. Version(d)', Leased(history'[d][i])
               PROVE  Answers(history'[d][i - 1], history'[d][i].exp)
  BY DEF GrantsAnswerRenewals, Answers, Asks, Leased, Exists
<1>2. Version(d) \in Nat \ {0} /\ Version(c) \in Nat \ {0}
  BY StoredIsValue
<1>3. CASE i \in 2 .. Version(d)
  <2>1. history'[d][i] = history[d][i] /\ history'[d][i - 1] = history[d][i - 1]
    BY <1>2, <1>3, PutAppends
  <2> QED
    BY <1>1, <1>3, <2>1 DEF GrantsAnswerRenewals, Answers
<1>4. CASE i \notin 2 .. Version(d)
  <2>1. d = c /\ i = Version(c) + 1
    BY <1>2, <1>4, PutAppends DEF Version
  <2>2. history'[d][i] = v /\ history'[d][i - 1] = Stored(c)
    BY <1>2, <2>1, PutAppends DEF Stored, Version
  <2> QED
    BY <1>1, <2>2
<1> QED
  BY <1>3, <1>4

LEMMA SameHistoryKeepsGrants ==
  ASSUME GrantsAnswerRenewals, UNCHANGED history
  PROVE  GrantsAnswerRenewals'
PROOF BY DEF GrantsAnswerRenewals, Version, Leased, Asks, Exists

LEMMA GrantsStep ==
  ASSUME TypeInv, GrantInv, [Next]_vars
  PROVE  GrantsAnswerRenewals'
PROOF
<1>1. StoreTypeOK /\ GrantsAnswerRenewals
  BY DEF TypeInv, TypeOK, GrantInv
<1>2. CASE UNCHANGED history
  BY <1>1, <1>2, SameHistoryKeepsGrants
<1>3. ASSUME NEW k \in Controller, NEW c \in Claim, SyncUpdate(k, c)
      PROVE  GrantsAnswerRenewals'
  <2> DEFINE v == [Stored(c) EXCEPT !.exp = sync[k][c].exp]
  <2>1. Stored(c) \in DistccClaim /\ sync[k][c].exp \in Time \cup {Unset}
    BY <1>1, <1>3, StoredIsValue
    DEF SyncUpdate, CanUpdate, TypeInv, TypeOK, ControllerTypeOK, SyncState
  <2>2. v \in Value /\ v.exp = sync[k][c].exp
    BY <2>1 DEF DistccClaim, Value
  <2>3. Answers(Stored(c), v.exp)
    BY <1>3, <2>2 DEF GrantInv, PendingUpdate, SyncUpdate, CanUpdate, Stored
  <2> QED
    BY <1>1, <1>3, <2>2, <2>3, PutKeepsGrants DEF SyncUpdate
<1>4. ASSUME NEW c \in Claim, NEW v \in Value, Put(c, v), ~ Leased(v)
      PROVE  GrantsAnswerRenewals'
  BY <1>1, <1>4, PutKeepsGrants
<1>5. ASSUME NEW r \in Request, UpdateClaim(r) PROVE GrantsAnswerRenewals'
  <2>1. ClaimOf(r) \in Claim
    BY DEF TypeInv, TypeOK, ServiceTypeOK, ClaimOf, RequestState
  <2>2. Stored(ClaimOf(r)) \in DistccClaim
    BY <1>1, <1>5, <2>1, StoredIsValue DEF UpdateClaim, CanUpdate
  <2> DEFINE v == [Stored(ClaimOf(r)) EXCEPT !.exp = Unset]
  <2>3. v \in Value /\ ~ Leased(v)
    BY <2>2 DEF DistccClaim, Value, Leased
  <2> QED
    BY <1>4, <1>5, <2>1, <2>3 DEF UpdateClaim, Write
<1>6. ASSUME NEW r \in Request, CreateClaim(r) PROVE GrantsAnswerRenewals'
  <2>1. ClaimOf(r) \in Claim /\ req[r].distcc \in Distcc
    BY <1>6 DEF TypeInv, TypeOK, ServiceTypeOK, ClaimOf, RequestState, HoldsDistcc, CreateClaim
  <2> DEFINE v == [exp |-> Unset, labels |-> req[r].distcc.labels]
  <2>2. v \in Value /\ ~ Leased(v)
    BY <2>1 DEF Distcc, DistccClaim, Value, Leased
  <2> QED
    BY <1>4, <1>6, <2>1, <2>2 DEF CreateClaim, NewDistccClaim, Write
<1>7. Absent \in Value /\ ~ Leased(Absent)
  BY DEF Value, Leased, Exists
<1>8. ASSUME NEW r \in Request, DeleteClaim(r) PROVE GrantsAnswerRenewals'
  <2>1. ClaimOf(r) \in Claim
    BY DEF TypeInv, TypeOK, ServiceTypeOK, ClaimOf, RequestState
  <2> QED
    BY <1>4, <1>7, <1>8, <2>1 DEF DeleteClaim, Write
<1>9. ASSUME NEW k \in Controller, NEW c \in Claim, SyncDelete(k, c)
      PROVE  GrantsAnswerRenewals'
  BY <1>4, <1>7, <1>9 DEF SyncDelete
<1> QED
  BY <1>2, <1>3, <1>5, <1>6, <1>8, <1>9
  DEF Next, Environment, Tick, EditDistcc, ControllerNext, ControllerStep, WatchClaim,
      WatchDistcc, ControllerRestart, SyncExpired, SyncRenew, StartCall, SyncFails,
      ServiceStep, RequestStep, LeaseDistcc, DeleteDistcc, Arrive, ServiceCrash,
      GetDistcc, GetClaim, DeleteFindsNothing, AttemptFails, Reply, storeVars, vars

\* What a step does to the Sync of one claim: nothing, it returns, or it
\* sends the call that its cache calls for.
LEMMA SyncSteps ==
  ASSUME TypeInv, [Next]_vars, NEW k \in Controller, NEW c \in Claim
  PROVE  \/ sync'[k][c] = sync[k][c]
         \/ sync'[k][c] = Idle
         \/ SyncExpired(k, c)
         \/ SyncRenew(k, c)
PROOF
<1> USE DEF TypeInv, TypeOK, ControllerTypeOK
<1>1. CASE UNCHANGED sync
  BY <1>1
<1>2. ASSUME NEW j \in Controller, ControllerRestart(j)
      PROVE  sync'[k][c] \in {sync[k][c], Idle}
  BY <1>2 DEF ControllerRestart
<1>3. ASSUME NEW j \in Controller, NEW d \in Claim, EndSync(j, d)
      PROVE  sync'[k][c] \in {sync[k][c], Idle}
  BY <1>3 DEF EndSync
<1>4. ASSUME NEW j \in Controller, NEW d \in Claim, NEW call, StartCall(j, d, call),
             <<j, d>> # <<k, c>>
      PROVE  sync'[k][c] = sync[k][c]
  BY <1>4 DEF StartCall
<1> QED
  BY <1>1, <1>2, <1>3, <1>4
  DEF Next, Environment, ControllerNext, ControllerStep, WatchClaim, WatchDistcc,
      SyncExpired, SyncRenew, SyncDelete, SyncUpdate, SyncFails, vars, controllerVars

LEMMA PendingStep ==
  ASSUME TypeInv, GrantInv, [Next]_vars, NEW k \in Controller, NEW c \in Claim
  PROVE  PendingUpdate(k, c)'
PROOF
<1>1. StoreTypeOK /\ ControllerTypeOK /\ HistoryGrows
      /\ Version(c) \in Nat /\ Version(c)' \in Nat
  <2>1. StoreTypeOK /\ ControllerTypeOK
    BY DEF TypeInv, TypeOK
  <2>2. HistoryGrows /\ StoreTypeOK'
    BY StoreStep DEF StoreGoesOn
  <2>3. history'[c] \in Seq(Value)
    BY <2>2 DEF StoreTypeOK, Value
  <2>4. Version(c)' \in Nat
    BY <2>3, LenProperties DEF Version
  <2> QED
    BY <2>1, <2>2, <2>4, StoredIsValue
<1>2. CASE sync'[k][c] = sync[k][c]
  BY <1>1, <1>2
  DEF GrantInv, PendingUpdate, HistoryGrows, Answers, Asks, Leased, Exists
<1>3. CASE sync'[k][c] = Idle \/ SyncExpired(k, c)
  BY <1>1, <1>3 DEF PendingUpdate, Idle, SyncExpired, StartCall, ControllerTypeOK
<1>4. CASE SyncRenew(k, c)
  <2> DEFINE claim == Cached(k, c)
             max   == now + CachedDistcc(k).lease
  <2>1. claim \in DistccClaim /\ max \in Time /\ CanSync(k, c)
    BY <1>4, NewExpirationIsTime DEF SyncRenew
  <2>2. /\ NewExpiration(k, c) # claim.exp
        /\ claim.exp \in Time \cup {Unset}
        /\ NewExpiration(k, c) = UpdateExpiration(claim.exp, CachedDistcc(k).lease)
    BY <1>4, <2>1 DEF SyncRenew, DistccClaim, NewExpiration
  <2>3. ToKubeTime(max) <= max /\ ToKubeTime(max) \in Nat /\ max \in Nat
    BY <2>1, ToKubeTimeTruncates DEF Time
  <2>4. Exists(claim)
    BY <2>1 DEF CanSync, Accepts
  <2>5. Answers(claim, NewExpiration(k, c))
    BY <2>2, <2>3, <2>4 DEF UpdateExpiration, Answers, Asks, Leased, Time
  <2>6. /\ sync'[k][c].ver = seen[k][c]
        /\ sync'[k][c].exp = NewExpiration(k, c)
        /\ seen[k][c] \in 1 .. Version(c)
    BY <1>1, <1>4 DEF SyncRenew, StartCall, ControllerTypeOK
  <2>7. history'[c][seen[k][c]] = claim /\ seen[k][c] \in 1 .. Version(c)'
    BY <1>1, <2>6 DEF HistoryGrows, Cached
  <2> QED
    BY <2>5, <2>6, <2>7 DEF PendingUpdate, Answers, Asks, Leased, Exists
<1> QED
  BY <1>2, <1>3, <1>4, SyncSteps

LEMMA GrantInit == Init => GrantInv
PROOF
<1> SUFFICES ASSUME Init PROVE GrantInv
  OBVIOUS
<1>1. \A k \in Controller, c \in Claim : PendingUpdate(k, c)
  BY DEF Init, ControllerInit, PendingUpdate, Idle
<1>2. \A c \in Claim : history[c] = <<Absent>>
  BY DEF Init, StoreInit
<1>3. \A c \in Claim : Version(c) = 1
  <2>1. ASSUME NEW c \in Claim PROVE Len(history[c]) = 1
    <3>1. history[c] = <<Absent>>
      BY <1>2
    <3> QED
      BY <3>1
  <2> QED
    BY <2>1 DEF Version
<1> QED
  BY <1>1, <1>3 DEF GrantInv, GrantsAnswerRenewals

\* Every lease in the history of a claim replaces a version that asked for
\* one, or a longer lease: conflicting updates of the controller processes
\* and of the service never lengthen a lease, nor bring back a claim.
THEOREM GrantsAlwaysAnswerRenewals == Spec => []GrantsAnswerRenewals
PROOF
<1>1. TypeInv /\ GrantInv /\ [Next]_vars => GrantInv'
  BY GrantsStep, PendingStep DEF GrantInv
<1>2. GrantInv => GrantsAnswerRenewals
  BY DEF GrantInv
<1> QED
  BY <1>1, <1>2, GrantInit, TypeInvariant, PTL DEF Spec

(***************************************************************************)
(* Removals.  A lease that was stored and has ended stays in the history,  *)
(* and stays ended: RemovedOnlyWhenLapsed is inductive by itself.  The     *)
(* decision to delete is never taken on an expiration that Sync has just   *)
(* computed, as leases are not shorter than a second.                      *)
(***************************************************************************)
LEMMA ClockStep ==
  ASSUME TypeInv, [Next]_vars
  PROVE  now \in Nat /\ now' \in Nat /\ now' >= now
PROOF
<1>1. now \in Nat
  BY DEF TypeInv, TypeOK, StoreTypeOK, Time
<1>2. CASE UNCHANGED now
  BY <1>1, <1>2
<1>3. CASE Tick
  BY <1>1, <1>3 DEF Tick
<1> QED
  BY <1>2, <1>3
  DEF Next, Environment, EditDistcc, ControllerNext, ControllerStep, WatchClaim,
      WatchDistcc, ControllerRestart, SyncExpired, SyncRenew, StartCall, SyncFails,
      SyncDelete, SyncUpdate, Put, ServiceStep, RequestStep, LeaseDistcc, DeleteDistcc,
      Arrive, ServiceCrash, GetDistcc, GetClaim, CreateClaim, UpdateClaim, DeleteClaim,
      Write, DeleteFindsNothing, AttemptFails, Reply, storeVars, vars

LEMMA RemovalStep ==
  ASSUME TypeInv, RemovedOnlyWhenLapsed, [Next]_vars
  PROVE  RemovedOnlyWhenLapsed'
PROOF
<1> SUFFICES ASSUME NEW k \in Controller, NEW c \in Claim, sync'[k][c].pc = "delete"
             PROVE  \E i \in 1 .. Version(c)' : Expired(history[c][i])'
  BY DEF RemovedOnlyWhenLapsed
<1>1. /\ StoreTypeOK /\ HistoryGrows /\ Version(c) \in Nat /\ Version(c)' \in Nat
      /\ \A i \in 1 .. Version(c) : history[c][i] \in Value
  <2>1. StoreTypeOK /\ HistoryGrows /\ StoreTypeOK'
    BY StoreStep DEF StoreGoesOn, TypeInv, TypeOK
  <2>2. history'[c] \in Seq(Value)
    BY <2>1 DEF StoreTypeOK, Value
  <2>3. Version(c)' \in Nat
    BY <2>2, LenProperties DEF Version
  <2> QED
    BY <2>1, <2>3, StoredIsValue
<1>2. now \in Nat /\ now' \in Nat /\ now' >= now
  BY ClockStep
<1>3. ASSUME NEW i \in 1 .. Version(c), Expired(history[c][i])
      PROVE  \E j \in 1 .. Version(c)' : Expired(history[c][j])'
  <2>1. i \in 1 .. Version(c)' /\ history'[c][i] = history[c][i]
    BY <1>1 DEF HistoryGrows
  <2>2. history[c][i].exp \in Nat
    BY <1>1, <1>3 DEF Expired, Exists, Value, DistccClaim, Time
  <2>3. Expired(history[c][i])'
    BY <1>2, <1>3, <2>1, <2>2 DEF Expired, Exists
  <2> QED
    BY <2>1, <2>3
<1>4. CASE sync'[k][c] = sync[k][c]
  BY <1>3, <1>4 DEF RemovedOnlyWhenLapsed
<1>5. CASE SyncExpired(k, c)
  <2> DEFINE claim == Cached(k, c)
             max   == now + CachedDistcc(k).lease
  <2>1. /\ claim \in DistccClaim /\ max \in Time /\ CanSync(k, c)
        /\ CachedDistcc(k).lease \in LeaseDuration
    BY <1>5, NewExpirationIsTime DEF SyncExpired
  <2>2. /\ now > NewExpiration(k, c)
        /\ NewExpiration(k, c) = UpdateExpiration(claim.exp, CachedDistcc(k).lease)
        /\ claim.exp \in Time \cup {Unset}
    BY <1>5, <2>1 DEF SyncExpired, DistccClaim, NewExpiration
  <2>3. /\ ToKubeTime(max) \in Nat
        /\ max < ToKubeTime(max) + SecondTicks
        /\ SecondTicks \in Nat
        /\ CachedDistcc(k).lease \in Nat
        /\ CachedDistcc(k).lease >= SecondTicks
    BY <2>1, ToKubeTimeTruncates, SecondAssumption, LeaseAssumption, WholeSecondLeases DEF Time
  <2>4. ~ (now > ToKubeTime(max))
    BY <1>2, <2>3
  <2>5. claim.exp # Unset /\ now > claim.exp
    BY <2>2, <2>4 DEF UpdateExpiration
  <2>6. Expired(claim)
    BY <2>1, <2>5 DEF Expired, CanSync, Accepts
  <2>7. seen[k][c] \in 1 .. Version(c)
    BY DEF TypeInv, TypeOK, ControllerTypeOK
  <2> QED
    BY <1>3, <2>6, <2>7 DEF Cached
<1>6. CASE sync'[k][c] = Idle \/ SyncRenew(k, c)
  BY <1>6 DEF Idle, SyncRenew, StartCall, TypeInv, TypeOK, ControllerTypeOK
<1> QED
  BY <1>4, <1>5, <1>6, SyncSteps

\* The controller only decides to delete a claim once a lease that was
\* stored for it has ended, with any clock grain and however stale its
\* caches are, as long as leases last a second or more.
THEOREM RemovalsFollowLapses == Spec => []RemovedOnlyWhenLapsed
PROOF
<1>1. Init => RemovedOnlyWhenLapsed
  BY DEF Init, ControllerInit, RemovedOnlyWhenLapsed, Idle
<1>2. TypeInv /\ RemovedOnlyWhenLapsed /\ [Next]_vars => RemovedOnlyWhenLapsed'
  BY RemovalStep
<1> QED
  BY <1>1, <1>2, TypeInvariant, PTL DEF Spec

(***************************************************************************)
(* Answers.  What an answer claims to have happened has happened by the    *)
(* time the last call of the request succeeds, and the versions that show  *)
(* it are kept.                                                            *)
(***************************************************************************)
Shows(q, v) == IF q.op = "lease" THEN Asks(v) ELSE ~ Exists(v)

Served(q) ==
  \E i \in q.start .. Version(q.claim) : i > 0 /\ Shows(q, history[q.claim][i])

Claims(q) ==
  \/ q.pc = "reply"
  \/ q.pc = "done" /\ q.err = Nil
  \/ q.pc = "done" /\ q.err = Plain("ErrNotFound") /\ q.op = "delete"

ReplyOK(q) ==
  /\ q.pc # "new" => q.start <= Version(q.claim)
  /\ Claims(q) => Served(q)

ReplyInv == \A r \in Request : ReplyOK(req[r])

LEMMA ReplyOKStays ==
  ASSUME TypeInv, [Next]_vars, NEW q \in RequestState, ReplyOK(q)
  PROVE  ReplyOK(q)'
PROOF
<1>1. q.claim \in Claim /\ q.start \in Nat
  BY DEF RequestState
<1>2. HistoryGrows /\ StoreTypeOK' /\ StoreTypeOK
  BY StoreStep DEF StoreGoesOn, TypeInv, TypeOK
<1>3. Version(q.claim) \in Nat /\ history' \in [Claim -> Seq(Value)]
  BY <1>1, <1>2, StoredIsValue DEF StoreTypeOK, Value
<1>4. Version(q.claim)' \in Nat /\ Version(q.claim)' >= Version(q.claim)
  <2>1. Len(history'[q.claim]) \in Nat
    BY <1>1, <1>3, LenProperties
  <2> QED
    BY <1>1, <1>2, <2>1 DEF HistoryGrows, Version
<1>5. q.pc # "new" => q.start <= Version(q.claim)'
  BY <1>1, <1>3, <1>4 DEF ReplyOK
<1>6. ASSUME Served(q) PROVE Served(q)'
  <2>1. PICK i \in q.start .. Version(q.claim) : i > 0 /\ Shows(q, history[q.claim][i])
    BY <1>6 DEF Served
  <2>2. i \in q.start .. Version(q.claim)' /\ history'[q.claim][i] = history[q.claim][i]
    BY <1>1, <1>2, <1>3, <1>4, <2>1 DEF HistoryGrows
  <2>3. Shows(q, history[q.claim][i])'
    BY <2>1, <2>2 DEF Shows, Asks, Exists
  <2> QED
    BY <2>1, <2>2, <2>3 DEF Served
<1> QED
  BY <1>5, <1>6 DEF ReplyOK, Claims

\* A request that goes on, or that ends without claiming anything.
Quiet(p, q) ==
  /\ q.start = p.start /\ q.claim = p.claim /\ q.op = p.op
  /\ ~ Claims(q)

LEMMA QuietIsOK ==
  ASSUME NEW p, NEW q, ReplyOK(p), p.pc # "new", Quiet(p, q)
  PROVE  ReplyOK(q)
PROOF BY DEF ReplyOK, Quiet, Served

LEMMA FailIsQuiet ==
  ASSUME NEW q \in RequestState, NEW cause \in {"ErrCanceled", "ErrWaitTimeout"}, NEW n \in Nat
  PROVE  /\ Quiet(q, Fail(q, cause))
         /\ Quiet(q, [Fail(q, cause) EXCEPT !.wrote = n])
PROOF BY DEF Fail, Done, Quiet, Claims, RequestState, Nil, Plain

LEMMA RetryIsQuiet ==
  ASSUME NEW q \in RequestState, q.pc \notin {"new", "reply", "done"}
  PROVE  Quiet(q, Retry(q))
PROOF
<1>1. CASE q.attempt < Steps
  BY <1>1 DEF Retry, FirstCall, Quiet, Claims, RequestState
<1>2. CASE ~ (q.attempt < Steps)
  <2>1. Retry(q) = Fail(q, "ErrWaitTimeout")
    BY <1>2 DEF Retry
  <2> QED
    BY <2>1, FailIsQuiet
<1> QED
  BY <1>1, <1>2

\* The end of an attempt either goes on as the action says, or is cut short.
LEMMA EndAttemptEnds ==
  ASSUME TypeInv, NEW r \in Request, NEW x, x.wrote \in Nat, EndAttempt(r, x)
  PROVE  req'[r] = x \/ Quiet(req[r], req'[r])
PROOF
<1>1. req \in [Request -> RequestState] /\ req[r] \in RequestState
  BY DEF TypeInv, TypeOK, ServiceTypeOK
<1>2. Quiet(req[r], [Fail(req[r], "ErrCanceled") EXCEPT !.wrote = x.wrote])
  BY <1>1, FailIsQuiet
<1> QED
  BY <1>1, <1>2 DEF EndAttempt

\* A call that writes v and succeeds has done what the request asked for.
LEMMA WriteServes ==
  ASSUME TypeInv, ReplyInv, [Next]_vars, NEW r \in Request, NEW v \in Value, Write(r, v),
         req[r].pc \in {"create", "update", "delete"}, Shows(req[r], v),
         NEW q \in RequestState, q = req'[r]
  PROVE  ReplyOK(q)'
PROOF
<1> DEFINE p == req[r]
           w == [p EXCEPT !.wrote = Version(ClaimOf(r)) + 1]
           rep == [w EXCEPT !.pc = "reply"]
<1>1. /\ req \in [Request -> RequestState] /\ p \in RequestState /\ ReplyOK(p)
      /\ StoreTypeOK /\ p.claim \in Claim /\ ClaimOf(r) = p.claim
  BY DEF TypeInv, TypeOK, ServiceTypeOK, ReplyInv, RequestState, ClaimOf
<1>2. Version(p.claim) \in Nat \ {0} /\ Put(p.claim, v) /\ p.start <= Version(p.claim)
  BY <1>1, StoredIsValue DEF Write, ReplyOK
<1>3. w \in RequestState /\ w.pc = p.pc /\ Quiet(p, w)
  BY <1>1, <1>2 DEF RequestState, Quiet, Claims
<1>4. Quiet(w, Retry(w)) /\ Retry(w).wrote \in Nat
  <2>1. Quiet(w, Retry(w))
    BY <1>3, RetryIsQuiet
  <2>2. Retry(w).wrote \in Nat
    BY <1>3 DEF Retry, Fail, Done, RequestState
  <2> QED
    BY <2>1, <2>2
<1>5. Quiet(p, Retry(w))
  BY <1>3, <1>4 DEF Quiet
<1>6. CASE Quiet(p, q)
  BY <1>1, <1>6, QuietIsOK, ReplyOKStays
<1>7. CASE q = rep
  <2>1. /\ q.op = p.op /\ q.start = p.start /\ q.claim = p.claim /\ q.pc = "reply"
        /\ p.start \in Nat
    BY <1>1, <1>7 DEF RequestState
  <2>2. /\ Version(q.claim)' = Version(q.claim) + 1
        /\ Stored(q.claim)' = v
    BY <1>1, <1>2, <2>1, PutAppends
  <2> DEFINE n == Version(q.claim) + 1
  <2>3. history'[q.claim][n] = v /\ Version(q.claim)' = n
    BY <2>1, <2>2 DEF Stored, Version
  <2>4. n \in q.start .. n /\ n > 0
    BY <1>2, <2>1
  <2>5. Shows(q, v)
    BY <2>1 DEF Shows
  <2>6. Served(q)'
    BY <2>3, <2>4, <2>5 DEF Served, Shows, Asks, Exists
  <2>7. q.start <= Version(q.claim)'
    BY <1>2, <2>1, <2>3
  <2> QED
    BY <2>6, <2>7 DEF ReplyOK
<1>8. q = rep \/ Quiet(p, q)
  <2>1. CASE req' = [req EXCEPT ![r] = rep]
    BY <1>1, <2>1
  <2>2. CASE EndAttempt(r, Retry(w))
    BY <1>4, <1>5, <2>2, EndAttemptEnds
  <2> QED
    BY <2>1, <2>2 DEF Write
<1> QED
  BY <1>6, <1>7, <1>8

LEMMA ArriveIsOK ==
  ASSUME TypeInv, NEW r \in Request, NEW op, NEW first, Arrive(r, op, first),
         first \in {"getDistcc", "delete"}, NEW q \in RequestState, q = req'[r]
  PROVE  ReplyOK(q)
PROOF
<1>1. req \in [Request -> RequestState] /\ req[r] \in RequestState /\ StoreTypeOK
  BY DEF TypeInv, TypeOK, ServiceTypeOK
<1>2. PICK c \in Claim :
        req' = [req EXCEPT ![r] = [@ EXCEPT !.pc = first, !.op = op, !.claim = c,
                                            !.start = Version(c)]]
  BY DEF Arrive
<1>3. q.pc = first /\ q.claim = c /\ q.start = Version(c)
  BY <1>1, <1>2 DEF RequestState
<1>4. Version(c) \in Nat
  BY <1>1, StoredIsValue
<1> QED
  BY <1>3, <1>4 DEF ReplyOK, Claims

LEMMA GetClaimIsOK ==
  ASSUME TypeInv, ReplyInv, NEW r \in Request, GetClaim(r),
         NEW q \in RequestState, q = req'[r]
  PROVE  ReplyOK(q)
PROOF
<1>1. /\ req \in [Request -> RequestState] /\ req[r] \in RequestState /\ StoreTypeOK
      /\ ClaimOf(r) = req[r].claim /\ req[r].claim \in Claim /\ ReplyOK(req[r])
      /\ req[r].op = "lease"
  BY DEF TypeInv, TypeOK, ServiceTypeOK, ClaimOf, RequestState, ReplyInv, GetClaim,
         HoldsDistcc
<1>2. Version(req[r].claim) \in Nat \ {0} /\ req[r].start <= Version(req[r].claim)
  BY <1>1, StoredIsValue DEF ReplyOK, GetClaim
<1>3. PICK next \in {"create", "reply", "update"} :
        /\ req' = [req EXCEPT ![r] = [@ EXCEPT !.pc = next, !.ver = Version(ClaimOf(r))]]
        /\ next = "reply" => Asks(Stored(ClaimOf(r)))
  BY DEF GetClaim, Asks
<1>4. /\ q.pc = next /\ q.start = req[r].start /\ q.claim = req[r].claim /\ q.op = "lease"
      /\ q.start \in Nat
  BY <1>1, <1>3 DEF RequestState
<1>5. CASE next = "reply"
  <2>1. Version(q.claim) \in q.start .. Version(q.claim) /\ Version(q.claim) > 0
    BY <1>2, <1>4
  <2>2. Shows(q, history[q.claim][Version(q.claim)])
    BY <1>1, <1>3, <1>4, <1>5 DEF Shows, Stored
  <2> QED
    BY <1>2, <1>4, <2>1, <2>2 DEF ReplyOK, Served
<1>6. CASE next # "reply"
  BY <1>2, <1>4, <1>6 DEF ReplyOK, Claims
<1> QED
  BY <1>5, <1>6

LEMMA NotFoundIsOK ==
  ASSUME TypeInv, ReplyInv, NEW r \in Request, DeleteFindsNothing(r),
         NEW q \in RequestState, q = req'[r]
  PROVE  ReplyOK(q)
PROOF
<1> DEFINE f == Fail(req[r], "ErrNotFound")
<1>1. /\ req \in [Request -> RequestState] /\ req[r] \in RequestState /\ StoreTypeOK
      /\ ClaimOf(r) = req[r].claim /\ req[r].claim \in Claim /\ ReplyOK(req[r])
      /\ req[r].op = "delete" /\ req[r].pc = "delete"
  BY DEF TypeInv, TypeOK, ServiceTypeOK, ClaimOf, RequestState, ReplyInv,
         DeleteFindsNothing, HoldsDistcc
<1>2. Version(req[r].claim) \in Nat \ {0} /\ req[r].start <= Version(req[r].claim)
  BY <1>1, StoredIsValue DEF ReplyOK
<1>3. /\ f.start = req[r].start /\ f.claim = req[r].claim /\ f.op = "delete"
      /\ f.wrote \in Nat /\ f.start \in Nat
  BY <1>1 DEF Fail, Done, RequestState
<1>4. CASE q = f
  <2>1. Version(q.claim) \in q.start .. Version(q.claim) /\ Version(q.claim) > 0
    BY <1>2, <1>3, <1>4
  <2>2. Shows(q, history[q.claim][Version(q.claim)])
    BY <1>1, <1>3, <1>4 DEF Shows, Stored, DeleteFindsNothing, CanDelete
  <2> QED
    BY <1>2, <1>3, <1>4, <2>1, <2>2 DEF ReplyOK, Served
<1>5. CASE Quiet(req[r], q)
  BY <1>1, <1>5, QuietIsOK
<1> QED
  BY <1>3, <1>4, <1>5, EndAttemptEnds DEF DeleteFindsNothing

LEMMA SuccessIsOK ==
  ASSUME TypeInv, ReplyInv, NEW r \in Request, Reply(r),
         NEW q \in RequestState, q = req'[r]
  PROVE  ReplyOK(q)
PROOF
<1>1. /\ req \in [Request -> RequestState] /\ req[r] \in RequestState
      /\ ReplyOK(req[r]) /\ req[r].pc = "reply"
  BY DEF TypeInv, TypeOK, ServiceTypeOK, ReplyInv, Reply
<1>2. LET f == Done(req[r], Nil)
      IN  /\ f.start = req[r].start /\ f.claim = req[r].claim /\ f.op = req[r].op
          /\ f.wrote \in Nat
  BY <1>1 DEF Done, RequestState
<1>3. Served(req[r]) /\ req[r].start <= Version(req[r].claim)
  BY <1>1 DEF ReplyOK, Claims
<1>4. CASE q = Done(req[r], Nil)
  BY <1>2, <1>3, <1>4 DEF ReplyOK, Served, Shows
<1>5. CASE Quiet(req[r], q)
  BY <1>1, <1>5, QuietIsOK
<1> QED
  BY <1>2, <1>4, <1>5, EndAttemptEnds DEF Reply

LEMMA GetDistccIsQuiet ==
  ASSUME TypeInv, NEW r \in Request, GetDistcc(r)
  PROVE  Quiet(req[r], req'[r])
PROOF
<1> DEFINE p == req[r]
           x == [p EXCEPT !.pc = "getClaim", !.attempt = 1, !.distcc = StoredDistcc]
           f == Fail(p, "NotFound")
<1>1. req \in [Request -> RequestState] /\ p \in RequestState /\ p.pc = "getDistcc"
  BY DEF TypeInv, TypeOK, ServiceTypeOK, GetDistcc
<1>2. x.wrote \in Nat /\ Quiet(p, x)
  BY <1>1 DEF RequestState, Quiet, Claims
<1>3. f.wrote \in Nat /\ Quiet(p, f)
  BY <1>1 DEF RequestState, Quiet, Claims, Fail, Done, Nil, Plain
<1>4. EndAttempt(r, x) \/ EndAttempt(r, f)
  BY DEF GetDistcc
<1> HIDE DEF x, f
<1> QED
  BY <1>2, <1>3, <1>4, EndAttemptEnds

LEMMA AttemptFailsQuietly ==
  ASSUME TypeInv, NEW r \in Request, AttemptFails(r)
  PROVE  Quiet(req[r], req'[r])
PROOF
<1>1. req[r] \in RequestState /\ req[r].pc \notin {"new", "reply", "done"}
  BY DEF TypeInv, TypeOK, ServiceTypeOK, AttemptFails
<1>2. Quiet(req[r], Retry(req[r]))
  BY <1>1, RetryIsQuiet
<1>3. Retry(req[r]).wrote \in Nat
  BY <1>1 DEF Retry, Fail, Done, RequestState
<1> QED
  BY <1>2, <1>3, EndAttemptEnds DEF AttemptFails

LEMMA ReplyStep ==
  ASSUME TypeInv, ReplyInv, [Next]_vars
  PROVE  ReplyInv'
PROOF
<1> SUFFICES ASSUME NEW r \in Request PROVE ReplyOK(req[r])'
  BY DEF ReplyInv
<1>1. /\ req \in [Request -> RequestState] /\ req[r] \in RequestState
      /\ req' \in [Request -> RequestState] /\ ReplyOK(req[r])
  BY TypeStep DEF TypeInv, TypeOK, ServiceTypeOK, ReplyInv
<1>2. PICK q \in RequestState : q = req'[r]
  BY <1>1
<1>3. SUFFICES ReplyOK(q)'
  BY <1>2 DEF ReplyOK, Claims, Served, Shows
<1>4. CASE q = req[r]
  BY <1>1, <1>4, ReplyOKStays
<1>5. ASSUME ServiceStep(r), ~ ReplyOK(q)' PROVE FALSE
  <2>1. ~ ReplyOK(q)
    BY <1>5, ReplyOKStays
  <2>2. ASSUME Quiet(req[r], q), req[r].pc # "new" PROVE FALSE
    BY <1>1, <2>1, <2>2, QuietIsOK
  <2>3. CASE LeaseDistcc(r) \/ DeleteDistcc(r)
    BY <1>2, <2>1, <2>3, ArriveIsOK DEF LeaseDistcc, DeleteDistcc
  <2>4. CASE GetDistcc(r)
    BY <1>2, <2>2, <2>4, GetDistccIsQuiet DEF GetDistcc
  <2>5. CASE GetClaim(r)
    BY <1>2, <2>1, <2>5, GetClaimIsOK
  <2>6. CASE AttemptFails(r)
    BY <1>2, <2>2, <2>6, AttemptFailsQuietly DEF AttemptFails
  <2>7. CASE Reply(r)
    BY <1>2, <2>1, <2>7, SuccessIsOK
  <2>8. CASE DeleteFindsNothing(r)
    BY <1>2, <2>1, <2>8, NotFoundIsOK
  <2>9. CASE ServiceCrash(r)
    <3>1. q = Done(req[r], Plain("crashed"))
      BY <1>1, <1>2, <2>9 DEF ServiceCrash
    <3>2. Quiet(req[r], q)
      BY <1>1, <3>1 DEF Quiet, Claims, Done, RequestState, Nil, Plain
    <3> QED
      BY <2>2, <2>9, <3>2 DEF ServiceCrash, Running
  <2> DEFINE new == [exp |-> Unset, labels |-> req[r].distcc.labels]
             cleared == [Stored(ClaimOf(r)) EXCEPT !.exp = Unset]
  <2>10. CASE CreateClaim(r)
    <3>1. req[r].op = "lease" /\ req[r].distcc \in Distcc /\ req[r].pc = "create"
      BY <2>10 DEF CreateClaim, TypeInv, HoldsDistcc
    <3>2. new \in DistccClaim /\ new.exp = Unset
      BY <3>1 DEF Distcc, DistccClaim
    <3>3. new \in Value /\ Shows(req[r], new)
      BY <3>1, <3>2, AbsentAssumption DEF Value, Shows, Asks, Exists
    <3> QED
      BY <1>2, <1>5, <2>10, <3>1, <3>3, WriteServes DEF CreateClaim, NewDistccClaim
  <2>11. CASE UpdateClaim(r)
    <3>1. req[r].op = "lease" /\ req[r].pc = "update" /\ ClaimOf(r) \in Claim /\ StoreTypeOK
      BY <2>11
      DEF UpdateClaim, TypeInv, TypeOK, ServiceTypeOK, HoldsDistcc, ClaimOf, RequestState
    <3>2. Stored(ClaimOf(r)) \in DistccClaim
      BY <2>11, <3>1, StoredIsValue DEF UpdateClaim, CanUpdate
    <3>3. cleared \in DistccClaim /\ cleared.exp = Unset
      BY <3>2 DEF DistccClaim
    <3>4. cleared \in Value /\ Shows(req[r], cleared)
      BY <3>1, <3>3, AbsentAssumption DEF Value, Shows, Asks, Exists
    <3> QED
      BY <1>2, <1>5, <2>11, <3>1, <3>4, WriteServes DEF UpdateClaim
  <2>12. CASE DeleteClaim(r)
    <3>1. req[r].op = "delete" /\ req[r].pc = "delete"
      BY <2>12 DEF DeleteClaim, TypeInv, HoldsDistcc
    <3>2. Absent \in Value /\ Shows(req[r], Absent)
      BY <3>1 DEF Value, Shows, Exists
    <3> QED
      BY <1>2, <1>5, <2>12, <3>1, <3>2, WriteServes DEF DeleteClaim
  <2> QED
    BY <1>5, <2>3, <2>4, <2>5, <2>6, <2>7, <2>8, <2>9, <2>10, <2>11, <2>12
    DEF ServiceStep, RequestStep
<1>6. ASSUME NEW s \in Request, s # r, ServiceStep(s) PROVE q = req[r]
  BY <1>1, <1>2, <1>6
  DEF ServiceStep, RequestStep, LeaseDistcc, DeleteDistcc, Arrive, ServiceCrash,
      GetDistcc, GetClaim, CreateClaim, UpdateClaim, DeleteClaim, Write,
      DeleteFindsNothing, AttemptFails, Reply, EndAttempt
<1>7. CASE UNCHANGED req
  BY <1>2, <1>4, <1>7
<1> QED
  BY <1>4, <1>5, <1>6, <1>7 DEF Next, Environment, vars

LEMMA ReplyInvariant == Spec => []ReplyInv
PROOF
<1>1. Init => ReplyInv
  BY DEF Init, ServiceInit, ReplyInv, ReplyOK, Claims
<1>2. TypeInv /\ ReplyInv /\ [Next]_vars => ReplyInv'
  BY ReplyStep
<1> QED
  BY <1>1, <1>2, TypeInvariant, PTL DEF Spec

\* A successful answer to a lease request means that a lease was asked for
\* on the stored claim while the request ran.
THEOREM RenewalsAcknowledged == Spec => []AcknowledgedRenewal
PROOF
<1>1. ReplyInv => AcknowledgedRenewal
  BY DEF ReplyInv, ReplyOK, Claims, Served, Shows, AcknowledgedRenewal, ClaimOf, CodeFrom
<1> QED
  BY <1>1, ReplyInvariant, PTL

\* A release answered with success or with not-found means that the claim
\* was gone at some point while the request ran.
THEOREM ReleasesAnswered == Spec => []AnsweredRelease
PROOF
<1>1. ReplyInv => AnsweredRelease
  BY DEF ReplyInv, ReplyOK, Claims, Served, Shows, AnsweredRelease, ClaimOf, CodeFrom, Nil, Plain
<1> QED
  BY <1>1, ReplyInvariant, PTL

(***************************************************************************)
(* The leasing implements LeaseContract.  The expiration of a pending      *)
(* update was computed from a lease duration and an earlier time, which is *)
(* what the contract asks of a grant; GrantInv and RemovedOnlyWhenLapsed   *)
(* give the rest.                                                          *)
(***************************************************************************)
PendingInTime(k, c) ==
  sync[k][c].pc = "update" =>
    /\ sync[k][c].exp \in Time
    /\ \E d \in LeaseDuration : sync[k][c].exp <= now + d

PendingsInTime == \A k \in Controller, c \in Claim : PendingInTime(k, c)

LEMMA PendingInTimeStep ==
  ASSUME TypeInv, PendingsInTime, [Next]_vars, NEW k \in Controller, NEW c \in Claim
  PROVE  PendingInTime(k, c)'
PROOF
<1>1. now \in Nat /\ now' \in Nat /\ now' >= now /\ PendingInTime(k, c)
  BY ClockStep DEF PendingsInTime
<1>2. CASE sync'[k][c] = sync[k][c]
  <2> SUFFICES ASSUME sync[k][c].pc = "update" PROVE PendingInTime(k, c)'
    BY <1>2 DEF PendingInTime
  <2>1. sync[k][c].exp \in Time
    BY <1>1 DEF PendingInTime
  <2>2. PICK d \in LeaseDuration : sync[k][c].exp <= now + d
    BY <1>1 DEF PendingInTime
  <2>3. sync[k][c].exp <= now' + d
    BY <1>1, <2>1, <2>2, LeaseAssumption DEF Time
  <2> QED
    BY <1>2, <2>1, <2>3 DEF PendingInTime
<1>3. CASE sync'[k][c] = Idle \/ SyncExpired(k, c)
  BY <1>3 DEF PendingInTime, Idle, SyncExpired, StartCall, TypeInv, TypeOK, ControllerTypeOK
<1>4. CASE SyncRenew(k, c)
  <2> DEFINE d == CachedDistcc(k).lease
  <2>1. /\ Cached(k, c) \in DistccClaim /\ d \in LeaseDuration /\ now + d \in Time
        /\ NewExpiration(k, c) \in Time
    BY <1>4, NewExpirationIsTime DEF SyncRenew
  <2>2. NewExpiration(k, c) <= now + d
    BY <1>4, <2>1, ToKubeTimeTruncates DEF SyncRenew, NewExpiration, UpdateExpiration
  <2>3. sync'[k][c].exp = NewExpiration(k, c) /\ now' = now
    BY <1>4 DEF SyncRenew, StartCall, storeVars, TypeInv, TypeOK, ControllerTypeOK
  <2> QED
    BY <2>1, <2>2, <2>3 DEF PendingInTime
<1> QED
  BY <1>2, <1>3, <1>4, SyncSteps

\* What the contract sees of the leasing.
Lease       == [c \in Claim |-> LeaseOf(Stored(c))]
IssuedOf(c) == {LeaseOf(history[c][i]) : i \in 1 .. Version(c)} \ {Absent, Unset}
Issued      == [c \in Claim |-> IssuedOf(c)]
Releases    == {r \in Request : Running(r) /\ req[r].op = "delete"}
Releasing   == {ClaimOf(r) : r \in Releases}

LEMMA PutIsSeen ==
  ASSUME StoreTypeOK, NEW c \in Claim, NEW v \in Value, Put(c, v)
  PROVE  /\ now' = now
         /\ Lease' = [Lease EXCEPT ![c] = LeaseOf(v)]
         /\ Issued' = [Issued EXCEPT ![c] = @ \cup ({LeaseOf(v)} \ {Absent, Unset})]
         /\ LeaseOf(v) \in {Absent, Unset} => Issued' = Issued
PROOF
<1>1. /\ Version(c) \in Nat \ {0} /\ Version(c)' = Version(c) + 1 /\ Stored(c)' = v
      /\ \A d \in Claim : d # c => history'[d] = history[d]
      /\ \A i \in 1 .. Version(c) : history'[c][i] = history[c][i]
  BY StoredIsValue, PutAppends
<1>2. history'[c][Version(c) + 1] = v
  BY <1>1 DEF Stored, Version
<1>3. \A d \in Claim : d # c => Stored(d)' = Stored(d) /\ IssuedOf(d)' = IssuedOf(d)
  BY <1>1 DEF Stored, IssuedOf, Version, LeaseOf, Exists
<1>4. IssuedOf(c)' = IssuedOf(c) \cup ({LeaseOf(v)} \ {Absent, Unset})
  <2> DEFINE H == {LeaseOf(history[c][i]) : i \in 1 .. Version(c)}
             N == {LeaseOf(history'[c][i]) : i \in 1 .. Version(c) + 1}
  <2>1. N \subseteq H \cup {LeaseOf(v)}
    <3> SUFFICES ASSUME NEW i \in 1 .. Version(c) + 1
                 PROVE  LeaseOf(history'[c][i]) \in H \cup {LeaseOf(v)}
      OBVIOUS
    <3>1. i \in 1 .. Version(c) \/ i = Version(c) + 1
      BY <1>1
    <3> QED
      BY <1>1, <1>2, <3>1
  <2>2. H \cup {LeaseOf(v)} \subseteq N
    <3>1. Version(c) + 1 \in 1 .. Version(c) + 1
      BY <1>1
    <3>2. \A i \in 1 .. Version(c) : i \in 1 .. Version(c) + 1
      BY <1>1
    <3> QED
      BY <1>1, <1>2, <3>1, <3>2
  <2>3. IssuedOf(c)' = N \ {Absent, Unset}
    BY <1>1 DEF IssuedOf, LeaseOf, Exists
  <2>4. IssuedOf(c) = H \ {Absent, Unset}
    BY DEF IssuedOf
  <2> QED
    BY <2>1, <2>2, <2>3, <2>4
<1>5. Lease' = [d \in Claim |-> LeaseOf(Stored(d))'] /\ Issued' = [d \in Claim |-> IssuedOf(d)']
  BY DEF Lease, Issued
<1>6. Lease' = [Lease EXCEPT ![c] = LeaseOf(v)]
  BY <1>1, <1>3, <1>5 DEF Lease, LeaseOf, Exists
<1> HIDE DEF IssuedOf
<1>7. Issued' = [Issued EXCEPT ![c] = @ \cup ({LeaseOf(v)} \ {Absent, Unset})]
  BY <1>3, <1>4, <1>5 DEF Issued
<1>8. ASSUME LeaseOf(v) \in {Absent, Unset} PROVE Issued' = Issued
  <2>1. IssuedOf(c)' = IssuedOf(c)
    BY <1>4, <1>8
  <2> QED
    BY <1>3, <1>5, <2>1 DEF Issued
<1> QED
  BY <1>6, <1>7, <1>8 DEF Put

LEMMA SameHistoryIsSeen ==
  ASSUME UNCHANGED history
  PROVE  Lease' = Lease /\ Issued' = Issued
PROOF BY DEF Lease, Issued, IssuedOf, LeaseOf, Exists, Stored, Version

\* A request that writes goes on, or was the last to release its claim.
LEMMA WriteIsSeen ==
  ASSUME TypeInv, NEW r \in Request, NEW v, Write(r, v),
         req[r].pc \in {"create", "update", "delete"}
  PROVE  /\ req[r].op = "lease" => Releasing' = Releasing
         /\ req[r].op = "delete" =>
              /\ ClaimOf(r) \in Releasing
              /\ Releasing' \in {Releasing, Releasing \ {ClaimOf(r)}}
PROOF
<1> DEFINE p == req[r]
           w == [p EXCEPT !.wrote = Version(ClaimOf(r)) + 1]
           q == req'[r]
<1>1. /\ req \in [Request -> RequestState] /\ p \in RequestState /\ StoreTypeOK
      /\ ClaimOf(r) \in Claim
  BY DEF TypeInv, TypeOK, ServiceTypeOK, RequestState, ClaimOf
<1>2. w \in RequestState /\ w.pc = p.pc /\ w.op = p.op /\ w.claim = p.claim
  BY <1>1, StoredIsValue DEF RequestState
<1>3. Quiet(w, Retry(w)) /\ Retry(w).wrote \in Nat
  <2>1. Quiet(w, Retry(w))
    BY <1>2, RetryIsQuiet
  <2>2. Retry(w).wrote \in Nat
    BY <1>2 DEF Retry, Fail, Done, RequestState
  <2> QED
    BY <2>1, <2>2
<1>4. q.op = p.op /\ q.claim = p.claim
  <2>1. CASE req' = [req EXCEPT ![r] = [w EXCEPT !.pc = "reply"]]
    BY <1>1, <1>2, <2>1 DEF RequestState
  <2>2. CASE EndAttempt(r, Retry(w))
    BY <1>2, <1>3, <2>2, EndAttemptEnds DEF Quiet
  <2> QED
    BY <2>1, <2>2 DEF Write
<1>5. \A s \in Request \ {r} : req'[s] = req[s]
  BY <1>1 DEF Write, EndAttempt
<1>6. \A s \in Request : ClaimOf(s)' = ClaimOf(s)
  BY <1>4, <1>5 DEF ClaimOf
<1>7. /\ \A s \in Request \ {r} : s \in Releases' <=> s \in Releases
      /\ r \in Releases <=> p.op = "delete"
      /\ r \in Releases' => p.op = "delete"
  BY <1>4, <1>5 DEF Releases, Running
<1>8. Releases' \in {Releases, Releases \ {r}} /\ Releases \subseteq Request
      /\ (p.op = "lease" => Releases' = Releases)
  BY <1>7 DEF Releases
<1>9. Releasing' = {ClaimOf(s) : s \in Releases'}
  BY <1>6, <1>8 DEF Releasing
<1>10. CASE Releases' = Releases
  BY <1>7, <1>9, <1>10 DEF Releasing
<1>11. CASE Releases' = Releases \ {r} /\ p.op = "delete"
  BY <1>7, <1>9, <1>11 DEF Releasing
<1> QED
  BY <1>8, <1>10, <1>11

ContractInv == TypeInv /\ GrantInv /\ RemovedOnlyWhenLapsed /\ PendingsInTime

LEMMA ContractInvariant == Spec => []ContractInv
PROOF
<1>1. Init => ContractInv
  <2>1. Init => RemovedOnlyWhenLapsed /\ PendingsInTime
    BY DEF Init, ControllerInit, RemovedOnlyWhenLapsed, PendingsInTime, PendingInTime, Idle
  <2> QED
    BY <2>1, TypeInit, GrantInit DEF ContractInv
<1>2. ContractInv /\ [Next]_vars => ContractInv'
  <2> SUFFICES ASSUME ContractInv, [Next]_vars PROVE ContractInv'
    OBVIOUS
  <2>1. TypeInv' /\ RemovedOnlyWhenLapsed'
    BY TypeStep, RemovalStep DEF ContractInv
  <2>2. GrantInv'
    BY GrantsStep, PendingStep DEF ContractInv, GrantInv
  <2>3. PendingsInTime'
    BY PendingInTimeStep DEF ContractInv, PendingsInTime
  <2> QED
    BY <2>1, <2>2, <2>3 DEF ContractInv
<1> QED
  BY <1>1, <1>2, PTL DEF Spec

LEMMA SyncDeleteRemoves ==
  ASSUME ContractInv, NEW k \in Controller, NEW c \in Claim, SyncDelete(k, c), UNCHANGED req
  PROVE  Contract!Remove(c)
PROOF
<1>1. StoreTypeOK /\ Releasing' = Releasing
  BY DEF ContractInv, TypeInv, TypeOK, Releasing, Releases, ClaimOf, Running
<1>2. now' = now /\ Lease' = [Lease EXCEPT ![c] = Absent] /\ Issued' = Issued
  <2>1. LeaseOf(Absent) = Absent /\ Absent \in Value
    BY DEF LeaseOf, Exists, Value
  <2> QED
    BY <1>1, <2>1, PutIsSeen DEF SyncDelete
<1>3. Stored(c) \in DistccClaim /\ Lease[c] # Absent
  BY <1>1, StoredIsValue, ContractAssumption
  DEF SyncDelete, CanDelete, Lease, LeaseOf, Exists, DistccClaim
<1>4. \E e \in Issued[c] : now > e
  <2>1. PICK i \in 1 .. Version(c) : Expired(history[c][i])
    BY DEF SyncDelete, ContractInv, RemovedOnlyWhenLapsed
  <2>2. history[c][i] \in DistccClaim
    BY <1>1, <2>1, StoredIsValue DEF Expired, Exists, Value
  <2>3. LeaseOf(history[c][i]) = history[c][i].exp /\ history[c][i].exp \notin {Absent, Unset}
    BY <2>1, <2>2, ContractAssumption DEF LeaseOf, Expired, DistccClaim
  <2>4. history[c][i].exp \in Issued[c]
    BY <2>1, <2>3 DEF Issued, IssuedOf
  <2> QED
    BY <2>1, <2>4 DEF Expired
<1> QED
  BY <1>1, <1>2, <1>3, <1>4
  DEF Contract!Remove, Lease, Issued, IssuedOf, Releasing, Releases

LEMMA SyncUpdateIssues ==
  ASSUME ContractInv, NEW k \in Controller, NEW c \in Claim, SyncUpdate(k, c), UNCHANGED req
  PROVE  Contract!Grant(c) \/ Contract!Shorten(c)
PROOF
<1> DEFINE e == sync[k][c].exp
           v == [Stored(c) EXCEPT !.exp = e]
<1>1. StoreTypeOK /\ Releasing' = Releasing
  BY DEF ContractInv, TypeInv, TypeOK, Releasing, Releases, ClaimOf, Running
<1>2. e \in Time /\ \E d \in LeaseDuration : e <= now + d
  BY DEF SyncUpdate, ContractInv, PendingsInTime, PendingInTime
<1>3. Stored(c) \in DistccClaim /\ Exists(Stored(c))
  BY <1>1, StoredIsValue DEF SyncUpdate, CanUpdate
<1>4. v \in DistccClaim /\ v.exp = e /\ Exists(v)
  BY <1>2, <1>3, AbsentAssumption DEF DistccClaim, Exists
<1>5. LeaseOf(v) = e /\ e \notin {Absent, Unset} /\ Lease[c] = Stored(c).exp
  BY <1>2, <1>3, <1>4, ContractAssumption, UnsetAssumption DEF LeaseOf, Lease
<1>6. Answers(Stored(c), e)
  BY DEF SyncUpdate, CanUpdate, ContractInv, GrantInv, PendingUpdate, Stored
<1>7. /\ now' = now
      /\ Lease' = [Lease EXCEPT ![c] = e]
      /\ Issued' = [Issued EXCEPT ![c] = @ \cup {e}]
  <2>1. {e} \ {Absent, Unset} = {e}
    BY <1>5
  <2> HIDE DEF v, e
  <2>2. Put(c, v) /\ v \in Value
    BY <1>4 DEF SyncUpdate, Value, v, e
  <2> QED
    BY <1>1, <1>5, <2>1, <2>2, PutIsSeen
<1>8. Contract!Issue(c, e)
  BY <1>1, <1>7 DEF Contract!Issue, Lease, Issued, IssuedOf, Releasing, Releases
<1>9. CASE Asks(Stored(c))
  <2>1. PICK d \in LeaseDuration : e <= now + d
    BY <1>2
  <2>2. e \in 0 .. now + d
    BY <1>1, <1>2, <2>1, LeaseAssumption DEF StoreTypeOK, Time
  <2>3. Lease[c] = Unset
    BY <1>5, <1>9 DEF Asks
  <2> QED
    BY <1>8, <2>2, <2>3 DEF Contract!Grant, Lease
<1>10. CASE Leased(Stored(c)) /\ e < Stored(c).exp
  <2>1. Stored(c).exp \in Time /\ Lease[c] \notin {Unset, Absent}
    BY <1>3, <1>5, <1>10, ContractAssumption DEF Leased, DistccClaim
  <2>2. e \in 0 .. Lease[c]
    BY <1>2, <1>5, <1>10, <2>1 DEF Time
  <2> QED
    BY <1>8, <2>1, <2>2 DEF Contract!Shorten, Lease
<1> QED
  BY <1>6, <1>9, <1>10 DEF Answers

\* Both ways to ask for a lease store a claim without an expiration.
LEMMA AskIsSeen ==
  ASSUME ContractInv, NEW r \in Request, NEW v \in DistccClaim, v.exp = Unset,
         Write(r, v), req[r].pc \in {"create", "update"}
  PROVE  Contract!Ask(ClaimOf(r))
PROOF
<1>1. /\ StoreTypeOK /\ ClaimOf(r) \in Claim /\ req[r].op = "lease" /\ TypeInv
  BY DEF ContractInv, TypeInv, TypeOK, ServiceTypeOK, RequestState, ClaimOf, HoldsDistcc
<1>2. LeaseOf(v) = Unset /\ v \in Value
  BY AbsentAssumption DEF LeaseOf, Exists, Value
<1>3. now' = now /\ Lease' = [Lease EXCEPT ![ClaimOf(r)] = Unset] /\ Issued' = Issued
  BY <1>1, <1>2, PutIsSeen DEF Write
<1>4. Releasing' = Releasing
  BY <1>1, WriteIsSeen
<1> QED
  BY <1>3, <1>4 DEF Contract!Ask, Lease, Issued, IssuedOf, Releasing, Releases

LEMMA DeleteClaimRemoves ==
  ASSUME ContractInv, NEW r \in Request, DeleteClaim(r), NEW c \in Claim, c = ClaimOf(r)
  PROVE  Contract!Remove(c)
PROOF
<1>1. /\ StoreTypeOK /\ req[r].op = "delete" /\ TypeInv
      /\ req[r].pc = "delete"
  BY DEF ContractInv, TypeInv, TypeOK, ServiceTypeOK, RequestState, ClaimOf, HoldsDistcc,
         DeleteClaim
<1>2. /\ now' = now /\ Lease' = [Lease EXCEPT ![c] = Absent] /\ Issued' = Issued
  <2>1. LeaseOf(Absent) = Absent /\ Absent \in Value
    BY DEF LeaseOf, Exists, Value
  <2> QED
    BY <1>1, <2>1, PutIsSeen DEF DeleteClaim, Write
<1>3. Lease[c] # Absent
  BY <1>1, StoredIsValue, ContractAssumption
  DEF DeleteClaim, CanDelete, Lease, LeaseOf, Exists, DistccClaim
<1>4. c \in Releasing /\ Releasing' \in {Releasing, Releasing \ {c}}
  BY <1>1, WriteIsSeen DEF DeleteClaim
<1> QED
  BY <1>2, <1>3, <1>4
  DEF Contract!Remove, Lease, Issued, IssuedOf, Releasing, Releases

LEMMA ContractStep ==
  ASSUME ContractInv, ContractInv', [Next]_vars
  PROVE  [Contract!Next]_Contract!vars
PROOF
<1>1. TypeInv /\ StoreTypeOK
  BY DEF ContractInv, TypeInv, TypeOK
<1>2. CASE UNCHANGED <<now, history>>
  <2>1. Releasing' \in SUBSET Claim
    BY DEF ContractInv, TypeInv, TypeOK, ServiceTypeOK, RequestState, Releasing, Releases,
           ClaimOf
  <2>2. Contract!Release
    BY <1>2, <2>1, SameHistoryIsSeen
    DEF Contract!Release, Lease, Issued, IssuedOf, Releasing, Releases
  <2> QED
    BY <2>2 DEF Contract!Next
<1>3. CASE Environment
  <2>1. CASE Tick
    <3>1. Releasing' = Releasing
      BY <1>3 DEF Environment, Releasing, Releases, ClaimOf, Running
    <3>2. Contract!Pass
      BY <2>1, <3>1, SameHistoryIsSeen
      DEF Tick, Contract!Pass, Lease, Issued, IssuedOf, Releasing, Releases
    <3> QED
      BY <3>2 DEF Contract!Next
  <2>2. CASE EditDistcc
    BY <1>2, <2>2 DEF EditDistcc
  <2> QED
    BY <1>3, <2>1, <2>2 DEF Environment
<1>4. ASSUME NEW k \in Controller, NEW c \in Claim, SyncDelete(k, c), UNCHANGED req
      PROVE  Contract!Next
  BY <1>4, SyncDeleteRemoves DEF Contract!Next
<1>5. ASSUME NEW k \in Controller, NEW c \in Claim, SyncUpdate(k, c), UNCHANGED req
      PROVE  Contract!Next
  BY <1>5, SyncUpdateIssues DEF Contract!Next
<1>6. ASSUME NEW r \in Request PROVE ClaimOf(r) \in Claim /\ HoldsDistcc(req[r])
  BY <1>1 DEF TypeInv, TypeOK, ServiceTypeOK, ClaimOf, RequestState
<1>7. ASSUME NEW r \in Request, CreateClaim(r) PROVE Contract!Next
  <2> DEFINE v == [exp |-> Unset, labels |-> req[r].distcc.labels]
  <2>1. v \in DistccClaim /\ v.exp = Unset
    BY <1>6, <1>7 DEF CreateClaim, HoldsDistcc, Distcc, DistccClaim
  <2>2. Contract!Ask(ClaimOf(r))
    BY <1>7, <2>1, AskIsSeen DEF CreateClaim, NewDistccClaim
  <2> QED
    BY <1>6, <2>2 DEF Contract!Next
<1>8. ASSUME NEW r \in Request, UpdateClaim(r) PROVE Contract!Next
  <2> DEFINE v == [Stored(ClaimOf(r)) EXCEPT !.exp = Unset]
  <2>1. Stored(ClaimOf(r)) \in DistccClaim
    BY <1>1, <1>6, <1>8, StoredIsValue DEF UpdateClaim, CanUpdate
  <2>2. v \in DistccClaim /\ v.exp = Unset
    BY <2>1 DEF DistccClaim
  <2>3. Contract!Ask(ClaimOf(r))
    BY <1>8, <2>2, AskIsSeen DEF UpdateClaim
  <2> QED
    BY <1>6, <2>3 DEF Contract!Next
<1>9. ASSUME NEW r \in Request, DeleteClaim(r) PROVE Contract!Next
  <2>1. PICK c \in Claim : c = ClaimOf(r)
    BY <1>6
  <2>2. Contract!Remove(c)
    BY <1>9, <2>1, DeleteClaimRemoves
  <2> QED
    BY <2>2 DEF Contract!Next
<1>10. CASE ControllerNext /\ UNCHANGED req
  BY <1>2, <1>4, <1>5, <1>10
  DEF ControllerNext, ControllerStep, WatchClaim, WatchDistcc, ControllerRestart,
      SyncExpired, SyncRenew, StartCall, SyncFails, storeVars
<1>11. ASSUME NEW r \in Request, ServiceStep(r) PROVE [Contract!Next]_Contract!vars
  BY <1>2, <1>7, <1>8, <1>9, <1>11
  DEF ServiceStep, RequestStep, LeaseDistcc, DeleteDistcc, Arrive, ServiceCrash,
      GetDistcc, GetClaim, DeleteFindsNothing, AttemptFails, Reply, storeVars
<1> QED
  BY <1>2, <1>3, <1>10, <1>11 DEF Next, storeVars, vars

LEMMA ContractStart == Init => Contract!Init
PROOF
<1> SUFFICES ASSUME Init PROVE Contract!Init
  OBVIOUS
<1>1. now = 0 /\ \A c \in Claim : history[c] = <<Absent>>
  BY DEF Init, StoreInit
<1>2. ASSUME NEW c \in Claim PROVE LeaseOf(Stored(c)) = Absent /\ IssuedOf(c) = {}
  <2>1. Version(c) = 1 /\ history[c][1] = Absent
    <3>1. history[c] = <<Absent>>
      BY <1>1
    <3>2. Len(history[c]) = 1 /\ history[c][1] = Absent
      BY <3>1
    <3> QED
      BY <3>2 DEF Version
  <2> QED
    BY <2>1 DEF Stored, LeaseOf, Exists, IssuedOf
<1>3. Releasing = {}
  BY DEF Init, ServiceInit, Releasing, Releases, Running
<1> QED
  BY <1>1, <1>2, <1>3 DEF Contract!Init, IssuedOf, Releasing, Releases

\* The controllers, the service and the API server between them keep the
\* promises of LeaseContract, whatever the numbers of claims, requests and
\* controllers, the durations of leases and the failures.
THEOREM LeasingImplementsContract == Spec => ImplementsContract
PROOF BY ContractStart, ContractStep, ContractInvariant, PTL
      DEF Spec, ImplementsContract, Contract!Spec

\* The Distcc controller may take claims to change as LeaseLife says: each
\* write of the service and of the controllers changes one of them, and
\* grants no lease but to a claim that asks for one.
THEOREM LeasesAreAsCounted == Spec => LeasesChangeAsCounted
<1> DEFINE Changed ==
      \E c \in Claim : \E e \in Life!NextLeases(Leases[c], now) :
        Leases' = [Leases EXCEPT ![c] = e]
<1>1. [Contract!Next]_(Contract!vars) => [Changed]_Leases
  <2>1. ASSUME NEW c \in Claim, Contract!Ask(c) PROVE Changed
    BY <2>1 DEF Contract!Ask, Life!NextLeases, Leases
  <2>2. ASSUME NEW c \in Claim, Contract!Grant(c) PROVE Changed
    <3>1. PICK d \in LeaseDuration :
            \E e \in 0 .. now + d : Leases[c] = Unset /\ Leases' = [Leases EXCEPT ![c] = e]
      BY <2>2 DEF Contract!Grant, Contract!Issue, Leases
    <3>2. PICK e \in 0 .. now + d : Leases[c] = Unset /\ Leases' = [Leases EXCEPT ![c] = e]
      BY <3>1
    <3>3. e \in Life!NextLeases(Leases[c], now)
      BY <3>2 DEF Life!NextLeases
    <3> QED
      BY <3>2, <3>3
  <2>3. ASSUME NEW c \in Claim, Contract!Shorten(c) PROVE Changed
    BY <2>3 DEF Contract!Shorten, Contract!Issue, Life!NextLeases, Leases
  <2>4. ASSUME NEW c \in Claim, Contract!Remove(c) PROVE Changed
    BY <2>4 DEF Contract!Remove, Life!NextLeases, Leases
  <2>5. CASE Contract!Pass \/ Contract!Release \/ UNCHANGED Contract!vars
    BY <2>5 DEF Contract!Pass, Contract!Release, Contract!vars, Leases
  <2> QED
    BY <2>1, <2>2, <2>3, <2>4, <2>5 DEF Contract!Next
<1> QED
  BY <1>1, LeasingImplementsContract, PTL
  DEF ImplementsContract, Contract!Spec, LeasesChangeAsCounted

(***************************************************************************)
(* Requests do not go on for ever.                                         *)
(***************************************************************************)
\* How far a request is depends on where it is and on its attempt alone.
LEMMA FurtherSamePlace ==
  ASSUME NEW p, NEW w, NEW q, w.pc = p.pc, w.attempt = p.attempt, Further(w, q)
  PROVE  Further(p, q)
BY DEF Further, Phase, Stage

LEMMA DoneIsFurther ==
  ASSUME NEW p \in RequestState, p.pc # "done", NEW q, q.pc = "done"
  PROVE  Further(p, q)
BY DEF Further, Phase

LEMMA RetryIsFurther ==
  ASSUME NEW p \in RequestState, p.pc \in PC \ {"new", "reply", "done"}
  PROVE  Further(p, Retry(p))
<1>1. CASE p.attempt < Steps
  <2>1. Retry(p).attempt = p.attempt + 1 /\ Retry(p).pc = FirstCall(p)
    BY <1>1 DEF Retry, RequestState
  <2>2. p.attempt < p.attempt + 1
    BY StepsAssumption DEF RequestState
  <2>3. CASE p.pc = "getDistcc"
    <3>1. Phase(p) = 1
      BY <2>3 DEF Phase
    <3>2. Retry(p).pc \in {"getDistcc", "delete", "getClaim"}
      BY <2>1 DEF FirstCall
    <3>3. Phase(Retry(p)) \in {1, 2}
      BY <3>2 DEF Phase
    <3> QED
      BY <2>1, <2>2, <3>1, <3>3 DEF Further
  <2>4. CASE p.pc # "getDistcc"
    <3>1. p.pc \in {"getClaim", "create", "update", "delete"}
      BY <2>4 DEF PC
    <3>2. Retry(p).pc \in {"delete", "getClaim"}
      BY <2>1, <2>4 DEF FirstCall
    <3>3. Phase(p) = 2 /\ Phase(Retry(p)) = 2
      BY <3>1, <3>2 DEF Phase
    <3> QED
      BY <2>1, <2>2, <3>3 DEF Further
  <2> QED
    BY <2>3, <2>4
<1>2. CASE ~ (p.attempt < Steps)
  <2>1. Retry(p).pc = "done"
    BY <1>2 DEF Retry, Fail, Done, RequestState
  <2> QED
    BY <2>1, DoneIsFurther
<1> QED
  BY <1>1, <1>2

LEMMA EndAttemptIsFurther ==
  ASSUME ServiceTypeOK, NEW r \in Request, Running(r), NEW q, Further(req[r], q),
         EndAttempt(r, q)
  PROVE  Further(req[r], req'[r])
<1>1. req \in [Request -> RequestState] /\ req[r].pc # "done"
  BY DEF ServiceTypeOK, Running
<1>2. CASE req' = [req EXCEPT ![r] = q]
  BY <1>1, <1>2
<1>3. CASE req' = [req EXCEPT ![r] = [Fail(@, "ErrCanceled") EXCEPT !.wrote = q.wrote]]
  <2>1. req'[r].pc = "done"
    BY <1>1, <1>3 DEF Fail, Done, RequestState
  <2> QED
    BY <1>1, <2>1, DoneIsFurther
<1> QED
  BY <1>2, <1>3 DEF EndAttempt

LEMMA WriteIsFurther ==
  ASSUME ServiceTypeOK, NEW r \in Request, req[r].pc \in {"create", "update", "delete"},
         NEW v, Write(r, v), Version(ClaimOf(r)) \in Nat
  PROVE  Further(req[r], req'[r])
<1> DEFINE w == [req[r] EXCEPT !.wrote = Version(ClaimOf(r)) + 1]
<1>1. req \in [Request -> RequestState] /\ req[r] \in RequestState /\ Running(r)
  BY DEF ServiceTypeOK, Running
<1>2. w \in RequestState /\ w.pc = req[r].pc /\ w.attempt = req[r].attempt
  BY <1>1 DEF RequestState
<1>3. CASE req' = [req EXCEPT ![r] = [w EXCEPT !.pc = "reply"]]
  <2>1. req'[r].pc = "reply" /\ req'[r].attempt = req[r].attempt
    BY <1>1, <1>3 DEF RequestState
  <2> QED
    BY <2>1 DEF Further, Phase, Stage
<1>4. CASE EndAttempt(r, Retry(w))
  <2> HIDE DEF w
  <2>1. Further(w, Retry(w))
    BY <1>2, RetryIsFurther DEF PC
  <2>2. Further(req[r], Retry(w))
    BY <1>2, <2>1, FurtherSamePlace
  <2> QED
    BY <1>1, <1>4, <2>2, EndAttemptIsFurther
<1> QED
  BY <1>3, <1>4 DEF Write

LEMMA ArriveIsFurther ==
  ASSUME ServiceTypeOK, NEW r \in Request, NEW op, NEW first \in {"getDistcc", "delete"},
         Arrive(r, op, first)
  PROVE  Further(req[r], req'[r])
<1>1. req \in [Request -> RequestState] /\ req[r] \in RequestState
  BY DEF ServiceTypeOK
<1>2. PICK c \in Claim :
        req' = [req EXCEPT ![r] = [@ EXCEPT !.pc = first, !.op = op, !.claim = c,
                                            !.start = Version(c)]]
  BY DEF Arrive
<1>3. req[r].pc = "new" /\ req'[r].pc = first
  BY <1>1, <1>2 DEF Arrive, RequestState
<1> QED
  BY <1>3 DEF Further, Phase

LEMMA ServiceStepIsFurther ==
  ASSUME TypeInv, NEW r \in Request, ServiceStep(r)
  PROVE  Further(req[r], req'[r])
<1>1. /\ req \in [Request -> RequestState] /\ req[r] \in RequestState /\ ServiceTypeOK
      /\ Version(ClaimOf(r)) \in Nat
  BY StoredIsValue DEF TypeInv, TypeOK, ServiceTypeOK, ClaimOf, RequestState
<1>2. CASE LeaseDistcc(r) \/ DeleteDistcc(r)
  <2>1. PICK op, first : Arrive(r, op, first) /\ first \in {"getDistcc", "delete"}
    BY <1>2 DEF LeaseDistcc, DeleteDistcc
  <2> QED
    BY <1>1, <2>1, ArriveIsFurther
<1>3. CASE ServiceCrash(r)
  <2>1. req[r].pc # "done" /\ req'[r].pc = "done"
    BY <1>1, <1>3 DEF ServiceCrash, Running, Done, RequestState
  <2> QED
    BY <1>1, <2>1, DoneIsFurther
<1>4. CASE GetDistcc(r)
  <2>1. PICK q : /\ EndAttempt(r, q)
                 /\ q = [req[r] EXCEPT !.pc = "getClaim", !.attempt = 1,
                                       !.distcc = StoredDistcc]
                    \/ q = Fail(req[r], "NotFound")
    BY <1>4 DEF GetDistcc
  <2>2. req[r].pc = "getDistcc" /\ Running(r) /\ q.pc \in {"getClaim", "done"}
    BY <1>1, <1>4, <2>1 DEF GetDistcc, Running, Fail, Done, RequestState
  <2>3. Further(req[r], q)
    BY <2>2 DEF Further, Phase
  <2> QED
    BY <1>1, <2>1, <2>2, <2>3, EndAttemptIsFurther
<1>5. CASE GetClaim(r)
  <2>1. /\ req[r].pc = "getClaim" /\ req'[r].pc \in {"create", "reply", "update"}
        /\ req'[r].attempt = req[r].attempt
    BY <1>1, <1>5 DEF GetClaim, RequestState
  <2> QED
    BY <2>1 DEF Further, Phase, Stage
<1>6. CASE CreateClaim(r) \/ UpdateClaim(r) \/ DeleteClaim(r)
  BY <1>1, <1>6, WriteIsFurther DEF CreateClaim, UpdateClaim, DeleteClaim
<1>7. CASE DeleteFindsNothing(r) \/ Reply(r)
  <2>1. PICK q : EndAttempt(r, q) /\ q \in {Fail(req[r], "ErrNotFound"), Done(req[r], Nil)}
    BY <1>7 DEF DeleteFindsNothing, Reply
  <2>2. req[r].pc \in {"delete", "reply"} /\ Running(r) /\ q.pc = "done"
    BY <1>1, <1>7, <2>1
    DEF DeleteFindsNothing, Reply, Running, Fail, Done, RequestState
  <2>3. Further(req[r], q)
    BY <1>1, <2>2, DoneIsFurther
  <2> QED
    BY <1>1, <2>1, <2>2, <2>3, EndAttemptIsFurther
<1>8. CASE AttemptFails(r)
  <2>1. req[r].pc \in PC \ {"new", "reply", "done"} /\ Running(r) /\ EndAttempt(r, Retry(req[r]))
    BY <1>8 DEF AttemptFails, Running, PC
  <2> QED
    BY <1>1, <2>1, RetryIsFurther, EndAttemptIsFurther
<1> QED
  BY <1>2, <1>3, <1>4, <1>5, <1>6, <1>7, <1>8 DEF ServiceStep, RequestStep

\* Whatever the other requests and the controllers do, a request only goes
\* forward through its phases and its at most Steps attempts of each, and so
\* is answered after a bounded number of calls.
THEOREM RequestsOnlyAdvance == Spec => RequestsAdvance
<1>1. TypeInv /\ [Next]_vars
        => [\A r \in Request : ServiceStep(r) => Further(req[r], req'[r])]_vars
  BY ServiceStepIsFurther
<1> QED
  BY <1>1, TypeInvariant, PTL DEF Spec, RequestsAdvance
=============================================================================
