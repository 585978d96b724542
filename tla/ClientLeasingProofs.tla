------------------------- MODULE ClientLeasingProofs -------------------------
(***************************************************************************)
(* Proofs about ClientLeasing, for any number of requests and controller   *)
(* processes, any labels, lease durations and bounds.                      *)
(*                                                                         *)
(* The inductive invariant says what the copies of a claim are good for    *)
(* that caches, Syncs and requests hold: they are older than the next      *)
(* write, they refer to nothing but objects of their claim, and the one    *)
(* that still has the stored version is what is stored (CopyOK), or at     *)
(* least does not prolong it (DraftOK).                                    *)
(***************************************************************************)
EXTENDS ClientLeasing, SequenceTheorems, TLAPS

Controlled(c) ==
  \A kind \in Kind : c.ref[kind] # NoRef =>
    /\ c.ref[kind] \in DOMAIN objects[kind]
    /\ IsControlledBy(kind, c.ref[kind], c)

CopyOK(c) ==
  Exists(c) =>
    /\ c.ver <= writes
    /\ Controlled(c)
    /\ Exists(claim) /\ c.ver = claim.ver => c = claim

DraftOK(c) ==
  /\ c.ver <= writes
  /\ Controlled(c)
  /\ c.exp # Unset
  /\ Exists(claim) /\ c.ver = claim.ver =>
       c.uid = claim.uid /\ (claim.exp = Unset \/ c.exp <= claim.exp)

StoreOK ==
  /\ CopyOK(claim)
  /\ Exists(claim) => claim.uid <= writes
  /\ GrantedIsComplete

SyncOK(s) ==
  s.pc # "idle" =>
    /\ DraftOK(s.claim)
    /\ s.pc \in {"service", "update"} => s.claim.ref["deploy"] # NoRef
    /\ s.pc = "update" => s.claim.ref["service"] # NoRef

Later(q) == Exists(claim) => claim.uid >= q.since

OwnAnswer(q) ==
  /\ q.answer \in DOMAIN objects["service"]
  /\ objects["service"][q.answer].owner >= q.since

LeaseOK(q) ==
  q.op = "lease" =>
    /\ q.pc # "delete"
    /\ Later(q)
    /\ Exists(q.got) => q.got.uid >= q.since
    /\ q.pc = "new" => ~ Exists(q.got)
    /\ q.pc \in {"update", "getService"} => Exists(q.got)
    /\ q.pc = "reply" \/ (q.pc = "done" /\ q.err = "nil") => OwnAnswer(q)

ReleaseOK(q) ==
  q.op = "delete" =>
    /\ q.pc \in {"delete", "reply", "done"}
    /\ q.pc # "delete" => Later(q)

RequestOK(q) ==
  q.since <= writes + 1 /\ CopyOK(q.got) /\ LeaseOK(q) /\ ReleaseOK(q)

IInv ==
  /\ TypeOK
  /\ StoreOK
  /\ \A k \in Controller : CopyOK(seen[k].claim) /\ SyncOK(sync[k])
  /\ \A r \in Request : RequestOK(req[r])

(***************************************************************************)
(* What a step does to the store: objects keep their owners, and a write   *)
(* gives the claim a version that nobody has a copy of.                    *)
(***************************************************************************)
ObjectsGrow ==
  \A kind \in Kind : \A n \in DOMAIN objects[kind] :
    n \in DOMAIN objects'[kind] /\ objects'[kind][n].owner = objects[kind][n].owner

ClaimWritten ==
  /\ writes' = writes + 1
  /\ Exists(claim') =>
       /\ claim'.ver = writes + 1
       /\ claim'.uid = writes + 1 \/ (Exists(claim) /\ claim'.uid = claim.uid)

StoreMoves ==
  StoreTypeOK' /\ ObjectsGrow /\ (UNCHANGED <<claim, writes>> \/ ClaimWritten)

LEMMA ToKubeTimeTruncates ==
  ASSUME NEW t \in Time
  PROVE  ToKubeTime(t) \in Time /\ ToKubeTime(t) <= t
BY SecondAssumption DEF ToKubeTime, Time

LEMMA ClaimType ==
  ASSUME StoreTypeOK, Exists(claim)
  PROVE  claim \in DistccClientClaim
BY DEF StoreTypeOK, Exists

\* Objects are named by numbers.
LEMMA ObjectsType ==
  ASSUME StoreTypeOK, NEW kind \in Kind
  PROVE  /\ objects[kind] \in Seq(Object)
         /\ Len(objects[kind]) \in Nat
         /\ DOMAIN objects[kind] = 1 .. Len(objects[kind])
         /\ \A n \in DOMAIN objects[kind] : n \in Nat \ {0} /\ objects[kind][n] \in Object
<1>1. objects[kind] \in Seq(Object)
  BY DEF StoreTypeOK
<1> QED
  BY <1>1, LenProperties, ElementOfSeq

\* A new object has the next name and the owner it was given.
LEMMA PostGrows ==
  ASSUME StoreTypeOK, NEW kind \in Kind, NEW owner \in Nat,
         NEW labels \in SUBSET (Label \cup {UserLabel}), PostObject(kind, owner, labels),
         changes' \in 0 .. MaxChanges
  PROVE  /\ StoreMoves /\ UNCHANGED <<now, client, claim, writes>>
         /\ Len(objects[kind]) + 1 \in DOMAIN objects'[kind]
         /\ objects'[kind][Len(objects[kind]) + 1].owner = owner
         /\ DOMAIN objects'[kind] = 1 .. Len(objects[kind]) + 1
         /\ \A n \in 1 .. Len(objects[kind]) : objects'[kind][n] = objects[kind][n]
         /\ \A other \in Kind : other # kind => objects'[other] = objects[other]
<1> DEFINE new == [owner |-> owner, labels |-> labels, live |-> TRUE]
<1>1. new \in Object
  BY DEF Object
<1>2. objects' = [objects EXCEPT ![kind] = Append(@, new)]
  BY DEF PostObject
<1>3. objects \in [Kind -> Seq(Object)]
  BY DEF StoreTypeOK
<1> HIDE DEF new
<1>4. /\ Append(objects[kind], new) \in Seq(Object)
      /\ Len(Append(objects[kind], new)) = Len(objects[kind]) + 1
      /\ \A i \in 1 .. Len(objects[kind]) : Append(objects[kind], new)[i] = objects[kind][i]
      /\ Append(objects[kind], new)[Len(objects[kind]) + 1] = new
  BY <1>1, <1>3, AppendProperties
<1>5. objects' \in [Kind -> Seq(Object)] /\ objects'[kind] = Append(objects[kind], new)
  BY <1>2, <1>3, <1>4
<1>6. UNCHANGED <<now, client, claim, writes>>
  BY DEF PostObject
<1>7. StoreTypeOK'
  BY <1>5, <1>6 DEF StoreTypeOK
<1>8. /\ DOMAIN objects[kind] = 1 .. Len(objects[kind]) /\ Len(objects[kind]) \in Nat
      /\ DOMAIN objects'[kind] = 1 .. Len(objects[kind]) + 1
  BY <1>3, <1>4, <1>5, LenProperties
<1>9. \A other \in Kind : other # kind => objects'[other] = objects[other]
  BY <1>2, <1>3
<1>10. ObjectsGrow
  <2>1. \A n \in DOMAIN objects[kind] :
          n \in DOMAIN objects'[kind] /\ objects'[kind][n] = objects[kind][n]
    BY <1>4, <1>5, <1>8
  <2> QED
    BY <1>9, <2>1 DEF ObjectsGrow
<1>11. objects'[kind][Len(objects[kind]) + 1].owner = owner
  BY <1>4, <1>5 DEF new
<1>12. \A n \in 1 .. Len(objects[kind]) : objects'[kind][n] = objects[kind][n]
  BY <1>4, <1>5
<1> QED
  BY <1>6, <1>7, <1>8, <1>9, <1>10, <1>11, <1>12 DEF StoreMoves

\* An object that is removed still had its owner.
LEMMA KillKeeps ==
  ASSUME StoreTypeOK, NEW kind \in Kind, NEW n \in DOMAIN objects[kind], Kill(kind, n),
         changes' \in 0 .. MaxChanges
  PROVE  /\ StoreMoves /\ UNCHANGED <<claim, writes>>
         /\ \A other \in Kind : DOMAIN objects'[other] = DOMAIN objects[other]
<1> DEFINE dead == [objects[kind][n] EXCEPT !.live = FALSE]
<1>1. objects \in [Kind -> Seq(Object)] /\ objects[kind] \in Seq(Object)
  BY DEF StoreTypeOK
<1>2. n \in 1 .. Len(objects[kind]) /\ objects[kind][n] \in Object
  BY ObjectsType
<1>3. dead \in Object /\ dead.owner = objects[kind][n].owner
  BY <1>2 DEF Object
<1>4. objects' = [objects EXCEPT ![kind] = [@ EXCEPT ![n] = dead]]
  BY <1>1, <1>2 DEF Kill
<1> HIDE DEF dead
<1>5. /\ [objects[kind] EXCEPT ![n] = dead] \in Seq(Object)
      /\ Len([objects[kind] EXCEPT ![n] = dead]) = Len(objects[kind])
      /\ \A i \in 1 .. Len(objects[kind]) :
           [objects[kind] EXCEPT ![n] = dead][i] = IF i = n THEN dead ELSE objects[kind][i]
  BY <1>1, <1>2, <1>3, ExceptSeq
<1>6. objects' \in [Kind -> Seq(Object)] /\ objects'[kind] = [objects[kind] EXCEPT ![n] = dead]
  BY <1>1, <1>4, <1>5
<1>7. UNCHANGED <<now, client, claim, writes>>
  BY DEF Kill
<1>8. StoreTypeOK'
  BY <1>6, <1>7 DEF StoreTypeOK
<1>9. DOMAIN objects[kind] = 1 .. Len(objects[kind]) /\ DOMAIN objects'[kind] = DOMAIN objects[kind]
  BY <1>1, <1>5, <1>6, LenProperties
<1>10. \A other \in Kind : other # kind => objects'[other] = objects[other]
  BY <1>1, <1>4
<1>11. ObjectsGrow
  BY <1>3, <1>5, <1>6, <1>9, <1>10 DEF ObjectsGrow
<1>12. \A other \in Kind : DOMAIN objects'[other] = DOMAIN objects[other]
  BY <1>9, <1>10
<1> QED
  BY <1>7, <1>8, <1>11, <1>12 DEF StoreMoves

\* What is written is typed.
LEMMA WriteMoves ==
  ASSUME StoreTypeOK, NEW c \in DistccClientClaim \cup {Absent}, Write(c),
         Exists(c) => /\ c.ver = writes + 1
                      /\ c.uid = writes + 1 \/ (Exists(claim) /\ c.uid = claim.uid)
  PROVE  StoreMoves /\ claim' = c /\ writes' = writes + 1 /\ UNCHANGED <<now, objects>>
BY DEF Write, StoreTypeOK, StoreMoves, ObjectsGrow, ClaimWritten, Exists

(***************************************************************************)
(* Copies stay good, whatever happens to the store.                        *)
(***************************************************************************)
LEMMA ControlledStays ==
  ASSUME ObjectsGrow, NEW c, Controlled(c)
  PROVE  Controlled(c)'
BY DEF ObjectsGrow, Controlled, IsControlledBy

LEMMA CopyStays ==
  ASSUME StoreTypeOK, StoreMoves, NEW c \in DistccClientClaim \cup {Absent}, CopyOK(c)
  PROVE  CopyOK(c)'
<1> SUFFICES ASSUME Exists(c) PROVE CopyOK(c)'
  BY DEF CopyOK, Exists
<1>1. Controlled(c)'
  BY ControlledStays DEF StoreMoves, CopyOK
<1>2. c.ver \in Nat /\ c.ver <= writes /\ writes \in Nat
  BY DEF Exists, DistccClientClaim, CopyOK, StoreTypeOK
<1> QED
  BY <1>1, <1>2 DEF StoreMoves, ClaimWritten, CopyOK, Exists

LEMMA DraftStays ==
  ASSUME StoreTypeOK, StoreMoves, NEW c \in DistccClientClaim, DraftOK(c)
  PROVE  DraftOK(c)'
<1>1. Controlled(c)'
  BY ControlledStays DEF StoreMoves, DraftOK
<1>2. c.ver \in Nat /\ c.ver <= writes /\ writes \in Nat
  BY DEF DistccClientClaim, DraftOK, StoreTypeOK
<1> QED
  BY <1>1, <1>2 DEF StoreMoves, ClaimWritten, DraftOK, Exists

LEMMA RequestStays ==
  ASSUME StoreTypeOK, StoreMoves, NEW q \in RequestState, RequestOK(q)
  PROVE  RequestOK(q)'
<1>1. q.since \in Nat /\ writes \in Nat /\ q.got \in DistccClientClaim \cup {Absent}
  BY DEF RequestState, StoreTypeOK
<1>2. CopyOK(q.got)'
  BY <1>1, CopyStays DEF RequestOK
<1>3. q.since <= writes' + 1
  BY <1>1 DEF StoreMoves, ClaimWritten, RequestOK
<1>4. Later(q) => Later(q)'
  BY <1>1 DEF StoreMoves, ClaimWritten, RequestOK, Later, Exists
<1>5. OwnAnswer(q) => OwnAnswer(q)'
  BY DEF StoreMoves, ObjectsGrow, OwnAnswer, Kind
<1>6. LeaseOK(q)'
  BY <1>4, <1>5 DEF RequestOK, LeaseOK, Exists
<1>7. ReleaseOK(q)'
  BY <1>4 DEF RequestOK, ReleaseOK
<1> QED
  BY <1>2, <1>3, <1>6, <1>7 DEF RequestOK

(***************************************************************************)
(* What a step leaves alone stays good.                                    *)
(***************************************************************************)
LEMMA StoreStays ==
  ASSUME IInv, StoreMoves, UNCHANGED <<claim, writes>>
  PROVE  StoreOK'
<1>1. StoreTypeOK /\ claim \in DistccClientClaim \cup {Absent} /\ CopyOK(claim)
  BY DEF IInv, TypeOK, StoreTypeOK, StoreOK
<1>2. CopyOK(claim)'
  <2>1. PICK c \in DistccClientClaim \cup {Absent} : c = claim
    BY <1>1
  <2>2. CopyOK(c)'
    BY <1>1, <2>1, CopyStays
  <2> QED
    BY <2>1, <2>2 DEF CopyOK, Exists, Controlled, IsControlledBy
<1> QED
  BY <1>2 DEF IInv, StoreOK, GrantedIsComplete, Leased, Exists

ControllersOK ==
  ControllerTypeOK /\ \A k \in Controller : CopyOK(seen[k].claim) /\ SyncOK(sync[k])

RequestsOK == ServiceTypeOK /\ \A r \in Request : RequestOK(req[r])

LEMMA InvParts == IInv <=> StoreTypeOK /\ StoreOK /\ ControllersOK /\ RequestsOK
BY DEF IInv, TypeOK, ControllersOK, RequestsOK

LEMMA SyncStays ==
  ASSUME StoreTypeOK, StoreMoves, NEW s \in SyncState,
         s.pc # "idle" => s.claim \in DistccClientClaim, SyncOK(s)
  PROVE  SyncOK(s)'
BY DraftStays DEF SyncOK

\* A cache still holds objects that the server has known.
LEMMA CachesStay ==
  ASSUME IInv, StoreMoves, NEW k \in Controller
  PROVE  /\ seen[k].deploy \subseteq DOMAIN objects'["deploy"]
         /\ seen[k].service \subseteq DOMAIN objects'["service"]
BY DEF IInv, TypeOK, ControllerTypeOK, StoreMoves, ObjectsGrow, Kind

LEMMA SyncIsTyped ==
  ASSUME IInv, NEW k \in Controller
  PROVE  /\ sync[k] \in SyncState /\ sync[k].pc # "found" /\ SyncOK(sync[k])
         /\ sync[k].pc # "idle" => /\ sync[k].claim \in DistccClientClaim
                                   /\ sync[k].client \in DistccClient
BY DEF IInv, TypeOK, ControllerTypeOK, SyncState, Exists

LEMMA CacheIsTyped ==
  ASSUME IInv, NEW k \in Controller
  PROVE  seen[k] \in Cache /\ CopyOK(seen[k].claim)
BY DEF IInv, TypeOK, ControllerTypeOK

LEMMA RequestIsTyped ==
  ASSUME IInv, NEW r \in Request
  PROVE  req[r] \in RequestState /\ RequestOK(req[r])
BY DEF IInv, TypeOK, ServiceTypeOK

\* A step of one process on its Sync.
LEMMA SyncMoves ==
  ASSUME IInv, StoreMoves, NEW k \in Controller, NEW s \in SyncState,
         sync' = [sync EXCEPT ![k] = s], UNCHANGED seen,
         s.pc # "found",
         s.pc # "idle" => s.claim \in DistccClientClaim /\ s.client \in DistccClient,
         SyncOK(s)'
  PROVE  ControllersOK'
<1>1. StoreTypeOK /\ seen \in [Controller -> Cache] /\ sync \in [Controller -> SyncState]
  BY DEF IInv, TypeOK, ControllerTypeOK
<1>2. sync' \in [Controller -> SyncState] /\ sync'[k] = s
  BY <1>1
<1>3. \A j \in Controller : j # k => sync'[j] = sync[j]
  BY <1>1
<1>4. \A j \in Controller : CopyOK(seen[j].claim)'
  <2> SUFFICES ASSUME NEW j \in Controller PROVE CopyOK(seen[j].claim)'
    OBVIOUS
  <2>1. PICK c \in DistccClientClaim \cup {Absent} : c = seen[j].claim
    BY CacheIsTyped DEF Cache
  <2>2. CopyOK(c)'
    BY <1>1, <2>1, CacheIsTyped, CopyStays
  <2> QED
    BY <2>1, <2>2
<1>5. \A j \in Controller : SyncOK(sync[j])'
  <2> SUFFICES ASSUME NEW j \in Controller PROVE SyncOK(sync[j])'
    OBVIOUS
  <2>1. CASE j = k
    BY <1>2, <2>1
  <2>2. CASE j # k
    <3>1. PICK t \in SyncState : t = sync[j]
      BY SyncIsTyped
    <3>2. SyncOK(t)'
      BY <1>1, <3>1, SyncIsTyped, SyncStays
    <3> QED
      BY <1>3, <2>2, <3>1, <3>2
  <2> QED
    BY <2>1, <2>2
<1>6. \A j \in Controller :
        sync'[j].pc # "idle" => Exists(sync'[j].claim) /\ Exists(sync'[j].client)
  BY <1>2, <1>3, SyncIsTyped, AbsentAssumption DEF Exists
<1>7. \A j \in Controller : sync'[j].pc # "found"
  BY <1>2, <1>3, SyncIsTyped
<1>8. ControllerTypeOK'
  BY <1>1, <1>2, <1>6, <1>7, CachesStay DEF ControllerTypeOK
<1> QED
  BY <1>4, <1>5, <1>8 DEF ControllersOK

LEMMA ControllersStay ==
  ASSUME IInv, StoreMoves, UNCHANGED controllerVars
  PROVE  ControllersOK'
<1>1. StoreTypeOK /\ ControllerTypeOK
  BY DEF IInv, TypeOK
<1>2. ASSUME NEW k \in Controller PROVE CopyOK(seen[k].claim)' /\ SyncOK(sync[k])'
  <2>1. PICK c \in DistccClientClaim \cup {Absent} : c = seen[k].claim
    BY CacheIsTyped DEF Cache
  <2>2. CopyOK(c)'
    BY <1>1, <2>1, CacheIsTyped, CopyStays
  <2>3. PICK t \in SyncState : t = sync[k]
    BY SyncIsTyped
  <2>4. SyncOK(t)'
    BY <1>1, <2>3, SyncIsTyped, SyncStays
  <2> QED
    BY <2>1, <2>2, <2>3, <2>4 DEF controllerVars
<1>3. ControllerTypeOK'
  BY <1>1, CachesStay DEF ControllerTypeOK, controllerVars, Exists
<1> QED
  BY <1>2, <1>3 DEF ControllersOK

\* A step of one request.
LEMMA RequestMoves ==
  ASSUME IInv, StoreMoves, NEW r \in Request, NEW q \in RequestState,
         Go(r, q), RequestOK(q)'
  PROVE  RequestsOK'
<1>1. StoreTypeOK /\ req \in [Request -> RequestState]
  BY DEF IInv, TypeOK, ServiceTypeOK
<1>2. /\ req' \in [Request -> RequestState] /\ req'[r] = q
      /\ \A p \in Request : p # r => req'[p] = req[p]
  BY <1>1 DEF Go
<1>3. \A p \in Request : RequestOK(req[p])'
  <2> SUFFICES ASSUME NEW p \in Request PROVE RequestOK(req[p])'
    OBVIOUS
  <2>1. CASE p = r
    BY <1>2, <2>1
  <2>2. CASE p # r
    <3>1. PICK old \in RequestState : old = req[p]
      BY RequestIsTyped
    <3>2. RequestOK(old)'
      BY <1>1, <3>1, RequestIsTyped, RequestStays
    <3> QED
      BY <1>2, <2>2, <3>1, <3>2
  <2> QED
    BY <2>1, <2>2
<1> QED
  BY <1>2, <1>3 DEF RequestsOK, ServiceTypeOK

LEMMA RequestsStay ==
  ASSUME IInv, StoreMoves, UNCHANGED req
  PROVE  RequestsOK'
<1>1. StoreTypeOK /\ ServiceTypeOK
  BY DEF IInv, TypeOK
<1>2. ASSUME NEW p \in Request PROVE RequestOK(req[p])'
  <2>1. PICK old \in RequestState : old = req[p]
    BY RequestIsTyped
  <2>2. RequestOK(old)'
    BY <1>1, <2>1, RequestIsTyped, RequestStays
  <2> QED
    BY <2>1, <2>2
<1> QED
  BY <1>1, <1>2 DEF RequestsOK, ServiceTypeOK

\* Nothing happens to the store.
LEMMA StoreRests ==
  ASSUME IInv, UNCHANGED storeVars
  PROVE  StoreMoves
BY DEF IInv, TypeOK, StoreTypeOK, storeVars, StoreMoves, ObjectsGrow

(***************************************************************************)
(* The environment.                                                        *)
(***************************************************************************)
LEMMA StoreNextMoves ==
  ASSUME IInv, StoreNext
  PROVE  StoreMoves /\ UNCHANGED <<claim, writes>>
<1>1. StoreTypeOK /\ changes \in 0 .. MaxChanges /\ MaxChanges \in Nat
  BY BoundAssumption DEF IInv, TypeOK, StoreTypeOK
<1>2. Changed => changes' \in 0 .. MaxChanges
  BY <1>1 DEF Changed
<1>3. CASE Tick
  BY <1>1, <1>3 DEF Tick, StoreTypeOK, StoreMoves, ObjectsGrow, Time
<1>4. CASE EditClient
  BY <1>1, <1>2, <1>4 DEF EditClient, StoreTypeOK, StoreMoves, ObjectsGrow
<1>5. CASE CreateForeign
  <2>1. PICK kind \in Kind, labels \in SUBSET (Label \cup {UserLabel}) :
          PostObject(kind, Nobody, labels)
    BY <1>5 DEF CreateForeign
  <2>2. Nobody \in Nat /\ changes' \in 0 .. MaxChanges
    BY <1>2, <1>5 DEF CreateForeign, Nobody
  <2> QED
    BY <1>1, <2>1, <2>2, PostGrows
<1>6. CASE KillObject
  <2>1. PICK kind \in Kind : \E n \in Live(kind) : Kill(kind, n)
    BY <1>6 DEF KillObject
  <2>2. PICK n \in DOMAIN objects[kind] : Kill(kind, n)
    BY <2>1 DEF Live
  <2>3. changes' \in 0 .. MaxChanges
    BY <1>2, <1>6 DEF KillObject
  <2> QED
    BY <1>1, <2>2, <2>3, KillKeeps
<1>7. ASSUME NEW kind \in Kind, NEW n \in Live(kind), CollectGarbage(kind, n)
      PROVE  StoreMoves /\ UNCHANGED <<claim, writes>>
  <2>1. n \in DOMAIN objects[kind] /\ Kill(kind, n) /\ changes' \in 0 .. MaxChanges
    BY <1>1, <1>7 DEF Live, CollectGarbage
  <2> QED
    BY <1>1, <2>1, KillKeeps
<1> QED
  BY <1>3, <1>4, <1>5, <1>6, <1>7 DEF StoreNext

LEMMA EnvironmentKeepsInv ==
  ASSUME IInv, StoreNext, UNCHANGED <<controllerVars, req>>
  PROVE  IInv'
<1>1. StoreMoves /\ UNCHANGED <<claim, writes>>
  BY StoreNextMoves
<1>2. StoreTypeOK' /\ StoreOK' /\ ControllersOK' /\ RequestsOK'
  BY <1>1, StoreStays, ControllersStay, RequestsStay DEF StoreMoves
<1> QED
  BY <1>2 DEF IInv, TypeOK, ControllersOK, RequestsOK

(***************************************************************************)
(* The writes to the claim.                                                *)
(***************************************************************************)
LEMMA WrittenIsOK ==
  ASSUME IInv, StoreMoves, NEW c \in DistccClientClaim, claim' = c, writes' = writes + 1,
         c.ver = writes + 1, c.uid <= writes + 1, Controlled(c)',
         c.exp = Unset \/ \A kind \in Kind : c.ref[kind] # NoRef
  PROVE  StoreOK'
<1>1. writes \in Nat /\ c.ver \in Nat /\ c.uid \in Nat
  BY DEF IInv, TypeOK, StoreTypeOK, DistccClientClaim
<1>2. CopyOK(c)'
  BY <1>1 DEF CopyOK
<1> QED
  BY <1>1, <1>2 DEF StoreOK, GrantedIsComplete, Leased, CopyOK, Exists, Controlled,
                    IsControlledBy

LEMMA PostOK ==
  ASSUME IInv, Post
  PROVE  StoreMoves /\ StoreOK' /\ Exists(claim') /\ claim'.exp = Unset
<1> DEFINE new == NewDistccClientClaim(writes + 1)
<1>1. StoreTypeOK /\ writes \in Nat
  BY DEF IInv, TypeOK, StoreTypeOK
<1>2. /\ new \in DistccClientClaim /\ new.ver = writes + 1 /\ new.uid = writes + 1
      /\ new.exp = Unset /\ \A kind \in Kind : new.ref[kind] = NoRef
  BY <1>1 DEF NewDistccClientClaim, DistccClientClaim, NoRef
<1>3. Write(new)
  BY DEF Post
<1> HIDE DEF new
<1>4. PICK c \in DistccClientClaim : c = new
  BY <1>2
<1>5. StoreMoves /\ claim' = c /\ writes' = writes + 1
  BY <1>1, <1>2, <1>3, <1>4, WriteMoves
<1>6. Controlled(c)'
  BY <1>2, <1>4 DEF Controlled
<1> QED
  BY <1>1, <1>2, <1>4, <1>5, <1>6, WrittenIsOK, AbsentAssumption DEF Exists

LEMMA RemoveOK ==
  ASSUME IInv, Remove
  PROVE  StoreMoves /\ StoreOK' /\ ~ Exists(claim')
<1>1. StoreTypeOK /\ Write(Absent)
  BY DEF IInv, TypeOK, Remove
<1>2. StoreMoves /\ claim' = Absent
  BY <1>1, WriteMoves DEF Exists
<1> QED
  BY <1>2 DEF StoreOK, CopyOK, GrantedIsComplete, Leased, Exists

LEMMA PutOK ==
  ASSUME IInv, NEW c \in DistccClientClaim, Put(c), Controlled(c), c.uid = claim.uid,
         c.exp = Unset \/ \A kind \in Kind : c.ref[kind] # NoRef
  PROVE  /\ StoreMoves /\ StoreOK' /\ Exists(claim) /\ Exists(claim')
         /\ claim'.uid = claim.uid /\ claim'.exp = c.exp
<1>1. StoreTypeOK /\ writes \in Nat /\ Exists(claim) /\ claim.uid <= writes
  BY DEF IInv, TypeOK, StoreTypeOK, StoreOK, Put
<1>2. PICK d \in DistccClientClaim : d = [c EXCEPT !.ver = writes + 1]
  <2>1. [c EXCEPT !.ver = writes + 1] \in DistccClientClaim
    BY <1>1 DEF DistccClientClaim
  <2> QED
    BY <2>1
<1>3. d.ver = writes + 1 /\ d.uid = c.uid /\ d.exp = c.exp /\ d.ref = c.ref
  BY <1>2 DEF DistccClientClaim
<1>4. Write(d)
  BY <1>2 DEF Put
<1>5. StoreMoves /\ claim' = d /\ writes' = writes + 1
  BY <1>1, <1>3, <1>4, WriteMoves
<1>6. Controlled(d)
  BY <1>3 DEF Controlled, IsControlledBy
<1>7. Controlled(d)'
  BY <1>5, <1>6, ControlledStays DEF StoreMoves
<1>8. d.uid <= writes + 1
  BY <1>1, <1>3 DEF DistccClientClaim
<1> QED
  BY <1>1, <1>3, <1>5, <1>7, <1>8, WrittenIsOK, AbsentAssumption DEF Exists

(***************************************************************************)
(* The requests.                                                           *)
(***************************************************************************)
LEMMA DoneType ==
  ASSUME NEW q \in RequestState, NEW e \in {"nil", "ErrNotFound", "failed"}
  PROVE  /\ Done(q, e) \in RequestState
         /\ Done(q, e).pc = "done" /\ Done(q, e).err = e /\ Done(q, e).got = Absent
         /\ Done(q, e).op = q.op /\ Done(q, e).answer = q.answer
         /\ Done(q, e).since = q.since
<1>1. 1 \in 1 .. Steps
  BY StepsAssumption
<1> QED
  BY <1>1 DEF Done, RequestState, PC

LEMMA FailedType ==
  /\ Failed \in RequestState
  /\ Failed.op = "lease" /\ Failed.pc = "done" /\ Failed.err = "failed"
  /\ Failed.since = 0 /\ Failed.got = Absent
<1>1. /\ NewRequest \in RequestState
      /\ NewRequest.op = "lease" /\ NewRequest.since = 0
  BY StepsAssumption DEF NewRequest, RequestState, PC, NoRef
<1> QED
  BY <1>1, DoneType DEF Failed

LEMMA FailedOK ==
  ASSUME StoreTypeOK'
  PROVE  Failed \in RequestState /\ RequestOK(Failed)'
<1>1. /\ Failed \in RequestState
      /\ Failed.op = "lease" /\ Failed.pc = "done" /\ Failed.err = "failed"
      /\ Failed.since = 0 /\ Failed.got = Absent
  BY FailedType
<1>2. PICK q \in RequestState : q = Failed
  BY <1>1
<1>3. writes' \in Nat /\ (Exists(claim') => claim'.uid \in Nat)
  BY ClaimType DEF StoreTypeOK, DistccClientClaim, Exists
<1>4. RequestOK(q)'
  BY <1>1, <1>2, <1>3 DEF RequestOK, CopyOK, LeaseOK, ReleaseOK, Later, Exists
<1> QED
  BY <1>1, <1>2, <1>4 DEF Failed, Done, NewRequest

LEMMA RetryOK ==
  ASSUME StoreTypeOK, NEW q \in RequestState, RequestOK(q), q.pc \notin {"new", "reply", "done"}
  PROVE  Retry(q) \in RequestState /\ (Retry(q) # Failed => RequestOK(Retry(q)))
<1>1. CASE q.attempt < Steps
  <2>1. PICK n \in 1 .. Steps : n = q.attempt + 1
    BY <1>1, StepsAssumption DEF RequestState
  <2>2. /\ FirstCall(q) \in {"getClient", "delete", "getClaim"}
        /\ q.op = "lease" => FirstCall(q) \in {"getClient", "getClaim"}
        /\ q.op = "delete" => FirstCall(q) = "delete"
    BY DEF FirstCall, RequestOK, ReleaseOK, RequestState
  <2>3. Retry(q) = [q EXCEPT !.attempt = n, !.pc = FirstCall(q), !.got = Absent]
    BY <1>1, <2>1 DEF Retry
  <2>4. PICK first \in PC : first = FirstCall(q)
    BY <2>2 DEF PC
  <2>5. PICK p : p = [q EXCEPT !.attempt = n, !.pc = first, !.got = Absent]
    OBVIOUS
  <2>6. /\ p \in RequestState /\ p.pc = first /\ p.got = Absent
        /\ p.op = q.op /\ p.since = q.since
    BY <2>5 DEF RequestState
  <2>7. RequestOK(p)
    BY <2>2, <2>4, <2>6 DEF RequestOK, CopyOK, LeaseOK, ReleaseOK, Later, Exists
  <2> QED
    BY <2>3, <2>4, <2>5, <2>6, <2>7
<1>2. CASE ~ (q.attempt < Steps)
  BY <1>2, FailedType DEF Retry
<1> QED
  BY <1>1, <1>2

\* An attempt ends: with what it has come to, or because it was the last.
LEMMA EndOK ==
  ASSUME IInv, StoreMoves, NEW r \in Request, NEW q \in RequestState,
         EndAttempt(r, q), RequestOK(q)'
  PROVE  RequestsOK'
<1>1. CASE Go(r, q)
  BY <1>1, RequestMoves
<1>2. CASE Go(r, Failed)
  BY <1>2, FailedOK, RequestMoves DEF StoreMoves
<1> QED
  BY <1>1, <1>2 DEF EndAttempt

\* The call of an attempt has failed.
LEMMA EndRetryOK ==
  ASSUME IInv, StoreMoves, NEW r \in Request, NEW q \in RequestState, RequestOK(q),
         q.pc \notin {"new", "reply", "done"}, EndAttempt(r, Retry(q))
  PROVE  RequestsOK'
<1>1. StoreTypeOK
  BY DEF IInv, TypeOK
<1>2. Retry(q) \in RequestState /\ (Retry(q) # Failed => RequestOK(Retry(q)))
  BY <1>1, RetryOK
<1>3. PICK p \in RequestState : p = Retry(q)
  BY <1>2
<1>4. CASE p = Failed
  BY <1>3, <1>4, FailedOK, RequestMoves DEF EndAttempt, StoreMoves
<1>5. CASE p # Failed
  <2>1. RequestOK(p)'
    BY <1>1, <1>2, <1>3, <1>5, RequestStays
  <2> QED
    BY <1>3, <2>1, EndOK
<1> QED
  BY <1>4, <1>5

LEMMA WaitOK ==
  ASSUME IInv, StoreMoves, NEW r \in Request, NEW q \in RequestState, RequestOK(q),
         Exists(q.got), q.op = "lease", q.pc \in {"getClaim", "update"}, WaitForStatus(r, q)
  PROVE  RequestsOK'
<1>1. CASE Go(r, [q EXCEPT !.pc = "getService"])
  <2>1. PICK p \in RequestState : p = [q EXCEPT !.pc = "getService"]
    BY DEF RequestState, PC
  <2>2. /\ p.pc = "getService" /\ p.op = "lease"
        /\ p.got = q.got /\ p.since = q.since
    BY <2>1 DEF RequestState
  <2>3. RequestOK(p)
    BY <2>2 DEF RequestOK, LeaseOK, ReleaseOK, Later
  <2>4. StoreTypeOK
    BY DEF IInv, TypeOK
  <2> QED
    BY <1>1, <2>1, <2>3, <2>4, RequestStays, RequestMoves
<1>2. CASE EndAttempt(r, Retry(q))
  BY <1>2, EndRetryOK
<1> QED
  BY <1>1, <1>2 DEF WaitForStatus

\* A request that leaves the store alone, and one that writes.
LEMMA RestingKeepsInv ==
  ASSUME IInv, UNCHANGED storeVars, UNCHANGED controllerVars, RequestsOK'
  PROVE  IInv'
<1>1. StoreMoves /\ UNCHANGED <<claim, writes>>
  BY StoreRests DEF storeVars
<1>2. StoreTypeOK' /\ StoreOK' /\ ControllersOK'
  BY <1>1, StoreStays, ControllersStay DEF StoreMoves
<1> QED
  BY <1>2 DEF IInv, TypeOK, ControllersOK, RequestsOK

LEMMA WritingKeepsInv ==
  ASSUME IInv, StoreMoves, StoreOK', UNCHANGED controllerVars, RequestsOK'
  PROVE  IInv'
<1>1. StoreTypeOK' /\ ControllersOK'
  BY ControllersStay DEF StoreMoves
<1> QED
  BY <1>1 DEF IInv, TypeOK, ControllersOK, RequestsOK

\* What a request becomes that only goes on to its next call.
LEMMA GoesOn ==
  ASSUME NEW q \in RequestState, RequestOK(q), NEW pc \in PC,
         q.pc \notin {"reply", "done"}, q.op = "lease",
         pc \in {"getClient", "getClaim", "getSecret", "create"},
         NEW n \in 1 .. Steps
  PROVE  LET p == [q EXCEPT !.pc = pc, !.attempt = n]
         IN  p \in RequestState /\ p.pc = pc /\ RequestOK(p)
<1> DEFINE p == [q EXCEPT !.pc = pc, !.attempt = n]
<1>1. /\ p \in RequestState /\ p.pc = pc /\ p.op = q.op
      /\ p.since = q.since /\ p.got = q.got
  BY DEF RequestState
<1> HIDE DEF p
<1>2. RequestOK(p)
  BY <1>1 DEF RequestOK, LeaseOK, ReleaseOK, Later
<1> QED
  BY <1>1, <1>2 DEF p

LEMMA ArriveKeepsInv ==
  ASSUME IInv, NEW r \in Request, LeaseClient(r) \/ DeleteClient(r), UNCHANGED controllerVars
  PROVE  IInv'
<1>1. StoreTypeOK /\ UNCHANGED storeVars /\ StoreMoves
  BY StoreRests DEF IInv, TypeOK, LeaseClient, DeleteClient, Arrive
<1>2. PICK q \in RequestState : q = req[r] /\ RequestOK(q) /\ q.pc = "new"
  BY RequestIsTyped DEF LeaseClient, DeleteClient, Arrive
<1>3. q.op = "lease"
  BY <1>2 DEF RequestOK, ReleaseOK, RequestState
<1>4. writes \in Nat /\ (Exists(claim) => claim.uid \in Nat /\ claim.uid <= writes)
  BY <1>1, ClaimType DEF IInv, StoreOK, StoreTypeOK, DistccClientClaim
<1>5. req \in [Request -> RequestState]
  BY DEF IInv, TypeOK, ServiceTypeOK
<1>6. CASE LeaseClient(r)
  <2>1. PICK s \in Nat : s = IF Exists(claim) THEN claim.uid ELSE writes + 1
    BY <1>4
  <2>2. Go(r, [q EXCEPT !.op = "lease", !.pc = "getClient", !.since = s])
    BY <1>2, <1>6, <2>1 DEF LeaseClient, Arrive, Go
  <2>3. PICK p : p = [q EXCEPT !.op = "lease", !.pc = "getClient", !.since = s]
    OBVIOUS
  <2>4. /\ p \in RequestState /\ p.op = "lease" /\ p.pc = "getClient" /\ p.since = s
        /\ p.got = q.got
    BY <2>3 DEF RequestState, PC
  <2>5. q.got = Absent
    BY <1>2, <1>3 DEF RequestOK, LeaseOK, Exists
  <2>6. RequestOK(p)
    BY <1>4, <2>1, <2>4, <2>5 DEF RequestOK, CopyOK, LeaseOK, ReleaseOK, Later, Exists
  <2>7. RequestOK(p)'
    BY <1>1, <2>4, <2>6, RequestStays
  <2> QED
    BY <1>1, <2>2, <2>3, <2>4, <2>7, RequestMoves, RestingKeepsInv
<1>7. CASE DeleteClient(r)
  <2>1. PICK s \in Nat : s = writes + 1
    BY <1>4
  <2>2. Go(r, [q EXCEPT !.op = "delete", !.pc = "delete", !.since = s])
    BY <1>2, <1>7, <2>1 DEF DeleteClient, Arrive, Go
  <2>3. PICK p : p = [q EXCEPT !.op = "delete", !.pc = "delete", !.since = s]
    OBVIOUS
  <2>4. /\ p \in RequestState /\ p.op = "delete" /\ p.pc = "delete" /\ p.since = s
        /\ p.got = q.got
    BY <2>3 DEF RequestState, PC
  <2>5. RequestOK(p)
    BY <1>2, <1>4, <2>1, <2>4 DEF RequestOK, LeaseOK, ReleaseOK
  <2>6. RequestOK(p)'
    BY <1>1, <2>4, <2>5, RequestStays
  <2> QED
    BY <1>1, <2>2, <2>3, <2>4, <2>6, RequestMoves, RestingKeepsInv
<1> QED
  BY <1>6, <1>7

\* The calls that only read: AttemptFails, GetClient, GetClaim, GetSecret,
\* GetService, DeleteFindsNothing and Reply; and the death of the process.
LEMMA ReadsKeepInv ==
  ASSUME IInv, NEW r \in Request, UNCHANGED controllerVars,
         \/ AttemptFails(r) \/ GetClient(r) \/ GetClaim(r) \/ GetSecret(r)
         \/ GetService(r) \/ DeleteFindsNothing(r) \/ Reply(r) \/ ServiceCrash(r)
  PROVE  IInv'
<1>1. StoreTypeOK /\ UNCHANGED storeVars /\ StoreMoves
  BY StoreRests DEF IInv, TypeOK, AttemptFails, GetClient, GetClaim, GetSecret, GetService,
                    DeleteFindsNothing, Reply, ServiceCrash
<1>2. PICK q \in RequestState : q = req[r] /\ RequestOK(q)
  BY RequestIsTyped
<1>3. RequestOK(q)'
  BY <1>1, <1>2, RequestStays
<1>4. SUFFICES RequestsOK'
  BY <1>1, RestingKeepsInv
<1>5. CASE AttemptFails(r)
  BY <1>1, <1>2, <1>5, EndRetryOK DEF AttemptFails, Running
<1>6. CASE GetClient(r)
  <2>1. q.pc = "getClient" /\ q.op = "lease"
    BY <1>2, <1>6 DEF GetClient, RequestOK, ReleaseOK, RequestState
  <2>2. CASE Exists(client)
    <3>1. PICK p : p = [q EXCEPT !.pc = "getClaim", !.attempt = 1]
      OBVIOUS
    <3>2. "getClaim" \in PC /\ 1 \in 1 .. Steps
      BY StepsAssumption DEF PC
    <3>3. p \in RequestState /\ RequestOK(p)
      BY <1>2, <2>1, <3>1, <3>2, GoesOn
    <3>4. EndAttempt(r, p)
      BY <1>2, <1>6, <2>2, <3>1 DEF GetClient
    <3> QED
      BY <1>1, <3>3, <3>4, RequestStays, EndOK
  <2>3. CASE ~ Exists(client)
    BY <1>1, <1>6, <2>3, FailedOK, RequestMoves DEF GetClient, EndAttempt, StoreMoves
  <2> QED
    BY <2>2, <2>3
<1>7. CASE GetClaim(r)
  <2>1. q.pc = "getClaim" /\ q.op = "lease"
    BY <1>2, <1>7 DEF GetClaim, RequestOK, ReleaseOK, RequestState
  <2>2. claim \in DistccClientClaim \cup {Absent} /\ CopyOK(claim)
    BY DEF IInv, TypeOK, StoreTypeOK, StoreOK
  <2>3. PICK c \in DistccClientClaim \cup {Absent} : c = claim
    BY <2>2
  <2>4. PICK p : p = [q EXCEPT !.got = c]
    OBVIOUS
  <2>5. /\ p \in RequestState /\ p.got = claim
        /\ p.pc = q.pc /\ p.op = q.op /\ p.since = q.since
    BY <2>3, <2>4 DEF RequestState
  <2>6. RequestOK(p)
    BY <1>2, <2>1, <2>2, <2>5 DEF RequestOK, LeaseOK, ReleaseOK, Later
  <2>7. p = [req[r] EXCEPT !.got = claim]
    BY <1>2, <2>3, <2>4
  <2>8. CASE ~ Exists(claim)
    <3>1. PICK s : s = [p EXCEPT !.pc = "getSecret"]
      OBVIOUS
    <3>2. Go(r, s)
      BY <1>7, <2>7, <2>8, <3>1 DEF GetClaim
    <3>3. /\ s \in RequestState /\ s.pc = "getSecret"
          /\ s.op = p.op /\ s.since = p.since /\ s.got = p.got
      BY <2>5, <3>1 DEF RequestState, PC
    <3>4. RequestOK(s)
      BY <2>1, <2>5, <2>6, <3>3 DEF RequestOK, LeaseOK, ReleaseOK, Later
    <3> QED
      BY <1>1, <3>2, <3>3, <3>4, RequestStays, RequestMoves
  <2>9. CASE Exists(claim) /\ claim.exp # Unset
    <3>1. PICK s : s = [p EXCEPT !.pc = "update"]
      OBVIOUS
    <3>2. Go(r, s)
      BY <1>7, <2>7, <2>9, <3>1 DEF GetClaim
    <3>3. /\ s \in RequestState /\ s.pc = "update"
          /\ s.op = p.op /\ s.since = p.since /\ s.got = p.got
      BY <2>5, <3>1 DEF RequestState, PC
    <3>4. RequestOK(s)
      BY <2>1, <2>5, <2>6, <2>9, <3>3 DEF RequestOK, LeaseOK, ReleaseOK, Later
    <3> QED
      BY <1>1, <3>2, <3>3, <3>4, RequestStays, RequestMoves
  <2>10. CASE Exists(claim) /\ claim.exp = Unset
    <3>1. WaitForStatus(r, p)
      BY <1>7, <2>7, <2>10 DEF GetClaim
    <3> QED
      BY <1>1, <2>1, <2>5, <2>6, <2>10, <3>1, WaitOK
  <2> QED
    BY <2>8, <2>9, <2>10
<1>8. CASE GetSecret(r)
  <2>1. q.pc = "getSecret" /\ q.op = "lease"
    BY <1>2, <1>8 DEF GetSecret, RequestOK, ReleaseOK, RequestState
  <2>2. PICK p : p = [q EXCEPT !.pc = "create"]
    OBVIOUS
  <2>3. /\ p \in RequestState /\ p.pc = "create"
        /\ p.op = q.op /\ p.since = q.since /\ p.got = q.got
    BY <2>2 DEF RequestState, PC
  <2>4. RequestOK(p)
    BY <1>2, <2>1, <2>3 DEF RequestOK, LeaseOK, ReleaseOK, Later
  <2>5. Go(r, p)
    BY <1>2, <1>8, <2>2 DEF GetSecret
  <2> QED
    BY <1>1, <2>3, <2>4, <2>5, RequestStays, RequestMoves
<1>9. CASE GetService(r)
  <2>1. q.pc = "getService" /\ q.op = "lease" /\ Exists(q.got)
    BY <1>2, <1>9 DEF GetService, RequestOK, LeaseOK, ReleaseOK, RequestState
  <2>2. PICK n \in Live("service") : n = q.got.ref["service"]
    BY <1>2, <1>9 DEF GetService
  <2>3. n \in Nat \ {0} /\ n \in DOMAIN objects["service"]
    BY <1>1, <2>2, ObjectsType DEF Live, Kind
  <2>4. PICK p : p = [q EXCEPT !.pc = "reply", !.answer = n]
    OBVIOUS
  <2>5. /\ p \in RequestState /\ p.pc = "reply" /\ p.answer = n
        /\ p.op = q.op /\ p.since = q.since /\ p.got = q.got
    BY <2>3, <2>4 DEF RequestState, PC
  <2>6. Go(r, p)
    BY <1>2, <1>9, <2>2, <2>4 DEF GetService
  <2>7. objects["service"][n].owner = q.got.uid /\ q.got.uid >= q.since
    BY <1>2, <2>1, <2>2, <2>3
       DEF RequestOK, CopyOK, LeaseOK, Controlled, IsControlledBy, NoRef, Kind
  <2>8. OwnAnswer(p)
    BY <2>3, <2>5, <2>7 DEF OwnAnswer
  <2>9. RequestOK(p)
    BY <1>2, <2>1, <2>5, <2>8 DEF RequestOK, LeaseOK, ReleaseOK, Later
  <2> QED
    BY <1>1, <2>5, <2>6, <2>9, RequestStays, RequestMoves
<1>10. CASE DeleteFindsNothing(r)
  <2>1. q.pc = "delete" /\ q.op = "delete" /\ ~ Exists(claim)
    BY <1>2, <1>10 DEF DeleteFindsNothing, RequestOK, LeaseOK, RequestState
  <2>2. PICK p \in RequestState :
          p = Done(q, "ErrNotFound") /\ p.pc = "done" /\ p.op = q.op /\ p.got = Absent
          /\ p.since = q.since
    BY DoneType
  <2>3. RequestOK(p)
    BY <1>2, <2>1, <2>2
       DEF RequestOK, CopyOK, LeaseOK, ReleaseOK, Later, Exists
  <2>4. EndAttempt(r, p)
    BY <1>2, <1>10, <2>2 DEF DeleteFindsNothing
  <2> QED
    BY <1>1, <2>3, <2>4, RequestStays, EndOK
<1>11. CASE Reply(r)
  <2>1. q.pc = "reply"
    BY <1>2, <1>11 DEF Reply
  <2>2. PICK p \in RequestState :
          /\ p = Done(q, "nil") /\ p.pc = "done" /\ p.op = q.op /\ p.got = Absent
          /\ p.since = q.since /\ p.answer = q.answer
    BY DoneType
  <2>3. RequestOK(p)
    BY <1>2, <2>1, <2>2
       DEF RequestOK, CopyOK, LeaseOK, ReleaseOK, Later, OwnAnswer, Exists
  <2>4. EndAttempt(r, p)
    BY <1>2, <1>11, <2>2 DEF Reply
  <2> QED
    BY <1>1, <2>3, <2>4, RequestStays, EndOK
<1>12. CASE ServiceCrash(r)
  BY <1>1, <1>12, FailedOK, RequestMoves DEF ServiceCrash, StoreMoves
<1> QED
  BY <1>5, <1>6, <1>7, <1>8, <1>9, <1>10, <1>11, <1>12

\* The calls that write.
LEMMA CreateKeepsInv ==
  ASSUME IInv, NEW r \in Request, CreateClaim(r), UNCHANGED controllerVars
  PROVE  IInv'
<1>1. StoreMoves /\ StoreOK'
  BY PostOK DEF CreateClaim
<1>2. PICK q \in RequestState : q = req[r] /\ RequestOK(q)
  BY RequestIsTyped
<1>3. EndAttempt(r, Retry(q)) /\ q.pc = "create"
  BY <1>2 DEF CreateClaim
<1> QED
  BY <1>1, <1>2, <1>3, EndRetryOK, WritingKeepsInv

LEMMA UpdateKeepsInv ==
  ASSUME IInv, NEW r \in Request, UpdateClaim(r), UNCHANGED controllerVars
  PROVE  IInv'
<1>1. PICK q \in RequestState : q = req[r] /\ RequestOK(q) /\ q.pc = "update"
  BY RequestIsTyped DEF UpdateClaim
<1>2. q.op = "lease" /\ Exists(q.got)
  BY <1>1 DEF RequestOK, LeaseOK, ReleaseOK, RequestState
<1>3. q.got \in DistccClientClaim
  BY <1>2 DEF RequestState, Exists
<1>4. PICK c : c = [q.got EXCEPT !.exp = Unset]
  OBVIOUS
<1>5. /\ c \in DistccClientClaim /\ c.exp = Unset
      /\ c.uid = q.got.uid /\ c.ver = q.got.ver /\ c.ref = q.got.ref
  BY <1>3, <1>4 DEF DistccClientClaim
<1>6. Put(c)
  BY <1>1, <1>4 DEF UpdateClaim
<1>7. Controlled(c) /\ c.uid = claim.uid
  BY <1>1, <1>2, <1>5, <1>6 DEF RequestOK, CopyOK, Controlled, IsControlledBy, Put
<1>8. StoreMoves /\ StoreOK'
  BY <1>5, <1>6, <1>7, PutOK
<1>9. WaitForStatus(r, q) \/ EndAttempt(r, Retry(q))
  BY <1>1 DEF UpdateClaim
<1> QED
  BY <1>1, <1>2, <1>8, <1>9, WaitOK, EndRetryOK, WritingKeepsInv

LEMMA DeleteKeepsInv ==
  ASSUME IInv, NEW r \in Request, DeleteClaim(r), UNCHANGED controllerVars
  PROVE  IInv'
<1>1. StoreMoves /\ StoreOK' /\ ~ Exists(claim') /\ StoreTypeOK
  BY RemoveOK DEF DeleteClaim, IInv, TypeOK
<1>2. PICK q \in RequestState : q = req[r] /\ RequestOK(q) /\ q.pc = "delete"
  BY RequestIsTyped DEF DeleteClaim
<1>3. q.op = "delete"
  BY <1>2 DEF RequestOK, LeaseOK, RequestState
<1>4. CASE Go(r, [q EXCEPT !.pc = "reply"])
  <2>1. PICK p : p = [q EXCEPT !.pc = "reply"]
    OBVIOUS
  <2>2. /\ p \in RequestState /\ p.pc = "reply"
        /\ p.op = q.op /\ p.since = q.since /\ p.got = q.got
    BY <2>1 DEF RequestState, PC
  <2>3. RequestOK(q)'
    BY <1>1, <1>2, RequestStays
  <2>4. RequestOK(p)'
    BY <1>1, <1>3, <2>2, <2>3 DEF RequestOK, LeaseOK, ReleaseOK, Later
  <2> QED
    BY <1>1, <1>4, <2>1, <2>2, <2>4, RequestMoves, WritingKeepsInv
<1>5. CASE EndAttempt(r, Retry(q))
  BY <1>1, <1>2, <1>5, EndRetryOK, WritingKeepsInv
<1> QED
  BY <1>2, <1>4, <1>5 DEF DeleteClaim

LEMMA ServiceKeepsInv ==
  ASSUME IInv, NEW r \in Request, ServiceStep(r), UNCHANGED controllerVars
  PROVE  IInv'
BY ArriveKeepsInv, ReadsKeepInv, CreateKeepsInv, UpdateKeepsInv, DeleteKeepsInv
   DEF ServiceStep, RequestStep

(***************************************************************************)
(* Sync.  d is what Sync has made of its copy c of the claim: it only sets *)
(* references, and only to objects of the claim.                           *)
(***************************************************************************)
Refers(c, d) ==
  /\ d.uid = c.uid /\ d.ver = c.ver /\ d.exp = c.exp
  /\ \A kind \in Kind :
       \/ d.ref[kind] = c.ref[kind]
       \/ d.ref[kind] \in DOMAIN objects[kind] /\ IsControlledBy(kind, d.ref[kind], c)

Working(q) == q \in SyncState /\ q.claim \in DistccClientClaim /\ q.client \in DistccClient

LEMMA RefersTransitive ==
  ASSUME NEW c, NEW d, NEW e, Refers(c, d), Refers(d, e)
  PROVE  Refers(c, e)
BY DEF Refers, IsControlledBy

LEMMA RefersReflexive == ASSUME NEW c PROVE Refers(c, c)
BY DEF Refers

LEMMA SetRefIs ==
  ASSUME NEW q, Working(q), NEW kind \in Kind, NEW n \in Nat
  PROVE  LET r == SetRef(q, kind, n)
         IN  /\ Working(r) /\ r.pc = "found" /\ r.client = q.client
             /\ r.claim.uid = q.claim.uid /\ r.claim.ver = q.claim.ver
             /\ r.claim.exp = q.claim.exp
             /\ r.claim.ref = [q.claim.ref EXCEPT ![kind] = n]
             /\ r.claim.ref[kind] = n
<1> DEFINE r == SetRef(q, kind, n)
<1>1. q.claim \in DistccClientClaim /\ q \in SyncState /\ q.claim.ref \in [Kind -> Nat]
  BY DEF Working, DistccClientClaim
<1>2. PICK ref : ref = [q.claim.ref EXCEPT ![kind] = n]
  OBVIOUS
<1>3. ref \in [Kind -> Nat] /\ ref[kind] = n
  BY <1>1, <1>2
<1>4. PICK c : c = [q.claim EXCEPT !.ref = ref]
  OBVIOUS
<1>5. /\ c \in DistccClientClaim /\ c.ref = ref
      /\ c.uid = q.claim.uid /\ c.ver = q.claim.ver /\ c.exp = q.claim.exp
  BY <1>1, <1>3, <1>4 DEF DistccClientClaim
<1>6. PICK b \in BOOLEAN : b = (q.changed \/ q.claim.ref[kind] # n)
  BY <1>1 DEF SyncState
<1>7. r = [q EXCEPT !.pc = "found", !.claim = c, !.changed = b]
  BY <1>1, <1>2, <1>4, <1>6 DEF SetRef, SyncState, DistccClientClaim
<1>8. r \in SyncState /\ r.pc = "found" /\ r.claim = c /\ r.client = q.client
  BY <1>1, <1>5, <1>7 DEF SyncState
<1> QED
  BY <1>2, <1>3, <1>5, <1>8 DEF Working

LEMMA IdleIs == Idle \in SyncState /\ Idle.pc = "idle"
BY DEF Idle, SyncState

LEMMA ResolverFinds ==
  ASSUME NEW listed, NEW ref, NEW selector, NEW labels
  PROVE  GetObjectFromReferenceOrSelector(listed, ref, selector, labels) \subseteq listed
BY DEF GetObjectFromReferenceOrSelector, GetObjectFromReference, GetObjectFromLabels,
       ListByName, ListBySelector

\* An object is to be created, or nothing can be done, or the object that was
\* found is one of the claim.
LEMMA SyncObjectIs ==
  ASSUME IInv, NEW k \in Controller, NEW kind \in Kind, NEW q, Working(q), q.pc = "found"
  PROVE  LET r == SyncObject(k, kind, q)
         IN  \/ r = Idle
             \/ /\ Working(r) /\ r.pc = kind
                /\ r.client = q.client /\ r.claim = q.claim
             \/ /\ Working(r) /\ r.pc = "found" /\ r.client = q.client
                /\ Refers(q.claim, r.claim)
                /\ r.claim.ref[kind] # NoRef
                /\ \A other \in Kind \ {kind} : r.claim.ref[other] = q.claim.ref[other]
<1> DEFINE r == SyncObject(k, kind, q)
           found == GetObjectFromReferenceOrSelector(
                      seen[k][kind], q.claim.ref[kind],
                      GetLabelsForUser(q.client.labels), Labels(kind))
<1>1. found \subseteq DOMAIN objects[kind]
  <2>1. seen[k][kind] \subseteq DOMAIN objects[kind]
    BY DEF IInv, TypeOK, ControllerTypeOK, Kind
  <2> QED
    BY <2>1, ResolverFinds
<1>2. r = IF found = {} THEN [q EXCEPT !.pc = kind]
          ELSE IF IsAmbiguousReference(found)
                    \/ \E n \in found : ~ IsControlledBy(kind, n, q.claim) THEN Idle
          ELSE SetRef(q, kind, CHOOSE n \in found : TRUE)
  BY DEF SyncObject
<1> HIDE DEF found, r
<1>3. CASE found = {}
  <2>1. r = [q EXCEPT !.pc = kind]
    BY <1>2, <1>3
  <2>2. Working(r) /\ r.pc = kind /\ r.client = q.client /\ r.claim = q.claim
    BY <2>1 DEF Working, SyncState
  <2> QED
    BY <2>2 DEF r
<1>4. CASE found # {} /\ r # Idle
  <2>1. PICK n \in found : n = CHOOSE m \in found : TRUE
    BY <1>4
  <2>2. r = SetRef(q, kind, n) /\ IsControlledBy(kind, n, q.claim)
    BY <1>2, <1>4, <2>1
  <2>3. n \in DOMAIN objects[kind] /\ n \in Nat \ {0}
    BY <1>1, ObjectsType DEF IInv, TypeOK
  <2>4. /\ Working(r) /\ r.pc = "found" /\ r.client = q.client
        /\ r.claim.uid = q.claim.uid /\ r.claim.ver = q.claim.ver
        /\ r.claim.exp = q.claim.exp
        /\ r.claim.ref = [q.claim.ref EXCEPT ![kind] = n]
        /\ r.claim.ref[kind] = n
    BY <2>2, <2>3, SetRefIs
  <2>5. \A other \in Kind \ {kind} : r.claim.ref[other] = q.claim.ref[other]
    BY <2>4 DEF Working, DistccClientClaim
  <2>6. Refers(q.claim, r.claim)
    BY <2>2, <2>3, <2>4, <2>5 DEF Refers
  <2> QED
    BY <2>3, <2>4, <2>5, <2>6 DEF r, NoRef
<1> QED
  BY <1>3, <1>4 DEF r

\* What Sync has come to after the Service, and after the Deployment.
AfterService(q, r) ==
  \/ r = Idle
  \/ /\ Working(r) /\ r.pc \in {"service", "update"} /\ Refers(q.claim, r.claim)
     /\ r.claim.ref["deploy"] = q.claim.ref["deploy"]
     /\ r.pc = "update" => r.claim.ref["service"] # NoRef

LEMMA WriteBackIs ==
  ASSUME NEW q, Working(q)
  PROVE  \/ WriteBack(q) = Idle
         \/ /\ Working(WriteBack(q)) /\ WriteBack(q).pc = "update"
            /\ WriteBack(q).claim = q.claim
BY DEF WriteBack, Working, SyncState

LEMMA SyncServiceIs ==
  ASSUME IInv, NEW k \in Controller, NEW q, Working(q), q.pc = "found"
  PROVE  AfterService(q, SyncService(k, q))
<1>1. PICK r : r = SyncObject(k, "service", q)
  OBVIOUS
<1>2. "service" \in Kind /\ "deploy" \in Kind \ {"service"} /\ Idle.pc # "found"
  BY IdleIs DEF Kind
<1>3. \/ r = Idle
      \/ Working(r) /\ r.pc = "service" /\ r.claim = q.claim
      \/ /\ Working(r) /\ r.pc = "found" /\ Refers(q.claim, r.claim)
         /\ r.claim.ref["service"] # NoRef /\ r.claim.ref["deploy"] = q.claim.ref["deploy"]
  BY <1>1, <1>2, SyncObjectIs
<1>4. SyncService(k, q) = IF r.pc = "found" THEN WriteBack(r) ELSE r
  BY <1>1 DEF SyncService
<1> QED
  BY <1>2, <1>3, <1>4, WriteBackIs, RefersReflexive DEF AfterService

AfterDeploy(q, r) ==
  \/ r = Idle
  \/ /\ Working(r) /\ r.pc \in {"deploy", "service", "update"} /\ Refers(q.claim, r.claim)
     /\ r.pc \in {"service", "update"} => r.claim.ref["deploy"] # NoRef
     /\ r.pc = "update" => r.claim.ref["service"] # NoRef

LEMMA SyncDeployIs ==
  ASSUME IInv, NEW k \in Controller, NEW q, Working(q), q.pc = "found"
  PROVE  AfterDeploy(q, SyncDeploy(k, q))
<1>1. PICK r : r = SyncObject(k, "deploy", q)
  OBVIOUS
<1>2. "deploy" \in Kind /\ Idle.pc # "found"
  BY IdleIs DEF Kind
<1>3. \/ r = Idle
      \/ Working(r) /\ r.pc = "deploy" /\ r.claim = q.claim
      \/ /\ Working(r) /\ r.pc = "found" /\ Refers(q.claim, r.claim)
         /\ r.claim.ref["deploy"] # NoRef
  BY <1>1, <1>2, SyncObjectIs
<1>4. SyncDeploy(k, q) = IF r.pc = "found" THEN SyncService(k, r) ELSE r
  BY <1>1 DEF SyncDeploy
<1>5. CASE r.pc = "found"
  <2>1. PICK s : s = SyncService(k, r)
    OBVIOUS
  <2>2. AfterService(r, s)
    BY <1>2, <1>3, <1>5, <2>1, SyncServiceIs
  <2>3. s # Idle => Refers(q.claim, s.claim)
    BY <1>2, <1>3, <1>5, <2>2, RefersTransitive DEF AfterService
  <2> QED
    BY <1>2, <1>3, <1>4, <1>5, <2>1, <2>2, <2>3 DEF AfterDeploy, AfterService
<1>6. CASE r.pc # "found"
  BY <1>3, <1>4, <1>6, RefersReflexive DEF AfterDeploy
<1> QED
  BY <1>5, <1>6

\* A draft whose references have been set is still a draft.
LEMMA DraftRefers ==
  ASSUME NEW c, NEW d, DraftOK(c), Refers(c, d)
  PROVE  DraftOK(d)
BY DEF DraftOK, Refers, Controlled, IsControlledBy

LEMMA DraftRefersLater ==
  ASSUME ObjectsGrow, NEW c, NEW d, DraftOK(c)', Refers(c, d)
  PROVE  DraftOK(d)'
<1>1. Controlled(d)'
  BY DEF ObjectsGrow, DraftOK, Refers, Controlled, IsControlledBy
<1> QED
  BY <1>1 DEF DraftOK, Refers

(***************************************************************************)
(* The controller.                                                         *)
(***************************************************************************)
LEMMA BeginIs ==
  ASSUME IInv, NEW k \in Controller, CanSync(k)
  PROVE  Working(Begin(k)) /\ Begin(k).pc = "found" /\ DraftOK(Begin(k).claim)
<1>1. /\ seen[k] \in Cache /\ CopyOK(seen[k].claim)
      /\ Exists(seen[k].claim) /\ Exists(seen[k].client)
  BY CacheIsTyped DEF CanSync, CachedClaim, CachedClient
<1>2. PICK c \in DistccClientClaim : c = seen[k].claim
  BY <1>1 DEF Cache, Exists
<1>3. seen[k].client \in DistccClient /\ seen[k].client.lease \in Time
  BY <1>1, LeaseAssumption DEF Cache, Exists, DistccClient
<1>4. now \in Time /\ StoreTypeOK
  BY DEF IInv, TypeOK, StoreTypeOK
<1>5. c.exp \in Time \cup {Unset}
  BY DEF DistccClientClaim
<1>6. PICK exp \in Time : exp = UpdateExpiration(c.exp, seen[k].client.lease)
  <2>1. now + seen[k].client.lease \in Time
    BY <1>3, <1>4 DEF Time
  <2> QED
    BY <1>5, <2>1, ToKubeTimeTruncates DEF UpdateExpiration
<1>7. c.exp = Unset \/ exp <= c.exp
  <2>1. PICK latest \in Time : latest = now + seen[k].client.lease
    BY <1>3, <1>4 DEF Time
  <2>2. ToKubeTime(latest) \in Time /\ ToKubeTime(latest) <= latest
    BY ToKubeTimeTruncates
  <2>3. exp = IF c.exp = Unset \/ c.exp > latest THEN ToKubeTime(latest) ELSE c.exp
    BY <1>6, <2>1 DEF UpdateExpiration
  <2> QED
    BY <1>5, <2>2, <2>3 DEF Time
<1>8. PICK d : d = [c EXCEPT !.exp = exp]
  OBVIOUS
<1>9. /\ d \in DistccClientClaim /\ d.exp = exp
      /\ d.uid = c.uid /\ d.ver = c.ver /\ d.ref = c.ref
  BY <1>8 DEF DistccClientClaim
<1>10. Begin(k) = [pc |-> "found", claim |-> d, client |-> seen[k].client,
                   changed |-> exp # c.exp]
  BY <1>2, <1>6, <1>8 DEF Begin, CachedClaim, CachedClient
<1>11. Working(Begin(k)) /\ Begin(k).pc = "found" /\ Begin(k).claim = d
  BY <1>3, <1>9, <1>10 DEF Working, SyncState
<1>12. c.ver <= writes /\ Controlled(c) /\ (Exists(claim) /\ c.ver = claim.ver => c = claim)
  BY <1>1, <1>2 DEF CopyOK
<1>13. DraftOK(d)
  <2>1. Controlled(d)
    BY <1>9, <1>12 DEF Controlled, IsControlledBy
  <2> QED
    BY <1>7, <1>9, <1>12, <2>1, UnsetAssumption DEF DraftOK
<1> QED
  BY <1>11, <1>13

\* A Sync goes on, or ends, while the store rests.
LEMMA RestingSync ==
  ASSUME IInv, NEW k \in Controller, NEW s \in SyncState, UNCHANGED <<storeVars, seen, req>>,
         sync' = [sync EXCEPT ![k] = s],
         s = Idle \/ (Working(s) /\ s.pc # "found" /\ SyncOK(s))
  PROVE  IInv'
<1>1. StoreMoves /\ UNCHANGED <<claim, writes>> /\ StoreTypeOK
  BY StoreRests DEF storeVars, IInv, TypeOK
<1>2. SyncOK(s)
  BY IdleIs DEF SyncOK
<1>3. /\ s.pc # "found"
      /\ s.pc # "idle" => s.claim \in DistccClientClaim /\ s.client \in DistccClient
  BY IdleIs DEF Working
<1>4. SyncOK(s)'
  BY <1>1, <1>2, <1>3, SyncStays
<1>5. ControllersOK' /\ RequestsOK' /\ StoreOK' /\ StoreTypeOK'
  BY <1>1, <1>3, <1>4, SyncMoves, RequestsStay, StoreStays DEF StoreMoves
<1> QED
  BY <1>5 DEF IInv, TypeOK, ControllersOK, RequestsOK

\* A Sync ends with a write to the claim.
LEMMA WritingSync ==
  ASSUME IInv, NEW k \in Controller, StoreMoves, StoreOK', UNCHANGED req, Continue(k, Idle)
  PROVE  IInv'
<1>1. PICK s \in SyncState : s = Idle /\ s.pc = "idle"
  BY IdleIs
<1>2. SyncOK(s)'
  BY <1>1 DEF SyncOK
<1>3. UNCHANGED seen /\ sync' = [sync EXCEPT ![k] = s]
  BY <1>1 DEF Continue, IInv, TypeOK, ControllerTypeOK
<1>4. ControllersOK' /\ RequestsOK' /\ StoreTypeOK'
  BY <1>1, <1>2, <1>3, SyncMoves, RequestsStay DEF StoreMoves
<1> QED
  BY <1>4 DEF IInv, TypeOK, ControllersOK, RequestsOK

LEMMA WatchKeepsInv ==
  ASSUME IInv, NEW k \in Controller, Watch(k), UNCHANGED req
  PROVE  IInv'
<1>1. StoreMoves /\ UNCHANGED <<claim, writes>> /\ StoreTypeOK /\ ControllerTypeOK
  BY StoreRests DEF Watch, storeVars, IInv, TypeOK
<1>2. /\ client \in DistccClient \cup {Absent}
      /\ claim \in DistccClientClaim \cup {Absent} /\ CopyOK(claim)
      /\ seen \in [Controller -> Cache]
  BY <1>1 DEF IInv, StoreOK, StoreTypeOK, ControllerTypeOK
<1>3. /\ Live("deploy") \subseteq DOMAIN objects["deploy"]
      /\ Live("service") \subseteq DOMAIN objects["service"]
  BY DEF Live
<1>4. /\ DOMAIN objects["deploy"] \subseteq Nat
      /\ DOMAIN objects["service"] \subseteq Nat
  BY <1>1, ObjectsType DEF Kind
<1>5. /\ seen'[k] \in Cache
      /\ seen'[k].claim \in {seen[k].claim, claim}
      /\ seen'[k].deploy \subseteq DOMAIN objects["deploy"]
      /\ seen'[k].service \subseteq DOMAIN objects["service"]
      /\ seen' = [seen EXCEPT ![k] = seen'[k]]
  <2>1. /\ seen[k] \in Cache
        /\ seen[k].deploy \subseteq DOMAIN objects["deploy"]
        /\ seen[k].service \subseteq DOMAIN objects["service"]
    BY <1>1 DEF ControllerTypeOK
  <2>2. CASE WatchClient(k)
    BY <1>2, <2>1, <2>2 DEF WatchClient, Cache
  <2>3. CASE WatchClaim(k)
    BY <1>2, <2>1, <2>3 DEF WatchClaim, Cache
  <2>4. CASE WatchDeploy(k)
    BY <1>2, <1>3, <1>4, <2>1, <2>4 DEF WatchDeploy, Cache
  <2>5. CASE WatchService(k)
    BY <1>2, <1>3, <1>4, <2>1, <2>5 DEF WatchService, Cache
  <2> QED
    BY <2>2, <2>3, <2>4, <2>5 DEF Watch
<1>6. /\ \A j \in Controller : j # k => seen'[j] = seen[j]
      /\ seen' \in [Controller -> Cache]
  BY <1>2, <1>5
<1>7. \A j \in Controller : CopyOK(seen'[j].claim)
  BY <1>2, <1>5, <1>6, CacheIsTyped
<1>8. UNCHANGED <<storeVars, sync>>
  BY DEF Watch
<1>9. ControllerTypeOK'
  BY <1>1, <1>5, <1>6, <1>8 DEF ControllerTypeOK, storeVars, Exists
<1>10. ASSUME NEW j \in Controller PROVE CopyOK(seen[j].claim)' /\ SyncOK(sync[j])'
  <2>1. CopyOK(seen[j].claim)'
    <3>1. PICK c : c = seen'[j].claim
      OBVIOUS
    <3>2. CopyOK(c)
      BY <1>7, <3>1
    <3>3. CopyOK(c)'
      BY <1>8, <3>2 DEF CopyOK, Controlled, IsControlledBy, storeVars, Exists
    <3> QED
      BY <3>1, <3>3
  <2>2. SyncOK(sync[j])'
    <3>1. PICK s \in SyncState : s = sync[j]
      BY SyncIsTyped
    <3>2. SyncOK(s)'
      BY <1>1, <3>1, SyncIsTyped, SyncStays
    <3> QED
      BY <1>8, <3>1, <3>2
  <2> QED
    BY <2>1, <2>2
<1>11. RequestsOK' /\ StoreOK' /\ StoreTypeOK'
  BY <1>1, RequestsStay, StoreStays DEF StoreMoves
<1> QED
  BY <1>9, <1>10, <1>11 DEF IInv, TypeOK, RequestsOK

LEMMA SyncKeepsInv ==
  ASSUME IInv, NEW k \in Controller, SyncExpired(k) \/ Sync(k), UNCHANGED req
  PROVE  IInv'
<1>1. UNCHANGED <<storeVars, seen, req>> /\ CanSync(k)
  BY DEF SyncExpired, Sync, Continue, IInv, TypeOK, ControllerTypeOK
<1>2. PICK q : q = Begin(k) /\ Working(q) /\ q.pc = "found" /\ DraftOK(q.claim)
  BY <1>1, BeginIs
<1>3. CASE SyncExpired(k)
  <2>1. PICK s : s = [q EXCEPT !.pc = "delete"]
    OBVIOUS
  <2>2. Working(s) /\ s.pc = "delete" /\ s.claim = q.claim
    BY <1>2, <2>1 DEF Working, SyncState
  <2>3. SyncOK(s) /\ s \in SyncState
    BY <1>2, <2>2 DEF SyncOK, Working
  <2>4. sync' = [sync EXCEPT ![k] = s]
    BY <1>2, <1>3, <2>1 DEF SyncExpired, Continue
  <2> QED
    BY <1>1, <2>2, <2>3, <2>4, RestingSync
<1>4. CASE Sync(k)
  <2>1. PICK s : s = SyncDeploy(k, q)
    OBVIOUS
  <2>2. AfterDeploy(q, s)
    BY <1>2, <2>1, SyncDeployIs
  <2>3. s # Idle => DraftOK(s.claim)
    BY <1>2, <2>2, DraftRefers DEF AfterDeploy
  <2>4. s \in SyncState /\ (s = Idle \/ (Working(s) /\ s.pc # "found" /\ SyncOK(s)))
    BY <2>2, <2>3, IdleIs DEF AfterDeploy, SyncOK, Working
  <2>5. sync' = [sync EXCEPT ![k] = s]
    BY <1>2, <1>4, <2>1 DEF Sync, Continue
  <2> QED
    BY <1>1, <2>4, <2>5, RestingSync
<1> QED
  BY <1>3, <1>4

LEMMA CreateObjectKeepsInv ==
  ASSUME IInv, NEW k \in Controller, NEW kind \in Kind, Create(k, kind), UNCHANGED req
  PROVE  IInv'
<1>1. PICK q \in SyncState : q = sync[k] /\ q.pc = kind
  BY SyncIsTyped DEF Create
<1>2. Working(q) /\ SyncOK(q) /\ DraftOK(q.claim)
  BY <1>1, SyncIsTyped DEF Working, SyncOK, Kind
<1>3. PICK n : n = Len(objects[kind]) + 1
  OBVIOUS
<1>4. /\ q.claim.uid \in Nat
      /\ GetLabelsForUser(q.client.labels) \in SUBSET (Label \cup {UserLabel})
  BY <1>2 DEF Working, DistccClientClaim, DistccClient, GetLabelsForUser
<1>5. StoreTypeOK /\ changes' \in 0 .. MaxChanges /\ UNCHANGED seen
  BY DEF IInv, TypeOK, StoreTypeOK, ControllerTypeOK, Create, Continue
<1>6. PostObject(kind, q.claim.uid, GetLabelsForUser(q.client.labels))
  BY <1>1 DEF Create
<1>7. /\ StoreMoves /\ UNCHANGED <<claim, writes>>
      /\ n \in DOMAIN objects'[kind] /\ objects'[kind][n].owner = q.claim.uid
  BY <1>3, <1>4, <1>5, <1>6, PostGrows
<1>8. n \in Nat \ {0}
  BY <1>3, <1>5, ObjectsType
<1>9. PICK r : r = SetRef(q, kind, n)
  OBVIOUS
<1>10. /\ Working(r) /\ r.pc = "found" /\ r.client = q.client
       /\ r.claim.uid = q.claim.uid /\ r.claim.ver = q.claim.ver
       /\ r.claim.exp = q.claim.exp
       /\ r.claim.ref = [q.claim.ref EXCEPT ![kind] = n] /\ r.claim.ref[kind] = n
  BY <1>2, <1>8, <1>9, SetRefIs
<1>11. DraftOK(r.claim)'
  <2>1. PICK c \in DistccClientClaim, d \in DistccClientClaim : c = q.claim /\ d = r.claim
    BY <1>2, <1>10 DEF Working
  <2>2. DraftOK(c)'
    BY <1>2, <1>5, <1>7, <2>1, DraftStays
  <2>3. \A other \in Kind : other # kind => d.ref[other] = c.ref[other]
    BY <1>10, <2>1 DEF DistccClientClaim
  <2>4. Controlled(d)'
    <3> SUFFICES ASSUME NEW other \in Kind, d.ref[other] # NoRef
                 PROVE  /\ d.ref[other] \in DOMAIN objects'[other]
                        /\ objects'[other][d.ref[other]].owner = d.uid
      BY DEF Controlled, IsControlledBy
    <3>1. CASE other = kind
      BY <1>7, <1>10, <2>1, <3>1
    <3>2. CASE other # kind
      BY <1>10, <2>1, <2>2, <2>3, <3>2 DEF DraftOK, Controlled, IsControlledBy
    <3> QED
      BY <3>1, <3>2
  <2>5. DraftOK(d)'
    BY <1>10, <2>1, <2>2, <2>4 DEF DraftOK
  <2> QED
    BY <2>1, <2>5
<1>12. PICK s : s = IF kind = "deploy" THEN SyncService(k, r) ELSE WriteBack(r)
  OBVIOUS
<1>13. sync' = [sync EXCEPT ![k] = s] \/ sync' = [sync EXCEPT ![k] = Idle]
  BY <1>1, <1>3, <1>9, <1>12 DEF Create, Continue
<1>14. \/ s = Idle
       \/ /\ Working(s) /\ s.pc \in {"service", "update"} /\ Refers(r.claim, s.claim)
          /\ s.claim.ref["deploy"] # NoRef
          /\ s.pc = "update" => s.claim.ref["service"] # NoRef
  <2>1. CASE kind = "deploy"
    BY <1>8, <1>10, <1>12, <2>1, SyncServiceIs DEF AfterService, NoRef
  <2>2. CASE kind = "service"
    <3>1. r.claim.ref["deploy"] = q.claim.ref["deploy"] /\ q.claim.ref["deploy"] # NoRef
      BY <1>1, <1>2, <1>10, <2>2 DEF SyncOK, Working, DistccClientClaim, Kind
    <3>2. s = WriteBack(r)
      BY <1>12, <2>2
    <3> QED
      BY <1>8, <1>10, <2>2, <3>1, <3>2, WriteBackIs, RefersReflexive DEF NoRef
  <2> QED
    BY <2>1, <2>2 DEF Kind
<1>15. s # Idle => DraftOK(s.claim)'
  BY <1>7, <1>11, <1>14, DraftRefersLater DEF StoreMoves
<1>16. PICK t \in SyncState :
         /\ sync' = [sync EXCEPT ![k] = t]
         /\ t = Idle \/ t = s
  BY <1>13, <1>14, IdleIs DEF Working
<1>17. /\ t.pc # "found" /\ SyncOK(t)'
       /\ t.pc # "idle" => t.claim \in DistccClientClaim /\ t.client \in DistccClient
  BY <1>14, <1>15, <1>16, IdleIs DEF Working, SyncOK
<1>18. ControllersOK' /\ RequestsOK' /\ StoreOK' /\ StoreTypeOK'
  BY <1>5, <1>7, <1>16, <1>17, SyncMoves, RequestsStay, StoreStays DEF StoreMoves
<1> QED
  BY <1>18 DEF IInv, TypeOK, ControllersOK, RequestsOK

\* What the controller writes: a claim of which nobody else has written a
\* newer version, with both references.
LEMMA SyncUpdateOK ==
  ASSUME IInv, NEW k \in Controller, SyncUpdate(k)
  PROVE  /\ StoreMoves /\ StoreOK' /\ Exists(claim) /\ claim'.uid = claim.uid
         /\ claim.exp = Unset \/ claim'.exp <= claim.exp
<1>1. PICK q \in SyncState : q = sync[k] /\ q.pc = "update"
  BY SyncIsTyped DEF SyncUpdate
<1>2. PICK c \in DistccClientClaim : c = q.claim
  BY <1>1, SyncIsTyped
<1>3. DraftOK(c) /\ \A kind \in Kind : c.ref[kind] # NoRef
  BY <1>1, <1>2, SyncIsTyped DEF SyncOK, Kind
<1>4. Put(c) /\ Exists(claim) /\ c.ver = claim.ver
  BY <1>1, <1>2 DEF SyncUpdate, Put
<1>5. Controlled(c) /\ c.uid = claim.uid /\ (claim.exp = Unset \/ c.exp <= claim.exp)
  BY <1>3, <1>4 DEF DraftOK
<1> QED
  BY <1>3, <1>4, <1>5, PutOK

LEMMA ControllerKeepsInv ==
  ASSUME IInv, ControllerNext, UNCHANGED req
  PROVE  IInv'
<1>1. PICK k \in Controller :
        \/ Watch(k) \/ SyncExpired(k) \/ Sync(k) \/ Call(k) \/ SyncFails(k)
  BY DEF ControllerNext
<1>2. CASE Watch(k)
  BY <1>2, WatchKeepsInv
<1>3. CASE SyncExpired(k) \/ Sync(k)
  BY <1>3, SyncKeepsInv
<1>4. CASE Call(k)
  <2>1. ASSUME NEW kind \in Kind, Create(k, kind) PROVE IInv'
    BY <2>1, CreateObjectKeepsInv
  <2>2. CASE SyncDelete(k)
    BY <2>2, RemoveOK, WritingSync DEF SyncDelete
  <2>3. CASE SyncUpdate(k)
    BY <2>3, SyncUpdateOK, WritingSync DEF SyncUpdate
  <2> QED
    BY <1>4, <2>1, <2>2, <2>3 DEF Call
<1>5. CASE SyncFails(k)
  <2>1. /\ UNCHANGED <<storeVars, seen, req>>
        /\ sync' = [sync EXCEPT ![k] = Idle]
    BY <1>5 DEF SyncFails, Continue
  <2> QED
    BY <2>1, IdleIs, RestingSync
<1> QED
  BY <1>1, <1>2, <1>3, <1>4, <1>5

(***************************************************************************)
(* The invariant holds.                                                    *)
(***************************************************************************)
\* A claim that was granted before the first step has both its objects.
LEMMA GrantedClaimOK ==
  ASSUME GrantedClaim
  PROVE  /\ client \in DistccClient /\ claim \in DistccClientClaim
         /\ writes = 2 /\ claim.uid = 1 /\ claim.ver = 2
         /\ objects \in [Kind -> Seq(Object)]
         /\ Controlled(claim) /\ \A kind \in Kind : claim.ref[kind] # NoRef
<1>1. PICK labels \in SUBSET (Label \cup {UserLabel}) : labels = GetLabelsForUser(client.labels)
  BY DEF GrantedClaim, DistccClient, GetLabelsForUser
<1>2. PICK o \in Object : o = [owner |-> 1, live |-> TRUE, labels |-> labels]
  BY DEF Object
<1>3. objects = [kind \in Kind |-> <<o>>] /\ o.owner = 1
  BY <1>1, <1>2 DEF GrantedClaim
<1>4. <<o>> \in Seq(Object) /\ 1 \in DOMAIN <<o>> /\ <<o>>[1] = o
  OBVIOUS
<1>5. client.lease \in Time
  BY LeaseAssumption DEF GrantedClaim, DistccClient
<1>6. PICK exp \in Time : exp = ToKubeTime(client.lease)
  BY <1>5, ToKubeTimeTruncates
<1>7. claim = [uid |-> 1, ver |-> 2, exp |-> exp, ref |-> [kind \in Kind |-> 1]]
  BY <1>6 DEF GrantedClaim
<1>8. claim \in DistccClientClaim /\ claim.uid = 1 /\ \A kind \in Kind : claim.ref[kind] = 1
  BY <1>7 DEF DistccClientClaim
<1>9. Controlled(claim)
  BY <1>3, <1>4, <1>8 DEF Controlled, IsControlledBy
<1>10. objects \in [Kind -> Seq(Object)]
  BY <1>3, <1>4
<1>11. client \in DistccClient /\ writes = 2
  BY DEF GrantedClaim
<1>12. claim.ver = 2 /\ 1 # NoRef
  BY <1>7 DEF NoRef
<1> QED
  BY <1>8, <1>9, <1>10, <1>11, <1>12

LEMMA StoreInitOK ==
  ASSUME StoreInit
  PROVE  /\ StoreTypeOK /\ StoreOK
         /\ Exists(claim) => claim.uid = 1
<1>1. now \in Time /\ changes \in 0 .. MaxChanges
  BY BoundAssumption DEF StoreInit, Time
<1>2. CASE NoClaim
  <2>1. objects \in [Kind -> Seq(Object)]
    BY <1>2 DEF NoClaim
  <2> QED
    BY <1>1, <1>2, <2>1
    DEF NoClaim, StoreTypeOK, StoreOK, CopyOK, GrantedIsComplete, Leased, Exists
<1>3. CASE GrantedClaim
  BY <1>1, <1>3, GrantedClaimOK DEF StoreTypeOK, StoreOK, CopyOK, GrantedIsComplete
<1> QED
  BY <1>2, <1>3 DEF StoreInit

LEMMA ControllerInitOK ==
  ASSUME StoreTypeOK, StoreOK, ControllerInit
  PROVE  ControllersOK
<1>1. Live("deploy") \subseteq DOMAIN objects["deploy"]
      /\ Live("service") \subseteq DOMAIN objects["service"]
  BY DEF Live
<1>2. Live("deploy") \in SUBSET Nat /\ Live("service") \in SUBSET Nat
  BY <1>1, ObjectsType DEF Kind
<1>3. [client |-> client, claim |-> claim,
       deploy |-> Live("deploy"), service |-> Live("service")] \in Cache
  BY <1>2 DEF StoreTypeOK, Cache
<1>4. seen \in [Controller -> Cache]
  BY <1>3 DEF ControllerInit
<1>5. /\ sync \in [Controller -> SyncState]
      /\ \A k \in Controller : sync[k] = Idle
  BY IdleIs DEF ControllerInit
<1>6. ControllerTypeOK
  BY <1>1, <1>4, <1>5, IdleIs DEF ControllerTypeOK, ControllerInit
<1>7. \A k \in Controller : CopyOK(seen[k].claim)
  BY DEF StoreOK, ControllerInit
<1> QED
  BY <1>5, <1>6, <1>7, IdleIs DEF ControllersOK, SyncOK

LEMMA ServiceInitOK ==
  ASSUME StoreTypeOK, StoreOK, ServiceInit
  PROVE  RequestsOK
<1>1. /\ NewRequest \in RequestState
      /\ NewRequest.op = "lease" /\ NewRequest.since = 0 /\ NewRequest.pc = "new"
      /\ NewRequest.got = Absent
  BY StepsAssumption DEF NewRequest, RequestState, PC, NoRef
<1>2. writes \in Nat /\ (Exists(claim) => claim.uid \in Nat)
  BY ClaimType DEF StoreTypeOK, DistccClientClaim
<1>3. RequestOK(NewRequest)
  BY <1>1, <1>2 DEF RequestOK, CopyOK, LeaseOK, ReleaseOK, Later, Exists
<1> QED
  BY <1>1, <1>3 DEF RequestsOK, ServiceTypeOK, ServiceInit

LEMMA InitInv == Init => IInv
<1> SUFFICES ASSUME Init PROVE IInv
  OBVIOUS
<1>1. StoreTypeOK /\ StoreOK
  BY StoreInitOK DEF Init
<1> QED
  BY <1>1, ControllerInitOK, ServiceInitOK, InvParts DEF Init

LEMMA StepInv == IInv /\ [Next]_vars => IInv'
<1> SUFFICES ASSUME IInv, [Next]_vars PROVE IInv'
  OBVIOUS
<1>1. CASE StoreNext /\ UNCHANGED <<controllerVars, req>>
  BY <1>1, EnvironmentKeepsInv
<1>2. CASE ControllerNext /\ UNCHANGED req
  BY <1>2, ControllerKeepsInv
<1>3. ASSUME NEW r \in Request, ServiceStep(r), UNCHANGED controllerVars PROVE IInv'
  BY <1>3, ServiceKeepsInv
<1>4. CASE UNCHANGED vars
  <2>1. StoreMoves /\ UNCHANGED <<claim, writes>>
    BY <1>4, StoreRests DEF vars, storeVars
  <2>2. StoreTypeOK' /\ StoreOK' /\ ControllersOK' /\ RequestsOK'
    BY <1>4, <2>1, StoreStays, ControllersStay, RequestsStay DEF vars, StoreMoves
  <2> QED
    BY <2>2 DEF IInv, TypeOK, ControllersOK, RequestsOK
<1> QED
  BY <1>1, <1>2, <1>3, <1>4 DEF Next

LEMMA Inv == Spec => []IInv
BY InitInv, StepInv, PTL DEF Spec

\* Every reachable state is typed: the claims, caches, Syncs and requests
\* hold what their types in the API and in the code allow.
THEOREM TypeCorrect == Spec => []TypeOK
<1>1. IInv => TypeOK
  BY DEF IInv
<1> QED
  BY <1>1, Inv, PTL

\* A claim refers to nothing but objects that were made for it.
THEOREM ReferencesAreOwn == Spec => []RefsControlled
<1>1. IInv => RefsControlled
  BY DEF IInv, StoreOK, CopyOK, Controlled, RefsControlled
<1> QED
  BY <1>1, Inv, PTL

\* No claim is granted that lacks its Deployment or its Service.
THEOREM GrantsAreComplete == Spec => []GrantedIsComplete
<1>1. IInv => GrantedIsComplete
  BY DEF IInv, StoreOK
<1> QED
  BY <1>1, Inv, PTL

\* A user is given the port of a Service that was made for a claim of hers
\* that was there after her request arrived.
THEOREM AnswersAreOwn == Spec => []AnsweredOwnService
<1>1. IInv => AnsweredOwnService
  BY DEF IInv, RequestOK, LeaseOK, OwnAnswer, AnsweredOwnService
<1> QED
  BY <1>1, Inv, PTL

\* What was released does not come back.
THEOREM ReleasesAreFinal == Spec => []ReleasedIsGone
<1>1. IInv => ReleasedIsGone
  <2> SUFFICES ASSUME IInv, NEW r \in Request,
                      req[r].pc = "done", req[r].op = "delete"
               PROVE  ~ Exists(claim) \/ claim.uid >= req[r].since
    BY DEF ReleasedIsGone
  <2> QED
    BY DEF IInv, RequestOK, ReleaseOK, Later
<1> QED
  BY <1>1, Inv, PTL

(***************************************************************************)
(* The steps.                                                              *)
(***************************************************************************)
GrantAnswers ==
  Leased(claim') /\ claim' # claim =>
    /\ Exists(claim) /\ claim.uid = claim'.uid
    /\ Asks(claim) \/ claim'.exp <= claim.exp

LEMMA RequestGrantsNothing ==
  ASSUME IInv, NEW r \in Request, ServiceStep(r)
  PROVE  GrantAnswers
<1>1. CASE CreateClaim(r)
  BY <1>1, PostOK DEF CreateClaim, GrantAnswers, Leased
<1>2. CASE UpdateClaim(r)
  <2>1. /\ req[r].pc = "update"
        /\ claim' = [[req[r].got EXCEPT !.exp = Unset] EXCEPT !.ver = writes + 1]
    BY <1>2 DEF UpdateClaim, Put, Write
  <2>2. PICK c \in DistccClientClaim \cup {Absent} : c = req[r].got
    BY RequestIsTyped DEF RequestState
  <2>3. c \in DistccClientClaim
    BY <2>1, <2>2, RequestIsTyped DEF RequestOK, LeaseOK, ReleaseOK, Exists, RequestState
  <2>4. claim'.exp = Unset
    BY <2>1, <2>2, <2>3 DEF DistccClientClaim
  <2> QED
    BY <2>4 DEF GrantAnswers, Leased
<1>3. CASE DeleteClaim(r)
  BY <1>3, RemoveOK DEF DeleteClaim, GrantAnswers, Leased
<1>4. CASE UNCHANGED storeVars
  BY <1>4 DEF storeVars, GrantAnswers
<1> QED
  BY <1>1, <1>2, <1>3, <1>4
  DEF ServiceStep, RequestStep, LeaseClient, DeleteClient, Arrive, ServiceCrash, GetClient,
      GetClaim, GetSecret, GetService, DeleteFindsNothing, AttemptFails, Reply

LEMMA ControllerGrantsAsked ==
  ASSUME IInv, NEW k \in Controller, Call(k)
  PROVE  GrantAnswers
<1>1. ASSUME NEW kind \in Kind, Create(k, kind) PROVE GrantAnswers
  BY <1>1 DEF Create, PostObject, GrantAnswers
<1>2. CASE SyncDelete(k)
  BY <1>2, RemoveOK DEF SyncDelete, GrantAnswers, Leased
<1>3. CASE SyncUpdate(k)
  BY <1>3, SyncUpdateOK DEF GrantAnswers, Asks
<1> QED
  BY <1>1, <1>2, <1>3 DEF Call

\* A lease is granted to a claim that asks for one, and otherwise only made
\* shorter.
THEOREM GrantsAreAsked == Spec => GrantsAnswerRequests
<1>1. IInv /\ [Next]_vars => [GrantAnswers]_vars
  <2> SUFFICES ASSUME IInv, Next PROVE GrantAnswers
    OBVIOUS
  <2>1. CASE StoreNext
    BY <2>1, StoreNextMoves DEF GrantAnswers
  <2>2. CASE ControllerNext
    <3>1. PICK k \in Controller :
            \/ Call(k)
            \/ Watch(k) \/ SyncExpired(k) \/ Sync(k) \/ SyncFails(k)
      BY <2>2 DEF ControllerNext
    <3>2. CASE Call(k)
      BY <3>2, ControllerGrantsAsked
    <3>3. CASE UNCHANGED storeVars
      BY <3>3 DEF storeVars, GrantAnswers
    <3> QED
      BY <3>1, <3>2, <3>3 DEF Watch, SyncExpired, Sync, SyncFails
  <2>3. ASSUME NEW r \in Request, ServiceStep(r) PROVE GrantAnswers
    BY <2>3, RequestGrantsNothing
  <2> QED
    BY <2>1, <2>2, <2>3 DEF Next
<1> QED
  BY <1>1, Inv, PTL DEF Spec, GrantsAnswerRequests, GrantAnswers

(***************************************************************************)
(* The contract.  Beyond IInv it takes what a Sync has worked out to stay  *)
(* true until it writes: the lease that it is about to grant is not too    *)
(* long, and the one for which it is about to remove the claim has ended.  *)
(***************************************************************************)
InTime(c) == \E d \in LeaseDuration : c.exp <= now + d

PlanOK(s) ==
  s.pc # "idle" =>
    /\ s.claim.uid <= writes
    /\ InTime(s.claim)
    /\ s.pc = "delete" => now > s.claim.exp

PlansOK ==
  \A k \in Controller :
    /\ Exists(seen[k].claim) => seen[k].claim.uid <= writes
    /\ PlanOK(sync[k])

LEMMA ClockAndCountGrow ==
  ASSUME IInv, [Next]_vars
  PROVE  /\ now \in Nat /\ writes \in Nat /\ now' \in Nat /\ writes' \in Nat
         /\ now <= now' /\ writes <= writes'
<1>1. now \in Nat /\ writes \in Nat
  BY DEF IInv, TypeOK, StoreTypeOK, Time
<1>2. ASSUME NEW c, Write(c) PROVE now' = now /\ writes' = writes + 1
  BY <1>2 DEF Write
<1>3. ASSUME NEW kind, NEW owner, NEW labels, PostObject(kind, owner, labels)
      PROVE  now' = now /\ writes' = writes
  BY <1>3 DEF PostObject
<1>4. CASE StoreNext
  BY <1>1, <1>3, <1>4 DEF StoreNext, Tick, EditClient, CreateForeign, KillObject,
                          CollectGarbage, Kill
<1>5. ASSUME NEW r \in Request, ServiceStep(r)
      PROVE  now' = now /\ (writes' = writes \/ writes' = writes + 1)
  <2>1. CASE CreateClaim(r) \/ UpdateClaim(r) \/ DeleteClaim(r)
    BY <1>2, <2>1 DEF CreateClaim, UpdateClaim, DeleteClaim, Post, Put, Remove
  <2>2. CASE UNCHANGED storeVars
    BY <2>2 DEF storeVars
  <2> QED
    BY <1>5, <2>1, <2>2
    DEF ServiceStep, RequestStep, LeaseClient, DeleteClient, Arrive, ServiceCrash, GetClient,
        GetClaim, GetSecret, GetService, DeleteFindsNothing, AttemptFails, Reply
<1>6. ASSUME NEW k \in Controller,
             Watch(k) \/ SyncExpired(k) \/ Sync(k) \/ Call(k) \/ SyncFails(k)
      PROVE  now' = now /\ (writes' = writes \/ writes' = writes + 1)
  <2>1. CASE UNCHANGED storeVars
    BY <2>1 DEF storeVars
  <2>2. CASE Call(k)
    BY <1>2, <1>3, <2>2 DEF Call, Create, SyncDelete, SyncUpdate, Put, Remove
  <2> QED
    BY <1>6, <2>1, <2>2 DEF Watch, SyncExpired, Sync, SyncFails
<1>7. CASE UNCHANGED vars
  BY <1>1, <1>7 DEF vars, storeVars
<1> QED
  BY <1>1, <1>4, <1>5, <1>6, <1>7 DEF Next, ControllerNext

\* A plan stays good as the clock and the count of writes advance.
LEMMA PlanStays ==
  ASSUME NEW s \in SyncState, s.pc # "idle" => s.claim \in DistccClientClaim /\ s.claim.exp # Unset,
         PlanOK(s),
         now \in Nat, writes \in Nat, now' \in Nat, writes' \in Nat,
         now <= now', writes <= writes'
  PROVE  PlanOK(s)'
<1> SUFFICES ASSUME s.pc # "idle" PROVE PlanOK(s)'
  BY DEF PlanOK
<1>1. s.claim.uid \in Nat /\ s.claim.exp \in Nat
  BY DEF DistccClientClaim, Time
<1>2. InTime(s.claim)'
  BY <1>1, LeaseAssumption DEF PlanOK, InTime, Time
<1> QED
  BY <1>1, <1>2 DEF PlanOK

LEMMA ToKubeTimeWithinSecond ==
  ASSUME NEW t \in Time
  PROVE  ToKubeTime(t) \in Time /\ ToKubeTime(t) <= t /\ t < ToKubeTime(t) + SecondTicks
BY SecondAssumption DEF ToKubeTime, Time

\* A lease that Sync has just worked out has not ended: the one that has is
\* the one the cached claim had.
LEMMA BeginPlans ==
  ASSUME IInv, PlansOK, NEW k \in Controller, CanSync(k)
  PROVE  /\ Begin(k).claim.exp \in Time
         /\ Begin(k).claim.uid <= writes
         /\ InTime(Begin(k).claim)
         /\ Expired(Begin(k).claim) =>
              Leased(seen[k].claim) /\ seen[k].claim.exp = Begin(k).claim.exp
<1>1. Exists(seen[k].claim) /\ Exists(seen[k].client) /\ seen[k] \in Cache
  BY CacheIsTyped DEF CanSync, CachedClaim, CachedClient
<1>2. PICK c \in DistccClientClaim : c = seen[k].claim
  BY <1>1 DEF Cache, Exists
<1>3. PICK d \in LeaseDuration : d = seen[k].client.lease
  BY <1>1 DEF Cache, Exists, DistccClient
<1>4. now \in Time /\ d \in Time /\ now + d \in Time /\ d >= SecondTicks
  BY <1>3, LeaseAssumption, WholeSecondLeases DEF IInv, TypeOK, StoreTypeOK, Time
<1>5. PICK latest : latest = ToKubeTime(now + d)
  OBVIOUS
<1>6. latest \in Time /\ latest <= now + d /\ now <= latest
  BY <1>4, <1>5, ToKubeTimeWithinSecond, SecondAssumption DEF Time
<1>7. PICK e : e = UpdateExpiration(c.exp, d)
  OBVIOUS
<1>8. e = IF c.exp = Unset \/ c.exp > now + d THEN latest ELSE c.exp
  BY <1>5, <1>7 DEF UpdateExpiration
<1>9. e \in Time /\ e <= now + d /\ (e = c.exp \/ now <= e)
  BY <1>4, <1>6, <1>8 DEF DistccClientClaim, Time
<1>10. /\ Begin(k).claim = [c EXCEPT !.exp = e]
  BY <1>2, <1>3, <1>7 DEF Begin, CachedClaim, CachedClient
<1>11. Begin(k).claim.exp = e /\ Begin(k).claim.uid = c.uid
  BY <1>10 DEF DistccClientClaim
<1>12. InTime(Begin(k).claim)
  BY <1>9, <1>11 DEF InTime
<1>13. c.uid <= writes
  BY <1>1, <1>2 DEF PlansOK
<1>14. Expired(Begin(k).claim) => e = c.exp
  BY <1>4, <1>9, <1>11 DEF Expired, Time
<1>15. e # Unset
  BY <1>9, UnsetAssumption
<1> QED
  BY <1>1, <1>2, <1>9, <1>11, <1>12, <1>13, <1>14, <1>15 DEF Leased

\* What the steps of a Sync that send a call leave of its draft.
SyncLeaves(k, c) ==
  \E s \in SyncState :
    /\ sync' = [sync EXCEPT ![k] = s]
    /\ \/ s = Idle
       \/ /\ s.pc \in {"deploy", "service", "update"}
          /\ s.claim \in DistccClientClaim
          /\ s.claim.uid = c.uid /\ s.claim.exp = c.exp

LEMMA SyncGoesOn ==
  ASSUME IInv, NEW k \in Controller, Sync(k)
  PROVE  SyncLeaves(k, Begin(k).claim)
<1>1. PICK q : q = Begin(k) /\ Working(q) /\ q.pc = "found"
  BY BeginIs DEF Sync
<1>2. PICK s : s = SyncDeploy(k, q)
  OBVIOUS
<1>3. AfterDeploy(q, s)
  BY <1>1, <1>2, SyncDeployIs
<1>4. sync' = [sync EXCEPT ![k] = s]
  BY <1>1, <1>2 DEF Sync, Continue
<1> QED
  BY <1>1, <1>3, <1>4, IdleIs DEF SyncLeaves, AfterDeploy, Working, Refers

LEMMA CreateGoesOn ==
  ASSUME IInv, NEW k \in Controller, NEW kind \in Kind, Create(k, kind)
  PROVE  SyncLeaves(k, sync[k].claim)
<1>1. PICK q \in SyncState : q = sync[k] /\ q.pc = kind
  BY SyncIsTyped DEF Create
<1>2. Working(q)
  BY <1>1, SyncIsTyped DEF Working, Kind
<1>3. PICK n : n = Len(objects[kind]) + 1
  OBVIOUS
<1>4. n \in Nat
  BY <1>3, ObjectsType DEF IInv, TypeOK
<1>5. PICK r : r = SetRef(q, kind, n)
  OBVIOUS
<1>6. Working(r) /\ r.pc = "found" /\ r.claim.uid = q.claim.uid /\ r.claim.exp = q.claim.exp
  <2>1. /\ Working(r) /\ r.pc = "found" /\ r.client = q.client
        /\ r.claim.uid = q.claim.uid /\ r.claim.ver = q.claim.ver
        /\ r.claim.exp = q.claim.exp
        /\ r.claim.ref = [q.claim.ref EXCEPT ![kind] = n] /\ r.claim.ref[kind] = n
    BY <1>2, <1>4, <1>5, SetRefIs
  <2> QED
    BY <2>1
<1>7. PICK s : s = IF kind = "deploy" THEN SyncService(k, r) ELSE WriteBack(r)
  OBVIOUS
<1>8. sync' = [sync EXCEPT ![k] = s] \/ sync' = [sync EXCEPT ![k] = Idle]
  BY <1>1, <1>3, <1>5, <1>7 DEF Create, Continue
<1>9. \/ s = Idle
      \/ Working(s) /\ s.pc \in {"service", "update"} /\ Refers(r.claim, s.claim)
  <2>1. CASE kind = "deploy"
    BY <1>6, <1>7, <2>1, SyncServiceIs DEF AfterService
  <2>2. CASE kind # "deploy"
    BY <1>6, <1>7, <2>2, WriteBackIs, RefersReflexive
  <2> QED
    BY <2>1, <2>2
<1> QED
  BY <1>1, <1>6, <1>8, <1>9, IdleIs DEF SyncLeaves, Working, Refers

\* A Sync moves on, with a good plan.
LEMMA PlansMove ==
  ASSUME IInv, IInv', PlansOK, [Next]_vars, NEW k \in Controller, NEW s,
         sync' = [sync EXCEPT ![k] = s], UNCHANGED seen, PlanOK(s)'
  PROVE  PlansOK'
<1>1. /\ now \in Nat /\ writes \in Nat /\ now' \in Nat /\ writes' \in Nat
      /\ now <= now' /\ writes <= writes'
  BY ClockAndCountGrow
<1>2. sync' \in [Controller -> SyncState] /\ sync \in [Controller -> SyncState]
  BY DEF IInv, TypeOK, ControllerTypeOK
<1>3. ASSUME NEW j \in Controller PROVE PlanOK(sync[j])'
  <2>1. CASE j = k
    <3>1. sync'[j] = s
      BY <1>2, <2>1
    <3> QED
      BY <3>1
  <2>2. CASE j # k
    <3>1. sync'[j] = sync[j]
      BY <1>2, <2>2
    <3>2. PICK q \in SyncState : q = sync[j] /\ PlanOK(q)
      BY <1>2 DEF PlansOK
    <3>3. q.pc # "idle" => q.claim \in DistccClientClaim /\ q.claim.exp # Unset
      BY <3>2, SyncIsTyped DEF SyncOK, DraftOK
    <3>4. PlanOK(q)'
      BY <1>1, <3>2, <3>3, PlanStays
    <3> QED
      BY <3>1, <3>2, <3>4
  <2> QED
    BY <2>1, <2>2
<1>4. ASSUME NEW j \in Controller, Exists(seen'[j].claim) PROVE seen'[j].claim.uid <= writes'
  <2>1. PICK c \in DistccClientClaim : c = seen[j].claim /\ c.uid <= writes
    BY <1>4, CacheIsTyped DEF Cache, Exists, PlansOK
  <2> QED
    BY <1>1, <2>1 DEF DistccClientClaim
<1> QED
  BY <1>3, <1>4 DEF PlansOK, Exists

\* The caches move, or nothing of the controller does.
LEMMA PlansRest ==
  ASSUME IInv, PlansOK, [Next]_vars, UNCHANGED sync,
         \A k \in Controller :
           seen'[k].claim = seen[k].claim \/ (seen'[k].claim = claim /\ UNCHANGED claim)
  PROVE  PlansOK'
<1>1. /\ now \in Nat /\ writes \in Nat /\ now' \in Nat /\ writes' \in Nat
      /\ now <= now' /\ writes <= writes'
  BY ClockAndCountGrow
<1>2. ASSUME NEW j \in Controller PROVE PlanOK(sync[j])'
  <2>1. PICK q \in SyncState : q = sync[j] /\ PlanOK(q)
    BY SyncIsTyped DEF PlansOK
  <2>2. q.pc # "idle" => q.claim \in DistccClientClaim /\ q.claim.exp # Unset
    BY <2>1, SyncIsTyped DEF SyncOK, DraftOK
  <2>3. PlanOK(q)'
    BY <1>1, <2>1, <2>2, PlanStays
  <2> QED
    BY <2>1, <2>3
<1>3. ASSUME NEW j \in Controller, Exists(seen'[j].claim) PROVE seen'[j].claim.uid <= writes'
  <2>1. CASE seen'[j].claim = seen[j].claim
    <3>1. PICK c \in DistccClientClaim : c = seen[j].claim /\ c.uid <= writes
      BY <1>3, <2>1, CacheIsTyped DEF Cache, Exists, PlansOK
    <3> QED
      BY <1>1, <2>1, <3>1 DEF DistccClientClaim
  <2>2. CASE seen'[j].claim = claim
    <3>1. Exists(claim) /\ claim.uid <= writes /\ claim.uid \in Nat
      BY <1>3, <2>2, ClaimType DEF Exists, IInv, TypeOK, StoreOK, DistccClientClaim
    <3> QED
      BY <1>1, <2>2, <3>1
  <2> QED
    BY <2>1, <2>2
<1> QED
  BY <1>2, <1>3 DEF PlansOK, Exists

LEMMA WatchSees ==
  ASSUME IInv, NEW k \in Controller, Watch(k), NEW j \in Controller
  PROVE  /\ seen'[j].claim = seen[j].claim \/ seen'[j].claim = claim
         /\ UNCHANGED <<storeVars, sync>>
BY DEF Watch, WatchClient, WatchClaim, WatchDeploy, WatchService, IInv, TypeOK,
       ControllerTypeOK, Cache

LEMMA PlansStep ==
  ASSUME IInv, IInv', PlansOK, [Next]_vars
  PROVE  PlansOK'
<1>1. CASE UNCHANGED controllerVars
  BY <1>1, PlansRest DEF controllerVars
<1>2. ASSUME NEW k \in Controller, Watch(k) PROVE PlansOK'
  <2>1. UNCHANGED <<claim, sync>>
    BY <1>2 DEF Watch, storeVars
  <2> QED
    BY <1>2, <2>1, WatchSees, PlansRest
<1>3. ASSUME NEW k \in Controller, SyncExpired(k) PROVE PlansOK'
  <2>1. PICK q : q = Begin(k) /\ Working(q)
    BY <1>3, BeginIs DEF SyncExpired
  <2>2. PICK s : s = [q EXCEPT !.pc = "delete"]
    OBVIOUS
  <2>3. s.pc = "delete" /\ s.claim = q.claim
    BY <2>1, <2>2 DEF Working, SyncState
  <2>4. PlanOK(s)
    BY <1>3, <2>1, <2>3, BeginPlans DEF SyncExpired, Expired, PlanOK
  <2>5. PlanOK(s)'
    BY <1>3, <2>4 DEF SyncExpired, storeVars, PlanOK, InTime
  <2>6. sync' = [sync EXCEPT ![k] = s] /\ UNCHANGED seen
    BY <1>3, <2>1, <2>2 DEF SyncExpired, Continue
  <2> QED
    BY <2>5, <2>6, PlansMove
<1>4. ASSUME NEW k \in Controller, NEW c, SyncLeaves(k, c), UNCHANGED <<now, writes, seen>>,
             c.uid <= writes, InTime(c)
      PROVE  PlansOK'
  <2>1. PICK s \in SyncState :
          /\ sync' = [sync EXCEPT ![k] = s]
          /\ \/ s = Idle
             \/ /\ s.pc \in {"deploy", "service", "update"}
                /\ s.claim.uid = c.uid /\ s.claim.exp = c.exp
    BY <1>4 DEF SyncLeaves
  <2>2. PlanOK(s)
    BY <1>4, <2>1, IdleIs DEF PlanOK, InTime
  <2>3. PlanOK(s)'
    BY <1>4, <2>2 DEF PlanOK, InTime
  <2> QED
    BY <1>4, <2>1, <2>3, PlansMove
<1>5. ASSUME NEW k \in Controller, Sync(k) PROVE PlansOK'
  <2>1. UNCHANGED <<now, writes, seen>> /\ CanSync(k)
    BY <1>5 DEF Sync, Continue, storeVars
  <2> QED
    BY <1>4, <1>5, <2>1, SyncGoesOn, BeginPlans
<1>6. ASSUME NEW k \in Controller, NEW kind \in Kind, Create(k, kind) PROVE PlansOK'
  <2>1. UNCHANGED <<now, writes, seen>>
    BY <1>6 DEF Create, PostObject, Continue
  <2>2. sync[k].claim.uid <= writes /\ InTime(sync[k].claim)
    BY <1>6 DEF Create, PlansOK, PlanOK, Kind
  <2> QED
    BY <1>4, <1>6, <2>1, <2>2, CreateGoesOn
<1>7. ASSUME NEW k \in Controller, SyncDelete(k) \/ SyncUpdate(k) \/ SyncFails(k)
      PROVE  PlansOK'
  <2>1. sync' = [sync EXCEPT ![k] = Idle] /\ UNCHANGED seen
    BY <1>7 DEF SyncDelete, SyncUpdate, SyncFails, Continue
  <2>2. PlanOK(Idle)'
    BY IdleIs DEF PlanOK
  <2> QED
    BY <2>1, <2>2, PlansMove
<1>8. CASE UNCHANGED vars
  BY <1>1, <1>8 DEF vars
<1> QED
  BY <1>1, <1>2, <1>3, <1>5, <1>6, <1>7, <1>8 DEF Next, ControllerNext, Call

LEMMA PlansInit == Init => PlansOK
<1> SUFFICES ASSUME Init PROVE PlansOK
  OBVIOUS
<1>1. IInv
  BY InitInv
<1>2. ASSUME NEW k \in Controller PROVE sync[k].pc = "idle" /\ seen[k].claim = claim
  BY <1>2, IdleIs DEF Init, ControllerInit
<1> QED
  BY <1>1, <1>2 DEF IInv, StoreOK, PlansOK, PlanOK

\* A Sync works on the claim that it found in the cache.
LEMMA BeginUid ==
  ASSUME IInv, NEW k \in Controller, CanSync(k)
  PROVE  Exists(seen[k].claim) /\ Begin(k).claim.uid = seen[k].claim.uid
<1>1. Exists(seen[k].claim) /\ seen[k] \in Cache
  BY CacheIsTyped DEF CanSync, CachedClaim
<1>2. PICK c \in DistccClientClaim : c = seen[k].claim
  BY <1>1 DEF Cache, Exists
<1>3. \E e : Begin(k).claim = [c EXCEPT !.exp = e]
  BY <1>2 DEF Begin, CachedClaim
<1> QED
  BY <1>1, <1>2, <1>3 DEF DistccClientClaim

(***************************************************************************)
(* What caches and Syncs hold is the claim or an earlier one: a claim that *)
(* is made has a greater uid than any before.                              *)
(***************************************************************************)
Earlier(c) == Exists(claim) => c.uid <= claim.uid

UidsOK ==
  \A k \in Controller :
    /\ Exists(seen[k].claim) => Earlier(seen[k].claim)
    /\ sync[k].pc # "idle" => Earlier(sync[k].claim)

ClaimGoesOn ==
  Exists(claim') =>
    \/ claim'.uid = writes + 1
    \/ Exists(claim) /\ claim'.uid = claim.uid

LEMMA ClaimStep ==
  ASSUME IInv, [Next]_vars
  PROVE  ClaimGoesOn
<1>1. CASE UNCHANGED claim
  BY <1>1 DEF ClaimGoesOn, Exists
<1>2. ASSUME NEW c \in DistccClientClaim, Put(c),
             Exists(claim) /\ c.ver = claim.ver => c.uid = claim.uid
      PROVE  ClaimGoesOn
  <2>1. Exists(claim) /\ claim' = [c EXCEPT !.ver = writes + 1] /\ c.uid = claim.uid
    BY <1>2 DEF Put, Write
  <2> QED
    BY <2>1 DEF ClaimGoesOn, DistccClientClaim
<1>3. CASE \E r \in Request : CreateClaim(r)
  BY <1>3 DEF CreateClaim, Post, Write, NewDistccClientClaim, ClaimGoesOn
<1>4. CASE Remove
  BY <1>4 DEF Remove, Write, ClaimGoesOn, Exists
<1>5. ASSUME NEW r \in Request, UpdateClaim(r) PROVE ClaimGoesOn
  <2>1. PICK q \in RequestState : q = req[r] /\ q.pc = "update" /\ RequestOK(q)
    BY <1>5, RequestIsTyped DEF UpdateClaim
  <2>2. CopyOK(q.got) /\ Exists(q.got) /\ q.got \in DistccClientClaim
    BY <2>1 DEF RequestOK, LeaseOK, ReleaseOK, RequestState, Exists
  <2>3. PICK c \in DistccClientClaim : c = [q.got EXCEPT !.exp = Unset]
    BY <2>2 DEF DistccClientClaim
  <2>4. Put(c) /\ c.ver = q.got.ver /\ c.uid = q.got.uid
    BY <1>5, <2>1, <2>2, <2>3 DEF UpdateClaim, DistccClientClaim
  <2> QED
    BY <1>2, <2>2, <2>4 DEF CopyOK
<1>6. ASSUME NEW k \in Controller, SyncUpdate(k) PROVE ClaimGoesOn
  BY <1>2, <1>6, SyncIsTyped DEF SyncUpdate, SyncOK, DraftOK
<1>7. CASE StoreNext
  BY <1>1, <1>7 DEF StoreNext, Tick, EditClient, CreateForeign, KillObject, PostObject,
                    CollectGarbage, Kill
<1>8. ASSUME NEW r \in Request, ServiceStep(r) PROVE ClaimGoesOn
  <2>1. CASE UNCHANGED storeVars
    BY <1>1, <2>1 DEF storeVars
  <2> QED
    BY <1>3, <1>4, <1>5, <1>8, <2>1
    DEF ServiceStep, RequestStep, LeaseClient, DeleteClient, Arrive, ServiceCrash, GetClient,
        GetClaim, GetSecret, GetService, DeleteClaim, DeleteFindsNothing, AttemptFails, Reply
<1>9. ASSUME NEW k \in Controller,
             Watch(k) \/ SyncExpired(k) \/ Sync(k) \/ Call(k) \/ SyncFails(k)
      PROVE  ClaimGoesOn
  <2>1. CASE UNCHANGED storeVars
    BY <1>1, <2>1 DEF storeVars
  <2>2. CASE Call(k)
    BY <1>1, <1>4, <1>6, <2>2 DEF Call, Create, PostObject, SyncDelete
  <2> QED
    BY <1>9, <2>1, <2>2 DEF Watch, SyncExpired, Sync, SyncFails
<1>10. CASE UNCHANGED vars
  BY <1>1, <1>10 DEF vars, storeVars
<1> QED
  BY <1>7, <1>8, <1>9, <1>10 DEF Next, ControllerNext

\* Where the copies of a process come from.
FromBefore(k) ==
  /\ Exists(seen'[k].claim) =>
       \/ seen'[k].claim = seen[k].claim
       \/ seen'[k].claim = claim /\ UNCHANGED claim
  /\ sync'[k].pc # "idle" =>
       \/ sync[k].pc # "idle" /\ sync'[k].claim.uid = sync[k].claim.uid
       \/ Exists(seen[k].claim) /\ sync'[k].claim.uid = seen[k].claim.uid

LEMMA CopiesComeFromBefore ==
  ASSUME IInv, [Next]_vars, NEW j \in Controller
  PROVE  FromBefore(j)
<1> sync \in [Controller -> SyncState]
  BY DEF IInv, TypeOK, ControllerTypeOK
<1>1. CASE UNCHANGED <<seen, sync>>
  BY <1>1 DEF FromBefore, Exists
<1>2. ASSUME NEW k \in Controller, Watch(k) PROVE FromBefore(j)
  <2>1. seen'[j].claim = seen[j].claim \/ seen'[j].claim = claim
    BY <1>2, WatchSees
  <2>2. UNCHANGED <<claim, sync>>
    BY <1>2 DEF Watch, storeVars
  <2> QED
    BY <2>1, <2>2 DEF FromBefore
<1>3. ASSUME NEW k \in Controller, NEW s, sync' = [sync EXCEPT ![k] = s], UNCHANGED seen,
             \/ s.pc = "idle"
             \/ sync[k].pc # "idle" /\ s.claim.uid = sync[k].claim.uid
             \/ Exists(seen[k].claim) /\ s.claim.uid = seen[k].claim.uid
      PROVE  FromBefore(j)
  <2>1. sync'[k] = s /\ (j # k => sync'[j] = sync[j])
    BY <1>3
  <2> QED
    BY <1>3, <2>1 DEF FromBefore
<1>4. ASSUME NEW k \in Controller, SyncExpired(k) PROVE FromBefore(j)
  <2>1. PICK q : q = Begin(k)
    OBVIOUS
  <2>2. PICK s : s = [q EXCEPT !.pc = "delete"]
    OBVIOUS
  <2>3. s.claim = q.claim
    BY <2>1, <2>2 DEF Begin
  <2>4. Exists(seen[k].claim) /\ s.claim.uid = seen[k].claim.uid
    BY <1>4, <2>1, <2>3, BeginUid DEF SyncExpired
  <2>5. sync' = [sync EXCEPT ![k] = s] /\ UNCHANGED seen
    BY <1>4, <2>1, <2>2 DEF SyncExpired, Continue
  <2> QED
    BY <1>3, <2>4, <2>5
<1>5. ASSUME NEW k \in Controller, Sync(k) PROVE FromBefore(j)
  <2>1. Exists(seen[k].claim) /\ Begin(k).claim.uid = seen[k].claim.uid /\ UNCHANGED seen
    BY <1>5, BeginUid DEF Sync, Continue
  <2>2. PICK s \in SyncState :
          /\ sync' = [sync EXCEPT ![k] = s]
          /\ s = Idle \/ s.claim.uid = Begin(k).claim.uid
    BY <1>5, SyncGoesOn DEF SyncLeaves
  <2> QED
    BY <1>3, <2>1, <2>2, IdleIs
<1>6. ASSUME NEW k \in Controller, NEW kind \in Kind, Create(k, kind) PROVE FromBefore(j)
  <2>1. sync[k].pc # "idle" /\ UNCHANGED seen
    BY <1>6 DEF Create, Continue, Kind
  <2>2. PICK s \in SyncState :
          /\ sync' = [sync EXCEPT ![k] = s]
          /\ s = Idle \/ s.claim.uid = sync[k].claim.uid
    BY <1>6, CreateGoesOn DEF SyncLeaves
  <2> QED
    BY <1>3, <2>1, <2>2, IdleIs
<1>7. ASSUME NEW k \in Controller, SyncDelete(k) \/ SyncUpdate(k) \/ SyncFails(k)
      PROVE  FromBefore(j)
  <2>1. sync' = [sync EXCEPT ![k] = Idle] /\ UNCHANGED seen
    BY <1>7 DEF SyncDelete, SyncUpdate, SyncFails, Continue
  <2> QED
    BY <1>3, <2>1, IdleIs
<1>8. CASE UNCHANGED vars
  BY <1>1, <1>8 DEF vars, controllerVars
<1> QED
  BY <1>1, <1>2, <1>4, <1>5, <1>6, <1>7, <1>8 DEF Next, ControllerNext, Call, controllerVars

LEMMA UidsStep ==
  ASSUME IInv, PlansOK, UidsOK, [Next]_vars
  PROVE  UidsOK'
<1>1. ClaimGoesOn /\ writes \in Nat
  BY ClaimStep DEF IInv, TypeOK, StoreTypeOK
\* A copy that was good stays good.
<1>2. ASSUME NEW n \in Nat, n <= writes, Exists(claim) => n <= claim.uid, Exists(claim')
      PROVE  n <= claim'.uid
  BY <1>1, <1>2 DEF ClaimGoesOn
<1>3. ASSUME NEW k \in Controller, Exists(seen[k].claim)
      PROVE  /\ seen[k].claim.uid \in Nat /\ seen[k].claim.uid <= writes
             /\ Exists(claim) => seen[k].claim.uid <= claim.uid
  BY <1>3, CacheIsTyped DEF Cache, Exists, DistccClientClaim, PlansOK, UidsOK, Earlier
<1>4. ASSUME NEW k \in Controller, sync[k].pc # "idle"
      PROVE  /\ sync[k].claim.uid \in Nat /\ sync[k].claim.uid <= writes
             /\ Exists(claim) => sync[k].claim.uid <= claim.uid
  BY <1>4, SyncIsTyped DEF DistccClientClaim, PlansOK, PlanOK, UidsOK, Earlier
<1>5. ASSUME NEW k \in Controller, Exists(seen'[k].claim), Exists(claim')
      PROVE  seen'[k].claim.uid <= claim'.uid
  <2>1. CASE seen'[k].claim = seen[k].claim
    BY <1>2, <1>3, <1>5, <2>1 DEF Exists
  <2>2. CASE seen'[k].claim = claim /\ UNCHANGED claim
    BY <1>5, <2>2, ClaimType DEF IInv, TypeOK, Exists, DistccClientClaim
  <2> QED
    BY <1>5, <2>1, <2>2, CopiesComeFromBefore DEF FromBefore
<1>6. ASSUME NEW k \in Controller, sync'[k].pc # "idle", Exists(claim')
      PROVE  sync'[k].claim.uid <= claim'.uid
  <2>1. CASE sync[k].pc # "idle" /\ sync'[k].claim.uid = sync[k].claim.uid
    BY <1>2, <1>4, <1>6, <2>1
  <2>2. CASE Exists(seen[k].claim) /\ sync'[k].claim.uid = seen[k].claim.uid
    BY <1>2, <1>3, <1>6, <2>2
  <2> QED
    BY <1>6, <2>1, <2>2, CopiesComeFromBefore DEF FromBefore
<1> QED
  BY <1>5, <1>6 DEF UidsOK, Earlier, Exists

LEMMA UidsInit == Init => UidsOK
<1> SUFFICES ASSUME Init PROVE UidsOK
  OBVIOUS
<1>1. Exists(claim) => claim.uid \in Nat
  BY InitInv, ClaimType DEF IInv, TypeOK, DistccClientClaim
<1>2. ASSUME NEW k \in Controller PROVE sync[k].pc = "idle" /\ seen[k].claim = claim
  BY <1>2, IdleIs DEF Init, ControllerInit
<1> QED
  BY <1>1, <1>2 DEF UidsOK, Earlier

(***************************************************************************)
(* The state of the contract, as the leasing keeps it.                     *)
(***************************************************************************)
LeaseNow  == IF Exists(claim) THEN claim.exp ELSE Absent
UidNow    == IF Exists(claim) THEN claim.uid ELSE 0
PodNow    == IF Exists(claim) THEN claim.ref ELSE [kind \in Kind |-> NoRef]
Made      == [kind \in Kind |-> [n \in DOMAIN objects[kind] |-> objects[kind][n].owner]]
LeaseOf(c) == [uid |-> c.uid, end |-> c.exp]
Known     == {LeaseOf(c) : c \in {d \in Copies : Leased(d)}}
Releasing == \E r \in Request : Running(r) /\ req[r].op = "delete"

LEMMA KnownHas ==
  /\ Leased(claim) => LeaseOf(claim) \in Known
  /\ \A k \in Controller : Leased(seen[k].claim) => LeaseOf(seen[k].claim) \in Known
  /\ \A k \in Controller :
       sync[k].pc = "delete" /\ Leased(sync[k].claim) => LeaseOf(sync[k].claim) \in Known
BY DEF Known, Copies

\* A lease is learnt of from the claim alone.
LEMMA KnownFrom ==
  ASSUME NEW E, Known \subseteq E, Leased(claim') => LeaseOf(claim') \in E,
         \A k \in Controller : seen'[k].claim = seen[k].claim \/ seen'[k].claim = claim,
         \A k \in Controller :
           sync'[k].pc = "delete" => sync'[k] = sync[k] \/ LeaseOf(sync'[k].claim) \in E
  PROVE  Known' \in SUBSET E
<1>1. ASSUME NEW c \in Copies', Leased(c) PROVE LeaseOf(c) \in E
  <2>1. CASE c = claim'
    BY <1>1, <2>1
  <2>2. ASSUME NEW k \in Controller, c = seen'[k].claim PROVE LeaseOf(c) \in E
    <3>1. c = seen[k].claim \/ c = claim
      BY <2>2
    <3> QED
      BY <1>1, <3>1, KnownHas
  <2>3. ASSUME NEW k \in Controller, sync'[k].pc = "delete", c = sync'[k].claim
        PROVE  LeaseOf(c) \in E
    <3>1. CASE sync'[k] = sync[k]
      <4>1. sync[k].pc = "delete" /\ c = sync[k].claim
        BY <2>3, <3>1
      <4> QED
        BY <1>1, <4>1, KnownHas
    <3>2. CASE LeaseOf(sync'[k].claim) \in E
      BY <2>3, <3>2
    <3> QED
      BY <2>3, <3>1, <3>2
  <2> QED
    BY <1>1, <2>1, <2>2, <2>3 DEF Copies
<1>2. Known' = {LeaseOf(c) : c \in {d \in Copies' : Leased(d)}}
  BY DEF Known, LeaseOf, Leased, Exists
<1> QED
  BY <1>1, <1>2

\* A step of one process that leaves it without a delete to send.
LEMMA OthersKeepDeleting ==
  ASSUME IInv, NEW k \in Controller, NEW s, s.pc # "delete", sync' = [sync EXCEPT ![k] = s]
  PROVE  \A j \in Controller : sync'[j].pc = "delete" => sync'[j] = sync[j]
<1>1. sync \in [Controller -> SyncState]
  BY DEF IInv, TypeOK, ControllerTypeOK
<1>2. sync'[k] = s /\ \A j \in Controller : j # k => sync'[j] = sync[j]
  BY <1>1
<1> QED
  BY <1>2

(***************************************************************************)
(* The objects that are made.                                              *)
(***************************************************************************)
LEMMA MadeIs ==
  ASSUME StoreTypeOK, NEW kind \in Kind
  PROVE  /\ Made[kind] \in Seq(Nat) /\ Len(Made[kind]) = Len(objects[kind])
         /\ Made[kind] = [n \in DOMAIN objects[kind] |-> objects[kind][n].owner]
<1>1. Made[kind] = [n \in DOMAIN objects[kind] |-> objects[kind][n].owner]
  BY DEF Made
<1>2. /\ Len(objects[kind]) \in Nat /\ DOMAIN objects[kind] = 1 .. Len(objects[kind])
      /\ \A n \in DOMAIN objects[kind] : objects[kind][n] \in Object
  BY ObjectsType
<1>3. Made[kind] \in [1 .. Len(objects[kind]) -> Nat]
  BY <1>1, <1>2 DEF Object
<1>4. Made[kind] \in Seq(Nat)
  BY <1>2, <1>3, SeqDef
<1>5. DOMAIN Made[kind] = 1 .. Len(objects[kind])
  BY <1>3
<1>6. Len(Made[kind]) = Len(objects[kind])
  BY <1>2, <1>4, <1>5, LenProperties
<1> QED
  BY <1>1, <1>4, <1>6

LEMMA MadeAppends ==
  ASSUME StoreTypeOK, NEW kind \in Kind, NEW owner \in Nat,
         NEW labels \in SUBSET (Label \cup {UserLabel}), PostObject(kind, owner, labels),
         changes' \in 0 .. MaxChanges
  PROVE  Made' = [Made EXCEPT ![kind] = Append(@, owner)]
<1>1. /\ StoreTypeOK'
      /\ Len(objects[kind]) + 1 \in DOMAIN objects'[kind]
      /\ objects'[kind][Len(objects[kind]) + 1].owner = owner
      /\ DOMAIN objects'[kind] = 1 .. Len(objects[kind]) + 1
      /\ \A n \in 1 .. Len(objects[kind]) : objects'[kind][n] = objects[kind][n]
      /\ \A other \in Kind : other # kind => objects'[other] = objects[other]
  BY PostGrows DEF StoreMoves
<1>2. PICK s : s = Made[kind]
  OBVIOUS
<1>3. PICK l : l = Len(objects[kind])
  OBVIOUS
<1>4. s \in Seq(Nat) /\ Len(s) = l /\ s = [n \in DOMAIN objects[kind] |-> objects[kind][n].owner]
  BY <1>2, <1>3, MadeIs
<1>5. l \in Nat /\ DOMAIN objects[kind] = 1 .. l
  BY <1>3, ObjectsType
<1>6. PICK t : t = [n \in DOMAIN objects'[kind] |-> objects'[kind][n].owner]
  OBVIOUS
<1>7. \A n \in 1 .. l + 1 : t[n] = objects'[kind][n].owner
  BY <1>1, <1>3, <1>6
<1>8. \A n \in 1 .. l : t[n] = s[n]
  <2> SUFFICES ASSUME NEW n \in 1 .. l PROVE t[n] = s[n]
    OBVIOUS
  <2>1. s[n] = objects[kind][n].owner
    BY <1>4, <1>5
  <2>2. n \in 1 .. l + 1
    BY <1>5
  <2>3. t[n] = objects'[kind][n].owner
    BY <1>7, <2>2
  <2>4. objects'[kind][n] = objects[kind][n]
    BY <1>1, <1>3
  <2> QED
    BY <2>1, <2>3, <2>4
<1>9. t[l + 1] = owner
  BY <1>1, <1>3, <1>5, <1>7
<1>10. \A n \in 1 .. l + 1 : t[n] \in Nat
  <2> SUFFICES ASSUME NEW n \in 1 .. l + 1 PROVE t[n] \in Nat
    OBVIOUS
  <2>1. CASE n \in 1 .. l
    BY <1>4, <1>8, <2>1, ElementOfSeq
  <2>2. CASE n = l + 1
    BY <1>9, <2>2
  <2> QED
    BY <1>5, <2>1, <2>2
<1>11. DOMAIN t = 1 .. l + 1
  BY <1>1, <1>3, <1>6
<1>12. t \in [1 .. l + 1 -> Nat]
  BY <1>1, <1>3, <1>6, <1>10
<1>13. t \in Seq(Nat)
  BY <1>5, <1>12, SeqDef
<1>14. Len(t) = l + 1
  BY <1>5, <1>11, <1>13, LenProperties
<1>15. /\ Append(s, owner) \in Seq(Nat) /\ Len(Append(s, owner)) = l + 1
       /\ \A n \in 1 .. l : Append(s, owner)[n] = s[n]
       /\ Append(s, owner)[l + 1] = owner
  BY <1>4, AppendProperties
<1>16. \A n \in 1 .. l + 1 : t[n] = Append(s, owner)[n]
  BY <1>5, <1>8, <1>9, <1>15
<1>17. t = Append(s, owner)
  BY <1>13, <1>14, <1>15, <1>16, SeqEqual
<1>18. \A other \in Kind : Made'[other] = [Made EXCEPT ![kind] = Append(@, owner)][other]
  <2> SUFFICES ASSUME NEW other \in Kind
               PROVE  Made'[other] = [Made EXCEPT ![kind] = Append(@, owner)][other]
    OBVIOUS
  <2>1. Made'[other] = [n \in DOMAIN objects'[other] |-> objects'[other][n].owner]
    BY DEF Made
  <2>2. CASE other = kind
    BY <1>2, <1>6, <1>17, <2>1, <2>2 DEF Made
  <2>3. CASE other # kind
    BY <1>1, <2>1, <2>3 DEF Made
  <2> QED
    BY <2>2, <2>3
<1> QED
  BY <1>18 DEF Made

LEMMA KillMakesNothing ==
  ASSUME StoreTypeOK, NEW kind \in Kind, NEW n \in DOMAIN objects[kind], Kill(kind, n),
         changes' \in 0 .. MaxChanges
  PROVE  Made' = Made
<1>1. /\ \A other \in Kind : DOMAIN objects'[other] = DOMAIN objects[other]
      /\ ObjectsGrow
  BY KillKeeps DEF StoreMoves
<1>2. \A other \in Kind : Made'[other] = Made[other]
  BY <1>1 DEF Made, ObjectsGrow
<1> QED
  BY <1>2 DEF Made

(***************************************************************************)
(* The steps of the contract, in the terms of the leasing.                 *)
(***************************************************************************)
LEMMA ForgetRefines ==
  ASSUME UNCHANGED <<now, claim, writes>>, Made' = Made, Known' \in SUBSET Known,
         Releasing' = Releasing
  PROVE  Contract!Next
BY DEF Contract!Next, Contract!Forget, Contract!claimVars, Made, Known, LeaseOf, Releasing

LEMMA PassRefines ==
  ASSUME now' = now + 1, UNCHANGED <<claim, writes>>, Made' = Made, Known' = Known,
         Releasing' = Releasing
  PROVE  Contract!Next
BY DEF Contract!Next, Contract!Pass, Contract!claimVars, Made, Known, LeaseOf, Releasing

LEMMA ReleaseRefines ==
  ASSUME UNCHANGED <<now, claim, writes>>, Made' = Made, Known' = Known
  PROVE  Contract!Next
BY DEF Contract!Next, Contract!Release, Contract!claimVars, Made, Known, LeaseOf, Releasing

LEMMA MakeRefines ==
  ASSUME NEW kind \in Kind, NEW owner \in 0 .. writes,
         UNCHANGED <<now, claim, writes>>, Made' = [Made EXCEPT ![kind] = Append(@, owner)],
         Known' = Known, Releasing' = Releasing
  PROVE  Contract!Next
<1>1. Contract!Make(kind, owner)
  BY DEF Contract!Make, Contract!claimVars, Made, Known, LeaseOf, Releasing
<1> QED
  BY <1>1 DEF Contract!Next

LEMMA AskRefines ==
  ASSUME LeaseNow = Absent, LeaseNow' = Unset, UidNow' = writes + 1,
         PodNow' = [kind \in Kind |-> NoRef], Known' \in SUBSET Known,
         writes' = writes + 1, UNCHANGED now, Made' = Made, Releasing' = Releasing
  PROVE  Contract!Next
BY DEF Contract!Next, Contract!Ask, Contract!Written, Contract!None, LeaseNow, UidNow, PodNow,
       Made, Known, LeaseOf, Releasing, NoRef

LEMMA RenewRefines ==
  ASSUME LeaseNow # Absent, LeaseNow' = Unset, UidNow' = UidNow, PodNow' = PodNow,
         Known' \in SUBSET Known,
         writes' = writes + 1, UNCHANGED now, Made' = Made, Releasing' = Releasing
  PROVE  Contract!Next
BY DEF Contract!Next, Contract!Renew, Contract!Written, LeaseNow, UidNow, PodNow,
       Made, Known, LeaseOf, Releasing

Issued(e) ==
  /\ LeaseNow' = e
  /\ \A kind \in Kind : PodNow'[kind] \in DOMAIN Made[kind] /\ Made[kind][PodNow'[kind]] = UidNow
  /\ Known' \in SUBSET (Known \cup {[uid |-> UidNow, end |-> e]})
  /\ writes' = writes + 1
  /\ UNCHANGED now
  /\ UidNow' = UidNow /\ Made' = Made /\ Releasing' = Releasing

LEMMA GrantRefines ==
  ASSUME NEW e, Issued(e), LeaseNow = Unset, \E d \in LeaseDuration : e \in 0 .. now + d
  PROVE  Contract!Next
<1>1. Contract!Issue(e)
  BY DEF Issued, Contract!Issue, Contract!Written, LeaseNow, UidNow, PodNow,
         Made, Known, LeaseOf, Releasing
<1> QED
  BY <1>1 DEF Contract!Next, Contract!Grant, LeaseNow

LEMMA ShortenRefines ==
  ASSUME NEW e, Issued(e), LeaseNow \notin {Absent, Unset}, e \in 0 .. LeaseNow
  PROVE  Contract!Next
<1>1. Contract!Issue(e)
  BY DEF Issued, Contract!Issue, Contract!Written, LeaseNow, UidNow, PodNow,
         Made, Known, LeaseOf, Releasing
<1> QED
  BY <1>1 DEF Contract!Next, Contract!Shorten, LeaseNow

LEMMA RemoveRefines ==
  ASSUME LeaseNow # Absent,
         Releasing \/ \E l \in Known : (l.uid = UidNow \/ l.uid < UidNow) /\ now > l.end,
         LeaseNow' = Absent, UidNow' = 0, PodNow' = [kind \in Kind |-> NoRef],
         Known' \in SUBSET Known, Releasing' = Releasing \/ Releasing' = FALSE,
         writes' = writes + 1, UNCHANGED now, Made' = Made
  PROVE  Contract!Next
BY DEF Contract!Next, Contract!Remove, Contract!Lapsed, Contract!Mistaken, Contract!Written,
       Contract!None, LeaseNow, UidNow, PodNow, Made, Known, LeaseOf, Releasing, NoRef

(***************************************************************************)
(* Every step of the leasing is one of the contract.                       *)
(***************************************************************************)
LEMMA OwnersRest ==
  ASSUME UNCHANGED objects
  PROVE  Made' = Made
BY DEF Made

LEMMA ReleasingRests ==
  ASSUME UNCHANGED req
  PROVE  Releasing' = Releasing
BY DEF Releasing, Running

\* A request for a lease is not a release, however it goes on.
LEMMA LeaseReleasesNothing ==
  ASSUME IInv, NEW r \in Request, NEW q, Go(r, q), q.op = "lease", req[r].op = "lease"
  PROVE  Releasing' = Releasing
<1>1. req \in [Request -> RequestState]
  BY DEF IInv, TypeOK, ServiceTypeOK
<1>2. req'[r] = q /\ \A j \in Request : j # r => req'[j] = req[j]
  BY <1>1 DEF Go
<1>3. \A j \in Request : (Running(j) /\ req[j].op = "delete")' <=> (Running(j) /\ req[j].op = "delete")
  BY <1>2 DEF Running
<1> QED
  BY <1>3 DEF Releasing

\* The controller leaves what it knows alone, or learns from the claim.
LEMMA KnownRests ==
  ASSUME UNCHANGED <<claim, seen, sync>>
  PROVE  Known' = Known
BY DEF Known, Copies, Leased, Exists

LEMMA EnvironmentRefines ==
  ASSUME IInv, StoreNext, UNCHANGED <<controllerVars, req>>
  PROVE  Contract!Next
<1>1. StoreTypeOK /\ changes \in 0 .. MaxChanges /\ MaxChanges \in Nat
  BY BoundAssumption DEF IInv, TypeOK, StoreTypeOK
<1>2. ASSUME Changed PROVE changes' \in 0 .. MaxChanges
  BY <1>1, <1>2 DEF Changed
<1>3. Releasing' = Releasing
  BY ReleasingRests
<1>4. ASSUME UNCHANGED claim PROVE Known' = Known
  BY <1>4, KnownRests DEF controllerVars
<1>5. CASE Tick
  BY <1>3, <1>4, <1>5, OwnersRest, PassRefines DEF Tick
<1>6. CASE EditClient
  BY <1>3, <1>4, <1>6, OwnersRest, ForgetRefines DEF EditClient
<1>7. CASE CreateForeign
  <2>1. PICK kind \in Kind, labels \in SUBSET (Label \cup {UserLabel}) :
          PostObject(kind, Nobody, labels)
    BY <1>7 DEF CreateForeign
  <2>2. PICK owner : owner = Nobody
    OBVIOUS
  <2>3. owner \in Nat /\ owner \in 0 .. writes
    BY <1>1, <2>2 DEF Nobody, StoreTypeOK
  <2>4. PostObject(kind, owner, labels)
    BY <2>1, <2>2
  <2>5. UNCHANGED <<now, claim, writes>>
    BY <2>4 DEF PostObject
  <2>6. Made' = [Made EXCEPT ![kind] = Append(@, owner)]
    BY <1>1, <1>2, <1>7, <2>3, <2>4, MadeAppends DEF CreateForeign
  <2> QED
    BY <1>3, <1>4, <2>3, <2>5, <2>6, MakeRefines
<1>8. ASSUME NEW kind \in Kind, NEW n \in Live(kind), Kill(kind, n), changes' \in 0 .. MaxChanges
      PROVE  Contract!Next
  <2>1. Made' = Made
    BY <1>1, <1>8, KillMakesNothing DEF Live
  <2>2. UNCHANGED <<now, claim, writes>>
    BY <1>8 DEF Kill
  <2> QED
    BY <1>3, <1>4, <2>1, <2>2, ForgetRefines
<1>9. CASE KillObject
  BY <1>2, <1>8, <1>9 DEF KillObject
<1>10. ASSUME NEW kind \in Kind, NEW n \in Live(kind), CollectGarbage(kind, n)
       PROVE  Contract!Next
  <2>1. changes' \in 0 .. MaxChanges
    BY <1>1, <1>10 DEF CollectGarbage
  <2> QED
    BY <1>8, <1>10, <2>1 DEF CollectGarbage
<1> QED
  BY <1>5, <1>6, <1>7, <1>9, <1>10 DEF StoreNext

(***************************************************************************)
(* The service.                                                            *)
(***************************************************************************)
LEMMA LeaseOpIs ==
  ASSUME IInv, NEW r \in Request, req[r].pc \in {"create", "update"}
  PROVE  req[r].op = "lease" /\ req[r] \in RequestState
BY RequestIsTyped DEF RequestOK, ReleaseOK, RequestState

\* A request for a lease that waits or gives up stays one.
LEMMA LeaseStaysLease ==
  ASSUME IInv, NEW r \in Request, req[r].op = "lease", req[r] \in RequestState,
         WaitForStatus(r, req[r]) \/ EndAttempt(r, Retry(req[r]))
  PROVE  Releasing' = Releasing
<1>1. Failed.op = "lease"
  BY DEF Failed, Done, NewRequest
<1>2. Retry(req[r]).op = "lease"
  BY <1>1 DEF Retry, RequestState
<1>3. PICK q : Go(r, q) /\ q.op = "lease"
  BY <1>1, <1>2 DEF WaitForStatus, EndAttempt, RequestState
<1> QED
  BY <1>3, LeaseReleasesNothing

LEMMA CreateClaimRefines ==
  ASSUME IInv, NEW r \in Request, CreateClaim(r), UNCHANGED controllerVars
  PROVE  Contract!Next
<1>1. ~ Exists(claim) /\ Write(NewDistccClientClaim(writes + 1)) /\ writes \in Nat
  BY DEF CreateClaim, Post, IInv, TypeOK, StoreTypeOK
<1>2. NewDistccClientClaim(writes + 1) \in DistccClientClaim
  BY <1>1 DEF NewDistccClientClaim, DistccClientClaim, NoRef
<1>3. /\ claim' = NewDistccClientClaim(writes + 1) /\ claim' # Absent
      /\ claim'.exp = Unset /\ claim'.uid = writes + 1
      /\ claim'.ref = [kind \in Kind |-> NoRef]
  BY <1>1, <1>2, AbsentAssumption DEF Write, NewDistccClientClaim
<1>4. /\ writes' = writes + 1 /\ UNCHANGED <<now, objects>>
  BY <1>1 DEF Write
<1>5. Releasing' = Releasing
  BY LeaseOpIs, LeaseStaysLease DEF CreateClaim
<1>6. Known' \in SUBSET Known
  BY <1>3, KnownFrom DEF controllerVars, Leased
<1>7. /\ LeaseNow = Absent /\ LeaseNow' = Unset /\ UidNow' = writes + 1
      /\ PodNow' = [kind \in Kind |-> NoRef]
  BY <1>1, <1>3 DEF LeaseNow, UidNow, PodNow, Exists
<1> QED
  BY <1>4, <1>5, <1>6, <1>7, OwnersRest, AskRefines

LEMMA UpdateClaimRefines ==
  ASSUME IInv, NEW r \in Request, UpdateClaim(r), UNCHANGED controllerVars
  PROVE  Contract!Next
<1>1. PICK q \in RequestState : q = req[r] /\ q.pc = "update" /\ q.op = "lease"
  BY LeaseOpIs DEF UpdateClaim
<1>2. q.got = claim /\ claim \in DistccClientClaim
  <2>1. Exists(q.got) /\ CopyOK(q.got)
    BY <1>1, RequestIsTyped DEF RequestOK, LeaseOK
  <2>2. Exists(claim) /\ q.got.ver = claim.ver
    BY <1>1, <2>1 DEF UpdateClaim, Put, RequestState, Exists, DistccClientClaim
  <2> QED
    BY <2>1, <2>2, ClaimType DEF CopyOK, IInv, TypeOK
<1>3. Write([[q.got EXCEPT !.exp = Unset] EXCEPT !.ver = writes + 1])
  BY <1>1 DEF UpdateClaim, Put
<1>4. claim' = [claim EXCEPT !.exp = Unset, !.ver = writes + 1]
  BY <1>2, <1>3 DEF Write
<1>5. writes' = writes + 1 /\ UNCHANGED <<now, objects>> /\ writes \in Nat
  BY <1>3 DEF Write, IInv, TypeOK, StoreTypeOK
<1>6. claim' \in DistccClientClaim
  <2>1. PICK c \in DistccClientClaim, n \in Nat \ {0} : c = claim /\ n = writes + 1
    BY <1>2, <1>5
  <2>2. claim' = [[c EXCEPT !.exp = Unset] EXCEPT !.ver = n]
    BY <1>2, <1>3, <2>1 DEF Write
  <2>3. [c EXCEPT !.exp = Unset] \in DistccClientClaim
    BY DEF DistccClientClaim
  <2> QED
    BY <2>2, <2>3 DEF DistccClientClaim
<1>7. claim # Absent /\ claim' # Absent
  BY <1>2, <1>6, AbsentAssumption
<1>8. claim'.exp = Unset /\ claim'.uid = claim.uid /\ claim'.ref = claim.ref
  BY <1>2, <1>4 DEF DistccClientClaim
<1>9. Releasing' = Releasing
  BY <1>1, LeaseStaysLease DEF UpdateClaim
<1>10. Known' \in SUBSET Known
  BY <1>8, KnownFrom DEF controllerVars, Leased
<1>11. claim.exp # Absent
  BY <1>2, ContractAssumption DEF DistccClientClaim
<1>12. LeaseNow # Absent /\ LeaseNow' = Unset /\ UidNow' = UidNow /\ PodNow' = PodNow
  BY <1>7, <1>8, <1>11 DEF LeaseNow, UidNow, PodNow, Exists
<1> QED
  BY <1>5, <1>9, <1>10, <1>12, OwnersRest, RenewRefines

\* A claim that is removed, by its user or by the controller.
LEMMA RemovedNow ==
  ASSUME IInv, Remove
  PROVE  /\ LeaseNow # Absent /\ LeaseNow' = Absent /\ UidNow' = 0
         /\ PodNow' = [kind \in Kind |-> NoRef]
         /\ writes' = writes + 1 /\ UNCHANGED now /\ Made' = Made
         /\ ~ Leased(claim')
<1>1. Exists(claim) /\ Write(Absent)
  BY DEF Remove
<1>2. claim.exp # Absent
  BY <1>1, ClaimType, ContractAssumption DEF DistccClientClaim, IInv, TypeOK
<1> QED
  BY <1>1, <1>2, OwnersRest DEF Write, Exists, Leased, LeaseNow, UidNow, PodNow

LEMMA DeleteClaimRefines ==
  ASSUME IInv, NEW r \in Request, DeleteClaim(r), UNCHANGED controllerVars
  PROVE  Contract!Next
<1>1. /\ LeaseNow # Absent /\ LeaseNow' = Absent /\ UidNow' = 0
      /\ PodNow' = [kind \in Kind |-> NoRef]
      /\ writes' = writes + 1 /\ UNCHANGED now /\ Made' = Made
      /\ ~ Leased(claim')
  BY RemovedNow DEF DeleteClaim
<1>2. req[r].pc = "delete" /\ req[r].op = "delete"
  BY RequestIsTyped DEF DeleteClaim, RequestOK, LeaseOK, RequestState
<1>3. Releasing
  BY <1>2 DEF Releasing, Running
<1>4. Releasing' = Releasing \/ Releasing' = FALSE
  BY <1>3 DEF Releasing
<1>5. Known' \in SUBSET Known
  BY <1>1, KnownFrom DEF controllerVars
<1> QED
  BY <1>1, <1>3, <1>4, <1>5, RemoveRefines

LEMMA ServiceRefines ==
  ASSUME IInv, NEW r \in Request, ServiceStep(r), UNCHANGED controllerVars
  PROVE  Contract!Next
<1>1. CASE CreateClaim(r) \/ UpdateClaim(r) \/ DeleteClaim(r)
  BY <1>1, CreateClaimRefines, UpdateClaimRefines, DeleteClaimRefines
<1>2. CASE UNCHANGED storeVars
  <2>1. UNCHANGED <<now, claim, writes, objects, seen, sync>>
    BY <1>2 DEF storeVars, controllerVars
  <2> QED
    BY <2>1, OwnersRest, KnownRests, ReleaseRefines
<1> QED
  BY <1>1, <1>2
  DEF ServiceStep, RequestStep, LeaseClient, DeleteClient, Arrive, ServiceCrash, GetClient,
      GetClaim, GetSecret, GetService, DeleteFindsNothing, AttemptFails, Reply

(***************************************************************************)
(* The controller.                                                         *)
(***************************************************************************)
LEMMA SyncUpdateRefines ==
  ASSUME IInv, PlansOK, NEW k \in Controller, SyncUpdate(k), UNCHANGED req
  PROVE  Contract!Next
<1>1. /\ SyncOK(sync[k]) /\ sync[k].claim \in DistccClientClaim /\ PlanOK(sync[k])
      /\ sync[k].pc = "update"
  BY SyncIsTyped DEF SyncUpdate, PlansOK
<1>2. PICK c \in DistccClientClaim : c = sync[k].claim
  BY <1>1
<1>3. DraftOK(c) /\ InTime(c) /\ \A kind \in Kind : c.ref[kind] # NoRef
  BY <1>1, <1>2 DEF SyncOK, PlanOK, Kind
<1>4. Exists(claim) /\ c.ver = claim.ver /\ Write([c EXCEPT !.ver = writes + 1])
  BY <1>2 DEF SyncUpdate, Put
<1>5. writes \in Nat /\ now \in Time /\ claim \in DistccClientClaim
  BY <1>4, ClaimType DEF IInv, TypeOK, StoreTypeOK
<1>6. c.uid = claim.uid /\ c.exp \in Time /\ (claim.exp = Unset \/ c.exp <= claim.exp)
  BY <1>3, <1>4 DEF DraftOK, DistccClientClaim
<1>7. claim' = [c EXCEPT !.ver = writes + 1] /\ writes' = writes + 1 /\ UNCHANGED <<now, objects>>
  BY <1>4 DEF Write
<1>8. claim' \in DistccClientClaim /\ claim'.exp = c.exp /\ claim'.uid = c.uid /\ claim'.ref = c.ref
  BY <1>5, <1>7 DEF DistccClientClaim
<1>9. claim # Absent /\ claim' # Absent
  BY <1>5, <1>8, AbsentAssumption
<1>10. LeaseNow = claim.exp /\ LeaseNow' = c.exp /\ UidNow = c.uid /\ UidNow' = c.uid /\ PodNow' = c.ref
  BY <1>6, <1>8, <1>9 DEF LeaseNow, UidNow, PodNow, Exists
<1>11. ASSUME NEW kind \in Kind
       PROVE  PodNow'[kind] \in DOMAIN Made[kind] /\ Made[kind][PodNow'[kind]] = UidNow
  <2>1. c.ref[kind] \in DOMAIN objects[kind] /\ objects[kind][c.ref[kind]].owner = c.uid
    BY <1>3 DEF DraftOK, Controlled, IsControlledBy
  <2> QED
    BY <1>10, <2>1 DEF Made
<1>12. Known' \in SUBSET (Known \cup {[uid |-> UidNow, end |-> c.exp]})
  <2>1. sync' = [sync EXCEPT ![k] = Idle] /\ UNCHANGED seen
    BY DEF SyncUpdate, Continue
  <2>2. \A j \in Controller : sync'[j].pc = "delete" => sync'[j] = sync[j]
    BY <2>1, IdleIs, OthersKeepDeleting
  <2> QED
    BY <1>8, <1>10, <2>1, <2>2, KnownFrom DEF LeaseOf
<1>13. Issued(c.exp)
  BY <1>7, <1>10, <1>11, <1>12, OwnersRest, ReleasingRests DEF Issued
<1>14. PICK e : e = c.exp
  OBVIOUS
<1>15. CASE claim.exp = Unset
  <2>1. \E d \in LeaseDuration : e \in 0 .. now + d
    BY <1>3, <1>5, <1>6, <1>14, LeaseAssumption DEF InTime, Time
  <2> QED
    BY <1>10, <1>13, <1>14, <1>15, <2>1, GrantRefines
<1>16. CASE claim.exp # Unset
  <2>1. claim.exp \in Time /\ claim.exp # Absent
    BY <1>5, <1>16, ContractAssumption DEF DistccClientClaim
  <2>2. e \in 0 .. LeaseNow
    BY <1>6, <1>10, <1>14, <1>16, <2>1 DEF Time
  <2> QED
    BY <1>10, <1>13, <1>14, <1>16, <2>1, <2>2, ShortenRefines
<1> QED
  BY <1>15, <1>16

\* The lease for which the controller removes the claim is one that it had,
\* or that an earlier claim had.
LEMMA SyncDeleteRefines ==
  ASSUME IInv, PlansOK, UidsOK, NEW k \in Controller, SyncDelete(k), UNCHANGED req
  PROVE  Contract!Next
<1>1. /\ LeaseNow # Absent /\ LeaseNow' = Absent /\ UidNow' = 0
      /\ PodNow' = [kind \in Kind |-> NoRef]
      /\ writes' = writes + 1 /\ UNCHANGED now /\ Made' = Made
      /\ ~ Leased(claim')
  BY RemovedNow DEF SyncDelete
<1>2. /\ SyncOK(sync[k]) /\ sync[k].claim \in DistccClientClaim /\ PlanOK(sync[k])
      /\ sync[k].pc = "delete"
  BY SyncIsTyped DEF SyncDelete, PlansOK
<1>3. Leased(sync[k].claim) /\ now > sync[k].claim.exp
  BY <1>2, AbsentAssumption DEF SyncOK, DraftOK, PlanOK, Leased, Exists
<1>4. \E l \in Known : (l.uid = UidNow \/ l.uid < UidNow) /\ now > l.end
  <2>1. LeaseOf(sync[k].claim) \in Known
    BY <1>2, <1>3, KnownHas
  <2>2. Exists(claim) /\ claim \in DistccClientClaim
    BY ClaimType DEF SyncDelete, Remove, IInv, TypeOK
  <2>3. sync[k].claim.uid <= claim.uid
    BY <1>2, <2>2 DEF UidsOK, Earlier
  <2>4. sync[k].claim.uid = UidNow \/ sync[k].claim.uid < UidNow
    BY <1>2, <2>2, <2>3 DEF UidNow, DistccClientClaim
  <2> QED
    BY <1>3, <2>1, <2>4 DEF LeaseOf
<1>5. Known' \in SUBSET Known
  <2>1. sync' = [sync EXCEPT ![k] = Idle] /\ UNCHANGED seen
    BY DEF SyncDelete, Continue
  <2>2. \A j \in Controller : sync'[j].pc = "delete" => sync'[j] = sync[j]
    BY <2>1, IdleIs, OthersKeepDeleting
  <2> QED
    BY <1>1, <2>1, <2>2, KnownFrom
<1> QED
  BY <1>1, <1>4, <1>5, ReleasingRests, RemoveRefines

\* Without a write, the controller only forgets.
LEMMA QuietRefines ==
  ASSUME UNCHANGED <<storeVars, req>>, Known' \in SUBSET Known
  PROVE  Contract!Next
BY OwnersRest, ReleasingRests, ForgetRefines DEF storeVars

LEMMA WatchRefines ==
  ASSUME IInv, NEW k \in Controller, Watch(k), UNCHANGED req
  PROVE  Contract!Next
<1>1. /\ \A j \in Controller : seen'[j].claim = seen[j].claim \/ seen'[j].claim = claim
      /\ UNCHANGED <<storeVars, sync>>
  BY WatchSees DEF Watch
<1>2. UNCHANGED claim
  BY <1>1 DEF storeVars
<1>3. Leased(claim') => LeaseOf(claim') \in Known
  BY <1>2, KnownHas DEF Leased, Exists
<1>4. Known' \in SUBSET Known
  BY <1>1, <1>3, KnownFrom
<1> QED
  BY <1>1, <1>4, QuietRefines

LEMMA SyncExpiredRefines ==
  ASSUME IInv, PlansOK, NEW k \in Controller, SyncExpired(k), UNCHANGED req
  PROVE  Contract!Next
<1>1. PICK q : q = Begin(k)
  OBVIOUS
<1>2. PICK s : s = [q EXCEPT !.pc = "delete"]
  OBVIOUS
<1>3. UNCHANGED <<storeVars, seen>> /\ sync' = [sync EXCEPT ![k] = s]
  BY <1>1, <1>2 DEF SyncExpired, Continue
<1>4. s.claim = q.claim
  BY <1>1, <1>2 DEF Begin
<1>5. LeaseOf(q.claim) \in Known
  <2>1. Leased(seen[k].claim) /\ seen[k].claim.exp = q.claim.exp
    BY <1>1, BeginPlans DEF SyncExpired
  <2>2. q.claim.uid = seen[k].claim.uid
    BY <1>1, BeginUid DEF SyncExpired
  <2> QED
    BY <2>1, <2>2, KnownHas DEF LeaseOf
<1>6. Leased(claim') => LeaseOf(claim') \in Known
  BY <1>3, KnownHas DEF Leased, Exists, storeVars
<1>7. \A j \in Controller :
        sync'[j].pc = "delete" => sync'[j] = sync[j] \/ LeaseOf(sync'[j].claim) \in Known
  <2>1. sync \in [Controller -> SyncState]
    BY DEF IInv, TypeOK, ControllerTypeOK
  <2>2. sync'[k] = s /\ \A j \in Controller : j # k => sync'[j] = sync[j]
    BY <1>3, <2>1
  <2> QED
    BY <1>4, <1>5, <2>2
<1>8. Known' \in SUBSET Known
  BY <1>3, <1>6, <1>7, KnownFrom
<1> QED
  BY <1>3, <1>8, QuietRefines

\* What goes on with a Sync, or ends it, decides on no delete.
LEMMA KnownKept ==
  ASSUME IInv, NEW k \in Controller, NEW s, s.pc # "delete", sync' = [sync EXCEPT ![k] = s],
         UNCHANGED <<seen, claim>>
  PROVE  Known' \in SUBSET Known
<1>1. \A j \in Controller : sync'[j].pc = "delete" => sync'[j] = sync[j]
  BY OthersKeepDeleting
<1>2. Leased(claim') => LeaseOf(claim') \in Known
  BY KnownHas DEF Leased, Exists
<1> QED
  BY <1>1, <1>2, KnownFrom

LEMMA SyncRefines ==
  ASSUME IInv, NEW k \in Controller, Sync(k) \/ SyncFails(k), UNCHANGED req
  PROVE  Contract!Next
<1>1. UNCHANGED <<storeVars, seen, claim>>
  BY DEF Sync, SyncFails, Continue, storeVars
<1>2. PICK s : sync' = [sync EXCEPT ![k] = s] /\ s.pc # "delete"
  <2>1. CASE Sync(k)
    BY <2>1, SyncGoesOn, IdleIs DEF SyncLeaves
  <2>2. CASE SyncFails(k)
    BY <2>2, IdleIs DEF SyncFails, Continue
  <2> QED
    BY <2>1, <2>2
<1> QED
  BY <1>1, <1>2, KnownKept, QuietRefines

LEMMA CreateRefines ==
  ASSUME IInv, PlansOK, NEW k \in Controller, NEW kind \in Kind, Create(k, kind), UNCHANGED req
  PROVE  Contract!Next
<1>1. PICK q \in SyncState : q = sync[k] /\ q.pc = kind
  BY SyncIsTyped DEF Create
<1>2. q.pc # "idle" /\ q.claim \in DistccClientClaim /\ q.client \in DistccClient
  BY <1>1, SyncIsTyped DEF Kind
<1>3. PICK owner, labels : owner = q.claim.uid /\ labels = GetLabelsForUser(q.client.labels)
  OBVIOUS
<1>4. owner \in Nat /\ labels \in SUBSET (Label \cup {UserLabel})
  BY <1>2, <1>3 DEF DistccClientClaim, DistccClient, GetLabelsForUser
<1>5. /\ StoreTypeOK /\ changes' \in 0 .. MaxChanges /\ UNCHANGED seen
      /\ PostObject(kind, owner, labels)
  BY <1>1, <1>3 DEF IInv, TypeOK, StoreTypeOK, Create, Continue
<1>6. owner \in 0 .. writes
  BY <1>1, <1>2, <1>3, <1>4, <1>5 DEF PlansOK, PlanOK, StoreTypeOK
<1>7. Made' = [Made EXCEPT ![kind] = Append(@, owner)]
  BY <1>4, <1>5, MadeAppends
<1>8. UNCHANGED <<now, claim, writes>>
  BY <1>5 DEF PostObject
<1>9. Known' = Known
  <2>1. PICK s : sync' = [sync EXCEPT ![k] = s] /\ s.pc # "delete"
    BY CreateGoesOn, IdleIs DEF SyncLeaves
  <2>2. sync \in [Controller -> SyncState]
    BY DEF IInv, TypeOK, ControllerTypeOK
  <2>3. sync'[k] = s /\ sync[k].pc # "delete" /\ \A j \in Controller : j # k => sync'[j] = sync[j]
    BY <1>1, <2>1, <2>2 DEF Kind
  <2>4. {j \in Controller : sync'[j].pc = "delete"} = {j \in Controller : sync[j].pc = "delete"}
    BY <2>1, <2>3
  <2>5. \A j \in {i \in Controller : sync[i].pc = "delete"} : sync'[j].claim = sync[j].claim
    BY <2>3
  <2>6. {sync'[j].claim : j \in {i \in Controller : sync'[i].pc = "delete"}}
          = {sync[j].claim : j \in {i \in Controller : sync[i].pc = "delete"}}
    BY <2>4, <2>5
  <2>7. Copies' = Copies
    BY <1>5, <1>8, <2>6 DEF Copies
  <2> QED
    BY <2>7 DEF Known, Leased, Exists
<1> QED
  BY <1>6, <1>7, <1>8, <1>9, ReleasingRests, MakeRefines

LEMMA ContractStep ==
  ASSUME IInv, PlansOK, UidsOK, [Next]_vars
  PROVE  Contract!Next
<1>1. ASSUME NEW k \in Controller, NEW kind \in Kind, Create(k, kind), UNCHANGED req
      PROVE  Contract!Next
  BY <1>1, CreateRefines
<1>2. CASE ControllerNext /\ UNCHANGED req
  BY <1>1, <1>2, WatchRefines, SyncExpiredRefines, SyncRefines, SyncDeleteRefines,
     SyncUpdateRefines
  DEF ControllerNext, Call
<1>3. CASE UNCHANGED vars
  <2>1. UNCHANGED <<storeVars, req, claim, seen, sync>>
    BY <1>3 DEF vars, controllerVars, storeVars
  <2> QED
    BY <2>1, KnownRests, QuietRefines
<1> QED
  BY <1>2, <1>3, EnvironmentRefines, ServiceRefines DEF Next

LEMMA ContractInit == Init => Contract!Init
<1> SUFFICES ASSUME Init PROVE Contract!Init
  OBVIOUS
<1>1. IInv
  BY InitInv
<1>2. StoreTypeOK /\ now = 0
  BY <1>1 DEF IInv, TypeOK, Init, StoreInit
<1>3. Releasing = FALSE
  BY DEF Init, ServiceInit, NewRequest, Releasing, Running
<1>4. \A k \in Controller : seen[k].claim = claim /\ sync[k].pc # "delete"
  BY IdleIs DEF Init, ControllerInit
<1>5. Copies = {claim}
  <2>1. {seen[k].claim : k \in Controller} \subseteq {claim}
    BY <1>4
  <2>2. {k \in Controller : sync[k].pc = "delete"} = {}
    BY <1>4
  <2>3. {sync[k].claim : k \in {k \in Controller : sync[k].pc = "delete"}} = {}
    BY <2>2
  <2> QED
    BY <2>1, <2>3 DEF Copies
<1>6. CASE NoClaim
  <2>1. claim = Absent /\ writes = 0 /\ \A kind \in Kind : objects[kind] = <<>>
    BY <1>6 DEF NoClaim
  <2>2. Known = {}
    BY <1>5, <2>1 DEF Known, Leased, Exists
  <2>3. \A kind \in Kind : Made[kind] = <<>>
    BY <1>2, <2>1, MadeIs, EmptySeq
  <2>4. Made = [kind \in Kind |-> <<>>]
    BY <2>3 DEF Made
  <2>5. Contract!NothingYet
    BY <2>1, <2>2, <2>4 DEF Contract!NothingYet, Contract!None, Made, Known, Exists, NoRef
  <2> QED
    BY <1>2, <1>3, <2>5 DEF Contract!Init, Releasing
<1>7. CASE GrantedClaim
  <2>1. PICK d \in LeaseDuration : d = client.lease
    BY <1>7 DEF GrantedClaim, DistccClient
  <2>2. PICK e \in 0 .. d : e = ToKubeTime(d)
    BY <2>1, LeaseAssumption, ToKubeTimeTruncates DEF Time
  <2>3. claim = [uid |-> 1, ver |-> 2, exp |-> e, ref |-> [kind \in Kind |-> 1]] /\ writes = 2
    BY <1>7, <2>1, <2>2 DEF GrantedClaim
  <2>4. e \in Time /\ e # Unset /\ claim.exp = e /\ claim.uid = 1 /\ claim.ref = [kind \in Kind |-> 1]
    BY <2>1, <2>2, <2>3, LeaseAssumption, UnsetAssumption DEF Time
  <2>5. claim # Absent
    <3>1. claim \in DistccClientClaim
      BY <2>3, <2>4 DEF DistccClientClaim
    <3> QED
      BY <3>1, AbsentAssumption
  <2>6. Known = {[uid |-> 1, end |-> e]}
    BY <1>5, <2>4, <2>5 DEF Known, LeaseOf, Leased, Exists
  <2>7. ASSUME NEW kind \in Kind PROVE Made[kind] = <<1>>
    <3>1. Len(objects[kind]) = 1 /\ DOMAIN objects[kind] = 1 .. 1 /\ objects[kind][1].owner = 1
      BY <1>2, <1>7, ObjectsType DEF GrantedClaim
    <3>2. Made[kind] \in Seq(Nat) /\ Len(Made[kind]) = 1 /\ Made[kind][1] = 1
      <4>1. /\ Made[kind] \in Seq(Nat) /\ Len(Made[kind]) = Len(objects[kind])
            /\ Made[kind] = [n \in DOMAIN objects[kind] |-> objects[kind][n].owner]
        BY <1>2, MadeIs
      <4>2. 1 \in DOMAIN objects[kind]
        BY <3>1
      <4>3. Made[kind][1] = objects[kind][1].owner
        BY <4>1, <4>2
      <4> QED
        BY <3>1, <4>1, <4>3
    <3>3. <<1>> \in Seq(Nat) /\ Len(<<1>>) = 1 /\ <<1>>[1] = 1
      OBVIOUS
    <3>4. \A n \in 1 .. 1 : Made[kind][n] = <<1>>[n]
      BY <3>2, <3>3
    <3> QED
      BY <3>2, <3>3, <3>4, SeqEqual
  <2>8. Made = [kind \in Kind |-> <<1>>]
    BY <2>7 DEF Made
  <2>9. Contract!Granted
    BY <2>1, <2>2, <2>3, <2>4, <2>5, <2>6, <2>8 DEF Contract!Granted, Made, Known, LeaseOf, Exists
  <2> QED
    BY <1>2, <1>3, <2>9 DEF Contract!Init, Releasing
<1> QED
  BY <1>6, <1>7 DEF Init, StoreInit

\* The service and the controllers together keep the contract, whatever the
\* caches hold and whichever calls are lost: one grant for each request, with
\* objects made for that very claim, and no removal but of a claim that is
\* released, or for which, or for an earlier one of its user, somebody knows
\* of a lease that has ended (renewDistccClientLease, DeleteClient, Sync).
THEOREM LeasingImplementsContract == Spec => ImplementsContract
<1>1. Init => Contract!Init
  BY ContractInit
<1>2. PlansOK /\ IInv /\ IInv' /\ [Next]_vars => PlansOK'
  BY PlansStep
<1>3. IInv /\ PlansOK /\ UidsOK /\ [Next]_vars => [Contract!Next]_(Contract!vars)
  BY ContractStep
<1>4. Spec => []PlansOK
  BY <1>2, PlansInit, Inv, PTL DEF Spec
<1>5. Spec => []UidsOK
  BY <1>4, UidsStep, UidsInit, Inv, PTL DEF Spec
<1> QED
  BY <1>1, <1>3, <1>4, <1>5, Inv, PTL DEF Spec, ImplementsContract, Contract!Spec

(***************************************************************************)
(* Requests do not go on for ever.                                         *)
(***************************************************************************)
\* How far a request is depends on where it is and on its attempt alone.
LEMMA FurtherSamePlace ==
  ASSUME NEW p, NEW w, NEW q, w.pc = p.pc, w.attempt = p.attempt, Further(w, q)
  PROVE  Further(p, q)
BY DEF Further, Phase, Stage

LEMMA DoneIsFurther ==
  ASSUME NEW p \in RequestState, p.pc # "done", NEW q, q.pc = "done"
  PROVE  Further(p, q)
BY DEF Further, Phase

LEMMA RetryIsFurther ==
  ASSUME NEW p \in RequestState, p.pc \notin {"new", "reply", "done"}
  PROVE  Further(p, Retry(p))
<1>1. CASE p.attempt < Steps
  <2>1. Retry(p).attempt = p.attempt + 1 /\ Retry(p).pc = FirstCall(p)
    BY <1>1 DEF Retry, RequestState
  <2>2. p.attempt < p.attempt + 1
    BY StepsAssumption DEF RequestState
  <2>3. CASE p.pc = "getClient"
    <3>1. Phase(p) = 1
      BY <2>3 DEF Phase
    <3>2. Retry(p).pc \in {"getClient", "delete", "getClaim"}
      BY <2>1 DEF FirstCall
    <3>3. Phase(Retry(p)) \in {1, 2}
      BY <3>2 DEF Phase
    <3> QED
      BY <2>1, <2>2, <3>1, <3>3 DEF Further
  <2>4. CASE p.pc # "getClient"
    <3>1. p.pc \in PC \ {"new", "reply", "done", "getClient"}
      BY <2>4 DEF RequestState
    <3>2. Retry(p).pc \in {"delete", "getClaim"}
      BY <2>1, <2>4 DEF FirstCall
    <3>3. Phase(p) = 2 /\ Phase(Retry(p)) = 2
      BY <3>1, <3>2 DEF Phase
    <3> QED
      BY <2>1, <2>2, <3>3 DEF Further
  <2> QED
    BY <2>3, <2>4
<1>2. CASE ~ (p.attempt < Steps)
  BY <1>2, FailedType, DoneIsFurther DEF Retry
<1> QED
  BY <1>1, <1>2

LEMMA GoIsFurther ==
  ASSUME ServiceTypeOK, NEW r \in Request, NEW q, Further(req[r], q), Go(r, q)
  PROVE  Further(req[r], req'[r])
BY DEF ServiceTypeOK, Go

LEMMA EndAttemptIsFurther ==
  ASSUME ServiceTypeOK, NEW r \in Request, Running(r), NEW q, Further(req[r], q),
         EndAttempt(r, q)
  PROVE  Further(req[r], req'[r])
<1>1. Further(req[r], Failed)
  BY FailedType, DoneIsFurther DEF ServiceTypeOK, Running
<1> QED
  BY <1>1, GoIsFurther DEF EndAttempt

LEMMA WaitIsFurther ==
  ASSUME ServiceTypeOK, NEW r \in Request, Running(r), NEW q \in RequestState,
         q.pc = req[r].pc, q.attempt = req[r].attempt, q.pc \in {"getClaim", "update"},
         WaitForStatus(r, q)
  PROVE  Further(req[r], req'[r])
<1>1. CASE Go(r, [q EXCEPT !.pc = "getService"])
  <2>1. PICK p : p = [q EXCEPT !.pc = "getService"]
    OBVIOUS
  <2>2. p.pc = "getService" /\ p.attempt = q.attempt
    BY <2>1 DEF RequestState
  <2>3. Further(q, p)
    BY <2>2 DEF Further, Phase, Stage
  <2> QED
    BY <1>1, <2>1, <2>3, FurtherSamePlace, GoIsFurther
<1>2. CASE EndAttempt(r, Retry(q))
  BY <1>2, RetryIsFurther, FurtherSamePlace, EndAttemptIsFurther
<1> QED
  BY <1>1, <1>2 DEF WaitForStatus

\* A request that goes on within its attempt.
LEMMA StageIsFurther ==
  ASSUME ServiceTypeOK, NEW r \in Request, NEW q, Go(r, q), q.attempt = req[r].attempt,
         <<req[r].pc, q.pc>> \in
           {<<"getClaim", "getSecret">>, <<"getClaim", "update">>, <<"getSecret", "create">>,
            <<"getService", "reply">>, <<"delete", "reply">>}
  PROVE  Further(req[r], req'[r])
<1>1. Further(req[r], q)
  BY DEF Further, Phase, Stage
<1> QED
  BY <1>1, GoIsFurther

LEMMA ServiceStepIsFurther ==
  ASSUME StoreTypeOK, ServiceTypeOK, NEW r \in Request, ServiceStep(r)
  PROVE  Further(req[r], req'[r])
<1>1. req \in [Request -> RequestState] /\ req[r] \in RequestState
  BY DEF ServiceTypeOK
<1>2. CASE LeaseClient(r) \/ DeleteClient(r)
  <2>1. req[r].pc = "new" /\ req'[r].pc \in {"getClient", "delete"}
    BY <1>1, <1>2 DEF LeaseClient, DeleteClient, Arrive, RequestState
  <2> QED
    BY <2>1 DEF Further, Phase
<1>3. CASE ServiceCrash(r)
  BY <1>1, <1>3, FailedType, DoneIsFurther, GoIsFurther DEF ServiceCrash, Running
<1>4. CASE GetClient(r)
  <2>1. PICK q : /\ EndAttempt(r, q)
                 /\ \/ q = [req[r] EXCEPT !.pc = "getClaim", !.attempt = 1]
                    \/ q = Failed
    BY <1>4 DEF GetClient
  <2>2. req[r].pc = "getClient" /\ Running(r) /\ q.pc \in {"getClaim", "done"}
    BY <1>1, <1>4, <2>1, FailedType DEF GetClient, Running, RequestState
  <2>3. Further(req[r], q)
    BY <2>2 DEF Further, Phase
  <2> QED
    BY <2>1, <2>2, <2>3, EndAttemptIsFurther
<1>5. CASE GetClaim(r)
  <2>1. PICK q : q = [req[r] EXCEPT !.got = claim]
    OBVIOUS
  <2>2. /\ q.pc = "getClaim" /\ q.attempt = req[r].attempt /\ req[r].pc = "getClaim"
        /\ Running(r)
    BY <1>1, <1>5, <2>1 DEF GetClaim, Running, RequestState
  <2>3. CASE \E pc \in {"getSecret", "update"} : Go(r, [q EXCEPT !.pc = pc])
    <3>1. PICK pc \in {"getSecret", "update"} : Go(r, [q EXCEPT !.pc = pc])
      BY <2>3
    <3>2. PICK p : p = [q EXCEPT !.pc = pc]
      OBVIOUS
    <3>3. p.pc = pc /\ p.attempt = req[r].attempt
      BY <1>1, <2>1, <3>2 DEF RequestState
    <3> QED
      BY <2>2, <3>1, <3>2, <3>3, StageIsFurther
  <2>4. CASE WaitForStatus(r, q)
    <3>1. claim \in DistccClientClaim \cup {Absent}
      BY DEF StoreTypeOK
    <3>2. q \in RequestState
      BY <1>1, <2>1, <3>1 DEF RequestState
    <3> QED
      BY <1>1, <2>2, <2>4, <3>2, WaitIsFurther
  <2> QED
    BY <1>5, <2>1, <2>3, <2>4 DEF GetClaim
<1>6. CASE GetSecret(r) \/ GetService(r)
  <2>1. PICK q : /\ Go(r, q) /\ q.attempt = req[r].attempt
                 /\ <<req[r].pc, q.pc>> \in {<<"getSecret", "create">>, <<"getService", "reply">>}
    <3>1. CASE GetSecret(r)
      BY <1>1, <3>1 DEF GetSecret, RequestState
    <3>2. CASE GetService(r)
      <4>1. PICK q : q = [req[r] EXCEPT !.pc = "reply", !.answer = req[r].got.ref["service"]]
        OBVIOUS
      <4>2. q.pc = "reply" /\ q.attempt = req[r].attempt
        BY <1>1, <4>1 DEF RequestState
      <4>3. req[r].pc = "getService" /\ Go(r, q)
        BY <3>2, <4>1 DEF GetService
      <4> QED
        BY <4>2, <4>3
    <3> QED
      BY <1>6, <3>1, <3>2
  <2> QED
    BY <2>1, StageIsFurther
<1>7. CASE CreateClaim(r) \/ AttemptFails(r)
  <2>1. req[r].pc \notin {"new", "reply", "done"} /\ Running(r) /\ EndAttempt(r, Retry(req[r]))
    BY <1>7 DEF CreateClaim, AttemptFails, Running
  <2> QED
    BY <1>1, <2>1, RetryIsFurther, EndAttemptIsFurther
<1>8. CASE UpdateClaim(r)
  <2>1. req[r].pc = "update" /\ Running(r)
    BY <1>8 DEF UpdateClaim, Running
  <2>2. CASE WaitForStatus(r, req[r])
    BY <1>1, <2>1, <2>2, WaitIsFurther
  <2>3. CASE EndAttempt(r, Retry(req[r]))
    BY <1>1, <2>1, <2>3, RetryIsFurther, EndAttemptIsFurther
  <2> QED
    BY <1>8, <2>2, <2>3 DEF UpdateClaim
<1>9. CASE DeleteClaim(r)
  <2>1. req[r].pc = "delete" /\ Running(r)
    BY <1>9 DEF DeleteClaim, Running
  <2>2. CASE Go(r, [req[r] EXCEPT !.pc = "reply"])
    <3>1. PICK p : p = [req[r] EXCEPT !.pc = "reply"]
      OBVIOUS
    <3>2. p.pc = "reply" /\ p.attempt = req[r].attempt
      BY <1>1, <3>1 DEF RequestState
    <3> QED
      BY <2>1, <2>2, <3>1, <3>2, StageIsFurther
  <2>3. CASE EndAttempt(r, Retry(req[r]))
    BY <1>1, <2>1, <2>3, RetryIsFurther, EndAttemptIsFurther
  <2> QED
    BY <1>9, <2>2, <2>3 DEF DeleteClaim
<1>10. CASE DeleteFindsNothing(r) \/ Reply(r)
  <2>1. PICK e \in {"nil", "ErrNotFound"} : EndAttempt(r, Done(req[r], e))
    BY <1>10 DEF DeleteFindsNothing, Reply
  <2>2. req[r].pc \in {"delete", "reply"} /\ Running(r)
    BY <1>10 DEF DeleteFindsNothing, Reply, Running
  <2>3. Further(req[r], Done(req[r], e))
    BY <1>1, <2>2, DoneType, DoneIsFurther
  <2> QED
    BY <2>1, <2>2, <2>3, EndAttemptIsFurther
<1> QED
  BY <1>2, <1>3, <1>4, <1>5, <1>6, <1>7, <1>8, <1>9, <1>10 DEF ServiceStep, RequestStep

\* Whatever the other requests, the controllers and the operators do, a
\* request only goes forward through its phases and its at most Steps
\* attempts of each, and so is answered after a bounded number of calls.
THEOREM RequestsOnlyAdvance == Spec => RequestsAdvance
<1>1. IInv /\ [Next]_vars
        => [\A r \in Request : ServiceStep(r) => Further(req[r], req'[r])]_vars
  BY ServiceStepIsFurther DEF IInv, TypeOK
<1> QED
  BY <1>1, Inv, PTL DEF Spec, RequestsAdvance
=============================================================================
