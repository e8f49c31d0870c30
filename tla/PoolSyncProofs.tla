---------------------------- MODULE PoolSyncProofs ----------------------------
(***************************************************************************)
(* The ownership contract of the pool pipeline, for every set of pools,    *)
(* nodes and slice names (colliding names included), and every number of   *)
(* changes, failures and crashes; and, where names are distinct, that no   *)
(* slice is deleted without a cause.                                       *)
(***************************************************************************)
EXTENDS PoolSync, FiniteSetTheorems, TLAPS

\* The listed incarnation of the pool still exists and cannot go away: it has
\* the cleanup finalizer.
Pinned(p) ==
    /\ pool[p].exists
    /\ pool[p].uid = snap[p].uid
    /\ pool[p].finalizer

\* Pools listed with the finalizer stay pinned until it is their turn.
ListedArePinned == \A p \in todo : snap[p].finalizer => Pinned(p)

\* The pool being handled is pinned from the moment it is known to have the
\* finalizer, and is not handled twice.
CurrentIsPinned ==
    pc \in {"resolve", "node", "put", "finalizeList", "finalizeDelete"} =>
        Pinned(cur) /\ cur \notin todo

CurrentIsTaken == pc = "addFinalizer" => cur \notin todo

\* A pool whose version the worker knows is the incarnation it listed.
FreshIsListed == \A p \in fresh : pool[p].uid = snap[p].uid

\* While a pool is finalized, all its slices are on the list to delete.
AllDoomed ==
    pc = "finalizeDelete" =>
        \A nm \in Names :
            /\ slice[nm].exists
            /\ slice[nm].owner = cur
            /\ slice[nm].uid # 0
            /\ slice[nm].uid = snap[cur].uid
            => nm \in doomed

\* Slices are put, and statuses written, for pools that have a spec.
SpecKnown == pc \in {"node", "put"} => snap[cur].health # NoSpec

\* The inductive invariant.
IInv ==
    /\ TypeOK
    /\ SpecKnown
    /\ OwnedSlicesHaveOwner
    /\ ListedArePinned
    /\ CurrentIsPinned
    /\ CurrentIsTaken
    /\ FreshIsListed
    /\ AllDoomed
-----------------------------------------------------------------------------
\* The values that stand for nothing are well typed.
LEMMA DefaultsTyped ==
    /\ NoPool \in PoolObject
    /\ NoSlice \in SliceObject
    /\ NoPools \in [Pools -> PoolObject]
    /\ SomePool \in Pools
    /\ SomeNode \in Nodes
<1>1. SomePool \in Pools /\ SomeNode \in Nodes
  BY PoolSyncAssumption DEF SomePool, SomeNode
<1>2. NoPool \in PoolObject
  BY DEF NoPool, PoolObject, HealthModes
<1>3. NoSlice \in SliceObject
  BY <1>1 DEF NoSlice, SliceObject, HealthModes, SomePool, SomeNode
<1>4. QED
  BY <1>1, <1>2, <1>3 DEF NoPools

\* A pool's faults are modes the status may name, and can be counted.
LEMMA ActiveFaultsTyped ==
    ASSUME NEW o \in PoolObject
    PROVE  /\ ActiveFaults(o) \subseteq HealthModes
           /\ Cardinality(ActiveFaults(o)) \in Nat
<1>1. o.health \in HealthModes \union {NoSpec}
  BY DEF PoolObject
<1>2. ActiveFaults(o) \subseteq HealthModes
  BY <1>1 DEF ActiveFaults
<1>3. IsFiniteSet({o.health})
  BY FS_Singleton
<1>4. IsFiniteSet(ActiveFaults(o))
  BY <1>3, FS_Subset DEF ActiveFaults
<1>5. QED
  BY <1>2, <1>4, FS_CardinalityType

\* The slice a pool with a spec wants is a slice object.
LEMMA DesiredTyped ==
    ASSUME NEW o \in PoolObject, o.health # NoSpec, NEW p \in Pools,
           NEW n \in Nodes, NEW ts \in SUBSET Nodes
    PROVE  Desired(o, p, n, ts) \in SliceObject
<1>1. Cardinality(ts) \in Nat
  BY PoolSyncAssumption, FS_Subset, FS_CardinalityType
<1>2. o.health \in HealthModes /\ o.uid \in Nat
  BY DEF PoolObject
<1>3. QED
  BY <1>1, <1>2 DEF Desired, SliceObject

\* TypeOK in parts: the worker's variables, the store, the rest.
PassTypes ==
    /\ pc \in PCs
    /\ snap \in [Pools -> PoolObject]
    /\ fresh \subseteq Pools
    /\ todo \subseteq Pools
    /\ cur \in Pools
    /\ targets \subseteq Nodes
    /\ todoNodes \subseteq Nodes
    /\ node \in Nodes
    /\ got \in SliceObject
    /\ gotFresh \in BOOLEAN
    /\ doomed \subseteq Names
    /\ active \subseteq Names
    /\ published \subseteq Names
    /\ faulty \in Nat

StoreTypes ==
    /\ pool \in [Pools -> PoolObject]
    /\ nodes \subseteq Nodes
    /\ slice \in [Names -> SliceObject]

CountTypes ==
    /\ gauge \in Nat
    /\ faults \in 0..MaxFaults
    /\ changes \in 0..MaxChanges

\* The type invariant, in parts.
LEMMA TypesInParts ==
    TypeOK <=> PassTypes /\ StoreTypes /\ CountTypes /\ QueueTypeOK(Kinds)
BY DEF TypeOK, PassTypes, StoreTypes, CountTypes

\* Ending a pass leaves the worker's variables well typed.
LEMMA EndPassTyped == EndPass => PassTypes' /\ SpecKnown'
<1> SUFFICES ASSUME EndPass PROVE PassTypes' /\ SpecKnown'
  OBVIOUS
<1>1. snap' = NoPools /\ cur' = SomePool /\ node' = SomeNode /\ got' = NoSlice
  BY DEF EndPass
<1>2. /\ snap' \in [Pools -> PoolObject] /\ cur' \in Pools
      /\ node' \in Nodes /\ got' \in SliceObject
  BY <1>1, DefaultsTyped
<1>3. QED
  BY <1>2 DEF EndPass, PassTypes, PCs, SpecKnown

\* The queue operations keep the queue well typed.
LEMMA QueueTyped ==
    ASSUME QueueTypeOK(Kinds)
    PROVE  /\ \A k \in Kinds : Notify(k) \/ Enqueue(k) => QueueTypeOK(Kinds)'
           /\ AddDelayed \/ Take \/ Forget \/ QueueRestart
                  => QueueTypeOK(Kinds)'
           /\ \A k : HandleError(k) /\ events' \subseteq Kinds
                  => QueueTypeOK(Kinds)'
<1> USE WorkQueueAssumption DEF QueueTypeOK
<1>1. ASSUME NEW k \in Kinds, Notify(k) \/ Enqueue(k)
      PROVE  QueueTypeOK(Kinds)'
  BY <1>1 DEF Notify, Enqueue
<1>2. ASSUME AddDelayed \/ Take \/ Forget \/ QueueRestart
      PROVE  QueueTypeOK(Kinds)'
  <2>1. queued' \in BOOLEAN /\ backoff' \in BOOLEAN
    BY <1>2, Zenon DEF AddDelayed, Take, Forget, QueueRestart
  <2>2. events' \subseteq Kinds /\ requeues' \in 0..MaxControllerQueueRetries
    BY <1>2 DEF AddDelayed, Take, Forget, QueueRestart
  <2>3. QED
    BY <2>1, <2>2
<1>3. ASSUME NEW k, HandleError(k), events' \subseteq Kinds
      PROVE  QueueTypeOK(Kinds)'
  <2>1. queued' \in BOOLEAN /\ backoff' \in BOOLEAN
    BY <1>3, Zenon DEF HandleError
  <2>2. requeues' \in 0..MaxControllerQueueRetries
    BY <1>3 DEF HandleError
  <2>3. QED
    BY <1>3, <2>1, <2>2
<1>4. QED
  BY <1>1, <1>2, <1>3

\* A fault is counted up to its bound.
LEMMA FaultTyped ==
    ASSUME CountTypes
    PROVE  (Fault \/ NoFault) /\ gauge' \in Nat => CountTypes'
BY PoolSyncAssumption DEF CountTypes, Fault, NoFault

\* What the endings of a request leave behind.
LEMMA FailPassTyped ==
    ASSUME TypeOK, NEW k, FailPass(k), Fault \/ NoFault
    PROVE  TypeOK' /\ SpecKnown'
<1>1. PassTypes' /\ SpecKnown'
  BY EndPassTyped DEF FailPass
<1>2. StoreTypes'
  BY TypesInParts DEF FailPass, StoreTypes, storeVars
<1>3. QueueTypeOK(Kinds)'
  BY TypesInParts, QueueTyped DEF FailPass, QueueTypeOK
<1>4. CountTypes'
  BY TypesInParts, FaultTyped DEF FailPass, CountTypes
<1>5. QED
  BY <1>1, <1>2, <1>3, <1>4 DEF TypeOK, PassTypes, StoreTypes, CountTypes

\* A request that was carried out and whose answer was lost.
LEMMA AnswerLostTyped ==
    ASSUME TypeOK, NEW ks \in SUBSET Kinds, AnswerLost(ks), StoreTypes'
    PROVE  TypeOK' /\ SpecKnown'
<1>1. PassTypes' /\ SpecKnown'
  BY EndPassTyped DEF AnswerLost
<1>2. QueueTypeOK(Kinds)'
  <2>1. events' \subseteq Kinds
    BY DEF AnswerLost, TypeOK, QueueTypeOK
  <2>2. QED
    BY <2>1, TypesInParts, QueueTyped DEF AnswerLost
<1>3. CountTypes'
  BY TypesInParts, FaultTyped DEF AnswerLost, CountTypes
<1>4. QED
  BY <1>1, <1>2, <1>3 DEF TypeOK, PassTypes, StoreTypes, CountTypes

\* A request that was answered.
LEMMA AnsweredTyped ==
    ASSUME TypeOK, NEW ks \in SUBSET Kinds, Answered(ks)
    PROVE  QueueTypeOK(Kinds)' /\ CountTypes'
BY DEF TypeOK, Answered, NoFault, QueueTypeOK, CountTypes

\* A step that makes no request.
LEMMA LocalTyped ==
    ASSUME TypeOK, Local
    PROVE  StoreTypes' /\ QueueTypeOK(Kinds)' /\ CountTypes'
BY DEF TypeOK, Local, NoFault, QueueTypeOK, CountTypes, StoreTypes, storeVars,
       queueVars

\* The API server's objects stay well typed under every write.
LEMMA WritesTyped ==
    ASSUME TypeOK, SpecKnown
    PROVE  /\ \A nm \in Names : RemoveSlice(nm) => StoreTypes'
           /\ AddFinalizer => StoreTypes'
           /\ UpdateStatus => StoreTypes'
           /\ RemoveFinalizer => StoreTypes'
           /\ PutSlice => StoreTypes'
<1> USE DEF StoreTypes
<1>0. StoreTypes /\ snap \in [Pools -> PoolObject] /\ cur \in Pools
      /\ published \in SUBSET Names
  BY DEF TypeOK
<1>1. ASSUME NEW nm \in Names, RemoveSlice(nm) PROVE StoreTypes'
  BY <1>0, <1>1, DefaultsTyped DEF RemoveSlice
<1>2. ASSUME AddFinalizer PROVE StoreTypes'
  <2>1. [pool[cur] EXCEPT !.finalizer = TRUE] \in PoolObject
    BY <1>0 DEF PoolObject
  <2>2. QED
    BY <1>0, <1>2, <2>1 DEF AddFinalizer, PoolRefused, FailPass, storeVars
<1>3. ASSUME UpdateStatus PROVE StoreTypes'
  <2>1. Report \in Status
    BY <1>0, ActiveFaultsTyped DEF Report, Status
  <2>2. QED
    BY <1>0, <1>3, <2>1
       DEF UpdateStatus, PoolRefused, FailPass, storeVars, PoolObject
<1>4. ASSUME RemoveFinalizer PROVE StoreTypes'
  <2>1. [NoPool EXCEPT !.uid = pool[cur].uid] \in PoolObject
    BY <1>0, DefaultsTyped DEF PoolObject
  <2>2. QED
    BY <1>0, <1>4, <2>1 DEF RemoveFinalizer, PoolRefused, FailPass, storeVars
<1>5. ASSUME PutSlice PROVE StoreTypes'
  <2>1. Desired(snap[cur], cur, node, targets) \in SliceObject
    BY <1>0, <1>5, DesiredTyped DEF TypeOK, SpecKnown, PutSlice
  <2>2. QED
    BY <1>0, <1>5, <2>1 DEF PutSlice, PoolRefused, FailPass, storeVars
<1>6. QED
  BY <1>1, <1>2, <1>3, <1>4, <1>5

\* Every step keeps the types.
LEMMA TypesPreserved ==
    ASSUME TypeOK, SpecKnown, Next
    PROVE  TypeOK' /\ SpecKnown'
<1> USE DEF TypeOK, PassTypes, StoreTypes, CountTypes
<1>0. PassTypes /\ StoreTypes /\ CountTypes /\ QueueTypeOK(Kinds)
  OBVIOUS
<1> SUFFICES /\ PassTypes' /\ StoreTypes' /\ CountTypes'
             /\ QueueTypeOK(Kinds)' /\ SpecKnown'
  OBVIOUS
<1> HIDE DEF TypeOK, PassTypes, StoreTypes, CountTypes
<1>a. {"pool"} \in SUBSET Kinds /\ {"slice"} \in SUBSET Kinds
      /\ \A nm \in Names : RemovalSeen(nm) \in SUBSET Kinds
  BY DEF Kinds, RemovalSeen
<1>b. \A p \in Pools, n \in Nodes : NameOf[p][n] \in Names
  BY PoolSyncAssumption
<1>c. ASSUME TypeOK' /\ SpecKnown'
      PROVE  /\ PassTypes' /\ StoreTypes' /\ CountTypes'
             /\ QueueTypeOK(Kinds)' /\ SpecKnown'
  BY <1>c DEF TypeOK, PassTypes, StoreTypes, CountTypes
<1>1. CASE Environment
  <2>1. ASSUME NEW k \in Kinds, Change(k)
        PROVE  /\ CountTypes' /\ QueueTypeOK(Kinds)'
               /\ fresh' \subseteq Pools /\ gotFresh' \in BOOLEAN
                      => PassTypes' /\ SpecKnown'
    <3>1. CountTypes'
      BY <1>0, <2>1, PoolSyncAssumption DEF Change, CountTypes
    <3>2. QueueTypeOK(Kinds)'
      BY <1>0, <2>1, QueueTyped DEF Change
    <3>3. fresh' \subseteq Pools /\ gotFresh' \in BOOLEAN
                      => PassTypes' /\ SpecKnown'
      BY <1>0, <2>1 DEF Change, PassTypes, passVars, SpecKnown
    <3>4. QED
      BY <3>1, <3>2, <3>3
  <2>2. "pool" \in Kinds /\ "slice" \in Kinds /\ "node" \in Kinds
    BY DEF Kinds
  <2>3. ASSUME NEW p \in Pools, CreatePool(p) \/ EditPool(p) \/ DeletePool(p)
        PROVE  /\ StoreTypes' /\ Change("pool")
               /\ fresh' \subseteq Pools /\ gotFresh' \in BOOLEAN
    <3>1. /\ Change("pool") /\ fresh' = fresh \ {p}
          /\ UNCHANGED <<nodes, slice, gotFresh>>
      BY <2>3 DEF CreatePool, EditPool, DeletePool
    <3>2. \E o \in PoolObject : pool' = [pool EXCEPT ![p] = o]
      <4>0. pool[p] \in PoolObject /\ pool[p].uid \in Nat
        BY <1>0 DEF StoreTypes, PoolObject
      <4>1. CASE CreatePool(p)
        <5>1. PICK t \in Targets, h \in Healths :
                 pool' = [pool EXCEPT ![p] =
                    [NoPool EXCEPT !.exists = TRUE, !.uid = pool[p].uid + 1,
                                   !.target = t, !.health = h]]
          BY <4>1 DEF CreatePool
        <5>2. [NoPool EXCEPT !.exists = TRUE, !.uid = pool[p].uid + 1,
                             !.target = t, !.health = h] \in PoolObject
          <6>1. pool[p].uid + 1 \in Nat /\ t \in SUBSET Nodes
                /\ h \in HealthModes \union {NoSpec}
            BY <4>0, PoolSyncAssumption
          <6>2. QED
            BY <6>1, DefaultsTyped DEF PoolObject
        <5>3. QED
          BY <5>1, <5>2
      <4>2. CASE EditPool(p)
        <5>1. PICK t \in Targets, h \in Healths :
                 pool' = [pool EXCEPT ![p].target = t, ![p].health = h]
          BY <4>2 DEF EditPool
        <5>2. [pool[p] EXCEPT !.target = t, !.health = h] \in PoolObject
          BY <4>0, PoolSyncAssumption DEF PoolObject
        <5>3. pool' = [pool EXCEPT ![p] =
                          [pool[p] EXCEPT !.target = t, !.health = h]]
          BY <1>0, <5>1 DEF StoreTypes
        <5>4. QED
          BY <5>2, <5>3
      <4>3. CASE DeletePool(p)
        <5>1. [pool[p] EXCEPT !.deleting = TRUE] \in PoolObject
          BY <4>0 DEF PoolObject
        <5>2. [NoPool EXCEPT !.uid = pool[p].uid] \in PoolObject
          BY <4>0 DEF NoPool, PoolObject, HealthModes
        <5>3. QED
          BY <4>3, <5>1, <5>2 DEF DeletePool
      <4>4. QED
        BY <2>3, <4>1, <4>2, <4>3
    <3>3. StoreTypes'
      BY <1>0, <3>1, <3>2 DEF StoreTypes
    <3>4. QED
      BY <1>0, <3>1, <3>3 DEF PassTypes
  <2>4. ASSUME NEW n \in Nodes, ChangeNode(n)
        PROVE  /\ StoreTypes' /\ Change("node")
               /\ fresh' \subseteq Pools /\ gotFresh' \in BOOLEAN
    BY <1>0, <2>4 DEF ChangeNode, StoreTypes, PassTypes
  <2>5. ASSUME NEW nm \in Names, TamperSlice(nm)
        PROVE  /\ StoreTypes' /\ Change("slice")
               /\ fresh' \subseteq Pools /\ gotFresh' \in BOOLEAN
    <3>1. [slice[nm] EXCEPT !.count = 0] \in SliceObject
      BY <1>0 DEF StoreTypes, SliceObject
    <3>2. \/ slice' = [slice EXCEPT ![nm] = NoSlice]
          \/ slice' = [slice EXCEPT ![nm] = [slice[nm] EXCEPT !.count = 0]]
      BY <1>0, <2>5 DEF TamperSlice, StoreTypes
    <3>3. StoreTypes'
      BY <1>0, <2>5, <3>1, <3>2, DefaultsTyped DEF TamperSlice, StoreTypes
    <3>4. Change("slice") /\ UNCHANGED fresh
      BY <2>5 DEF TamperSlice
    <3>5. gotFresh' \in BOOLEAN
      BY <2>5, Zenon DEF TamperSlice
    <3>6. QED
      BY <1>0, <3>3, <3>4, <3>5 DEF PassTypes
  <2>6. QED
    BY <1>1, <2>1, <2>2, <2>3, <2>4, <2>5 DEF Environment
<1>2. CASE Queue
  <2>1. PassTypes' /\ StoreTypes' /\ CountTypes' /\ SpecKnown'
    BY <1>0, <1>2 DEF Queue, BackoffExpires, DeliverEvent, PassTypes,
       StoreTypes, CountTypes, passVars, storeVars, SpecKnown
  <2>2. QueueTypeOK(Kinds)'
    BY <1>0, <1>2, QueueTyped DEF Queue, BackoffExpires, DeliverEvent
  <2>3. QED
    BY <2>1, <2>2
<1>3. CASE Failure
  <2>1. CASE ListPoolsNoCRD
    <3>1. PassTypes' /\ SpecKnown'
      BY <2>1, EndPassTyped DEF ListPoolsNoCRD
    <3>2. QueueTypeOK(Kinds)'
      BY <1>0, <2>1, QueueTyped DEF ListPoolsNoCRD
    <3>3. StoreTypes' /\ CountTypes'
      BY <1>0, <2>1, FaultTyped
         DEF ListPoolsNoCRD, StoreTypes, storeVars, CountTypes
    <3>4. QED
      BY <3>1, <3>2, <3>3
  <2>2. CASE RequestFails
    BY <1>c, <2>2, FailPassTyped DEF RequestFails
  <2>3. CASE Restart
    <3>1. PassTypes' /\ SpecKnown'
      BY <2>3, EndPassTyped DEF Restart
    <3>2. QueueTypeOK(Kinds)'
      BY <1>0, <2>3, QueueTyped DEF Restart
    <3>3. StoreTypes' /\ CountTypes'
      BY <1>0, <2>3, FaultTyped DEF Restart, StoreTypes, storeVars, CountTypes
    <3>4. QED
      BY <3>1, <3>2, <3>3
  <2>4. QED
    BY <1>3, <2>1, <2>2, <2>3 DEF Failure
<1>4. CASE Worker
  <2>1. CASE GetKey
    <3>1. QueueTypeOK(Kinds)'
      BY <1>0, <2>1, QueueTyped DEF GetKey
    <3>2. QED
      BY <1>0, <2>1, <3>1
         DEF GetKey, PassTypes, PCs, StoreTypes, storeVars, CountTypes, SpecKnown
  <2>2. CASE ListPools
    BY <1>0, <2>2, LocalTyped
       DEF ListPools, PassTypes, PCs, StoreTypes, SpecKnown
  <2>3. CASE AddFinalizer
    <3>1. StoreTypes'
      BY <2>3, WritesTyped
    <3>2. CASE PoolRefused
      BY <1>c, <3>2, FailPassTyped DEF PoolRefused
    <3>3. CASE AnswerLost({"pool"})
      BY <1>a, <1>c, <3>1, <3>3, AnswerLostTyped
    <3>4. CASE ~PoolRefused /\ ~AnswerLost({"pool"})
      <4>1. /\ Answered({"pool"})
            /\ snap' = [snap EXCEPT ![cur].finalizer = TRUE]
            /\ pc' = "resolve"
            /\ UNCHANGED <<fresh, todo, cur, targets, todoNodes, node,
                           got, gotFresh, doomed, active, published, faulty>>
        BY <2>3, <3>4 DEF AddFinalizer
      <4>2. [snap[cur] EXCEPT !.finalizer = TRUE] \in PoolObject
        BY <1>0 DEF PassTypes, PoolObject
      <4>3. snap' \in [Pools -> PoolObject]
        BY <1>0, <4>1, <4>2 DEF PassTypes
      <4>4. QED
        BY <1>0, <1>a, <3>1, <4>1, <4>3, AnsweredTyped
           DEF PassTypes, PCs, SpecKnown
    <3>5. QED
      BY <3>2, <3>3, <3>4
  <2>4. CASE ResolveNodes
    <3>1. TargetNodes(snap[cur]) \subseteq Nodes
      BY <1>0 DEF TargetNodes, PassTypes, StoreTypes, PoolObject
    <3>2. /\ targets' \subseteq Nodes /\ todoNodes' \subseteq Nodes
          /\ pc' \in PCs /\ SpecKnown'
      BY <2>4, <3>1 DEF ResolveNodes, PCs, SpecKnown
    <3>3. QED
      BY <1>0, <2>4, <3>2, LocalTyped DEF ResolveNodes, PassTypes
  <2>5. CASE PutSlice
    <3>1. StoreTypes'
      BY <2>5, WritesTyped
    <3>2. CASE \E k : FailPass(k) /\ NoFault
      BY <1>c, <3>2, FailPassTyped
    <3>3. CASE AnswerLost({"slice"})
      BY <1>a, <1>c, <3>1, <3>3, AnswerLostTyped
    <3>4. CASE ~(\E k : FailPass(k) /\ NoFault) /\ ~AnswerLost({"slice"})
      <4>1. /\ Answered({"slice"})
            /\ published' = published \union {NameOf[cur][node]}
            /\ pc = "put"
            /\ pc' = "node"
            /\ UNCHANGED <<snap, fresh, todo, cur, targets, todoNodes,
                           node, got, gotFresh, doomed, active, faulty>>
        BY <2>5, <3>4 DEF PutSlice
      <4>2. PassTypes' /\ SpecKnown'
        BY <1>0, <1>b, <4>1 DEF PassTypes, PCs, SpecKnown
      <4>3. QED
        BY <1>a, <3>1, <4>1, <4>2, AnsweredTyped
    <3>5. QED
      BY <3>2, <3>3, <3>4
  <2>6. CASE StatusCurrent
    <3>1. faulty' \in Nat
      BY <1>0, <2>6, ActiveFaultsTyped DEF StatusCurrent, PassTypes
    <3>2. QED
      BY <1>0, <2>6, <3>1, LocalTyped DEF StatusCurrent, PassTypes, PCs, SpecKnown
  <2>7. CASE UpdateStatus
    <3>1. StoreTypes'
      BY <2>7, WritesTyped
    <3>2. CASE PoolRefused
      BY <1>c, <3>2, FailPassTyped DEF PoolRefused
    <3>3. CASE AnswerLost({"pool"})
      BY <1>a, <1>c, <3>1, <3>3, AnswerLostTyped
    <3>4. CASE ~PoolRefused /\ ~AnswerLost({"pool"})
      <4>1. /\ Answered({"pool"})
            /\ pc' = "pool"
            /\ faulty' = faulty + Cardinality(ActiveFaults(snap[cur]))
            /\ UNCHANGED <<snap, fresh, todo, cur, targets, todoNodes, node,
                           got, gotFresh, doomed, active, published>>
        BY <2>7, <3>4 DEF UpdateStatus
      <4>2. faulty' \in Nat
        BY <1>0, <4>1, ActiveFaultsTyped DEF PassTypes
      <4>3. PassTypes' /\ SpecKnown'
        BY <1>0, <4>1, <4>2 DEF PassTypes, PCs, SpecKnown
      <4>4. QED
        BY <1>a, <3>1, <4>1, <4>3, AnsweredTyped
    <3>5. QED
      BY <3>2, <3>3, <3>4
  <2>8. CASE FinalizeList
    BY <1>0, <2>8, LocalTyped DEF FinalizeList, PassTypes, PCs, SpecKnown
  <2>9. CASE RemoveFinalizer
    <3>1. StoreTypes'
      BY <2>9, WritesTyped
    <3>2. CASE PoolRefused
      BY <1>c, <3>2, FailPassTyped DEF PoolRefused
    <3>3. CASE AnswerLost({"pool"})
      BY <1>a, <1>c, <3>1, <3>3, AnswerLostTyped
    <3>4. CASE ~PoolRefused /\ ~AnswerLost({"pool"})
      <4>1. /\ Answered({"pool"})
            /\ pc' = "pool"
            /\ fresh' = fresh \ {cur}
            /\ UNCHANGED <<snap, todo, cur, targets, todoNodes, node, got,
                           gotFresh, doomed, active, published, faulty>>
        BY <2>9, <3>4 DEF RemoveFinalizer
      <4>2. PassTypes' /\ SpecKnown'
        BY <1>0, <4>1 DEF PassTypes, PCs, SpecKnown
      <4>3. QED
        BY <1>a, <3>1, <4>1, <4>2, AnsweredTyped
    <3>5. QED
      BY <3>2, <3>3, <3>4
  <2>10. CASE CleanupList
    BY <1>0, <2>10, LocalTyped DEF CleanupList, PassTypes, PCs, SpecKnown
  <2>11. CASE PassSucceeds
    <3>1. PassTypes' /\ SpecKnown'
      BY <2>11, EndPassTyped DEF PassSucceeds
    <3>2. QueueTypeOK(Kinds)'
      BY <1>0, <2>11, QueueTyped DEF PassSucceeds
    <3>3. StoreTypes' /\ CountTypes'
      BY <1>0, <2>11, FaultTyped
         DEF PassSucceeds, StoreTypes, storeVars, PassTypes
    <3>4. QED
      BY <3>1, <3>2, <3>3
  <2>12. ASSUME NEW p \in Pools, NextPool(p)
         PROVE  /\ PassTypes' /\ StoreTypes' /\ CountTypes'
                /\ QueueTypeOK(Kinds)' /\ SpecKnown'
    BY <1>0, <2>12, LocalTyped DEF NextPool, PassTypes, PCs, SpecKnown
  <2>13. ASSUME NEW n \in Nodes, DisappearSlice(n)
         PROVE  /\ PassTypes' /\ StoreTypes' /\ CountTypes'
                /\ QueueTypeOK(Kinds)' /\ SpecKnown'
    <3> DEFINE nm == NameOf[cur][n]
    <3>0. nm \in Names
      BY <1>0, <1>b DEF PassTypes
    <3>1. StoreTypes'
      BY <2>13, <3>0, WritesTyped DEF DisappearSlice
    <3>2. CASE AnswerLost(RemovalSeen(nm))
      BY <1>a, <1>c, <3>0, <3>1, <3>2, AnswerLostTyped
    <3>3. CASE ~AnswerLost(RemovalSeen(nm))
      <4>1. /\ Answered(RemovalSeen(nm))
            /\ todoNodes' = todoNodes \ {n}
            /\ UNCHANGED <<pc, snap, fresh, todo, cur, targets, node, got,
                           gotFresh, doomed, active, published, faulty>>
        BY <2>13, <3>3 DEF DisappearSlice
      <4>2. PassTypes' /\ SpecKnown'
        BY <1>0, <4>1 DEF PassTypes, PCs, SpecKnown
      <4>3. QED
        BY <1>a, <3>0, <3>1, <4>1, <4>2, AnsweredTyped
    <3>4. QED
      BY <3>2, <3>3
  <2>14. ASSUME NEW n \in Nodes, GetSlice(n)
         PROVE  /\ PassTypes' /\ StoreTypes' /\ CountTypes'
                /\ QueueTypeOK(Kinds)' /\ SpecKnown'
    <3> DEFINE nm == NameOf[cur][n]
    <3>0. nm \in Names
      BY <1>0, <1>b DEF PassTypes
    <3>1. /\ pc = "node" /\ pc' \in {"node", "put"}
          /\ active' = active \union {nm}
          /\ got' = slice[nm]
          /\ published' \in {published \union {nm}, published}
          /\ node' = n /\ gotFresh' = TRUE
          /\ todoNodes' = todoNodes \ {n}
          /\ UNCHANGED <<snap, fresh, todo, cur, targets, doomed, faulty>>
          /\ Local
      BY <2>14 DEF GetSlice
    <3>2. got' \in SliceObject
      BY <1>0, <3>0, <3>1 DEF StoreTypes
    <3>3. PassTypes' /\ SpecKnown'
      BY <1>0, <3>0, <3>1, <3>2 DEF PassTypes, PCs, SpecKnown
    <3>4. QED
      BY <3>1, <3>3, LocalTyped
  <2>15. ASSUME NEW nm \in Names, DeleteDoomed(nm)
         PROVE  /\ PassTypes' /\ StoreTypes' /\ CountTypes'
                /\ QueueTypeOK(Kinds)' /\ SpecKnown'
    <3>1. StoreTypes'
      BY <2>15, WritesTyped DEF DeleteDoomed
    <3>2. CASE AnswerLost(RemovalSeen(nm))
      BY <1>a, <1>c, <3>1, <3>2, AnswerLostTyped
    <3>3. CASE ~AnswerLost(RemovalSeen(nm))
      <4>1. /\ Answered(RemovalSeen(nm))
            /\ doomed' = doomed \ {nm}
            /\ UNCHANGED <<pc, snap, fresh, todo, cur, targets, todoNodes,
                           node, got, gotFresh, active, published, faulty>>
        BY <2>15, <3>3 DEF DeleteDoomed
      <4>2. PassTypes' /\ SpecKnown'
        BY <1>0, <4>1 DEF PassTypes, PCs, SpecKnown
      <4>3. QED
        BY <1>a, <3>1, <4>1, <4>2, AnsweredTyped
    <3>4. QED
      BY <3>2, <3>3
  <2>16. QED
    BY <1>4, <2>1, <2>2, <2>3, <2>4, <2>5, <2>6, <2>7, <2>8, <2>9, <2>10,
       <2>11, <2>12, <2>13, <2>14, <2>15 DEF Worker
<1>5. QED
  BY <1>1, <1>2, <1>3, <1>4 DEF Next
-----------------------------------------------------------------------------
\* Initially every slice is a legacy one and no pass runs.
LEMMA InitInvariant == Init => IInv
<1> SUFFICES ASSUME Init PROVE IInv
  OBVIOUS
<1> USE DEF Init
<1>1. /\ NoPools \in [Pools -> PoolObject] /\ SomePool \in Pools
      /\ SomeNode \in Nodes /\ NoSlice \in SliceObject
  BY DefaultsTyped
<1>2. slice \in [Names -> SliceObject] /\ \A nm \in Names : slice[nm].uid = 0
  <2>1. slice \in LegacySlices
    OBVIOUS
  <2> HIDE DEF Init
  <2>2. QED
    BY <2>1, PoolSyncAssumption
<1>3. PassTypes
  <2>1. gotFresh \in BOOLEAN
    BY Zenon
  <2>2. snap = NoPools /\ cur = SomePool /\ node = SomeNode /\ got = NoSlice
    OBVIOUS
  <2>3. /\ snap \in [Pools -> PoolObject] /\ cur \in Pools
        /\ node \in Nodes /\ got \in SliceObject
    BY <1>1, <2>2
  <2>4. QED
    BY <2>1, <2>3 DEF PassTypes, PCs
<1>8. StoreTypes /\ CountTypes
  <2>1. pool \in [Pools -> PoolObject]
    BY <1>1
  <2>2. QED
    BY <1>2, <2>1, PoolSyncAssumption DEF StoreTypes, CountTypes
<1>4. QueueTypeOK(Kinds)
  <2>1. queued \in BOOLEAN /\ backoff \in BOOLEAN
    BY Zenon DEF QueueInit
  <2>2. events \subseteq Kinds /\ requeues \in 0..MaxControllerQueueRetries
    BY WorkQueueAssumption DEF QueueInit
  <2>3. QED
    BY <2>1, <2>2 DEF QueueTypeOK
<1>5. TypeOK
  BY <1>3, <1>4, <1>8, TypesInParts
<1>6. OwnedSlicesHaveOwner
  BY <1>2 DEF OwnedSlicesHaveOwner
<1>7. QED
  BY <1>5, <1>6 DEF IInv, SpecKnown, ListedArePinned, CurrentIsPinned,
     CurrentIsTaken, FreshIsListed, AllDoomed

\* The end of a pass forgets what the worker knew; only the store matters.
LEMMA EndPassInvariant ==
    ASSUME EndPass, OwnedSlicesHaveOwner'
    PROVE  /\ OwnedSlicesHaveOwner' /\ ListedArePinned' /\ CurrentIsPinned'
           /\ CurrentIsTaken' /\ FreshIsListed' /\ AllDoomed'
BY DEF EndPass, ListedArePinned, CurrentIsPinned, CurrentIsTaken,
       FreshIsListed, AllDoomed

\* A step keeps every pool that has the finalizer, as the same incarnation.
PinsKept ==
    \A p \in Pools :
        pool[p].exists /\ pool[p].finalizer =>
            pool'[p].exists /\ pool'[p].finalizer /\ pool'[p].uid = pool[p].uid

\* A step adds no slice and changes no ownership label.
NoNewSlices ==
    \A nm \in Names :
        slice'[nm].exists =>
            /\ slice[nm].exists
            /\ slice'[nm].owner = slice[nm].owner
            /\ slice'[nm].uid = slice[nm].uid

\* Such steps disturb nobody's ownership.
LEMMA OwnersKept ==
    ASSUME TypeOK, OwnedSlicesHaveOwner, PinsKept, NoNewSlices
    PROVE  OwnedSlicesHaveOwner'
BY DEF OwnedSlicesHaveOwner, PinsKept, NoNewSlices, TypeOK, SliceObject

\* Nor do they disturb a pass that does not move.
LEMMA PassUndisturbed ==
    ASSUME IInv, PinsKept, NoNewSlices,
           UNCHANGED <<pc, snap, todo, cur, doomed>>,
           fresh' \subseteq fresh,
           \A p \in fresh' : pool'[p].uid = pool[p].uid
    PROVE  /\ OwnedSlicesHaveOwner' /\ ListedArePinned' /\ CurrentIsPinned'
           /\ CurrentIsTaken' /\ FreshIsListed' /\ AllDoomed'
<1>1. OwnedSlicesHaveOwner'
  BY OwnersKept DEF IInv
<1>2. ListedArePinned' /\ CurrentIsPinned'
  BY DEF IInv, TypeOK, ListedArePinned, CurrentIsPinned, Pinned, PinsKept
<1>3. CurrentIsTaken' /\ FreshIsListed'
  BY DEF IInv, CurrentIsTaken, FreshIsListed
<1>4. AllDoomed'
  BY DEF IInv, AllDoomed, NoNewSlices
<1>5. QED
  BY <1>1, <1>2, <1>3, <1>4

\* A removed slice is gone, the others stay.
LEMMA RemoveSliceEffect ==
    ASSUME TypeOK, NEW nm \in Names, RemoveSlice(nm)
    PROVE  /\ pool' = pool
           /\ ~slice'[nm].exists
           /\ \A x \in Names : x # nm => slice'[x] = slice[x]
           /\ PinsKept /\ NoNewSlices
<1>1. ~NoSlice.exists
  BY DEF NoSlice
<1>2. slice' = [slice EXCEPT ![nm] = NoSlice] /\ pool' = pool
  BY DEF RemoveSlice
<1>3. DOMAIN slice = Names
  BY DEF TypeOK
<1>4. QED
  BY <1>1, <1>2, <1>3 DEF PinsKept, NoNewSlices

\* What the users and the cluster do keeps the pins and adds no slice.
LEMMA EnvironmentHarmless ==
    ASSUME TypeOK, Environment
    PROVE  /\ PinsKept /\ NoNewSlices
           /\ UNCHANGED <<pc, snap, todo, cur, doomed>>
           /\ fresh' \subseteq fresh
           /\ \A p \in fresh' : pool'[p].uid = pool[p].uid
<1> USE DEF TypeOK
<1>1. ASSUME NEW k, Change(k)
      PROVE  UNCHANGED <<pc, snap, todo, cur, doomed>>
  BY <1>1 DEF Change, passVars
<1>2. ASSUME NEW p \in Pools, CreatePool(p) \/ EditPool(p) \/ DeletePool(p)
      PROVE  /\ PinsKept /\ NoNewSlices /\ Change("pool")
             /\ fresh' \subseteq fresh
             /\ \A q \in fresh' : pool'[q].uid = pool[q].uid
  <2>1. /\ Change("pool") /\ fresh' = fresh \ {p} /\ slice' = slice
        /\ \A q \in Pools : q # p => pool'[q] = pool[q]
    BY <1>2 DEF CreatePool, EditPool, DeletePool
  <2>2. pool[p].exists /\ pool[p].finalizer =>
            /\ pool'[p].exists /\ pool'[p].finalizer
            /\ pool'[p].uid = pool[p].uid
    <3>1. CASE CreatePool(p)
      BY <3>1 DEF CreatePool
    <3>2. CASE EditPool(p)
      <4>1. PICK t \in Targets, h \in Healths :
                pool' = [pool EXCEPT ![p].target = t, ![p].health = h]
        BY <3>2 DEF EditPool
      <4>2. pool'[p] = [pool[p] EXCEPT !.target = t, !.health = h]
        BY <4>1
      <4>3. pool[p] \in PoolObject
        OBVIOUS
      <4>4. QED
        BY <4>2, <4>3 DEF PoolObject
    <3>3. CASE DeletePool(p)
      <4>1. pool[p].finalizer => pool'[p] = [pool[p] EXCEPT !.deleting = TRUE]
        BY <3>3 DEF DeletePool
      <4>2. pool[p] \in PoolObject
        OBVIOUS
      <4>3. QED
        BY <4>1, <4>2 DEF PoolObject
    <3>4. QED
      BY <1>2, <3>1, <3>2, <3>3
  <2>3. PinsKept /\ NoNewSlices
    BY <2>1, <2>2 DEF PinsKept, NoNewSlices
  <2>4. QED
    BY <2>1, <2>3
<1>3. ASSUME NEW n \in Nodes, ChangeNode(n)
      PROVE  /\ PinsKept /\ NoNewSlices /\ Change("node")
             /\ fresh' = fresh /\ pool' = pool
  BY <1>3 DEF ChangeNode, PinsKept, NoNewSlices
<1>4. ASSUME NEW nm \in Names, TamperSlice(nm)
      PROVE  /\ PinsKept /\ NoNewSlices /\ Change("slice")
             /\ fresh' = fresh /\ pool' = pool
  <2>1. /\ Change("slice") /\ fresh' = fresh /\ pool' = pool
        /\ \/ slice' = [slice EXCEPT ![nm] = NoSlice]
           \/ slice' = [slice EXCEPT ![nm].count = 0]
    BY <1>4 DEF TamperSlice
  <2>2. NoNewSlices
    BY <2>1 DEF NoNewSlices, NoSlice, SliceObject
  <2>3. QED
    BY <2>1, <2>2 DEF PinsKept
<1>5. QED
  BY <1>1, <1>2, <1>3, <1>4 DEF Environment

\* A refused or failed request leaves the store alone and ends the pass.
LEMMA FailPassInvariant ==
    ASSUME IInv, NEW k, FailPass(k)
    PROVE  /\ OwnedSlicesHaveOwner' /\ ListedArePinned' /\ CurrentIsPinned'
           /\ CurrentIsTaken' /\ FreshIsListed' /\ AllDoomed'
<1>1. OwnedSlicesHaveOwner'
  BY DEF IInv, OwnedSlicesHaveOwner, FailPass, storeVars
<1>2. QED
  BY <1>1, EndPassInvariant DEF FailPass

\* Every step keeps the inductive invariant.
LEMMA StepInvariant ==
    ASSUME IInv, Next
    PROVE  IInv'
<1> DEFINE Kept == /\ OwnedSlicesHaveOwner' /\ ListedArePinned'
                   /\ CurrentIsPinned' /\ CurrentIsTaken' /\ FreshIsListed'
                   /\ AllDoomed'
<1>1. TypeOK' /\ SpecKnown'
  BY TypesPreserved DEF IInv
<1> SUFFICES Kept
  BY <1>1 DEF IInv
<1>2. TypeOK /\ cur \in Pools /\ snap \in [Pools -> PoolObject]
      /\ pool \in [Pools -> PoolObject] /\ slice \in [Names -> SliceObject]
      /\ fresh \subseteq Pools /\ todo \subseteq Pools /\ node \in Nodes
  BY DEF IInv, TypeOK
<1>3. \A p \in Pools, n \in Nodes : NameOf[p][n] \in Names
  BY PoolSyncAssumption
<1>4. CASE Environment
  BY <1>2, <1>4, EnvironmentHarmless, PassUndisturbed
<1>5. CASE Queue
  BY <1>5, PassUndisturbed DEF Queue, BackoffExpires, DeliverEvent, storeVars,
     passVars, PinsKept, NoNewSlices
<1>6. CASE Failure
  <2>1. OwnedSlicesHaveOwner' /\ EndPass
    BY <1>6 DEF IInv, OwnedSlicesHaveOwner, Failure, ListPoolsNoCRD,
       RequestFails, Restart, FailPass, storeVars
  <2>2. QED
    BY <2>1, EndPassInvariant
<1>7. CASE Worker
  <2>1. CASE GetKey
    BY <2>1 DEF IInv, GetKey, storeVars, OwnedSlicesHaveOwner,
       ListedArePinned, Pinned, CurrentIsPinned, CurrentIsTaken,
       FreshIsListed, AllDoomed
  <2>2. CASE ListPools
    BY <1>2, <2>2 DEF IInv, ListPools, Local, storeVars, OwnedSlicesHaveOwner,
       ListedArePinned, Pinned, CurrentIsPinned, CurrentIsTaken,
       FreshIsListed, AllDoomed
  <2>3. CASE AddFinalizer
    <3>1. CASE PoolRefused
      BY <3>1, FailPassInvariant DEF PoolRefused
    <3>2. CASE ~PoolRefused
      <4>1. /\ CanUpdatePool /\ slice' = slice /\ pc = "addFinalizer"
            /\ pool' = [pool EXCEPT ![cur].finalizer = TRUE]
        BY <2>3, <3>2 DEF AddFinalizer
      <4>2. /\ pool'[cur] = [pool[cur] EXCEPT !.finalizer = TRUE]
            /\ \A q \in Pools : q # cur => pool'[q] = pool[q]
        BY <1>2, <4>1
      <4>3. /\ pool'[cur].exists /\ pool'[cur].finalizer
            /\ pool'[cur].uid = pool[cur].uid
        BY <1>2, <4>1, <4>2 DEF CanUpdatePool, PoolObject
      <4>4. PinsKept /\ NoNewSlices
        BY <4>1, <4>2, <4>3 DEF PinsKept, NoNewSlices
      <4>5. OwnedSlicesHaveOwner'
        BY <1>2, <4>4, OwnersKept DEF IInv
      <4>6. CASE AnswerLost({"pool"})
        BY <4>5, <4>6, EndPassInvariant DEF AnswerLost
      <4>7. CASE ~AnswerLost({"pool"})
        <5>1. /\ snap' = [snap EXCEPT ![cur].finalizer = TRUE]
              /\ pc' = "resolve"
              /\ UNCHANGED <<fresh, todo, cur>>
          BY <2>3, <3>2, <4>7 DEF AddFinalizer
        <5>2. /\ snap'[cur] = [snap[cur] EXCEPT !.finalizer = TRUE]
              /\ \A q \in Pools : q # cur => snap'[q] = snap[q]
          BY <1>2, <5>1
        <5>3. snap'[cur].uid = snap[cur].uid
          BY <1>2, <5>2 DEF PoolObject
        <5>4. pool[cur].uid = snap[cur].uid /\ cur \notin todo
          BY <4>1 DEF IInv, CanUpdatePool, FreshIsListed, CurrentIsTaken
        <5>5. CurrentIsPinned' /\ CurrentIsTaken'
          BY <4>3, <5>1, <5>3, <5>4 DEF CurrentIsPinned, CurrentIsTaken, Pinned
        <5>6. ListedArePinned'
          BY <1>2, <4>2, <5>1, <5>2, <5>4 DEF IInv, ListedArePinned, Pinned
        <5>7. FreshIsListed'
          BY <1>2, <4>2, <4>3, <5>1, <5>2, <5>3 DEF IInv, FreshIsListed
        <5>8. AllDoomed'
          BY <5>1 DEF AllDoomed
        <5>9. QED
          BY <4>5, <5>5, <5>6, <5>7, <5>8
      <4>8. QED
        BY <4>6, <4>7
    <3>3. QED
      BY <3>1, <3>2
  <2>4. CASE ResolveNodes
    BY <2>4 DEF IInv, ResolveNodes, Local, storeVars, OwnedSlicesHaveOwner,
       ListedArePinned, Pinned, CurrentIsPinned, CurrentIsTaken,
       FreshIsListed, AllDoomed
  <2>5. CASE PutSlice
    <3> DEFINE nm == NameOf[cur][node]
    <3>1. CASE \E k : FailPass(k)
      BY <3>1, FailPassInvariant
    <3>2. CASE ~\E k : FailPass(k)
      <4>1. /\ pc = "put" /\ pool' = pool
            /\ slice' = [slice EXCEPT ![nm] =
                             Desired(snap[cur], cur, node, targets)]
        BY <2>5, <3>2 DEF PutSlice
      <4>2. nm \in Names /\ Pinned(cur)
        BY <1>2, <1>3, <4>1 DEF IInv, CurrentIsPinned
      <4>3. slice'[nm].owner = cur /\ slice'[nm].uid = snap[cur].uid
        BY <1>2, <4>1, <4>2 DEF Desired
      <4>4. \A x \in Names : x # nm => slice'[x] = slice[x]
        BY <1>2, <4>1
      <4>5. OwnedSlicesHaveOwner'
        BY <4>1, <4>2, <4>3, <4>4 DEF IInv, OwnedSlicesHaveOwner, Pinned
      <4>6. CASE AnswerLost({"slice"})
        BY <4>5, <4>6, EndPassInvariant DEF AnswerLost
      <4>7. CASE ~AnswerLost({"slice"})
        <5>1. pc' = "node" /\ UNCHANGED <<snap, fresh, todo, cur>>
          BY <2>5, <3>2, <4>7 DEF PutSlice
        <5>2. QED
          BY <4>1, <4>5, <5>1 DEF IInv, ListedArePinned, Pinned,
             CurrentIsPinned, CurrentIsTaken, FreshIsListed, AllDoomed
      <4>8. QED
        BY <4>6, <4>7
    <3>3. QED
      BY <3>1, <3>2
  <2>6. CASE StatusCurrent
    BY <2>6 DEF IInv, StatusCurrent, Local, storeVars, OwnedSlicesHaveOwner,
       ListedArePinned, Pinned, CurrentIsPinned, CurrentIsTaken,
       FreshIsListed, AllDoomed
  <2>7. CASE UpdateStatus
    <3>1. CASE PoolRefused
      BY <3>1, FailPassInvariant DEF PoolRefused
    <3>2. CASE ~PoolRefused
      <4>1. /\ slice' = slice /\ pc = "node"
            /\ pool' = [pool EXCEPT ![cur].status = {Report}]
        BY <2>7, <3>2 DEF UpdateStatus
      <4>2. \A q \in Pools : /\ pool'[q].exists = pool[q].exists
                             /\ pool'[q].finalizer = pool[q].finalizer
                             /\ pool'[q].uid = pool[q].uid
        <5>1. /\ pool'[cur] = [pool[cur] EXCEPT !.status = {Report}]
              /\ \A q \in Pools : q # cur => pool'[q] = pool[q]
          BY <1>2, <4>1
        <5>2. QED
          BY <1>2, <5>1 DEF PoolObject
      <4>3. PinsKept /\ NoNewSlices
        BY <4>1, <4>2 DEF PinsKept, NoNewSlices
      <4>4. OwnedSlicesHaveOwner'
        BY <1>2, <4>3, OwnersKept DEF IInv
      <4>5. CASE AnswerLost({"pool"})
        BY <4>4, <4>5, EndPassInvariant DEF AnswerLost
      <4>6. CASE ~AnswerLost({"pool"})
        <5>1. pc' = "pool" /\ UNCHANGED <<snap, fresh, todo, cur>>
          BY <2>7, <3>2, <4>6 DEF UpdateStatus
        <5>2. ListedArePinned'
          BY <1>2, <4>2, <5>1 DEF IInv, ListedArePinned, Pinned
        <5>3. FreshIsListed'
          BY <1>2, <4>2, <5>1 DEF IInv, FreshIsListed
        <5>4. QED
          BY <4>4, <5>1, <5>2, <5>3
             DEF CurrentIsPinned, CurrentIsTaken, AllDoomed
      <4>7. QED
        BY <4>5, <4>6
    <3>3. QED
      BY <3>1, <3>2
  <2>8. CASE FinalizeList
    <3>1. /\ pc = "finalizeList" /\ pc' = "finalizeDelete"
          /\ UNCHANGED <<pool, slice, snap, todo, cur, fresh>>
          /\ doomed' = {nm \in Names :
                     BelongsTo(slice[nm], nm, cur, snap[cur].uid,
                               {NameOf[cur][n] : n \in targets})}
      BY <2>8 DEF FinalizeList, Local, storeVars
    <3>2. AllDoomed'
      BY <3>1 DEF AllDoomed, BelongsTo
    <3>3. QED
      BY <3>1, <3>2 DEF IInv, OwnedSlicesHaveOwner, ListedArePinned, Pinned,
         CurrentIsPinned, CurrentIsTaken, FreshIsListed
  <2>9. CASE RemoveFinalizer
    <3>1. CASE PoolRefused
      BY <3>1, FailPassInvariant DEF PoolRefused
    <3>2. CASE ~PoolRefused
      <4>1. /\ slice' = slice /\ pc = "finalizeDelete" /\ doomed = {}
            /\ pool' = [pool EXCEPT ![cur] = [NoPool EXCEPT !.uid = pool[cur].uid]]
        BY <2>9, <3>2 DEF RemoveFinalizer
      <4>2. \A q \in Pools : q # cur => pool'[q] = pool[q]
        BY <1>2, <4>1
      <4>3. Pinned(cur) /\ cur \notin todo
        BY <4>1 DEF IInv, CurrentIsPinned
      <4>4. \A nm \in Names : slice[nm].exists /\ slice[nm].uid # 0
                                  => slice[nm].owner # cur
        BY <4>1, <4>3 DEF IInv, AllDoomed, OwnedSlicesHaveOwner, Pinned
      <4>5. OwnedSlicesHaveOwner'
        BY <1>2, <4>1, <4>2, <4>4 DEF IInv, OwnedSlicesHaveOwner, SliceObject
      <4>6. CASE AnswerLost({"pool"})
        BY <4>5, <4>6, EndPassInvariant DEF AnswerLost
      <4>7. CASE ~AnswerLost({"pool"})
        <5>1. /\ pc' = "pool" /\ fresh' = fresh \ {cur}
              /\ UNCHANGED <<snap, todo, cur>>
          BY <2>9, <3>2, <4>7 DEF RemoveFinalizer
        <5>2. ListedArePinned'
          BY <1>2, <4>2, <4>3, <5>1 DEF IInv, ListedArePinned, Pinned
        <5>3. FreshIsListed'
          BY <1>2, <4>2, <5>1 DEF IInv, FreshIsListed
        <5>4. QED
          BY <4>5, <5>1, <5>2, <5>3
             DEF CurrentIsPinned, CurrentIsTaken, AllDoomed
      <4>8. QED
        BY <4>6, <4>7
    <3>3. QED
      BY <3>1, <3>2
  <2>10. CASE CleanupList
    BY <2>10 DEF IInv, CleanupList, Local, storeVars, OwnedSlicesHaveOwner,
       ListedArePinned, Pinned, CurrentIsPinned, CurrentIsTaken,
       FreshIsListed, AllDoomed
  <2>11. CASE PassSucceeds
    <3>1. OwnedSlicesHaveOwner'
      BY <2>11 DEF IInv, OwnedSlicesHaveOwner, PassSucceeds, storeVars
    <3>2. QED
      BY <2>11, <3>1, EndPassInvariant DEF PassSucceeds
  <2>12. ASSUME NEW p \in Pools, NextPool(p) PROVE Kept
    <3>1. /\ p \in todo /\ todo' = todo \ {p} /\ cur' = p
          /\ pc' \in {"resolve", "pool", "addFinalizer"}
          /\ pc' = "resolve" => snap[p].finalizer
          /\ UNCHANGED <<pool, slice, snap, fresh>>
      BY <2>12 DEF NextPool, Local, storeVars
    <3>2. QED
      BY <3>1 DEF IInv, OwnedSlicesHaveOwner, ListedArePinned, Pinned,
         CurrentIsPinned, CurrentIsTaken, FreshIsListed, AllDoomed
  <2>13. ASSUME NEW n \in Nodes, DisappearSlice(n) PROVE Kept
    <3>1. RemoveSlice(NameOf[cur][n]) /\ NameOf[cur][n] \in Names
      BY <1>2, <1>3, <2>13 DEF DisappearSlice
    <3>2. PinsKept /\ NoNewSlices /\ pool' = pool
      BY <1>2, <3>1, RemoveSliceEffect
    <3>3. OwnedSlicesHaveOwner'
      BY <1>2, <3>2, OwnersKept DEF IInv
    <3>4. CASE EndPass
      BY <3>3, <3>4, EndPassInvariant
    <3>5. CASE ~EndPass
      <4>1. UNCHANGED <<pc, snap, todo, cur, doomed, fresh>>
        BY <2>13, <3>5 DEF DisappearSlice, AnswerLost
      <4>2. QED
        BY <3>2, <4>1, PassUndisturbed
    <3>6. QED
      BY <3>4, <3>5
  <2>14. ASSUME NEW n \in Nodes, GetSlice(n) PROVE Kept
    <3>1. /\ pc = "node" /\ pc' \in {"node", "put"}
          /\ UNCHANGED <<pool, slice, snap, todo, cur, fresh, doomed>>
      BY <2>14 DEF GetSlice, Local, storeVars
    <3>2. QED
      BY <3>1 DEF IInv, OwnedSlicesHaveOwner, ListedArePinned, Pinned,
         CurrentIsPinned, CurrentIsTaken, FreshIsListed, AllDoomed
  <2>15. ASSUME NEW nm \in Names, DeleteDoomed(nm) PROVE Kept
    <3>1. /\ pool' = pool /\ ~slice'[nm].exists /\ PinsKept /\ NoNewSlices
          /\ \A x \in Names : x # nm => slice'[x] = slice[x]
      BY <1>2, <2>15, RemoveSliceEffect DEF DeleteDoomed
    <3>2. OwnedSlicesHaveOwner'
      BY <1>2, <3>1, OwnersKept DEF IInv
    <3>3. CASE EndPass
      BY <3>2, <3>3, EndPassInvariant
    <3>4. CASE ~EndPass
      <4>1. /\ doomed' = doomed \ {nm}
            /\ UNCHANGED <<pc, snap, todo, cur, fresh>>
        BY <2>15, <3>4 DEF DeleteDoomed, AnswerLost
      <4>2. AllDoomed'
        BY <3>1, <4>1 DEF IInv, AllDoomed
      <4>3. QED
        BY <3>1, <3>2, <4>1, <4>2 DEF IInv, ListedArePinned, Pinned,
           CurrentIsPinned, CurrentIsTaken, FreshIsListed
    <3>5. QED
      BY <3>3, <3>4
  <2>16. QED
    BY <1>7, <2>1, <2>2, <2>3, <2>4, <2>5, <2>6, <2>7, <2>8, <2>9, <2>10,
       <2>11, <2>12, <2>13, <2>14, <2>15 DEF Worker
<1>8. QED
  BY <1>4, <1>5, <1>6, <1>7 DEF Next

\* A stuttering step preserves the invariant.
LEMMA StutterInvariant == IInv /\ UNCHANGED vars => IInv'
BY DEF IInv, vars, storeVars, queueVars, passVars, TypeOK, QueueTypeOK,
       SpecKnown, OwnedSlicesHaveOwner, ListedArePinned, Pinned,
       CurrentIsPinned, CurrentIsTaken, FreshIsListed, AllDoomed
-----------------------------------------------------------------------------
\* The inductive invariant holds in every reachable state of the pool pipeline.
THEOREM InductiveInvariant == Spec => []IInv
<1>1. IInv /\ [Next]_vars => IInv'
  BY StepInvariant, StutterInvariant
<1>2. QED
  BY <1>1, InitInvariant, PTL DEF Spec

\* The pool pipeline's variables keep their types.
THEOREM PoolTypes == Spec => []TypeOK
<1>1. IInv => TypeOK
  BY DEF IInv
<1>2. QED
  BY <1>1, InductiveInvariant, PTL

\* The ownership contract of ownership.go: no labelled ResourceSlice outlives the
\* pool incarnation it names, whatever interleaving, failed request or crash.
THEOREM OwnedSlicesHaveOwnerHolds == Spec => []OwnedSlicesHaveOwner
<1>1. IInv => OwnedSlicesHaveOwner
  BY DEF IInv
<1>2. QED
  BY <1>1, InductiveInvariant, PTL
-----------------------------------------------------------------------------
(* What a pass deletes.                                                    *)

\* No two slices are given one name.  simulatedResourceSliceName joins the names
\* of pool, node and namespace with dashes, which they may contain themselves, so
\* this is a hypothesis about how pools and nodes are named.
NamesAreDistinct ==
    \A p, q \in Pools : \A m, n \in Nodes :
        NameOf[p][m] = NameOf[q][n] => p = q /\ m = n

\* A slice with a UID label has the name its owner gives it on its node.
NamesTellOwners ==
    \A nm \in Names :
        slice[nm].exists /\ slice[nm].uid # 0 =>
            nm = NameOf[slice[nm].owner][slice[nm].node]

\* Only what is missing has no UID.
PoolsHaveUIDs == \A p \in Pools : pool[p].exists => pool[p].uid # 0
ListedHaveUIDs == \A p \in Pools : snap[p].exists => snap[p].uid # 0

\* Finalization concerns a deleted pool, and slices with its names.
FinalizedByName ==
    /\ pc \in {"finalizeList", "finalizeDelete"} => snap[cur].deleting
    /\ pc = "finalizeDelete" =>
           \A nm \in doomed : \E n \in Nodes : nm = NameOf[cur][n]

\* The names of the target nodes handled so far are active.
TargetsAreActive ==
    pc \in {"node", "put"} =>
        /\ snap[cur].target \subseteq targets
        /\ snap[cur].health # "disappear" =>
               \A n \in targets \ todoNodes : NameOf[cur][n] \in active

InProgress(p) == p = cur /\ pc \in {"addFinalizer", "resolve", "node", "put"}

\* A listed pool that has been handled and wants slices has made them active.
HandledAreActive ==
    pc \notin {"idle", "listPools"} =>
        \A p \in Pools \ todo :
            Published(snap[p]) /\ ~InProgress(p) =>
                \A n \in snap[p].target : NameOf[p][n] \in active

\* The cleanup starts after all pools were handled and spares what is active.
CleanupSpares ==
    pc = "cleanupDelete" => todo = {} /\ doomed \intersect active = {}

\* What the worker knows, and what the API server stores.
PassFacts ==
    /\ ListedHaveUIDs
    /\ FinalizedByName
    /\ TargetsAreActive
    /\ HandledAreActive
    /\ CleanupSpares

StoreFacts == NamesTellOwners /\ PoolsHaveUIDs

\* A pass that does not move knows what it knew, and its end forgets it.
LEMMA PassFactsKept ==
    ASSUME PassFacts,
           UNCHANGED <<pc, snap, todo, cur, targets, todoNodes, doomed, active>>
    PROVE  PassFacts'
  BY DEF PassFacts, ListedHaveUIDs, FinalizedByName, TargetsAreActive,
     HandledAreActive, InProgress, CleanupSpares, Published

\* The end of a pass.
LEMMA EndPassFacts == EndPass => PassFacts'
<1> SUFFICES ASSUME EndPass PROVE PassFacts'
  OBVIOUS
<1>1. pc' = "idle" /\ snap' = NoPools
  BY DEF EndPass
<1>2. \A p \in Pools : ~NoPools[p].exists
  BY DEF NoPools, NoPool
<1> QED
  BY <1>1, <1>2 DEF PassFacts, ListedHaveUIDs, FinalizedByName,
     TargetsAreActive, HandledAreActive, CleanupSpares

\* The UIDs the store gives out survive every step.
LEMMA PoolsHaveUIDsStep ==
    ASSUME TypeOK, PoolsHaveUIDs, Next
    PROVE  PoolsHaveUIDs'
<1> USE DEF PoolsHaveUIDs
<1>0. cur \in Pools /\ pool \in [Pools -> PoolObject]
  BY DEF TypeOK
<1>1. CASE pool' = pool
  BY <1>1
<1>2. ASSUME NEW p \in Pools,
             \A q \in Pools : q # p => pool'[q] = pool[q],
             pool'[p].exists => pool'[p].uid # 0
      PROVE  PoolsHaveUIDs'
  BY <1>2
<1>3. ASSUME NEW p \in Pools, CreatePool(p) PROVE PoolsHaveUIDs'
  <2>1. PICK t \in Targets, h \in Healths :
            pool' = [pool EXCEPT ![p] =
                       [NoPool EXCEPT !.exists = TRUE, !.uid = pool[p].uid + 1,
                                      !.target = t, !.health = h]]
    BY <1>3 DEF CreatePool
  <2>2. pool'[p].uid = pool[p].uid + 1 /\ pool[p].uid \in Nat
    BY <1>0, <2>1 DEF NoPool, PoolObject
  <2>3. \A q \in Pools : q # p => pool'[q] = pool[q]
    BY <1>0, <2>1
  <2> QED
    BY <1>2, <2>2, <2>3
<1>4. ASSUME NEW p \in Pools, EditPool(p) PROVE PoolsHaveUIDs'
  <2>1. PICK t \in Targets, h \in Healths :
            pool' = [pool EXCEPT ![p].target = t, ![p].health = h]
    BY <1>4 DEF EditPool
  <2>2. pool'[p] = [pool[p] EXCEPT !.target = t, !.health = h]
        /\ \A q \in Pools : q # p => pool'[q] = pool[q]
    BY <1>0, <2>1
  <2>3. pool'[p].uid = pool[p].uid /\ pool'[p].exists = pool[p].exists
    BY <1>0, <2>2 DEF PoolObject
  <2> QED
    BY <1>2, <2>2, <2>3
<1>5. ASSUME NEW p \in Pools, DeletePool(p) PROVE PoolsHaveUIDs'
  <2>1. pool' = [pool EXCEPT ![p] = IF pool[p].finalizer
                                    THEN [pool[p] EXCEPT !.deleting = TRUE]
                                    ELSE [NoPool EXCEPT !.uid = pool[p].uid]]
    BY <1>5 DEF DeletePool
  <2>2. \A q \in Pools : q # p => pool'[q] = pool[q]
    BY <1>0, <2>1
  <2>3. pool'[p].exists => pool'[p].uid = pool[p].uid
    BY <1>0, <2>1 DEF NoPool, PoolObject
  <2>4. pool[p].exists
    BY <1>5 DEF DeletePool
  <2> QED
    BY <1>2, <2>2, <2>3, <2>4
<1>6. ASSUME NEW o, pool' = [pool EXCEPT ![cur] = o],
             o.exists => pool[cur].exists /\ o.uid = pool[cur].uid
      PROVE  PoolsHaveUIDs'
  <2>1. pool'[cur] = o /\ \A q \in Pools : q # cur => pool'[q] = pool[q]
    BY <1>0, <1>6
  <2> QED
    BY <1>0, <1>2, <1>6, <2>1
<1>7. CASE AddFinalizer
  <2>1. CASE pool' # pool
    <3>1. pool' = [pool EXCEPT ![cur] = [pool[cur] EXCEPT !.finalizer = TRUE]]
      BY <1>0, <1>7, <2>1 DEF AddFinalizer, PoolRefused, FailPass, storeVars
    <3>2. /\ [pool[cur] EXCEPT !.finalizer = TRUE].exists = pool[cur].exists
          /\ [pool[cur] EXCEPT !.finalizer = TRUE].uid = pool[cur].uid
      BY <1>0 DEF PoolObject
    <3> QED
      BY <1>6, <3>1, <3>2
  <2> QED
    BY <1>1, <2>1
<1>8. CASE UpdateStatus
  <2>1. CASE pool' # pool
    <3>1. pool' = [pool EXCEPT ![cur] = [pool[cur] EXCEPT !.status = {Report}]]
      BY <1>0, <1>8, <2>1 DEF UpdateStatus, PoolRefused, FailPass, storeVars
    <3>2. /\ [pool[cur] EXCEPT !.status = {Report}].exists = pool[cur].exists
          /\ [pool[cur] EXCEPT !.status = {Report}].uid = pool[cur].uid
      BY <1>0 DEF PoolObject
    <3> QED
      BY <1>6, <3>1, <3>2
  <2> QED
    BY <1>1, <2>1
<1>9. CASE RemoveFinalizer
  <2>1. CASE pool' # pool
    <3>1. pool' = [pool EXCEPT ![cur] = [NoPool EXCEPT !.uid = pool[cur].uid]]
      BY <1>9, <2>1 DEF RemoveFinalizer, PoolRefused, FailPass, storeVars
    <3>2. ~[NoPool EXCEPT !.uid = pool[cur].uid].exists
      BY DEF NoPool
    <3> QED
      BY <1>6, <3>1, <3>2
  <2> QED
    BY <1>1, <2>1
<1>10. ASSUME \/ \E n \in Nodes : ChangeNode(n) \/ DisappearSlice(n) \/ GetSlice(n)
              \/ \E nm \in Names : TamperSlice(nm) \/ DeleteDoomed(nm)
              \/ \E p \in Pools : NextPool(p)
              \/ Queue \/ Failure \/ GetKey \/ ListPools \/ ResolveNodes
              \/ PutSlice \/ StatusCurrent \/ FinalizeList \/ CleanupList
              \/ PassSucceeds
       PROVE  pool' = pool
  BY <1>10 DEF ChangeNode, DisappearSlice, GetSlice, TamperSlice, DeleteDoomed,
     NextPool, Queue, BackoffExpires, DeliverEvent, Failure, ListPoolsNoCRD,
     RequestFails, Restart, GetKey, ListPools, ResolveNodes, PutSlice,
     StatusCurrent, FinalizeList, CleanupList, PassSucceeds, Local, RemoveSlice,
     FailPass, storeVars
<1> QED
  BY <1>1, <1>3, <1>4, <1>5, <1>7, <1>8, <1>9, <1>10
  DEF Next, Environment, Worker

\* The labels of the slices stay those the worker wrote.
LEMMA NamesTellOwnersStep ==
    ASSUME TypeOK, NamesTellOwners, Next
    PROVE  NamesTellOwners'
<1>0. slice \in [Names -> SliceObject] /\ cur \in Pools /\ node \in Nodes
  BY DEF TypeOK
<1>1. CASE slice' = slice
  BY <1>1 DEF NamesTellOwners
<1>2. ASSUME NEW nm \in Names, slice' = [slice EXCEPT ![nm] = NoSlice]
      PROVE  NamesTellOwners'
  <2>1. ~slice'[nm].exists /\ \A x \in Names : x # nm => slice'[x] = slice[x]
    BY <1>0, <1>2 DEF NoSlice
  <2> QED
    BY <2>1 DEF NamesTellOwners
<1>3. ASSUME NEW nm \in Names, TamperSlice(nm) PROVE NamesTellOwners'
  <2>1. CASE slice' = [slice EXCEPT ![nm].count = 0]
    <3>1. /\ slice'[nm] = [slice[nm] EXCEPT !.count = 0]
          /\ \A x \in Names : x # nm => slice'[x] = slice[x]
      BY <1>0, <2>1
    <3>2. /\ slice'[nm].exists => slice[nm].exists
          /\ slice'[nm].uid = slice[nm].uid
          /\ slice'[nm].owner = slice[nm].owner
          /\ slice'[nm].node = slice[nm].node
      BY <1>0, <3>1 DEF SliceObject
    <3>3. ASSUME NEW x \in Names, slice'[x].exists, slice'[x].uid # 0
          PROVE  x = NameOf[slice'[x].owner][slice'[x].node]
      <4>1. CASE x = nm
        BY <3>2, <3>3, <4>1 DEF NamesTellOwners
      <4>2. CASE x # nm
        BY <3>1, <3>3, <4>2 DEF NamesTellOwners
      <4> QED
        BY <4>1, <4>2
    <3> QED
      BY <3>3 DEF NamesTellOwners
  <2> QED
    BY <1>2, <1>3, <2>1 DEF TamperSlice
<1>4. ASSUME NEW nm \in Names, RemoveSlice(nm) PROVE NamesTellOwners'
  BY <1>2, <1>4 DEF RemoveSlice
<1>5. ASSUME NEW n \in Nodes, DisappearSlice(n) PROVE NamesTellOwners'
  <2>1. NameOf[cur][n] \in Names
    BY <1>0, PoolSyncAssumption
  <2> QED
    BY <1>4, <1>5, <2>1 DEF DisappearSlice
<1>6. CASE PutSlice
  <2>0. NameOf[cur][node] \in Names
    BY <1>0, PoolSyncAssumption
  <2>1. CASE slice' # slice
    <3>1. slice' = [slice EXCEPT ![NameOf[cur][node]] =
                        Desired(snap[cur], cur, node, targets)]
      BY <1>6, <2>1 DEF PutSlice, FailPass, storeVars
    <3>2. /\ slice'[NameOf[cur][node]].owner = cur
          /\ slice'[NameOf[cur][node]].node = node
          /\ \A x \in Names : x # NameOf[cur][node] => slice'[x] = slice[x]
      BY <1>0, <2>0, <3>1 DEF Desired
    <3> QED
      BY <3>2 DEF NamesTellOwners
  <2> QED
    BY <1>1, <2>1
<1>7. ASSUME \/ \E p \in Pools : CreatePool(p) \/ EditPool(p) \/ DeletePool(p)
             \/ \E p \in Pools : NextPool(p)
             \/ \E n \in Nodes : ChangeNode(n) \/ GetSlice(n)
             \/ Queue \/ Failure \/ GetKey \/ ListPools \/ AddFinalizer
             \/ ResolveNodes \/ StatusCurrent \/ UpdateStatus \/ FinalizeList
             \/ RemoveFinalizer \/ CleanupList \/ PassSucceeds
      PROVE  slice' = slice
  BY <1>7 DEF CreatePool, EditPool, DeletePool, ChangeNode, GetSlice, NextPool,
     Queue, BackoffExpires, DeliverEvent, Failure, ListPoolsNoCRD, RequestFails,
     Restart, GetKey, ListPools, AddFinalizer, PoolRefused, ResolveNodes,
     StatusCurrent, UpdateStatus, FinalizeList, RemoveFinalizer, CleanupList,
     PassSucceeds, Local, FailPass, storeVars
<1>8. ASSUME NEW nm \in Names, DeleteDoomed(nm) PROVE NamesTellOwners'
  BY <1>4, <1>8 DEF DeleteDoomed
<1>9. CASE Environment
  BY <1>1, <1>3, <1>7, <1>9 DEF Environment
<1>10. CASE Worker
  BY <1>1, <1>5, <1>6, <1>7, <1>8, <1>10 DEF Worker
<1> QED
  BY <1>1, <1>7, <1>9, <1>10 DEF Next

\* Every step of a pass, and every step beside it, keeps what the worker knows.
LEMMA PassFactsStep ==
    ASSUME TypeOK, PassFacts, StoreFacts, Next
    PROVE  PassFacts'
<1>0. /\ snap \in [Pools -> PoolObject] /\ cur \in Pools /\ targets \subseteq Nodes
      /\ todo \subseteq Pools /\ slice \in [Names -> SliceObject]
  BY DEF TypeOK
<1>1. CASE EndPass
  BY <1>1, EndPassFacts
<1>2. CASE Environment \/ Queue
  BY <1>2, PassFactsKept DEF Environment, CreatePool, EditPool, DeletePool,
     ChangeNode, TamperSlice, Change, Queue, BackoffExpires, DeliverEvent, passVars
<1>3. CASE Failure \/ PassSucceeds
  BY <1>1, <1>3 DEF Failure, ListPoolsNoCRD, RequestFails, Restart, FailPass,
     PassSucceeds
<1> USE DEF PassFacts, ListedHaveUIDs, FinalizedByName, TargetsAreActive,
            HandledAreActive, InProgress, CleanupSpares
<1>4. CASE GetKey
  BY <1>4 DEF GetKey
<1>5. CASE ListPools
  BY <1>5 DEF ListPools, StoreFacts, PoolsHaveUIDs, Published
<1>6. CASE AddFinalizer
  <2>1. CASE ~EndPass
    <3>1. /\ pc = "addFinalizer" /\ pc' = "resolve"
          /\ snap' = [snap EXCEPT ![cur].finalizer = TRUE]
          /\ UNCHANGED <<todo, cur, targets, todoNodes, doomed, active>>
      BY <1>6, <2>1 DEF AddFinalizer, PoolRefused, FailPass, AnswerLost
    <3>2. /\ snap'[cur] = [snap[cur] EXCEPT !.finalizer = TRUE]
          /\ \A p \in Pools : p # cur => snap'[p] = snap[p]
      BY <1>0, <3>1
    <3>3. snap'[cur].exists => snap'[cur].uid # 0
      BY <1>0, <3>2 DEF PoolObject
    <3> QED
      BY <1>0, <3>1, <3>2, <3>3
  <2> QED
    BY <1>1, <2>1
<1>7. CASE ResolveNodes
  <2>1. /\ pc = "resolve" /\ targets' = TargetNodes(snap[cur])
        /\ UNCHANGED <<snap, todo, cur, doomed, active>>
    BY <1>7 DEF ResolveNodes
  <2>2. \/ pc' = "finalizeList" /\ snap[cur].deleting
        \/ pc' = "pool" /\ snap[cur].health = NoSpec
        \/ pc' = "node" /\ todoNodes' = targets' /\ snap[cur].health # NoSpec
    BY <1>7 DEF ResolveNodes
  <2>3. snap[cur].health # NoSpec => snap[cur].target \subseteq targets'
    BY <2>1 DEF TargetNodes
  <2> QED
    BY <1>0, <2>1, <2>2, <2>3 DEF Published
<1>8. CASE PutSlice
  <2>1. CASE ~EndPass
    BY <1>8, <2>1 DEF PutSlice, FailPass, AnswerLost
  <2> QED
    BY <1>1, <2>1
<1>9. CASE StatusCurrent \/ UpdateStatus
  <2>1. CASE ~EndPass
    <3>1. /\ pc = "node" /\ pc' = "pool" /\ todoNodes = {}
          /\ UNCHANGED <<snap, todo, cur, targets, todoNodes, doomed, active>>
      BY <1>9, <2>1 DEF StatusCurrent, UpdateStatus, PoolRefused, FailPass, AnswerLost
    <3> QED
      BY <1>0, <3>1 DEF Published
  <2> QED
    BY <1>1, <2>1
<1>10. CASE FinalizeList
  <2>1. /\ pc = "finalizeList" /\ pc' = "finalizeDelete"
        /\ doomed' = {nm \in Names :
                        BelongsTo(slice[nm], nm, cur, snap[cur].uid,
                                  {NameOf[cur][n] : n \in targets})}
        /\ UNCHANGED <<snap, todo, cur, targets, todoNodes, active>>
    BY <1>10 DEF FinalizeList
  <2>2. ASSUME NEW nm \in doomed' PROVE \E n \in Nodes : nm = NameOf[cur][n]
    <3>1. /\ nm \in Names /\ slice[nm].exists /\ slice[nm].owner = cur
          /\ slice[nm].uid = 0 => nm \in {NameOf[cur][n] : n \in targets}
      BY <2>1 DEF BelongsTo
    <3>2. CASE slice[nm].uid = 0
      BY <1>0, <3>1, <3>2
    <3>3. CASE slice[nm].uid # 0
      <4>1. slice[nm].node \in Nodes
        BY <1>0, <3>1 DEF SliceObject
      <4> QED
        BY <3>1, <3>3, <4>1 DEF StoreFacts, NamesTellOwners
    <3> QED
      BY <3>2, <3>3
  <2> QED
    BY <2>1, <2>2
<1>11. CASE RemoveFinalizer
  <2>1. CASE ~EndPass
    BY <1>11, <2>1 DEF RemoveFinalizer, PoolRefused, FailPass, AnswerLost, Published
  <2> QED
    BY <1>1, <2>1
<1>12. CASE CleanupList
  BY <1>12 DEF CleanupList
<1>13. ASSUME NEW p \in Pools, NextPool(p) PROVE PassFacts'
  <2>1. /\ pc = "pool" /\ pc' \in {"resolve", "pool", "addFinalizer"}
        /\ pc' = "pool" => snap[p].deleting
        /\ todo' = todo \ {p} /\ cur' = p
        /\ UNCHANGED <<snap, targets, todoNodes, doomed, active>>
    BY <1>13 DEF NextPool
  <2> QED
    BY <2>1 DEF Published
<1>14. ASSUME NEW n \in Nodes, DisappearSlice(n) PROVE PassFacts'
  <2>1. CASE ~EndPass
    BY <1>14, <2>1 DEF DisappearSlice, AnswerLost
  <2> QED
    BY <1>1, <2>1
<1>15. ASSUME NEW n \in Nodes, GetSlice(n) PROVE PassFacts'
  <2>1. /\ pc = "node" /\ pc' \in {"node", "put"}
        /\ active' = active \union {NameOf[cur][n]}
        /\ todoNodes' = todoNodes \ {n}
        /\ UNCHANGED <<snap, todo, cur, targets, doomed>>
    BY <1>15 DEF GetSlice
  <2> QED
    BY <2>1
<1>16. ASSUME NEW nm \in Names, DeleteDoomed(nm) PROVE PassFacts'
  <2>1. CASE ~EndPass
    <3>1. /\ doomed' = doomed \ {nm}
          /\ UNCHANGED <<pc, snap, todo, cur, targets, todoNodes, active>>
      BY <1>16, <2>1 DEF DeleteDoomed, AnswerLost
    <3> QED
      BY <3>1
  <2> QED
    BY <1>1, <2>1
<1> QED
  BY <1>2, <1>3, <1>4, <1>5, <1>6, <1>7, <1>8, <1>9, <1>10, <1>11, <1>12, <1>13,
     <1>14, <1>15, <1>16 DEF Next, Worker

\* All that is known when a slice is deleted.
LEMMA FactsHold == Spec => [](PassFacts /\ StoreFacts)
<1>1. Init => PassFacts /\ StoreFacts
  <2> SUFFICES ASSUME Init PROVE PassFacts /\ StoreFacts
    OBVIOUS
  <2>1. pc = "idle" /\ snap = NoPools /\ pool = NoPools /\ slice \in LegacySlices
    BY DEF Init
  <2>2. \A p \in Pools : ~NoPools[p].exists
    BY DEF NoPools, NoPool
  <2>3. PassFacts
    BY <2>1, <2>2 DEF PassFacts, ListedHaveUIDs, FinalizedByName,
       TargetsAreActive, HandledAreActive, CleanupSpares
  <2>4. StoreFacts
    BY <2>1, <2>2, PoolSyncAssumption DEF StoreFacts, NamesTellOwners, PoolsHaveUIDs
  <2> QED
    BY <2>3, <2>4
<1>2. TypeOK /\ PassFacts /\ StoreFacts /\ [Next]_vars => (PassFacts /\ StoreFacts)'
  <2>1. ASSUME PassFacts, StoreFacts, UNCHANGED vars PROVE (PassFacts /\ StoreFacts)'
    <3>1. PassFacts'
      BY <2>1, PassFactsKept DEF vars, passVars
    <3>2. StoreFacts'
      BY <2>1 DEF vars, storeVars, StoreFacts, NamesTellOwners, PoolsHaveUIDs
    <3> QED
      BY <3>1, <3>2
  <2>2. ASSUME TypeOK, PassFacts, StoreFacts, Next PROVE (PassFacts /\ StoreFacts)'
    BY <2>2, PassFactsStep, PoolsHaveUIDsStep, NamesTellOwnersStep DEF StoreFacts
  <2> QED
    BY <2>1, <2>2
<1> QED
  BY <1>1, <1>2, PoolTypes, PTL DEF Spec

\* While the names of the slices are distinct, neither the finalization of a
\* pool, nor the disappear fault, nor cleanupOrphanedResourceSlices deletes a
\* slice that the pools listed at the start of the pass want, whatever changed
\* since and wherever the pass is interrupted.
THEOREM DeletionsHaveCauseHolds ==
    ASSUME NamesAreDistinct
    PROVE  Spec => DeletionsHaveCause
<1>1. ASSUME TypeOK, PassFacts, StoreFacts, [Next]_vars, NEW nm \in Names,
             slice[nm].exists, ~slice'[nm].exists, changes' = changes,
             WantedByListed(slice[nm])
      PROVE  FALSE
  <2> DEFINE s == slice[nm]
             o == snap[s.owner]
  <2>1. /\ o.exists /\ ~o.deleting /\ s.uid = o.uid /\ s.node \in o.target
        /\ o.health \notin {"disappear", NoSpec}
    BY <1>1 DEF WantedByListed
  <2>2. s.owner \in Pools /\ s.node \in Nodes
    BY <1>1 DEF TypeOK, SliceObject
  <2>3. s.uid # 0
    BY <1>1, <2>1, <2>2 DEF PassFacts, ListedHaveUIDs
  <2>4. nm = NameOf[s.owner][s.node]
    BY <1>1, <2>3 DEF StoreFacts, NamesTellOwners
  <2>5. \A x \in Names : RemoveSlice(x) => x = nm
    BY <1>1 DEF RemoveSlice, TypeOK
  <2>6. cur \in Pools /\ changes \in Nat
    BY <1>1 DEF TypeOK
  <2>7. ASSUME NEW n \in Nodes, nm = NameOf[cur][n] PROVE s.owner = cur
    BY <2>2, <2>4, <2>6, <2>7 DEF NamesAreDistinct
  <2>8. ASSUME NEW n \in Nodes, DisappearSlice(n) PROVE FALSE
    <3>1. NameOf[cur][n] \in Names /\ RemoveSlice(NameOf[cur][n])
      BY <2>6, <2>8, PoolSyncAssumption DEF DisappearSlice
    <3>2. s.owner = cur
      BY <2>5, <2>7, <3>1
    <3> QED
      BY <2>1, <2>8, <3>2 DEF DisappearSlice
  <2>9. ASSUME NEW x \in Names, DeleteDoomed(x) PROVE FALSE
    <3>1. nm \in doomed
      BY <2>5, <2>9 DEF DeleteDoomed
    <3>2. CASE pc = "finalizeDelete"
      <4>1. snap[cur].deleting /\ \E n \in Nodes : nm = NameOf[cur][n]
        BY <1>1, <3>1, <3>2 DEF PassFacts, FinalizedByName
      <4> QED
        BY <2>1, <2>7, <4>1
    <3>3. CASE pc = "cleanupDelete"
      <4>1. nm \notin active /\ todo = {}
        BY <1>1, <3>1, <3>3 DEF PassFacts, CleanupSpares
      <4>2. NameOf[s.owner][s.node] \in active
        BY <1>1, <2>1, <2>2, <3>3, <4>1
        DEF PassFacts, HandledAreActive, InProgress, Published
      <4> QED
        BY <2>4, <4>1, <4>2
    <3> QED
      BY <2>9, <3>2, <3>3 DEF DeleteDoomed
  <2>10. CASE PutSlice
    <3>1. NameOf[cur][node] \in Names
      BY <1>1, <2>6, PoolSyncAssumption DEF TypeOK
    <3>2. slice' = slice \/ slice' = [slice EXCEPT ![NameOf[cur][node]] =
                                          Desired(snap[cur], cur, node, targets)]
      BY <2>10 DEF PutSlice, FailPass, storeVars
    <3> QED
      BY <1>1, <3>1, <3>2 DEF TypeOK, Desired
  <2>11. CASE Environment
    <3>1. \E k \in Kinds : Change(k)
      BY <2>11 DEF Environment, CreatePool, EditPool, DeletePool, ChangeNode,
         TamperSlice, Kinds
    <3>2. changes' = changes + 1
      BY <3>1 DEF Change
    <3> QED
      BY <1>1, <2>6, <3>2
  <2>12. CASE \/ \E p \in Pools : NextPool(p)
              \/ \E n \in Nodes : GetSlice(n)
              \/ Queue \/ Failure \/ GetKey \/ ListPools \/ AddFinalizer
              \/ ResolveNodes \/ StatusCurrent \/ UpdateStatus \/ FinalizeList
              \/ RemoveFinalizer \/ CleanupList \/ PassSucceeds
              \/ UNCHANGED vars
    BY <1>1, <2>12 DEF GetSlice, NextPool, Queue, BackoffExpires, DeliverEvent,
       Failure, ListPoolsNoCRD, RequestFails, Restart, GetKey, ListPools,
       AddFinalizer, PoolRefused, ResolveNodes, StatusCurrent, UpdateStatus,
       FinalizeList, RemoveFinalizer, CleanupList, PassSucceeds, Local, FailPass,
       storeVars, vars
  <2> QED
    BY <1>1, <2>8, <2>9, <2>10, <2>11, <2>12 DEF Next, Worker
<1>2. TypeOK /\ (PassFacts /\ StoreFacts) /\ [Next]_vars =>
        [\A nm \in Names :
            slice[nm].exists /\ ~slice'[nm].exists /\ changes' = changes
                => ~WantedByListed(slice[nm])]_vars
  BY <1>1
<1> QED
  BY <1>2, FactsHold, PoolTypes, PTL DEF Spec, DeletionsHaveCause
=============================================================================
